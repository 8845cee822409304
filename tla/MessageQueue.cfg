SPECIFICATION Spec
CONSTANTS
  Senders = {a}
  Targets = {b, c}
  MaxMsgs = 3
  PER_TARGET_LIMIT = 2
  GLOBAL_LIMIT = 2
  TTL = 1
  WINDOW = 1
  PAIR_LIMIT = 1
  OUTBOUND_LIMIT = 2
  MaxLag = 1
SYMMETRY Symmetry
INVARIANTS
  TypeOK
  CountAgrees
  HeldCopyIsHead
  DeliveredOnce
  RateHolds
  NoLostWakeup
PROPERTIES
  OnlySettledLeave
CHECK_DEADLOCK FALSE
