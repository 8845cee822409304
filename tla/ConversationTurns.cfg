SPECIFICATION Spec
CONSTANTS
  MaxTurns = 2
  MaxCells = 4
  Cancels = {c1}
  Restarter = R
  Retryable = {1}
  Watched = {c1}
  MaxRequests = 1
INVARIANTS
  TypeOK
  ClaimHasOwner
  CancellingIsForActive
  DeferredStops
  OnlyAskedStop
  RestartGate
  NoOrphanAgent
PROPERTIES
  CancelDrains
CHECK_DEADLOCK FALSE
