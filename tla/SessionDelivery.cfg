SPECIFICATION FairSpec
CONSTANTS
  Slots = {w}
  Lead = lead
  User = user
  Callers = {c1, c2}
  LeaseIds = {c1, c2, w}
  Requests = {"user", "agent"}
  Warm = {w}
  Notified = {}
  Restored = {}
  Faults = {"turn", "start"}
  MaxFaults = 3
  Msgs = {1, 2}
  Runs = {r1}
  NoMsg = NoMsg
  NoRun = NoRun
  MaxIntents = 8
  MaxOps = 8
INVARIANTS
  TypeOK
  NoRedelivery
  NoSilentLoss
PROPERTIES
  EveryRowSettles
  DeliversAsPromised
CHECK_DEADLOCK FALSE
