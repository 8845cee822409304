SPECIFICATION Spec
CONSTANTS
  Slots = {w}
  Lead = lead
  User = user
  Callers = {c1, c2}
  LeaseIds = {c1, c2, w}
  Requests = {"user", "run", "pause", "cancelTurn", "read", "discard"}
  Warm = {w}
  Notified = {w}
  Restored = {1}
  Faults = {"cancel", "mailbox"}
  MaxFaults = 1
  Msgs = {1, 2}
  Runs = {r1}
  NoMsg = NoMsg
  NoRun = NoRun
  MaxIntents = 8
  MaxOps = 8
INVARIANTS
  NoRedelivery
  NoSilentLoss
  PauseHolds
SYMMETRY CallerSymmetry
CHECK_DEADLOCK FALSE
