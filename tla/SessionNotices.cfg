SPECIFICATION Spec
CONSTANTS
  Slots = {lead, w}
  Lead = lead
  User = user
  Callers = {c1, c2}
  LeaseIds = {c1, c2, lead, w}
  Requests = {"shutdown", "cancelTurn", "recover", "read"}
  Warm = {lead, w}
  Notified = {}
  Restored = {}
  Faults = {"mailbox"}
  MaxFaults = 1
  Msgs = {1, 2, 3}
  Runs = {r1}
  NoMsg = NoMsg
  NoRun = NoRun
  MaxIntents = 6
  MaxOps = 6
INVARIANTS
  NoRedelivery
  NoSilentLoss
SYMMETRY CallerSymmetry
CHECK_DEADLOCK FALSE
