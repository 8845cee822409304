SPECIFICATION Spec
CONSTANTS
  Slots = {w}
  Lead = lead
  User = user
  Callers = {c1, c2}
  LeaseIds = {c1, c2, w}
  Requests = {"shutdown", "discard"}
  Warm = {w}
  Notified = {w}
  Restored = {}
  Faults = {}
  MaxFaults = 0
  Msgs = {1, 2}
  Runs = {r1}
  NoMsg = NoMsg
  NoRun = NoRun
  MaxIntents = 8
  MaxOps = 8
INVARIANTS
  ShutdownSurvivesDiscard
CHECK_DEADLOCK FALSE
