SPECIFICATION FairSpec
CONSTANTS
  Slots = {lead, w}
  Lead = lead
  User = user
  Callers = {c1}
  LeaseIds = {c1, lead, w}
  Requests = {"agent"}
  Warm = {lead}
  Notified = {lead}
  Restored = {}
  Faults = {}
  MaxFaults = 0
  Msgs = {1, 2, 3}
  Runs = {r1}
  NoMsg = NoMsg
  NoRun = NoRun
  MaxIntents = 7
  MaxOps = 7
PROPERTIES
  EveryRowSettles
CHECK_DEADLOCK FALSE
