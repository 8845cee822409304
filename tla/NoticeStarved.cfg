SPECIFICATION FairSpec
CONSTANTS
  Slots = {lead, w}
  Lead = lead
  User = user
  Callers = {c1}
  LeaseIds = {c1, lead, w}
  Requests = {"shutdown"}
  Warm = {lead, w}
  Notified = {lead}
  Restored = {}
  Faults = {"start"}
  MaxFaults = 3
  Msgs = {1, 2}
  Runs = {r1}
  NoMsg = NoMsg
  NoRun = NoRun
  MaxIntents = 8
  MaxOps = 10
PROPERTIES
  LeadHearsOfExhaustion
CHECK_DEADLOCK FALSE
