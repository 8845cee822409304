SPECIFICATION Spec
CONSTANTS
  Slots = {s1}
  Msgs = {1}
  Runs = {r1}
  LeaseIds = {1}
  Sources = {"UserMessage", "UserCommand", "LeadIntervention", "IdleNotification"}
  RuntimeOps = {}
  Calls = {"retry", "complete", "cancel_run", "discard", "observe", "signal"}
  NoMsg = NoMsg
  NoRun = NoRun
  MaxIntents = 3
  MaxOps = 2
INVARIANTS
  BarrierIsAlone
  NoOvertaking
PROPERTIES
  CancelRunIsExact
