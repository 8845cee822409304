SPECIFICATION Spec
CONSTANTS
  Slots = {s1}
  Msgs = {1}
  Runs = {r1, r2}
  LeaseIds = {l1}
  Tasks = {t1, t2}
  Bindings = {"UserVisible", "ActiveRunOrBackground", "InheritRunningBatch", "SystemInitiated", "Background"}
  Sources = {"UserMessage"}
  Calls = {"retry", "fail", "discard", "remove", "constrain", "stop", "cancel_run"}
  NoMsg = NoMsg
  NoRun = NoRun
  MaxIntents = 2
  MaxOps = 2
SYMMETRY Symmetry
INVARIANTS
  TypeOK
  RunAgreesWithWork
PROPERTIES
  EndedRunStaysEnded
CHECK_DEADLOCK FALSE
