SPECIFICATION Spec
CONSTANTS
  Slots = {s1}
  Msgs = {1}
  Runs = {r1}
  LeaseIds = {1}
  Sources = {"UserMessage"}
  RuntimeOps = {0}
  Calls = {"abort", "reconcile", "complete", "fail", "cancel", "interrupt", "pause", "constrain", "restart", "remove", "stop"}
  NoMsg = NoMsg
  NoRun = NoRun
  MaxIntents = 2
  MaxOps = 2
INVARIANTS
  TypeOK
  WorkOwnership
  HeldCopiesAgree
PROPERTIES
  TerminalIsFinal
