----------------------------- MODULE WorkSource -----------------------------
(***************************************************************************)
(* The sources of work of a team slot and what the coordinator derives     *)
(* from a source: the lane it queues in, whether it resumes a paused slot, *)
(* whether it must carry a mailbox row, and whether it is batched alone    *)
(* (crates/aionui-team/src/work_source.rs, work_coordinator/model.rs).     *)
(***************************************************************************)

\* enum WorkPriority; the declaration order is the claim order of `next`.
Lanes == {"Foreground", "Control", "Directed", "Background"}

\* Outranks(k, l): lane k is looked at before lane l by `next`.
Outranks(k, l) ==
  \/ k = "Foreground" /\ l # "Foreground"
  \/ k = "Control"    /\ l \in {"Directed", "Background"}
  \/ k = "Directed"   /\ l = "Background"

UserSources == {"UserMessage", "UserCommand", "UserIntervention", "LeadIntervention"}

ControlSources == {"McpShutdownRequest", "ShutdownRejected"}

\* Wakes that need no mailbox row: they may be committed as bare signals.
SignalSources == {"TeamMembershipChanged", "IdleNotification"}

AllSources ==
  UserSources \cup ControlSources \cup SignalSources \cup
  {"McpSendMessage", "SpawnWelcome", "SpawnAttachFailure",
   "DeliveryFailureNotification", "InterruptedNotification", "RecoveryDrain"}

priority(src) ==
  CASE src \in UserSources      -> "Foreground"
    [] src \in ControlSources   -> "Control"
    [] src = "McpSendMessage"   -> "Directed"
    [] OTHER                    -> "Background"

resumes_paused_slot(src) == src \in UserSources

requires_mailbox_message(src) == src \notin SignalSources

\* A slash command and a lead intervention are never merged with other work.
is_batch_barrier(src) == src \in {"UserCommand", "LeadIntervention"}
=============================================================================
