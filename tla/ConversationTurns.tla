-------------------------- MODULE ConversationTurns --------------------------
(***************************************************************************)
(* The turns of one conversation: the runtime state that claims them       *)
(* (aionui-conversation/src/runtime_state.rs), the orchestrator that runs  *)
(* them (turn_orchestrator.rs), the task manager that builds and kills     *)
(* their agent (aionui-ai-agent/src/task_manager.rs), and the requests     *)
(* that interfere: cancel, restart of the runtime and deletion             *)
(* (service.rs).                                                           *)
(*                                                                         *)
(* Every access to the runtime state or to the task map takes a lock of    *)
(* its own.  Between two of them, and across every await, all the others   *)
(* go on.  A cell is the OnceCell of one slot of the task map: it outlives *)
(* its removal from the map in the hands of the task that initialises it.  *)
(***************************************************************************)
EXTENDS Integers, FiniteSetsExt

CONSTANTS
  MaxTurns,     \* bound: sends
  MaxCells,     \* bound: slots that are allocated in the task map
  Cancels,      \* cancel requests of the user
  Restarter,    \* the process that restarts the runtime
  Retryable,    \* turns whose errors may be retryable and safe to replay
  Watched,      \* bound: cancels that start a watchdog; none if the agent's type has none
  MaxRequests   \* bound: requests to restart the runtime or to delete the conversation

Turns == 1..MaxTurns
Cells == 1..MaxCells
None == 0

ASSUME TurnAssumption ==
  /\ {MaxTurns, MaxCells, MaxRequests} \subseteq Nat
  /\ Retryable \subseteq Turns
  /\ Restarter \notin Turns \cup Cancels
  /\ Watched \subseteq Cancels \cup {Restarter}

VARIABLES
  active, deleting, cancelling, restarting, deferred, \* RuntimeState of the conversation
  slot, cell,       \* its entry in the task map, and what has become of each cell
  doomed,           \* cells that a kill_and_wait waits for
  row,              \* whether the conversation is in the database
  proc,             \* where each turn and the restart are, and the cell they hold
  cancel,           \* where each cancellation is
  deletion,         \* where the deletion is, and whether it found a turn
  watch,            \* where the watchdog of each accepted cancel is, and its turn
  asked,            \* history: turns that somebody asked to cancel
  late,             \* history: a cancellation was marked after its turn was over
  missed,           \* history: turns whose cancel was deferred after they looked for it
  torn              \* history: cells removed from the map before they had an agent

claims == <<active, deleting, cancelling, restarting, deferred>>
tasks == <<slot, cell, doomed, torn>>
others == <<cancel, deletion, watch, asked, late, missed, row>>
vars == <<claims, tasks, proc, others>>

Procs == Turns \cup {Restarter}
Cancellers == Cancels \cup {Restarter}
-----------------------------------------------------------------------------
(* ConversationRuntimeStateService.                                        *)

Cancelling == cancelling /\ ~deleting
Active == ~cancelling /\ ~deleting

\* Mutant: the restart gate is not looked at.
ClaimableInRestart == ~deleting /\ active = None

Claimable == ~deleting /\ ~restarting /\ active = None

\* Mutant: the flag of a cancelled turn outlives it.
ReleaseKeepsCancelling(t) ==
  /\ IF active = t
       THEN active' = None /\ deleting' = FALSE
       ELSE UNCHANGED <<active, deleting>>
  /\ UNCHANGED <<cancelling, restarting, deferred>>

\* Mutant: a conversation that is being deleted keeps its claim.
ReleaseUnlessDeleting(t) ==
  /\ IF active = t /\ ~deleting
       THEN active' = None /\ cancelling' = FALSE
       ELSE UNCHANGED <<active, cancelling>>
  /\ UNCHANGED <<deleting, restarting, deferred>>

release(t) ==
  /\ IF active = t
       THEN active' = None /\ deleting' = FALSE /\ cancelling' = FALSE
       ELSE UNCHANGED <<active, deleting, cancelling>>
  /\ UNCHANGED <<restarting, deferred>>

\* Mutant: whatever cancel was deferred is taken.
TakesAny(t) == deferred # None

\* Mutant: a replay does not look.
TakesOnce(t) == deferred = t /\ ~proc[t].replayed

take_deferred_cancel(t) == deferred = t
-----------------------------------------------------------------------------
(* WorkerTaskManagerImpl.                                                  *)

HasTask == slot # None /\ cell[slot] \in {"Ready", "Dead"}

\* Remove the slot; an agent in it is killed.
Unmap == /\ slot' = None
         /\ cell' = [i \in Cells |-> IF i = slot /\ cell[i] = "Ready" THEN "Dead" ELSE cell[i]]

kill ==
  /\ Unmap
  /\ torn' = torn \cup {i \in {slot} \ {None} : cell[i] \in {"Vacant", "Building"}}
  /\ UNCHANGED doomed

\* Mutant: a slot without an agent is dropped as `kill` does.
KillOnlyReady ==
  /\ Unmap
  /\ UNCHANGED <<doomed, torn>>

\* kill_and_wait waits for an initialisation in progress and kills its agent.
kill_and_wait ==
  /\ Unmap
  /\ doomed' = doomed \cup {i \in {slot} \ {None} : cell[i] \in {"Vacant", "Building"}}
  /\ UNCHANGED torn

\* Its get_or_try_init: nothing is killed if nobody has begun to build.
KillWhenBuilt ==
  \E i \in doomed :
    /\ cell[i] # "Building"
    /\ cell' = [cell EXCEPT ![i] = IF @ = "Ready" THEN "Dead" ELSE @]
    /\ doomed' = doomed \ {i}
    /\ torn' = IF cell[i] = "Vacant" THEN torn \cup {i} ELSE torn
    /\ UNCHANGED <<claims, slot, proc, others>>

At(p, pc) == proc[p].pc = pc
GoTo(p, pc) == proc' = [proc EXCEPT ![p].pc = pc]
Step(p, from, to) == At(p, from) /\ GoTo(p, to)
End(t, end) == proc' = [proc EXCEPT ![t].pc = "Release", ![t].end = end]
Hold(p, pc, i) == proc' = [proc EXCEPT ![p].pc = pc, ![p].cell = i]

\* Cells that nobody refers to any more stand for new ones.
Unused == {i \in Cells : /\ cell[i] \in {"Vacant", "Dead"}
                         /\ i # slot /\ i \notin doomed
                         /\ \A p \in Procs : proc[p].cell # i}

\* get_or_build_task: the entry of the map, then the cell behind it.
GetSlot(p) ==
  /\ At(p, "Slot")
  /\ IF slot # None
       THEN Hold(p, "Init", slot) /\ UNCHANGED <<slot, cell>>
       ELSE LET i == Min(Unused) IN
            /\ Unused # {}
            /\ slot' = i
            /\ cell' = [cell EXCEPT ![i] = "Vacant"]
            /\ Hold(p, "Init", i)
  /\ torn' = torn \ ({slot'} \ {slot})
  /\ UNCHANGED <<claims, doomed, others>>

InitCell(p) ==
  /\ At(p, "Init")
  /\ \/ /\ cell[proc[p].cell] = "Vacant"
        /\ cell' = [cell EXCEPT ![proc[p].cell] = "Building"]
        /\ GoTo(p, "Building")
     \/ /\ cell[proc[p].cell] \in {"Ready", "Dead"}
        /\ GoTo(p, "Built")
        /\ UNCHANGED cell
  /\ UNCHANGED <<claims, slot, doomed, torn, others>>

BuildEnds(p) ==
  /\ At(p, "Building")
  /\ \/ cell' = [cell EXCEPT ![proc[p].cell] = "Ready"] /\ GoTo(p, "Built")
     \/ cell' = [cell EXCEPT ![proc[p].cell] = "Vacant"] /\ GoTo(p, "Release")
  /\ UNCHANGED <<claims, slot, doomed, torn, others>>

Build(p) == GetSlot(p) \/ InitCell(p) \/ BuildEnds(p)
-----------------------------------------------------------------------------
(* ConversationService::send_message and the orchestrator's run_user_turn. *)

Send(t) ==
  /\ \A u \in 1..(t - 1) : ~At(u, "Unsent")
  /\ row
  /\ Step(t, "Unsent", "Checked")
  /\ UNCHANGED <<claims, tasks, others>>

try_claim_turn(t) ==
  /\ At(t, "Checked")
  /\ IF Claimable THEN active' = t /\ GoTo(t, "Claimed")
                  ELSE UNCHANGED active /\ GoTo(t, "Done")
  /\ UNCHANGED <<deleting, cancelling, restarting, deferred, tasks, others>>

\* The user message is stored, unless the conversation is being cancelled; any
\* error on the way to the orchestrator ends the turn.
Persist(t) ==
  /\ At(t, "Claimed")
  /\ \/ Cancelling /\ End(t, "Dropped")
     \/ ~Cancelling /\ GoTo(t, "Release")
     \/ ~Cancelling /\ row /\ GoTo(t, "Slot")
  /\ UNCHANGED <<claims, tasks, others>>

\* The agent is there: a cancel deferred until now stops the turn before the
\* prompt is sent.  The resolved workspace may fail to be stored.
Prompt(t) ==
  /\ At(t, "Built")
  /\ \/ /\ take_deferred_cancel(t)
        /\ deferred' = None
        /\ End(t, "Stopped")
     \/ ~take_deferred_cancel(t) /\ GoTo(t, "Running") /\ UNCHANGED deferred
     \/ GoTo(t, "Release") /\ UNCHANGED deferred
  /\ UNCHANGED <<active, deleting, cancelling, restarting, tasks, others>>

\* The relay saw the end of the turn or an error.
AttemptEnds(t) ==
  /\ At(t, "Running")
  /\ \E pc \in {"Release", "Failed"} : GoTo(t, pc)
  /\ UNCHANGED <<claims, tasks, others>>

\* TurnRecoveryPolicy and AgentHealthPolicy: replay once with a new agent, or
\* give up with or without getting rid of the old one.
Decide(t) ==
  /\ At(t, "Failed")
  /\ \/ Active /\ t \in Retryable /\ ~proc[t].replayed /\ GoTo(t, "Replay")
     \/ GoTo(t, "Evict")
     \/ GoTo(t, "Release")
  /\ UNCHANGED <<claims, tasks, others>>

\* evict_acp_task_after_terminal_error.
Evict(t) ==
  /\ At(t, "Replay") \/ At(t, "Evict")
  /\ kill_and_wait
  /\ proc' = [proc EXCEPT ![t] = [pc |-> IF At(t, "Replay") THEN "Replaying" ELSE "Evicted",
                                  cell |-> slot, end |-> "", replayed |-> At(t, "Replay")]]
  /\ UNCHANGED <<claims, others>>

Killed(i) == i = None \/ i \notin doomed

Evicted(t) ==
  /\ Killed(proc[t].cell)
  /\ Step(t, "Replaying", "Slot") \/ Step(t, "Evicted", "Release")
  /\ UNCHANGED <<claims, tasks, others>>

Release(t) ==
  /\ At(t, "Release")
  /\ proc' = [proc EXCEPT ![t] = [pc |-> "Done", cell |-> None, end |-> "", replayed |-> FALSE]]
  /\ release(t)
  /\ UNCHANGED <<tasks, others>>

Turn(t) == \/ try_claim_turn(t) \/ Persist(t) \/ Build(t) \/ Prompt(t)
           \/ Decide(t) \/ Evict(t) \/ Evicted(t) \/ Release(t)
-----------------------------------------------------------------------------
(* ConversationService::cancel_with_cause, for the user and for a restart. *)

CancelAt(c, pc) == cancel[c].pc = pc
CancelTo(c, pc) == cancel' = [cancel EXCEPT ![c].pc = pc]

\* Only a restart acts on the outcome of its cancel.
CancelOver(c, outcome) ==
  cancel' = [cancel EXCEPT ![c] = [pc |-> IF c = Restarter THEN outcome ELSE "Done", turn |-> None]]

\* The conversation was read for a cancel of the turn the user sees.
CancelTurn(c) ==
  /\ row
  /\ CancelAt(c, "Idle")
  /\ active # None
  /\ cancel' = [cancel EXCEPT ![c] = [pc |-> "Match", turn |-> active]]
  /\ UNCHANGED <<claims, tasks, proc, deletion, watch, asked, late, missed, row>>

\* Mutant: the cancel is for whatever is claimed now.
MatchAnything(c) ==
  /\ CancelAt(c, "Match")
  /\ CancelTo(c, "Task")
  /\ asked' = asked \cup {active}
  /\ UNCHANGED <<claims, tasks, proc, deletion, watch, late, missed, row>>

\* A cancel of a turn that is not the claimed one does nothing.
MatchTurn(c) ==
  /\ CancelAt(c, "Match")
  /\ IF active = cancel[c].turn
       THEN CancelTo(c, "Task") /\ asked' = asked \cup {active}
       ELSE CancelOver(c, "Done") /\ UNCHANGED asked
  /\ UNCHANGED <<claims, tasks, proc, deletion, watch, late, missed, row>>

GetTask(c) ==
  /\ CancelAt(c, "Task")
  /\ CancelTo(c, IF HasTask THEN "Mark" ELSE "Defer")
  /\ UNCHANGED <<claims, tasks, proc, deletion, watch, asked, late, missed, row>>

\* Turns that will not look for a deferred cancel again unless they are replayed.
PastPrompt(t) == proc[t].pc \in {"Running", "Failed", "Evict", "Evicted", "Release", "Done"}

defer_cancel(c) ==
  LET t == cancel[c].turn IN
  /\ CancelAt(c, "Defer")
  /\ deferred' = t
  /\ missed' = IF PastPrompt(t) THEN missed \cup {t} ELSE missed
  /\ CancelOver(c, "Done")
  /\ UNCHANGED <<active, deleting, cancelling, restarting, tasks, proc, deletion, watch, asked, late, row>>

mark_cancelling(c) ==
  /\ CancelAt(c, "Mark")
  /\ cancelling' = TRUE
  /\ late' = (late \/ active # cancel[c].turn)
  /\ CancelTo(c, "Ask")
  /\ UNCHANGED <<active, deleting, restarting, deferred, tasks, proc, deletion, watch, asked, missed, row>>

\* The agent accepts the cancel, which need not end its turn, or refuses it.
AskAgent(c) ==
  /\ CancelAt(c, "Ask")
  /\ \/ /\ watch' = IF c \in Watched
                      THEN [watch EXCEPT ![c] = [at |-> "Timer", turn |-> cancel[c].turn]]
                      ELSE watch
        /\ CancelOver(c, "Done")
        /\ UNCHANGED cancelling
     \/ /\ cancelling' = FALSE
        /\ CancelOver(c, "Refused")
        /\ UNCHANGED watch
  /\ UNCHANGED <<active, deleting, restarting, deferred, tasks, proc, deletion, asked, late, missed, row>>

Cancel(c) == MatchTurn(c) \/ GetTask(c) \/ defer_cancel(c) \/ mark_cancelling(c) \/ AskAgent(c)

\* Between its claim and the initialisation of its agent a turn only does a few
\* quick writes and lookups, which do not take as long as the watchdog's timer.
Preparing(t) == proc[t].pc \in {"Claimed", "Slot", "Init"}

WatchAt(c, at) == watch[c].at = at
WatchTo(c, at) == watch' = [watch EXCEPT ![c].at = at]
WatchOver(c) == watch' = [watch EXCEPT ![c] = [at |-> "Off", turn |-> None]]
OtherThanWatch == <<cancel, deletion, asked, late, missed, row>>

\* ACP_CANCEL_DRAIN_TIMEOUT after the cancel was accepted: the first look.
TimerFires(c) ==
  /\ WatchAt(c, "Timer")
  /\ ~Preparing(watch[c].turn)
  /\ IF active = watch[c].turn THEN WatchTo(c, "Claimed") ELSE WatchOver(c)
  /\ UNCHANGED <<claims, tasks, proc, OtherThanWatch>>

\* Mutant: the task of a turn that is not being cancelled is killed instead.
LookInverted(c) ==
  /\ WatchAt(c, "Claimed")
  /\ IF ~cancelling THEN WatchTo(c, "Kill") ELSE WatchOver(c)
  /\ UNCHANGED <<claims, tasks, proc, OtherThanWatch>>

LookAtMark(c) ==
  /\ WatchAt(c, "Claimed")
  /\ IF cancelling THEN WatchTo(c, "Kill") ELSE WatchOver(c)
  /\ UNCHANGED <<claims, tasks, proc, OtherThanWatch>>

\* Whatever the conversation runs by now.
WatchdogKills(c) ==
  /\ WatchAt(c, "Kill")
  /\ kill_and_wait
  /\ WatchOver(c)
  /\ UNCHANGED <<claims, proc, OtherThanWatch>>

Watchdog(c) == TimerFires(c) \/ LookAtMark(c) \/ WatchdogKills(c)
-----------------------------------------------------------------------------
(* ConversationService::restart_runtime.                                   *)

MayRequest == Cardinality({r \in {"restart"} : ~At(Restarter, "Unsent")}
                            \cup {r \in {"delete"} : deletion.pc # "Idle"}) < MaxRequests

RequestRestart ==
  /\ MayRequest
  /\ row
  /\ Step(Restarter, "Unsent", "Look")
  /\ UNCHANGED <<claims, tasks, others>>

\* The runtime must be there.
LookForTask ==
  /\ At(Restarter, "Look")
  /\ GoTo(Restarter, IF HasTask THEN "Begin" ELSE "Done")
  /\ UNCHANGED <<claims, tasks, others>>

begin_restart ==
  /\ At(Restarter, "Begin")
  /\ IF ~deleting /\ ~restarting
       THEN restarting' = TRUE /\ GoTo(Restarter, "Cancel")
       ELSE UNCHANGED restarting /\ GoTo(Restarter, "Done")
  /\ UNCHANGED <<active, deleting, cancelling, deferred, tasks, others>>

\* The turn that is claimed, if any, is to be cancelled first.
RestartCancels ==
  /\ At(Restarter, "Cancel")
  /\ CancelAt(Restarter, "Idle")
  /\ IF active = None
       THEN GoTo(Restarter, "Kill") /\ UNCHANGED cancel
       ELSE /\ cancel' = [cancel EXCEPT ![Restarter] = [pc |-> "Lookup", turn |-> active]]
            /\ UNCHANGED proc
  /\ UNCHANGED <<claims, tasks, deletion, watch, asked, late, missed, row>>

\* cancel_with_cause reads the conversation, which may fail.
RestartReadsRow ==
  /\ CancelAt(Restarter, "Lookup")
  /\ \/ row /\ CancelTo(Restarter, "Match")
     \/ CancelOver(Restarter, "Refused")
  /\ UNCHANGED <<claims, tasks, proc, deletion, watch, asked, late, missed, row>>

RestartGoesOn ==
  /\ At(Restarter, "Cancel")
  /\ \/ CancelAt(Restarter, "Done") /\ GoTo(Restarter, "Kill")
     \/ CancelAt(Restarter, "Refused") /\ GoTo(Restarter, "Abort")
  /\ UNCHANGED <<claims, tasks, others>>

RestartKills ==
  /\ At(Restarter, "Kill")
  /\ kill_and_wait
  /\ Hold(Restarter, "Wait", slot)
  /\ UNCHANGED <<claims, others>>

clear_turn_state_for_restart ==
  /\ At(Restarter, "Wait")
  /\ Killed(proc[Restarter].cell)
  /\ active' = None /\ cancelling' = FALSE /\ deferred' = None
  /\ GoTo(Restarter, "Ensure")
  /\ UNCHANGED <<deleting, restarting, tasks, others>>

\* ensure_runtime_agent: a task that is there already will do.
Ensure ==
  /\ At(Restarter, "Ensure")
  /\ GoTo(Restarter, IF ~row \/ HasTask THEN "Built" ELSE "Slot")
  /\ UNCHANGED <<claims, tasks, others>>

clear_restarting ==
  /\ \E pc \in {"Built", "Release", "Abort"} : At(Restarter, pc)
  /\ Hold(Restarter, "Done", None)
  /\ restarting' = FALSE
  /\ UNCHANGED <<active, deleting, cancelling, deferred, tasks, others>>

Restart == \/ LookForTask \/ begin_restart \/ RestartCancels \/ RestartReadsRow \/ RestartGoesOn
           \/ RestartKills \/ clear_turn_state_for_restart \/ Ensure \/ Build(Restarter) \/ clear_restarting
-----------------------------------------------------------------------------
(* ConversationService::delete.                                            *)

DeletionTo(pc) == deletion' = [pc |-> pc, had |-> pc = "Row" /\ deletion.had]
OtherThanDeletion == <<cancel, watch, asked, late, missed>>

mark_deleting ==
  /\ MayRequest
  /\ row
  /\ deletion.pc = "Idle"
  /\ deleting' = TRUE
  /\ deletion' = [pc |-> "Hook", had |-> active # None]
  /\ UNCHANGED <<active, cancelling, restarting, deferred, tasks, proc, OtherThanDeletion, row>>

on_conversation_deleted ==
  /\ deletion.pc = "Hook"
  /\ kill
  /\ DeletionTo("Row")
  /\ UNCHANGED <<claims, proc, OtherThanDeletion, row>>

DeleteRow ==
  /\ deletion.pc = "Row"
  /\ \/ row' = FALSE /\ DeletionTo(IF deletion.had THEN "Done" ELSE "Clear")
     \/ UNCHANGED row /\ DeletionTo("Clear")
  /\ UNCHANGED <<claims, tasks, proc, OtherThanDeletion>>

clear_deleting ==
  /\ deletion.pc = "Clear"
  /\ deleting' = FALSE
  /\ DeletionTo("Done")
  /\ UNCHANGED <<active, cancelling, restarting, deferred, tasks, proc, OtherThanDeletion, row>>

Delete == on_conversation_deleted \/ DeleteRow \/ clear_deleting
-----------------------------------------------------------------------------
Init ==
  /\ active = None /\ deferred = None
  /\ deleting = FALSE /\ cancelling = FALSE /\ restarting = FALSE
  /\ slot = None
  /\ cell = [i \in Cells |-> "Dead"]
  /\ doomed = {} /\ torn = {}
  /\ row = TRUE
  /\ proc = [p \in Procs |-> [pc |-> "Unsent", cell |-> None, end |-> "", replayed |-> FALSE]]
  /\ cancel = [c \in Cancellers |-> [pc |-> "Idle", turn |-> None]]
  /\ deletion = [pc |-> "Idle", had |-> FALSE]
  /\ watch = [c \in Cancellers |-> [at |-> "Off", turn |-> None]]
  /\ asked = {} /\ late = FALSE /\ missed = {}

Next ==
  \/ \E t \in Turns : Send(t) \/ Turn(t) \/ AttemptEnds(t)
  \/ \E c \in Cancels : CancelTurn(c)
  \/ \E c \in Cancellers : Cancel(c) \/ Watchdog(c)
  \/ RequestRestart \/ Restart
  \/ mark_deleting \/ Delete
  \/ KillWhenBuilt

\* While the task of a turn can run, a timer can fire, or a kill that waits can go
\* on, one of them does; builds end, and so does a turn whose agent was killed.
\* A turn of a live agent may go on for ever.
Progress ==
  \/ \E t \in Turns : Turn(t) \/ (AttemptEnds(t) /\ cell[proc[t].cell] = "Dead")
  \/ \E c \in Cancellers : Watchdog(c)
  \/ KillWhenBuilt

Fairness == WF_vars(Progress)

Spec == Init /\ [][Next]_vars /\ Fairness
-----------------------------------------------------------------------------
Steps == {"Unsent", "Checked", "Claimed", "Slot", "Init", "Building", "Built", "Running", "Failed",
          "Replay", "Replaying", "Evict", "Evicted", "Look", "Begin", "Cancel", "Kill", "Wait", "Ensure", "Abort",
          "Release", "Done"}

ProcState == [pc : Steps, cell : Cells \cup {None}, end : {"", "Dropped", "Stopped"},
              replayed : BOOLEAN]

CancelState == [pc : {"Idle", "Lookup", "Match", "Task", "Defer", "Mark", "Ask", "Refused", "Done"},
                turn : Turns \cup {None}]

WatchState == [at : {"Off", "Timer", "Claimed", "Kill"}, turn : Turns \cup {None}]

TypeOK ==
  /\ active \in Turns \cup {None} /\ deferred \in Turns \cup {None}
  /\ deleting \in BOOLEAN /\ cancelling \in BOOLEAN /\ restarting \in BOOLEAN
  /\ slot \in Cells \cup {None}
  /\ cell \in [Cells -> {"Vacant", "Building", "Ready", "Dead"}]
  /\ doomed \subseteq Cells /\ torn \subseteq Cells
  /\ proc \in [Procs -> ProcState]
  /\ cancel \in [Cancellers -> CancelState]
  /\ deletion \in [pc : {"Idle", "Hook", "Row", "Clear", "Done"}, had : BOOLEAN]
  /\ watch \in [Cancellers -> WatchState]
  /\ asked \subseteq Turns /\ missed \subseteq Turns
  /\ late \in BOOLEAN /\ row \in BOOLEAN

(* No claim is leaked: whatever path a turn takes, through failed writes,  *)
(* failed builds, replays, restarts and deletion, the turn that is claimed *)
(* is one that is still on its way to release it.                          *)
ClaimHasOwner ==
  active # None => proc[active].pc \notin {"Unsent", "Checked", "Done"}

(* The conversation is marked as cancelling only while a turn that was     *)
(* asked to stop is claimed, unless a cancellation was marked after its    *)
(* turn was over.                                                          *)
CancellingIsForActive == cancelling /\ ~late => active \in asked

(* A cancel that finds no agent is not lost: a turn it was deferred to     *)
(* does not get to send its prompt, in its first attempt or in its replay, *)
(* unless it had looked for the cancel before.                             *)
DeferredStops ==
  \A t \in Turns :
    deferred = t /\ t \notin missed => proc[t].pc \notin {"Running", "Failed", "Evict", "Evicted"}

(* A turn stopped before its prompt, or whose message was not stored, was  *)
(* asked to stop, whatever cancellations of earlier turns left behind,     *)
(* unless a cancellation was marked after its turn was over.               *)
OnlyAskedStop ==
  \A t \in Turns : /\ proc[t].end = "Stopped" => t \in asked
                   /\ proc[t].end = "Dropped" /\ ~late => t \in asked

(* From the end of the old process until the new one is ready the restart  *)
(* has the conversation to itself: no turn is claimed.                     *)
RestartGate == At(Restarter, "Slot") \/ At(Restarter, "Init") \/ At(Restarter, "Building")
               \/ At(Restarter, "Built") => active = None

(* No agent is forgotten: one that runs is in the task map, or a           *)
(* kill_and_wait is about to kill it, unless its slot was removed by a     *)
(* plain kill, or by one that looked at it before the build began.         *)
NoOrphanAgent ==
  \A i \in Cells : cell[i] = "Ready" => i = slot \/ i \in doomed \cup torn

(* A cancel that an agent accepted ends the turn even if the agent does    *)
(* not: the watchdog kills the task and the turn's claim is released,      *)
(* unless another cancellation that failed took the mark away, the cancel  *)
(* crossed with the decision to replay the turn on a new agent, or the     *)
(* turn's own agent is one of those the task map does not know.            *)
CancelDrains ==
  (\E c \in Cancellers : active # None /\ watch[c].turn = active)
    ~> \/ active = None \/ ~cancelling
       \/ proc[active].replayed \/ proc[active].cell \in torn
=============================================================================
