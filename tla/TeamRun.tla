------------------------------- MODULE TeamRun -------------------------------
(***************************************************************************)
(* The team run of a session (crates/aionui-team/src/team_run/manager.rs)  *)
(* over the coordinator of SlotWork.                                       *)
(*                                                                         *)
(* The manager keeps one TeamRunRecord behind a mutex of its own.  An      *)
(* enqueue is bound to a run under the coordinator's lock.  Every other    *)
(* operation of the coordinator computes the summaries of the runs it      *)
(* concerns under that lock and hands them to the manager after it was     *)
(* released, so that the summaries of two tasks may arrive in either       *)
(* order.  A task is a thread of the server inside such a call: the event  *)
(* loop of a slot, a request or a tool call.                               *)
(***************************************************************************)
EXTENDS SlotWork

CONSTANTS
  Tasks,        \* threads that may be inside a call at the same time
  Bindings,     \* the CausalBindings that occur
  Sources,      \* the work sources that occur
  Calls         \* the operations that occur besides enqueue, claim, start and completion

ASSUME RunAssumption ==
  /\ Bindings \subseteq {"UserVisible", "ActiveRunOrBackground", "InheritRunningBatch",
                         "SystemInitiated", "Background"}
  /\ Sources \subseteq AllSources

VARIABLES
  run,          \* TeamRunManager.state: the id and the status of the record
  used,         \* run ids that were generated
  task,         \* what each task has still to tell the manager
  overtaken,    \* history: runs that changed while a summary of them was in flight
  silent        \* history: runs whose last change was not followed by a summary

runVars == <<run, used, task, overtaken, silent>>
vars == <<workVars, runVars>>

ActiveStatus == {"Accepted", "Running", "Cancelling"}
EndedStatus == {"Completed", "Failed", "Cancelled"}

\* `state: None` is the record of no run.
NoRecord == [id |-> NoRun, status |-> "None"]

\* A RunWorkSummary, of which the manager only asks which counts are zero.
RunWorkSummary == [run : Runs, failed : BOOLEAN, running : BOOLEAN, work : BOOLEAN]

Task == [cancel : Runs \cup {NoRun}, abort : Runs \cup {NoRun}, sums : SUBSET RunWorkSummary]

Rest == [cancel |-> NoRun, abort |-> NoRun, sums |-> {}]

is_active == run.status \in ActiveStatus

LiveWork(r) == \/ \E i \in OfRun(r) : ist[i] \in Live
               \/ \E l \in leases : l.run = r

HasFailed(r) == \E i \in OfRun(r) : ist[i] = "Failed"

\* Mutant: an outstanding lease is not counted as work.
SummaryWithoutLeases(r) == [run     |-> r,
                            failed  |-> HasFailed(r),
                            running |-> \E i \in OfRun(r) : ist[i] = "Running",
                            work    |-> \E i \in OfRun(r) : ist[i] \in Live]

run_summary(r) == [run     |-> r,
                   failed  |-> HasFailed(r),
                   running |-> \E i \in OfRun(r) : ist[i] = "Running",
                   work    |-> LiveWork(r)]

\* Mutant: work of no run is summarised like that of a run.
RunsOfAnyWork(S) == {info[i].run : i \in S}

RunsOf(S) == {info[i].run : i \in S} \ {NoRun}

InFlight(r) == \E t \in Tasks : task[t].abort = r \/ \E m \in task[t].sums : m.run = r

Touched(R) == R \cup {r \in Runs : run_summary(r)' # run_summary(r)}

\* The summaries of the runs R, computed in the state the operation leaves.
publish_run_summaries(t, R, abort) ==
  /\ task' = [task EXCEPT ![t] = [cancel |-> NoRun, abort |-> abort,
                                  sums |-> {run_summary(r)' : r \in R}]]
  /\ overtaken' = overtaken \cup {r \in Touched(R) : InFlight(r)}
  /\ silent' = (silent \cup Touched(R)) \ R
-----------------------------------------------------------------------------
(* Binding an enqueue to a run.                                            *)

\* bind_user_enqueue and bind_system_enqueue: attach to the active run or
\* open a new one.
AttachOrCreate(r) ==
  IF is_active
    THEN r = run.id /\ UNCHANGED <<run, used>>
    ELSE /\ r \in Runs \ used
         /\ run' = [id |-> r, status |-> "Accepted"]
         /\ used' = used \cup {r}

\* The run of the batch that the caller's slot is working on.
Inherited(c) == RunsOf(active[c].intents)

bind_enqueue(binding, c, r) ==
  \/ binding = "Background" /\ r = NoRun /\ UNCHANGED <<run, used>>
  \/ /\ binding = "ActiveRunOrBackground"
     /\ r = IF is_active THEN run.id ELSE NoRun
     /\ UNCHANGED <<run, used>>
  \/ binding = "UserVisible" /\ AttachOrCreate(r)
  \/ /\ binding \in {"InheritRunningBatch", "SystemInitiated"}
     /\ IF Inherited(c) # {} THEN r \in Inherited(c) /\ UNCHANGED <<run, used>>
        ELSE AttachOrCreate(r)

\* Nothing is published here: the lease alone keeps its run open.
Acquire ==
  \E id \in LeaseIds, s, c \in Slots, src \in Sources, b \in Bindings, r \in Runs \cup {NoRun} :
    /\ acquire_enqueue(id, s, src, r)
    /\ bind_enqueue(b, c, r)
    /\ overtaken' = overtaken \cup {q \in {r} \ {NoRun} : InFlight(q)}
    /\ UNCHANGED <<task, silent>>

Commit(t) ==
  \E l \in leases, m \in Msgs :
    /\ commit_enqueue(l, m)
    /\ publish_run_summaries(t, {l.run} \ {NoRun}, NoRun)
    /\ UNCHANGED <<run, used>>

\* remove_empty_run: nothing else was ever bound to the run of the lease.
remove_empty_run(l) ==
  /\ l.run # NoRun
  /\ OfRun(l.run) = {}
  /\ \A k \in leases \ {l} : k.run # l.run

Abort(t) ==
  \E l \in leases :
    /\ abort_enqueue(l)
    /\ publish_run_summaries(t, {l.run} \ {NoRun},
                            IF remove_empty_run(l) THEN l.run ELSE NoRun)
    /\ UNCHANGED <<run, used>>
-----------------------------------------------------------------------------
(* The rest of the coordinator, as its callers reach it.                   *)

Batch(s) == [slot |-> s, op |-> active[s].op, intents |-> active[s].intents,
             lane |-> active[s].lane]

Changed == {i \in IntentIds : ist'[i] # ist[i]}

Does(call) == call \in Calls

\* A summary does not tell cancelled from completed work, so that cancel_batch
\* and interrupt_batch publish what the completion of the batch does.
OnBatch(t) ==
  \E s \in Slots :
    LET b == Batch(s) IN
    /\ active[s].op # 0
    /\ \/ ~active[s].turn /\ mark_started(b)
       \/ Does("retry") /\ retry_start(b)
       \/ complete_batch_with_ack(b)
       \/ Does("fail") /\ fail_batch(b)
    /\ publish_run_summaries(t, RunsOf(Changed), NoRun)
    /\ UNCHANGED <<run, used>>

Claim(t) ==
  \E s \in Slots :
    /\ next(s)
    /\ publish_run_summaries(t, RunsOf(active'[s].intents), NoRun)
    /\ UNCHANGED <<run, used>>

\* remove_slot and a fatal runtime constraint publish the runs of the work they end.
OnSlot(t) ==
  \E s \in Slots :
    /\ \/ Does("remove") /\ remove_slot(s)
       \/ Does("constrain") /\ set_runtime_constraint(s, [kind |-> "Failed", op |-> 0])
    /\ publish_run_summaries(t, RunsOf(Changed), NoRun)
    /\ UNCHANGED <<run, used>>

\* The discarding half of an interrupt publishes the slot but not the runs.
Discard(t) ==
  /\ Does("discard")
  /\ \E s \in Slots, m \in Msgs : discard_queued_except(s, m)
  /\ publish_run_summaries(t, {}, NoRun)
  /\ UNCHANGED <<run, used>>

\* stop publishes every run that ever had work.
Stop(t) ==
  /\ Does("stop")
  /\ stop
  /\ publish_run_summaries(t, {r \in Runs : OfRun(r) # {} \/ \E l \in leases : l.run = r}, NoRun)
  /\ UNCHANGED <<run, used>>
-----------------------------------------------------------------------------
(* TeamSession::cancel_run marks the record and then cancels the work.     *)

begin_cancel(t) ==
  /\ Does("cancel_run")
  /\ is_active
  /\ run' = [run EXCEPT !.status = "Cancelling"]
  /\ task' = [task EXCEPT ![t].cancel = run.id]
  /\ UNCHANGED <<workVars, used, overtaken, silent>>

CancelWork(t) ==
  \E r \in Runs :
    /\ task[t].cancel = r
    /\ cancel_run(r)
    /\ publish_run_summaries(t, {r}, NoRun)
    /\ UNCHANGED <<run, used>>
-----------------------------------------------------------------------------
(* Telling the manager, after the coordinator's lock was released.         *)

abort_binding(t) ==
  /\ task[t].abort # NoRun
  /\ run' = IF run.id = task[t].abort THEN NoRecord ELSE run
  /\ task' = [task EXCEPT ![t].abort = NoRun]
  /\ UNCHANGED <<workVars, used, overtaken, silent>>

\* Mutant: a running batch is looked at before the failures.
StatusRunningFirst(m) ==
  IF m.running THEN "Running"
  ELSE IF m.failed THEN "Failed"
  ELSE IF ~m.work THEN IF run.status = "Cancelling" THEN "Cancelled" ELSE "Completed"
  ELSE run.status

StatusAfter(m) ==
  IF m.failed THEN "Failed"
  ELSE IF ~m.work THEN IF run.status = "Cancelling" THEN "Cancelled" ELSE "Completed"
  ELSE IF m.running THEN "Running"
  ELSE run.status

apply_work_summary(t) ==
  \E m \in task[t].sums :
    /\ task[t].abort = NoRun
    /\ run' = IF run.id = m.run THEN [run EXCEPT !.status = StatusAfter(m)] ELSE run
    /\ task' = [task EXCEPT ![t].sums = @ \ {m}]
    /\ UNCHANGED <<workVars, used, overtaken, silent>>
-----------------------------------------------------------------------------
Init ==
  /\ WorkInit(Slots)
  /\ run = NoRecord
  /\ used = {}
  /\ task = [t \in Tasks |-> Rest]
  /\ overtaken = {}
  /\ silent = {}

Call(t) ==
  /\ task[t] = Rest
  /\ \/ Commit(t) \/ Abort(t) \/ OnBatch(t) \/ Claim(t) \/ OnSlot(t) \/ Discard(t) \/ Stop(t)
     \/ begin_cancel(t)

Tell(t) == CancelWork(t) \/ abort_binding(t) \/ apply_work_summary(t)

Next == Acquire \/ \E t \in Tasks : Call(t) \/ Tell(t)

Spec == Init /\ [][Next]_vars
-----------------------------------------------------------------------------
TypeOK ==
  /\ WorkTypeOK
  /\ run \in [id : Runs \cup {NoRun}, status : ActiveStatus \cup EndedStatus \cup {"None"}]
  /\ used \subseteq Runs
  /\ task \in [Tasks -> Task]
  /\ overtaken \subseteq Runs
  /\ silent \subseteq Runs

Settled(r) == r \notin overtaken /\ r \notin silent /\ ~InFlight(r)

(* A run and its work agree.  Once the manager was told of everything that *)
(* happened to a run, in the order it happened, the run is open on record  *)
(* exactly while it has work or an outstanding enqueue and nothing of it   *)
(* failed; in particular no work belongs to a run that is not on record,   *)
(* and a cancel that crosses with the end of the work leaves nothing open. *)
RunAgreesWithWork ==
  \A r \in Runs :
    Settled(r) =>
      ((run.id = r /\ is_active) <=> (LiveWork(r) /\ ~HasFailed(r)))

(* A run that ended on record is not opened again, by late starts, lost    *)
(* retries or messages of agents that still work for it, as long as its    *)
(* summaries arrive in order.                                              *)
EndedRunStaysEnded ==
  [][run.status \in EndedStatus /\ run'.id = run.id /\ run.id \notin overtaken
       => run'.status \in EndedStatus]_vars
=============================================================================
