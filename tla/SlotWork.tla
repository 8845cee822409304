------------------------------ MODULE SlotWork ------------------------------
(***************************************************************************)
(* SlotWorkCoordinator: the in-memory owner of all work of a team session  *)
(* (crates/aionui-team/src/work_coordinator/).  Every operation of the     *)
(* coordinator runs under its one mutex and is one action here.            *)
(*                                                                         *)
(* A caller reserves an enqueue (a lease), commits it into a work intent,  *)
(* and the event loop of a slot claims the head of the slot's lanes as a   *)
(* batch that owns the slot until it is completed, failed, cancelled,      *)
(* interrupted or given back.  Callers keep their copy of a batch after    *)
(* they lost it; is_current_batch is what tells them apart.                *)
(*                                                                         *)
(* A VecDeque is a set of intents ordered by `rank`, so push_back gives a  *)
(* rank above, and push_front a rank below, those of the lane.  Ids are    *)
(* handed out in order, so that the id of a new intent is such a rank.     *)
(***************************************************************************)
EXTENDS WorkSource, Integers, FiniteSets, FiniteSetsExt

CONSTANTS
  Slots,        \* slots of the team
  Msgs,         \* mailbox rows, numbered in the order they are written
  Runs,         \* team runs
  LeaseIds,     \* enqueue leases that may be outstanding together
  NoMsg, NoRun,
  MaxIntents,   \* bound: intents created in a session
  MaxOps        \* bound: operation ids handed out by the coordinator

ASSUME ConstantsAssumption ==
  /\ Slots # {}
  /\ Msgs \subseteq Nat
  /\ NoMsg \notin Msgs
  /\ NoRun \notin Runs
  /\ MaxIntents \in Nat
  /\ MaxOps \in Nat

VARIABLES
  ist,          \* state of each intent
  info,         \* what an intent was committed with
  rank,         \* position of an intent in its lane
  queue,        \* the four VecDeques of a slot
  active,       \* SlotState.active
  paused, removed, present,
  constraint,   \* SlotState.runtime_constraint
  failures,     \* SlotState.delivery_failure_counts
  leases,       \* CoordinatorState.enqueue_leases
  interrupted,  \* CoordinatorState.interrupted_batches, by operation id
  nextOp        \* CoordinatorState.next_operation_id

intentVars == <<ist, info, rank>>
slotVars   == <<queue, active, paused, removed, present, constraint, failures>>
workVars == <<intentVars, slotVars, leases, interrupted, nextOp>>

MaxDeliveryFailures == 3   \* MAX_MESSAGE_DELIVERY_FAILURES

IntentIds == 1..MaxIntents

Terminal == {"Completed", "Failed", "Cancelled"}
Live     == {"Queued", "Starting", "Running"}
IntentStates == {"Unborn"} \cup Live \cup Terminal

WorkIntent == [slot : Slots, source : AllSources,
               msg : Msgs \cup {NoMsg}, run : Runs \cup {NoRun}]

RuntimeConstraint ==
  [kind : {"Ready", "Starting", "Failed", "Removing", "SessionStopped"}, op : Nat]

\* An unborn intent has no contents; this value is never read.
Blank == [slot |-> CHOOSE s \in Slots : TRUE, source |-> "RecoveryDrain",
          msg |-> NoMsg, run |-> NoRun]

EnqueueLease == [id : LeaseIds, slot : Slots, source : AllSources, run : Runs \cup {NoRun}]

\* The part of a WorkBatch that never changes after the claim.
WorkBatch == [slot : Slots, op : Nat \ {0}, intents : SUBSET IntentIds, lane : Lanes]

\* Operation id 0 is never handed out and stands for `active: None`.
ActiveBatch == [op : Nat, intents : SUBSET IntentIds, lane : Lanes,
                turn : BOOLEAN, observed : SUBSET Msgs]

NoBatch == [op |-> 0, intents |-> {}, lane |-> "Background", turn |-> FALSE, observed |-> {}]

RuntimeRestartGate == [slot : Slots, op : Nat, previous : RuntimeConstraint]
-----------------------------------------------------------------------------
(* Reading the state.                                                      *)

Lane(i) == priority(info[i].source)

queued_ids(s) == UNION {queue[s][l] : l \in Lanes}

LiveOf(s) == {i \in IntentIds : ist[i] \in Live /\ info[i].slot = s}

BatchMsgs(b) == {info[i].msg : i \in b.intents}

validate_enqueue_constraint(s) ==
  ~removed[s] /\ constraint[s].kind \in {"Ready", "Starting"}

is_current_batch(b) == active[b.slot].op = b.op

AllCancelled(b) == \A i \in b.intents : ist[i] = "Cancelled"

is_active_batch(b, turn) == is_current_batch(b) /\ active[b.slot].turn = turn

\* Ids are handed out in order; the next one is the least unborn id.
Fresh(i) == ist[i] = "Unborn" /\ \A j \in IntentIds : ist[j] = "Unborn" => i <= j

LowestRank == Min({rank[j] : j \in IntentIds})

\* Mutant: work that is given back goes behind its lane.
BackShift(B, Q) == LowestRank - Max({rank[i] : i \in IntentIds}) - 1

\* How far the ranks of B must go down so that all of B is in front of all of Q.
FrontShift(B, Q) ==
  IF \A i \in B, j \in Q : rank[i] < rank[j] THEN 0
  ELSE Max({rank[i] : i \in B}) - LowestRank + 1

(* Writing the state.                                                      *)

SetState(S, st) == ist' = [i \in IntentIds |-> IF i \in S THEN st ELSE ist[i]]

\* Mutant: claimed or ended work stays in its lane.
RemoveNothing(s, S) == queue

RemoveQueued(s, S) == [queue EXCEPT ![s] = [l \in Lanes |-> queue[s][l] \ S]]

ClearedQueue == [l \in Lanes |-> {}]

\* Mutant: the map of failure counts is rebuilt from the settled rows alone.
RebuildCounts(s, M) == [failures EXCEPT ![s] = [m \in M \cap Msgs |-> 0]]

ClearCounts(s, M) ==
  [failures EXCEPT ![s] = [m \in Msgs |-> IF m \in M THEN 0 ELSE failures[s][m]]]
-----------------------------------------------------------------------------
\* The slots in `ready` were published with a ready runtime.
WorkInit(ready) ==
  /\ ist = [i \in IntentIds |-> "Unborn"]
  /\ info = [i \in IntentIds |-> Blank]
  /\ rank = [i \in IntentIds |-> i]
  /\ queue = [s \in Slots |-> ClearedQueue]
  /\ active = [s \in Slots |-> NoBatch]
  /\ paused = [s \in Slots |-> FALSE]
  /\ removed = [s \in Slots |-> FALSE]
  /\ present = ready
  /\ constraint = [s \in Slots |-> [kind |-> IF s \in ready THEN "Ready" ELSE "Starting",
                                  op |-> 0]]
  /\ failures = [s \in Slots |-> [m \in Msgs |-> 0]]
  /\ leases = {}
  /\ interrupted = {}
  /\ nextOp = 0

(* Reserve an enqueue.  The run r is what the causal binding resolved to.  *)
acquire_enqueue(id, s, src, r) ==
  /\ \A l \in leases : l.id # id
  /\ validate_enqueue_constraint(s)
  /\ present' = present \cup {s}
  /\ leases' = leases \cup {[id |-> id, slot |-> s, source |-> src, run |-> r]}
  /\ UNCHANGED <<intentVars, queue, active, paused, removed, constraint, failures,
                 interrupted, nextOp>>

\* commit_enqueue succeeds: the lease is live and the slot still takes work.
CanCommit(l, m) ==
  /\ l \in leases
  /\ requires_mailbox_message(l.source) => m # NoMsg
  /\ validate_enqueue_constraint(l.slot)

commit_enqueue(l, m) ==
  /\ CanCommit(l, m)
  /\ \E i \in IntentIds :
       /\ Fresh(i)
       /\ SetState({i}, "Queued")
       /\ info' = [info EXCEPT ![i] = [slot |-> l.slot, source |-> l.source,
                                       msg |-> m, run |-> l.run]]
       /\ rank' = [rank EXCEPT ![i] =
                     IF l.source = "LeadIntervention"
                       THEN LowestRank - 1 ELSE i]
       /\ queue' = [queue EXCEPT ![l.slot][priority(l.source)] = @ \cup {i}]
  /\ leases' = leases \ {l}
  /\ paused' = [paused EXCEPT ![l.slot] = @ /\ ~resumes_paused_slot(l.source)]
  /\ UNCHANGED <<active, removed, present, constraint, failures,
                 interrupted, nextOp>>

abort_enqueue(l) ==
  /\ l \in leases
  /\ leases' = leases \ {l}
  /\ UNCHANGED <<intentVars, slotVars, interrupted, nextOp>>

mailbox_reconcile_candidates(s) == {i \in queued_ids(s) : info[i].msg # NoMsg}

\* The unread rows no live intent of the slot stands for.
Unowned(s, unread) == {m \in unread : ~\E i \in LiveOf(s) : info[i].msg = m}

(* Project a mailbox snapshot: drop the queued intents among cands whose   *)
(* row is no longer unread, and adopt every unread row nobody owns.        *)
reconcile_mailbox_snapshot(s, unread, cands) ==
  LET stale == {i \in queued_ids(s) :
                  info[i].msg # NoMsg /\ info[i].msg \notin unread /\ i \in cands}
      news  == Unowned(s, unread)
  IN \E new \in [news -> IntentIds] :
       /\ \A m \in news :
            /\ ist[new[m]] = "Unborn"
            /\ \A n \in news : m < n => new[m] < new[n]
            /\ \A j \in IntentIds : ist[j] = "Unborn" /\ j < new[m]
                                      => \E n \in news : new[n] = j
       /\ LET born == {new[m] : m \in news}
              row(i) == CHOOSE m \in news : new[m] = i
          IN /\ ist' = [i \in IntentIds |-> IF i \in stale THEN "Completed"
                                            ELSE IF i \in born THEN "Queued" ELSE ist[i]]
             /\ info' = [i \in IntentIds |->
                           IF i \in born
                             THEN [slot |-> s, source |-> "RecoveryDrain",
                                   msg |-> row(i), run |-> NoRun]
                             ELSE info[i]]
             /\ rank' = [i \in IntentIds |-> IF i \in born THEN i ELSE rank[i]]
             /\ queue' = [queue EXCEPT ![s] =
                            [l \in Lanes |-> IF l = "Background"
                                               THEN (queue[s][l] \ stale) \cup born
                                               ELSE queue[s][l] \ stale]]
       /\ failures' = ClearCounts(s, Msgs \ unread)
       /\ present' = present \cup {s}
       /\ UNCHANGED <<active, paused, removed, constraint,
                      leases, interrupted, nextOp>>
-----------------------------------------------------------------------------
(* `next` decides on the first non-empty lane of an idle, ready, unpaused  *)
(* slot.                                                                   *)
IsTopLane(s, l) ==
  /\ queue[s][l] # {}
  /\ \A k \in Lanes : Outranks(k, l) => queue[s][k] = {}

Claimable(s) ==
  /\ s \in present
  /\ active[s].op = 0
  /\ constraint[s].kind = "Ready"
  /\ ~paused[s]

\* Mutant: the whole lane is one batch.
WholeLane(s, l) == {i \in queue[s][l] : info[i].msg # NoMsg}

\* The message intents of a lane, in rank order up to the first barrier; a
\* barrier at the head is taken alone.
LeadingRun(s, l) ==
  LET M == {i \in queue[s][l] : info[i].msg # NoMsg}
      Barrier(i) == is_batch_barrier(info[i].source)
  IN {i \in M : \/ \A j \in M : rank[i] <= rank[j]
                \/ \A j \in M : rank[j] <= rank[i] => ~Barrier(j)}

\* Mutant: the claim hands out the operation id of the claim before it.
NextSameId(s) ==
  \E l \in Lanes :
    LET B == LeadingRun(s, l) IN
    /\ Claimable(s)
    /\ IsTopLane(s, l)
    /\ B # {}
    /\ SetState(B, "Starting")
    /\ queue' = RemoveQueued(s, B)
    /\ active' = [active EXCEPT ![s] = [op |-> nextOp + 1, intents |-> B, lane |-> l,
                                        turn |-> FALSE, observed |-> {}]]
    /\ UNCHANGED <<info, rank, paused, removed, present, constraint, failures,
                   leases, interrupted, nextOp>>

\* The Claim decision.
next(s) ==
  \E l \in Lanes :
    LET B == LeadingRun(s, l) IN
    /\ Claimable(s)
    /\ IsTopLane(s, l)
    /\ B # {}
    /\ nextOp < MaxOps
    /\ nextOp' = nextOp + 1
    /\ SetState(B, "Starting")
    /\ queue' = RemoveQueued(s, B)
    /\ active' = [active EXCEPT ![s] = [op |-> nextOp + 1, intents |-> B, lane |-> l,
                                        turn |-> FALSE, observed |-> {}]]
    /\ UNCHANGED <<info, rank, paused, removed, present, constraint, failures,
                   leases, interrupted>>

\* The SettleSignals decision of `next`, which leaves the state alone.
SettleSignals(s, S) ==
  /\ Claimable(s)
  /\ \E l \in Lanes : IsTopLane(s, l) /\ LeadingRun(s, l) = {} /\ S = queue[s][l]

complete_signals(s, S) ==
  /\ S \subseteq IntentIds
  /\ \A i \in S : ist[i] = "Queued" /\ info[i].slot = s /\ info[i].msg = NoMsg
  /\ SetState(S, "Completed")
  /\ queue' = RemoveQueued(s, S)
  /\ UNCHANGED <<info, rank, active, paused, removed, present, constraint, failures,
                 leases, interrupted, nextOp>>

\* Rows read through team_read_messages by the turn that owns the slot.
observe_messages(s, op, M) ==
  /\ active[s].op = op
  /\ op # 0
  /\ active' = [active EXCEPT ![s].observed = @ \cup (M \ BatchMsgs(active[s]))]
  /\ UNCHANGED <<intentVars, queue, paused, removed, present, constraint, failures,
                 leases, interrupted, nextOp>>
-----------------------------------------------------------------------------
(* Operations on a batch.  A caller that lost the slot is a StaleOwner and *)
(* changes nothing.                                                        *)

mark_started(b) ==
  /\ is_current_batch(b)
  /\ SetState(b.intents, "Running")
  /\ active' = [active EXCEPT ![b.slot].turn = TRUE]
  /\ UNCHANGED <<info, rank, queue, paused, removed, present, constraint, failures,
                 leases, interrupted, nextOp>>

\* mark_started also tells the caller to cancel the turn it just started.
MustCancel(b) ==
  IF is_current_batch(b) THEN paused[b.slot] \/ constraint[b.slot].kind # "Ready"
  ELSE AllCancelled(b)

retry_start(b) ==
  LET d == FrontShift(b.intents, queue[b.slot][b.lane]) IN
  /\ is_current_batch(b)
  /\ SetState(b.intents, "Queued")
  /\ rank' = [i \in IntentIds |-> IF i \in b.intents THEN rank[i] - d ELSE rank[i]]
  /\ queue' = [queue EXCEPT ![b.slot][b.lane] = @ \cup b.intents]
  /\ active' = [active EXCEPT ![b.slot] = NoBatch]
  /\ UNCHANGED <<info, paused, removed, present, constraint, failures,
                 leases, interrupted, nextOp>>

AckedMsgs(b) == BatchMsgs(b) \cup active[b.slot].observed

complete_batch_with_ack(b) ==
  LET seen == {i \in LiveOf(b.slot) : info[i].msg \in active[b.slot].observed}
      done == b.intents \cup seen
  IN /\ is_current_batch(b)
     /\ SetState(done, "Completed")
     /\ queue' = RemoveQueued(b.slot, done)
     /\ active' = [active EXCEPT ![b.slot] = NoBatch]
     /\ failures' = ClearCounts(b.slot, AckedMsgs(b))
     /\ UNCHANGED <<info, rank, paused, removed, present, constraint,
                    leases, interrupted, nextOp>>

\* Only a failed delivery burns a retry, and only of the rows the batch claimed;
\* a row that was claimed for two intents burns two.
FailedCounts(b) ==
  LET Burnt(m) == failures[b.slot][m] + Cardinality({i \in b.intents : info[i].msg = m})
  IN [failures EXCEPT ![b.slot] = [m \in Msgs |-> IF Burnt(m) <= 255 THEN Burnt(m) ELSE 255]]

\* Mutant: a message is given up one failure too early.
ExhaustedEarly(b) ==
  {m \in BatchMsgs(b) \cap Msgs : FailedCounts(b)[b.slot][m] >= MaxDeliveryFailures - 1}

Exhausted(b) ==
  {m \in BatchMsgs(b) \cap Msgs : FailedCounts(b)[b.slot][m] >= MaxDeliveryFailures}

fail_batch(b) ==
  /\ is_current_batch(b)
  /\ SetState(b.intents, "Failed")
  /\ active' = [active EXCEPT ![b.slot] = NoBatch]
  /\ failures' = FailedCounts(b)
  /\ paused' = [paused EXCEPT ![b.slot] = @ \/ Exhausted(b) # {}]
  /\ UNCHANGED <<info, rank, queue, removed, present, constraint,
                 leases, interrupted, nextOp>>

cancel_batch(b) ==
  /\ is_current_batch(b)
  /\ SetState(b.intents, "Cancelled")
  /\ active' = [active EXCEPT ![b.slot] = NoBatch]
  /\ failures' = ClearCounts(b.slot, BatchMsgs(b))
  /\ UNCHANGED <<info, rank, queue, paused, removed, present, constraint,
                 leases, interrupted, nextOp>>

interrupt_batch(b) ==
  /\ is_current_batch(b)
  /\ SetState(b.intents, "Cancelled")
  /\ active' = [active EXCEPT ![b.slot] = NoBatch]
  /\ failures' = ClearCounts(b.slot, BatchMsgs(b))
  /\ interrupted' = interrupted \cup {b.op}
  /\ UNCHANGED <<info, rank, queue, paused, removed, present, constraint,
                 leases, nextOp>>

take_interrupt_metadata(op) ==
  /\ op \in interrupted
  /\ interrupted' = interrupted \ {op}
  /\ UNCHANGED <<intentVars, slotVars, leases, nextOp>>
-----------------------------------------------------------------------------
(* Operations on a slot, on a run and on the whole session.                *)

\* Control-lane work survives the Discard policy of an interrupt.
Discarded(s, keep) ==
  {i \in queued_ids(s) : info[i].msg # keep /\ Lane(i) # "Control"}

discard_queued_except(s, keep) ==
  /\ SetState(Discarded(s, keep), "Cancelled")
  /\ queue' = RemoveQueued(s, Discarded(s, keep))
  /\ UNCHANGED <<info, rank, active, paused, removed, present, constraint, failures,
                 leases, interrupted, nextOp>>

\* Mutant: the queued work of a run is overlooked.
ActiveOfRun(r) ==
  {i \in IntentIds : ist[i] \notin {"Unborn", "Queued"} /\ info[i].run = r}

OfRun(r) == {i \in IntentIds : ist[i] # "Unborn" /\ info[i].run = r}

\* The slots whose active batch has work of the run.
SlotsOfRun(r) == {s \in Slots : active[s].intents \cap OfRun(r) # {}}

\* The other work of those batches goes back to the front of its lane.
Retained(s, r) == IF s \in SlotsOfRun(r) THEN active[s].intents \ OfRun(r) ELSE {}

cancel_run(r) ==
  LET back == UNION {Retained(s, r) : s \in Slots}
      dead == {i \in OfRun(r) : ist[i] \in Live}
      shift(i) == LET s == info[i].slot
                      l == Lane(i)
                  IN FrontShift({j \in Retained(s, r) : Lane(j) = l}, queue[s][l])
  IN /\ ist' = [i \in IntentIds |-> IF i \in dead THEN "Cancelled"
                                    ELSE IF i \in back THEN "Queued" ELSE ist[i]]
     /\ rank' = [i \in IntentIds |-> IF i \in back THEN rank[i] - shift(i) ELSE rank[i]]
     /\ queue' = [s \in Slots |->
                    [l \in Lanes |-> (queue[s][l] \cup {i \in Retained(s, r) : Lane(i) = l})
                                       \ OfRun(r)]]
     /\ active' = [s \in Slots |-> IF s \in SlotsOfRun(r) THEN NoBatch ELSE active[s]]
     /\ leases' = {l \in leases : l.run # r}
     /\ UNCHANGED <<info, paused, removed, present, constraint, failures,
                    interrupted, nextOp>>

pause_slot(s) ==
  /\ present' = present \cup {s}
  /\ paused' = [paused EXCEPT ![s] = TRUE]
  /\ UNCHANGED <<intentVars, queue, active, removed, constraint, failures,
                 leases, interrupted, nextOp>>

\* A failed runtime keeps the work that belongs to no run; the order of what
\* it keeps is the iteration order of a HashMap.
Requeued(s, c) == IF c.kind = "Failed" THEN {i \in LiveOf(s) : info[i].run = NoRun} ELSE {}

set_runtime_constraint(s, c) ==
  /\ constraint' = [constraint EXCEPT ![s] = c]
  /\ present' = present \cup {s}
  /\ IF c.kind \in {"Failed", "SessionStopped"}
       THEN LET R == Requeued(s, c) IN
            /\ ist' = [i \in IntentIds |->
                         IF i \notin LiveOf(s) THEN ist[i]
                         ELSE IF i \in R THEN "Queued"
                         ELSE IF c.kind = "Failed" THEN "Failed" ELSE "Cancelled"]
            /\ queue' = [queue EXCEPT ![s] = [l \in Lanes |-> {i \in R : Lane(i) = l}]]
            /\ active' = [active EXCEPT ![s] = NoBatch]
            /\ \E p \in [R -> R] :
                 /\ \A i, j \in R : i # j => p[i] # p[j]
                 /\ rank' = [i \in IntentIds |-> IF i \in R THEN rank[p[i]] ELSE rank[i]]
       ELSE UNCHANGED <<ist, rank, queue, active>>
  /\ UNCHANGED <<info, paused, removed, failures, leases, interrupted, nextOp>>

begin_runtime_restart(s, allowQueued) ==
  /\ active[s].op = 0
  /\ allowQueued \/ queued_ids(s) = {}
  /\ constraint[s].kind \notin {"Removing", "SessionStopped"}
  /\ nextOp < MaxOps
  /\ nextOp' = nextOp + 1
  /\ present' = present \cup {s}
  /\ constraint' = [constraint EXCEPT ![s] = [kind |-> "Starting", op |-> nextOp + 1]]
  /\ UNCHANGED <<intentVars, queue, active, paused, removed, failures,
                 leases, interrupted>>

abort_runtime_restart(g) ==
  /\ constraint[g.slot] = [kind |-> "Starting", op |-> g.op]
  /\ constraint' = [constraint EXCEPT ![g.slot] = g.previous]
  /\ UNCHANGED <<intentVars, queue, active, paused, removed, present, failures,
                 leases, interrupted, nextOp>>

remove_slot(s) ==
  LET gone == active[s].intents \cup queued_ids(s) \cup LiveOf(s) IN
  /\ SetState(gone, "Cancelled")
  /\ queue' = [queue EXCEPT ![s] = ClearedQueue]
  /\ active' = [active EXCEPT ![s] = NoBatch]
  /\ removed' = [removed EXCEPT ![s] = s \in present]
  /\ UNCHANGED <<info, rank, paused, present, constraint, failures,
                 leases, interrupted, nextOp>>

\* Mutant: the session stops finished work as well.
StopAgain ==
  /\ SetState({i \in IntentIds : ist[i] # "Unborn"}, "Cancelled")
  /\ queue' = [s \in Slots |-> ClearedQueue]
  /\ active' = [s \in Slots |-> NoBatch]
  /\ constraint' = [s \in Slots |-> IF s \in present
                                      THEN [kind |-> "SessionStopped", op |-> 0]
                                      ELSE constraint[s]]
  /\ leases' = {}
  /\ UNCHANGED <<info, rank, paused, removed, present, failures,
                 interrupted, nextOp>>

stop ==
  /\ SetState({i \in IntentIds : ist[i] \in Live}, "Cancelled")
  /\ queue' = [s \in Slots |-> ClearedQueue]
  /\ active' = [s \in Slots |-> NoBatch]
  /\ constraint' = [s \in Slots |-> IF s \in present
                                      THEN [kind |-> "SessionStopped", op |-> 0]
                                      ELSE constraint[s]]
  /\ leases' = {}
  /\ UNCHANGED <<info, rank, paused, removed, present, failures,
                 interrupted, nextOp>>
-----------------------------------------------------------------------------
WorkTypeOK ==
  /\ ist \in [IntentIds -> IntentStates]
  /\ info \in [IntentIds -> WorkIntent]
  /\ rank \in [IntentIds -> Int]
  /\ queue \in [Slots -> [Lanes -> SUBSET IntentIds]]
  /\ active \in [Slots -> ActiveBatch]
  /\ paused \in [Slots -> BOOLEAN]
  /\ removed \in [Slots -> BOOLEAN]
  /\ present \subseteq Slots
  /\ constraint \in [Slots -> RuntimeConstraint]
  /\ failures \in [Slots -> [Msgs -> 0..255]]
  /\ leases \subseteq EnqueueLease
  /\ interrupted \subseteq Nat
  /\ nextOp \in Nat

(* Ownership: every live intent is in exactly one place.  A queued intent  *)
(* sits in the lane of its source in its own slot and nowhere else; an     *)
(* intent is Starting or Running exactly while the active batch of its     *)
(* slot holds it, the batch has a turn id exactly when it is Running, and  *)
(* its intents are all of the lane that it was claimed from.               *)
(* No retry, run cancellation, interrupt, runtime failure, removal or late *)
(* call of a former owner may lose, duplicate or resurrect work.           *)
QueuedInPlace ==
  \A s \in Slots, l \in Lanes :
    queue[s][l] = {i \in IntentIds : ist[i] = "Queued" /\ info[i].slot = s /\ Lane(i) = l}

ActiveInPlace ==
  \A s \in Slots :
    active[s].intents = {i \in IntentIds : ist[i] \in {"Starting", "Running"} /\ info[i].slot = s}

PhaseAgrees ==
  \A s \in Slots :
    /\ active[s].op = 0 <=> active[s].intents = {}
    /\ \A i \in active[s].intents :
         /\ ist[i] = IF active[s].turn THEN "Running" ELSE "Starting"
         /\ Lane(i) = active[s].lane

WorkOwnership == QueuedInPlace /\ ActiveInPlace /\ PhaseAgrees

(* A slash command or a lead intervention never shares a turn with other   *)
(* work, whatever was retried, requeued or pushed to the front before.     *)
BarrierIsAlone ==
  \A s \in Slots : \A i \in active[s].intents :
    is_batch_barrier(info[i].source) => active[s].intents = {i}

(* First in, first out: among the messages of one lane that belong to a    *)
(* run, none is taken while an older one still waits, however often        *)
(* batches were given back.  A lead intervention may overtake, and is the  *)
(* only source that may.                                                   *)
NoOvertaking ==
  \A s \in Slots : \A i \in active[s].intents, j \in queue[s][active[s].lane] :
    /\ info[i].run # NoRun /\ info[j].run # NoRun /\ info[j].msg # NoMsg
    /\ j < i
    => info[i].source = "LeadIntervention"

(* A finished intent is never touched again, by whoever still holds a copy *)
(* of the batch it was in.                                                 *)
TerminalIsFinal ==
  [][\A i \in IntentIds : ist[i] \in Terminal => ist'[i] = ist[i] /\ info'[i] = info[i]]_workVars

(* cancel_run stops everything of its run, in every slot, and nothing      *)
(* else: what shared a batch with the run goes back to its lane, and an    *)
(* enqueue of the run that is still under way can no longer be committed.  *)
CancelRunIsExact ==
  [][\A r \in Runs : cancel_run(r) =>
       /\ \A i \in IntentIds :
            ist[i] \in Live => (ist'[i] \in Live <=> info[i].run # r)
       /\ \A s \in Slots :
            active'[s] # active[s] => \A i \in active[s].intents : ist'[i] \in {"Queued", "Cancelled"}
       /\ \A l \in leases : l \in leases' <=> l.run # r]_workVars
=============================================================================
