---------------------------- MODULE TeamRunProofs ----------------------------
(***************************************************************************)
(* A run and its work agree, for every value of the constants: any number  *)
(* of slots, runs and tasks whose summaries cross with each other.         *)
(***************************************************************************)
EXTENDS TeamRun, SlotWorkSteps

USE ConstantsAssumption, RunAssumption

\* The record says that the run is open; its work says that it should be.
Open(r) == run.id = r /\ is_active
Wanted(r) == LiveWork(r) /\ ~HasFailed(r)

\* A task that is about to cancel a run has nothing else to tell.
CancelFirst == \A t \in Tasks : task[t].cancel # NoRun => task[t].abort = NoRun /\ task[t].sums = {}

\* Work belongs to a run that was opened once, so that the id of a new run has none.
RunsAreUsed ==
  /\ run.id \in used \cup {NoRun}
  /\ \A i \in IntentIds : ist[i] # "Unborn" => info[i].run \in used \cup {NoRun}
  /\ \A l \in leases : l.run \in used \cup {NoRun}

\* What a task has still to tell is what is true, unless it was overtaken.
TellsCurrent ==
  \A r \in Runs : r \notin overtaken => \A t \in Tasks :
    /\ \A m \in task[t].sums : m.run = r => m = run_summary(r)
    /\ task[t].abort = r => ~LiveWork(r)

\* A run is not closed while it is wanted, whatever is still on its way.
WantedIsOpen == \A r \in Runs : r \notin overtaken /\ Wanted(r) => Open(r)

\* The inductive invariant.  That the record and the work of a settled run agree
\* is only preserved when the last summary to arrive is current and finds a run
\* that is open if it has to be.
Inv == /\ TypeOK /\ WorkOwnership /\ CancelFirst /\ RunsAreUsed
       /\ TellsCurrent /\ WantedIsOpen /\ RunAgreesWithWork
-----------------------------------------------------------------------------
(* Operations other than acquire_enqueue open no run again.                *)

\* New intents come from leases, finished ones stay so, and a failure is kept.
NoNewWork ==
  /\ leases' \subseteq leases
  /\ \A i \in IntentIds :
       /\ ist[i] # "Unborn" => ist'[i] # "Unborn" /\ info'[i] = info[i]
       /\ ist[i] = "Failed" => ist'[i] = "Failed"
       /\ ist'[i] \in Live => ist[i] \in Live \cup {"Unborn"}
       /\ ist[i] = "Unborn" /\ ist'[i] # "Unborn" => \E l \in leases : l.run = info'[i].run

\* An operation that moves live work only.
LEMMA LiveOnly ==
  ASSUME WorkTypeOK, info' = info, leases' \subseteq leases,
         \A i \in IntentIds : ist'[i] = ist[i] \/ (ist[i] \in Live /\ ist'[i] # "Unborn")
  PROVE  NoNewWork
  BY DEF NoNewWork, Live

\* The work of a run does not come back, and a failure is not forgotten.
LEMMA WorkOnlyEnds ==
  ASSUME WorkTypeOK, NoNewWork, NEW r
  PROVE  /\ LiveWork(r)' => LiveWork(r)
         /\ HasFailed(r) => HasFailed(r)'
<1>1. ASSUME LiveWork(r)' PROVE LiveWork(r)
  <2>1. CASE \E i \in OfRun(r)' : ist'[i] \in Live
    <3>1. PICK i \in IntentIds : ist'[i] # "Unborn" /\ info'[i].run = r /\ ist'[i] \in Live
      BY <2>1 DEF OfRun
    <3>2. CASE ist[i] = "Unborn"
      BY <3>1, <3>2 DEF NoNewWork, LiveWork
    <3>3. CASE ist[i] # "Unborn"
      <4>1. ist[i] \in Live /\ info[i].run = r
        BY <3>1, <3>3 DEF NoNewWork
      <4> QED BY <3>3, <4>1 DEF LiveWork, OfRun
    <3> QED BY <3>2, <3>3
  <2>2. CASE \E l \in leases' : l.run = r
    BY <2>2 DEF NoNewWork, LiveWork
  <2> QED BY <1>1, <2>1, <2>2 DEF LiveWork
<1>2. ASSUME HasFailed(r) PROVE HasFailed(r)'
  <2>1. PICK i \in IntentIds : ist[i] # "Unborn" /\ info[i].run = r /\ ist[i] = "Failed"
    BY <1>2 DEF HasFailed, OfRun
  <2>2. ist'[i] = "Failed" /\ ist'[i] # "Unborn" /\ info'[i].run = r
    BY <2>1 DEF NoNewWork
  <2> QED BY <2>2 DEF HasFailed, OfRun
<1> QED BY <1>1, <1>2

\* What a summary says of the run.
LEMMA SummaryFields ==
  ASSUME NEW r
  PROVE  /\ run_summary(r).run = r
         /\ run_summary(r).failed <=> HasFailed(r)
         /\ run_summary(r).work <=> LiveWork(r)
  BY DEF run_summary

LEMMA SummaryType ==
  ASSUME NEW r \in Runs
  PROVE  run_summary(r) \in RunWorkSummary
<1>1. HasFailed(r) \in BOOLEAN /\ LiveWork(r) \in BOOLEAN
      /\ (\E i \in OfRun(r) : ist[i] = "Running") \in BOOLEAN
  BY DEF HasFailed, LiveWork
<1> QED BY <1>1 DEF run_summary, RunWorkSummary

\* A summary that is the same says the same.
LEMMA SameSummary ==
  ASSUME NEW r, run_summary(r)' = run_summary(r)
  PROVE  /\ LiveWork(r)' <=> LiveWork(r)
         /\ HasFailed(r)' <=> HasFailed(r)
<1>1. (run_summary(r).work)' <=> LiveWork(r)'
  BY DEF run_summary
<1>2. (run_summary(r).failed)' <=> HasFailed(r)'
  BY DEF run_summary
<1> QED BY <1>1, <1>2, SummaryFields
-----------------------------------------------------------------------------
(* Publishing the summaries of an operation.                               *)

\* An operation that opens no work and publishes the runs R keeps the invariant.
LEMMA PublishInv ==
  ASSUME Inv, Good', NoNewWork, run' = run, used' = used,
         NEW t \in Tasks, task[t].abort = NoRun, task[t].sums = {},
         NEW R \in SUBSET Runs, NEW a \in Runs \cup {NoRun},
         publish_run_summaries(t, R, a),
         a # NoRun => a \in R /\ ~LiveWork(a)'
  PROVE  Inv'
<1>0. /\ WorkTypeOK
      /\ run \in [id : Runs \cup {NoRun}, status : ActiveStatus \cup EndedStatus \cup {"None"}]
      /\ used \subseteq Runs /\ overtaken \subseteq Runs /\ silent \subseteq Runs
      /\ task \in [Tasks -> Task]
  BY DEF Inv, TypeOK
<1> DEFINE told == [cancel |-> NoRun, abort |-> a, sums |-> {run_summary(r)' : r \in R}]
           touched == Touched(R)
<1>1. /\ task' = [task EXCEPT ![t] = told]
      /\ overtaken' = overtaken \cup {r \in touched : InFlight(r)}
      /\ silent' = (silent \cup touched) \ R
  BY DEF publish_run_summaries
<1>2. /\ touched \subseteq Runs
      /\ R \subseteq touched
      /\ \A r \in Runs : r \notin touched => run_summary(r)' = run_summary(r)
  BY DEF Touched
<1> HIDE DEF touched
<1>3. told \in Task
  <2>1. \A r \in R : run_summary(r)' \in RunWorkSummary
    <3> TAKE r \in R
    <3>1. HasFailed(r)' \in BOOLEAN /\ LiveWork(r)' \in BOOLEAN
          /\ (\E i \in OfRun(r)' : ist'[i] = "Running") \in BOOLEAN
      BY DEF HasFailed, LiveWork
    <3> QED BY <3>1 DEF run_summary, RunWorkSummary
  <2> QED BY <2>1 DEF Task
<1>4. TypeOK'
  <2>1. task' \in [Tasks -> Task]
    BY <1>0, <1>1, <1>3
  <2>2. overtaken' \subseteq Runs /\ silent' \subseteq Runs
    BY <1>0, <1>1, <1>2
  <2> QED BY <1>0, <2>1, <2>2 DEF TypeOK, Good
<1>5. /\ task'[t] = told
      /\ \A u \in Tasks : u # t => task'[u] = task[u]
  BY <1>0, <1>1
<1>6. /\ told.cancel = NoRun /\ told.abort = a
      /\ \A m \in told.sums : \E r \in R : m = run_summary(r)'
      /\ \A r \in R : run_summary(r)' \in told.sums
  OBVIOUS
<1> HIDE DEF told
<1>7. \A r : (run_summary(r).run)' = r
  BY DEF run_summary
<1>8. CancelFirst'
  BY <1>5, <1>6 DEF Inv, CancelFirst
<1>9. RunsAreUsed'
  <2>1. ASSUME NEW i \in IntentIds, ist'[i] # "Unborn" PROVE info'[i].run \in used \cup {NoRun}
    BY <2>1 DEF Inv, RunsAreUsed, NoNewWork
  <2>2. \A l \in leases' : l.run \in used \cup {NoRun}
    BY DEF Inv, RunsAreUsed, NoNewWork
  <2> QED BY <2>1, <2>2 DEF Inv, RunsAreUsed
<1>10. ASSUME NEW r \in Runs, r \notin overtaken', InFlight(r)
       PROVE  /\ r \notin overtaken /\ r \notin touched
              /\ LiveWork(r)' <=> LiveWork(r)
              /\ run_summary(r)' = run_summary(r)
  BY <1>1, <1>2, <1>10, SameSummary
<1>11. TellsCurrent'
  <2> SUFFICES ASSUME NEW r \in Runs, r \notin overtaken', NEW u \in Tasks
               PROVE  /\ \A m \in task'[u].sums : m.run = r => m = run_summary(r)'
                      /\ task'[u].abort = r => ~LiveWork(r)'
    BY DEF TellsCurrent
  <2>1. CASE u = t
    <3>1. ASSUME NEW m \in task'[u].sums, m.run = r PROVE m = run_summary(r)'
      <4>1. PICK q \in R : m = run_summary(q)'
        BY <2>1, <1>5, <1>6
      <4>2. q = r
        BY <4>1, <3>1, <1>7
      <4> QED BY <4>1, <4>2
    <3>2. task'[u].abort = r => ~LiveWork(r)'
      BY <2>1, <1>5, <1>6
    <3> QED BY <3>1, <3>2
  <2>2. CASE u # t
    <3>0. task'[u] = task[u]
      BY <2>2, <1>5
    <3>1. ASSUME NEW m \in task'[u].sums, m.run = r PROVE m = run_summary(r)'
      <4>1. InFlight(r)
        BY <3>0, <3>1 DEF InFlight
      <4>2. m = run_summary(r)
        BY <3>0, <3>1, <4>1, <1>10 DEF Inv, TellsCurrent
      <4> QED BY <4>1, <4>2, <1>10
    <3>2. ASSUME task'[u].abort = r PROVE ~LiveWork(r)'
      <4>1. InFlight(r)
        BY <3>0, <3>2 DEF InFlight
      <4>2. ~LiveWork(r)
        BY <3>0, <3>2, <4>1, <1>10 DEF Inv, TellsCurrent
      <4> QED BY <4>1, <4>2, <1>10
    <3> QED BY <3>1, <3>2
  <2> QED BY <2>1, <2>2
<1>12. \A r : Open(r)' <=> Open(r)
  BY DEF Open, is_active
<1>13. WantedIsOpen'
  <2> SUFFICES ASSUME NEW r \in Runs, r \notin overtaken', Wanted(r)'
               PROVE  Open(r)'
    BY DEF WantedIsOpen
  <2>1. LiveWork(r) /\ ~HasFailed(r)
    BY <1>0, WorkOnlyEnds DEF Wanted
  <2>2. r \notin overtaken
    BY <1>1
  <2> QED BY <2>1, <2>2, <1>12 DEF Inv, WantedIsOpen, Wanted
<1>14. RunAgreesWithWork'
  <2> SUFFICES ASSUME NEW r \in Runs, Settled(r)'
               PROVE  (run'.id = r /\ is_active') <=> (LiveWork(r)' /\ ~HasFailed(r)')
    BY DEF RunAgreesWithWork
  <2>1. r \notin overtaken' /\ r \notin silent' /\ ~InFlight(r)'
    BY DEF Settled
  <2>2. r \notin R
    <3> SUFFICES ASSUME r \in R PROVE FALSE
      OBVIOUS
    <3>1. run_summary(r)' \in task'[t].sums /\ (run_summary(r)').run = r
      BY <1>5, <1>6, <1>7
    <3> QED BY <3>1, <2>1 DEF InFlight
  <2>3. r \notin touched /\ r \notin silent /\ r \notin overtaken
    BY <2>1, <2>2, <1>1
  <2>4. ~InFlight(r)
    <3>1. \A u \in Tasks : u # t => task[u].abort # r /\ \A m \in task[u].sums : m.run # r
      BY <2>1, <1>5 DEF InFlight
    <3>2. r # NoRun
      OBVIOUS
    <3> QED BY <3>1, <3>2 DEF InFlight
  <2>5. Settled(r)
    BY <2>3, <2>4 DEF Settled
  <2>6. (LiveWork(r)' <=> LiveWork(r)) /\ (HasFailed(r)' <=> HasFailed(r))
    BY <2>3, <1>2, SameSummary
  <2> QED BY <2>5, <2>6, <1>12 DEF Inv, RunAgreesWithWork, Open
<1> QED BY <1>4, <1>8, <1>9, <1>11, <1>13, <1>14 DEF Inv, Good
-----------------------------------------------------------------------------
(* The operations, one by one.                                             *)

\* The active batch of a slot is a batch its owner may act on.
LEMMA BatchFacts ==
  ASSUME Good, NEW s \in Slots, active[s].op # 0
  PROVE  /\ Batch(s) \in WorkBatch /\ Copy(Batch(s))
         /\ Batch(s).slot = s /\ Batch(s).intents = active[s].intents
  BY DEF Good, WorkTypeOK, ActiveBatch, WorkBatch, Batch, Copy

\* What a batch holds is live.
LEMMA ActiveIsLive ==
  ASSUME Good, NEW s \in Slots
  PROVE  /\ \A i \in active[s].intents : i \in IntentIds /\ ist[i] \in Live
         /\ \A i \in queued_ids(s) : i \in IntentIds /\ ist[i] \in Live
  BY DEF Good, WorkOwnership, ActiveInPlace, QueuedInPlace, queued_ids, Live

\* The runs of known intents are runs.
LEMMA RunsOfIsRuns ==
  ASSUME WorkTypeOK, NEW S \in SUBSET IntentIds
  PROVE  RunsOf(S) \in SUBSET Runs
  BY DEF WorkTypeOK, WorkIntent, RunsOf

LEMMA CommitNoNew ==
  ASSUME Good, NEW l \in leases, NEW m \in Msgs, commit_enqueue(l, m)
  PROVE  NoNewWork
<1>1. PICK i \in IntentIds :
       /\ Fresh(i)
       /\ SetState({i}, "Queued")
       /\ info' = [info EXCEPT ![i] = [slot |-> l.slot, source |-> l.source,
                                       msg |-> m, run |-> l.run]]
  BY DEF commit_enqueue
<1>2. /\ ist[i] = "Unborn" /\ ist'[i] = "Queued" /\ info'[i].run = l.run
      /\ \A j \in IntentIds : j # i => ist'[j] = ist[j] /\ info'[j] = info[j]
  BY <1>1 DEF Fresh, SetState, Good, WorkTypeOK
<1>3. leases' \subseteq leases
  BY DEF commit_enqueue
<1> QED BY <1>2, <1>3 DEF NoNewWork

LEMMA BatchNoNew ==
  ASSUME Good, NEW s \in Slots, active[s].op # 0,
         \/ mark_started(Batch(s)) \/ retry_start(Batch(s))
         \/ complete_batch_with_ack(Batch(s)) \/ fail_batch(Batch(s))
  PROVE  NoNewWork
<1> DEFINE b == Batch(s)
<1>1. b.intents = active[s].intents /\ b.slot = s
  BY BatchFacts
<1>2. \A i \in b.intents : i \in IntentIds /\ ist[i] \in Live
  BY <1>1, ActiveIsLive
<1> HIDE DEF b
<1>3. CASE mark_started(b)
  <2>1. info' = info /\ leases' = leases /\ SetState(b.intents, "Running")
    BY <1>3 DEF mark_started
  <2> QED BY <2>1, <1>2, LiveOnly DEF SetState, Good
<1>4. CASE retry_start(b)
  <2>1. info' = info /\ leases' = leases /\ SetState(b.intents, "Queued")
    BY <1>4 DEF retry_start
  <2> QED BY <2>1, <1>2, LiveOnly DEF SetState, Good
<1>5. CASE complete_batch_with_ack(b)
  <2> DEFINE done == b.intents \cup {i \in LiveOf(b.slot) : info[i].msg \in active[b.slot].observed}
  <2>1. info' = info /\ leases' = leases /\ SetState(done, "Completed")
    BY <1>5 DEF complete_batch_with_ack
  <2>2. \A i \in done : ist[i] \in Live
    BY <1>2 DEF LiveOf
  <2> HIDE DEF done
  <2> QED BY <2>1, <2>2, LiveOnly DEF SetState, Good
<1>6. CASE fail_batch(b)
  <2>1. info' = info /\ leases' = leases /\ SetState(b.intents, "Failed")
    BY <1>6 DEF fail_batch
  <2> QED BY <2>1, <1>2, LiveOnly DEF SetState, Good
<1> QED BY <1>3, <1>4, <1>5, <1>6 DEF b

LEMMA NextNoNew ==
  ASSUME Good, NEW s \in Slots, next(s)
  PROVE  NoNewWork
<1>1. PICK l \in Lanes : /\ SetState(LeadingRun(s, l), "Starting")
                         /\ info' = info /\ leases' = leases
  BY DEF next
<1>2. \A i \in LeadingRun(s, l) : ist[i] \in Live
  BY DEF LeadingRun, Good, WorkOwnership, QueuedInPlace, Live
<1> QED BY <1>1, <1>2, LiveOnly DEF SetState, Good

LEMMA RemoveNoNew ==
  ASSUME Good, NEW s \in Slots, remove_slot(s)
  PROVE  NoNewWork
<1> DEFINE gone == active[s].intents \cup queued_ids(s) \cup LiveOf(s)
<1>1. info' = info /\ leases' = leases /\ SetState(gone, "Cancelled")
  BY DEF remove_slot
<1>2. \A i \in gone : ist[i] \in Live
  BY ActiveIsLive DEF LiveOf
<1> HIDE DEF gone
<1> QED BY <1>1, <1>2, LiveOnly DEF SetState, Good

LEMMA ConstrainNoNew ==
  ASSUME Good, NEW s \in Slots, NEW c, set_runtime_constraint(s, c)
  PROVE  NoNewWork
<1>1. info' = info /\ leases' = leases
  BY DEF set_runtime_constraint
<1>2. \A i \in IntentIds : ist'[i] = ist[i] \/ (ist[i] \in Live /\ ist'[i] # "Unborn")
  BY DEF set_runtime_constraint, LiveOf, Good, WorkTypeOK
<1> QED BY <1>1, <1>2, LiveOnly DEF Good

LEMMA DiscardNoNew ==
  ASSUME Good, NEW s \in Slots, NEW m, discard_queued_except(s, m)
  PROVE  NoNewWork
<1>1. info' = info /\ leases' = leases /\ SetState(Discarded(s, m), "Cancelled")
  BY DEF discard_queued_except
<1>2. \A i \in Discarded(s, m) : ist[i] \in Live
  BY ActiveIsLive DEF Discarded
<1> QED BY <1>1, <1>2, LiveOnly DEF SetState, Good

LEMMA StopNoNew ==
  ASSUME Good, stop
  PROVE  NoNewWork
<1>1. info' = info /\ leases' = {} /\ SetState({i \in IntentIds : ist[i] \in Live}, "Cancelled")
  BY DEF stop
<1> QED BY <1>1, LiveOnly DEF SetState, Good

LEMMA CancelRunNoNew ==
  ASSUME Good, NEW r \in Runs, cancel_run(r)
  PROVE  NoNewWork
<1> DEFINE back == UNION {Retained(s, r) : s \in Slots}
           dead == {i \in OfRun(r) : ist[i] \in Live}
<1>1. /\ info' = info /\ leases' \subseteq leases
      /\ ist' = [i \in IntentIds |-> IF i \in dead THEN "Cancelled"
                                     ELSE IF i \in back THEN "Queued" ELSE ist[i]]
  BY DEF cancel_run
<1>2. \A i \in back : ist[i] \in Live
  BY ActiveIsLive DEF Retained
<1>3. \A i \in dead : ist[i] \in Live
  OBVIOUS
<1> HIDE DEF back, dead
<1> QED BY <1>1, <1>2, <1>3, LiveOnly DEF Good
-----------------------------------------------------------------------------
(* The steps of TeamRun.                                                   *)

\* A run that binds an enqueue: it is open or inherited, or it is new.
LEMMA AcquireInv ==
  ASSUME Inv, Acquire
  PROVE  Inv'
<1>0. /\ WorkTypeOK /\ Good
      /\ run \in [id : Runs \cup {NoRun}, status : ActiveStatus \cup EndedStatus \cup {"None"}]
      /\ used \subseteq Runs /\ overtaken \subseteq Runs
  BY DEF Inv, TypeOK, Good
<1>1. PICK id \in LeaseIds, s \in Slots, c \in Slots, src \in Sources, b \in Bindings,
           r \in Runs \cup {NoRun} :
        /\ acquire_enqueue(id, s, src, r)
        /\ bind_enqueue(b, c, r)
        /\ overtaken' = overtaken \cup {q \in {r} \ {NoRun} : InFlight(q)}
        /\ UNCHANGED <<task, silent>>
  BY DEF Acquire
<1> DEFINE lease == [id |-> id, slot |-> s, source |-> src, run |-> r]
<1>2. /\ leases' = leases \cup {lease} /\ lease.run = r
      /\ ist' = ist /\ info' = info
  BY <1>1 DEF acquire_enqueue, intentVars
<1> HIDE DEF lease
<1>3. Good'
  <2>1. src \in AllSources
    OBVIOUS
  <2> QED BY <1>0, <1>1, <2>1, AcquireGood
<1>4. /\ \A q : HasFailed(q)' <=> HasFailed(q)
      /\ \A q : q # r => (LiveWork(q)' <=> LiveWork(q))
      /\ LiveWork(r)'
      /\ \A q : InFlight(q)' <=> InFlight(q)
  <2>1. \A q : OfRun(q)' = OfRun(q)
    BY <1>2 DEF OfRun
  <2>2. \A q : HasFailed(q)' <=> HasFailed(q)
    BY <1>2, <2>1 DEF HasFailed
  <2>3. \A q : LiveWork(q)' <=> (LiveWork(q) \/ q = r)
    BY <1>2, <2>1 DEF LiveWork
  <2>4. \A q : InFlight(q)' <=> InFlight(q)
    BY <1>1 DEF InFlight
  <2> QED BY <2>2, <2>3, <2>4
<1>5. \A q : q # r => run_summary(q)' = run_summary(q)
  <2> SUFFICES ASSUME NEW q, q # r PROVE run_summary(q)' = run_summary(q)
    OBVIOUS
  <2>1. OfRun(q)' = OfRun(q)
    BY <1>2 DEF OfRun
  <2>2. HasFailed(q)' = HasFailed(q)
    BY <1>2, <2>1 DEF HasFailed
  <2>3. LiveWork(q)' = LiveWork(q)
    BY <1>2, <2>1 DEF LiveWork
  <2>4. (\E i \in OfRun(q)' : ist'[i] = "Running") = (\E i \in OfRun(q) : ist[i] = "Running")
    BY <1>2, <2>1
  <2> QED BY <2>2, <2>3, <2>4 DEF run_summary
\* The three ways of binding.
<1>6. \/ r = NoRun /\ run' = run /\ used' = used
      \/ r = run.id /\ is_active /\ run' = run /\ used' = used
      \/ r \in Runs /\ LiveWork(r) /\ r \in used /\ run' = run /\ used' = used
      \/ /\ ~is_active /\ r \in Runs \ used
         /\ run' = [id |-> r, status |-> "Accepted"] /\ used' = used \cup {r}
  <2>1. CASE r \in Inherited(c) /\ run' = run /\ used' = used
    <3>1. PICK i \in active[c].intents : info[i].run = r /\ r # NoRun
      BY <2>1 DEF Inherited, RunsOf
    <3>2. i \in IntentIds /\ ist[i] \in Live
      BY <1>0, ActiveIsLive
    <3>3. ist[i] # "Unborn"
      BY <3>2 DEF Live
    <3>4. LiveWork(r)
      BY <3>1, <3>2, <3>3 DEF LiveWork, OfRun
    <3>5. r \in used
      BY <3>1, <3>2, <3>3 DEF Inv, RunsAreUsed
    <3> QED BY <2>1, <3>1, <3>4, <3>5, <1>0
  <2>2. CASE AttachOrCreate(r)
    BY <2>2, <1>0 DEF AttachOrCreate
  <2> QED BY <1>1, <2>1, <2>2 DEF bind_enqueue
<1>7. TypeOK'
  <2>1. /\ run' \in [id : Runs \cup {NoRun}, status : ActiveStatus \cup EndedStatus \cup {"None"}]
        /\ used' \subseteq Runs
    BY <1>0, <1>6 DEF ActiveStatus
  <2>2. overtaken' \subseteq Runs
    BY <1>0, <1>1
  <2> QED BY <1>1, <1>3, <2>1, <2>2 DEF Inv, TypeOK, Good
<1>8. CancelFirst'
  BY <1>1 DEF Inv, CancelFirst
<1>9. RunsAreUsed'
  <2>1. used \subseteq used' /\ run'.id \in used' \cup {NoRun} /\ r \in used' \cup {NoRun}
    BY <1>6 DEF Inv, RunsAreUsed
  <2> QED BY <2>1, <1>2 DEF Inv, RunsAreUsed
<1>10. ASSUME NEW q \in Runs, q \notin overtaken'
       PROVE  q \notin overtaken /\ (q = r => ~InFlight(q))
  BY <1>1, <1>10
<1>11. TellsCurrent'
  <2> SUFFICES ASSUME NEW q \in Runs, q \notin overtaken', NEW u \in Tasks
               PROVE  /\ \A m \in task'[u].sums : m.run = q => m = run_summary(q)'
                      /\ task'[u].abort = q => ~LiveWork(q)'
    BY DEF TellsCurrent
  <2>0. task' = task
    BY <1>1
  <2>1. CASE q = r
    BY <2>0, <2>1, <1>10 DEF InFlight
  <2>2. CASE q # r
    BY <2>0, <2>2, <1>4, <1>5, <1>10 DEF Inv, TellsCurrent
  <2> QED BY <2>1, <2>2
\* The record is kept open, or was not open for any run.
<1>12. \A q \in Runs : q # r => (Open(q)' <=> Open(q))
  <2> SUFFICES ASSUME NEW q \in Runs, q # r PROVE Open(q)' <=> Open(q)
    OBVIOUS
  <2>1. CASE run' = run
    BY <2>1 DEF Open, is_active
  <2>2. CASE ~is_active /\ run' = [id |-> r, status |-> "Accepted"]
    BY <2>2 DEF Open
  <2> QED BY <2>1, <2>2, <1>6
<1>13. ASSUME r \in Runs, r \notin overtaken, Wanted(r)'
       PROVE  Open(r)'
  <2>1. CASE r = run.id /\ is_active /\ run' = run
    BY <2>1 DEF Open, is_active
  <2>2. CASE LiveWork(r) /\ run' = run
    <3>1. Wanted(r)
      BY <2>2, <1>4, <1>13 DEF Wanted
    <3> QED BY <2>2, <3>1, <1>13 DEF Inv, WantedIsOpen, Open, is_active
  <2>3. CASE run' = [id |-> r, status |-> "Accepted"]
    BY <2>3 DEF Open, is_active, ActiveStatus
  <2> QED BY <1>6, <1>13, <2>1, <2>2, <2>3
<1>14. WantedIsOpen'
  <2> SUFFICES ASSUME NEW q \in Runs, q \notin overtaken', Wanted(q)'
               PROVE  Open(q)'
    BY DEF WantedIsOpen
  <2>1. CASE q = r
    BY <2>1, <1>10, <1>13
  <2>2. CASE q # r
    <3>1. Wanted(q)
      BY <2>2, <1>4 DEF Wanted
    <3> QED BY <2>2, <3>1, <1>10, <1>12 DEF Inv, WantedIsOpen
  <2> QED BY <2>1, <2>2
<1>15. RunAgreesWithWork'
  <2> SUFFICES ASSUME NEW q \in Runs, Settled(q)'
               PROVE  Open(q)' <=> (LiveWork(q)' /\ ~HasFailed(q)')
    BY DEF RunAgreesWithWork, Open
  <2>1. Settled(q)
    BY <1>1, <1>4 DEF Settled
  <2>2. Open(q) <=> Wanted(q)
    BY <2>1 DEF Inv, RunAgreesWithWork, Open, Wanted
  <2>3. CASE q # r
    BY <2>2, <2>3, <1>4, <1>12 DEF Wanted
  <2>4. CASE q = r
    <3>1. LiveWork(q)'
      BY <2>4, <1>4
    <3>2. ASSUME ~HasFailed(q)' PROVE Open(q)'
      BY <3>1, <3>2, <2>1, <2>4, <1>13 DEF Wanted, Settled
    <3>3. ASSUME Open(q)' PROVE ~HasFailed(q)
      <4>1. CASE run' = run
        BY <3>3, <4>1, <2>2 DEF Open, Wanted, is_active
      <4>2. CASE r \notin used
        BY <4>2, <2>4 DEF HasFailed, OfRun, Inv, RunsAreUsed
      <4> QED BY <4>1, <4>2, <1>6
    <3> QED BY <3>1, <3>2, <3>3, <1>4
  <2> QED BY <2>3, <2>4
<1> QED BY <1>3, <1>7, <1>8, <1>9, <1>11, <1>14, <1>15 DEF Inv, Good

\* A step of the manager leaves the coordinator, and what is true of the work.
LEMMA ManagerFrame ==
  ASSUME Inv, UNCHANGED workVars
  PROVE  /\ WorkTypeOK' /\ WorkOwnership'
         /\ ist' = ist /\ info' = info /\ leases' = leases
         /\ \A r : run_summary(r)' = run_summary(r)
         /\ \A r : (LiveWork(r)' <=> LiveWork(r)) /\ (HasFailed(r)' <=> HasFailed(r))
<1>0. WorkTypeOK /\ WorkOwnership
  BY DEF Inv, TypeOK
<1>1. ist' = ist /\ info' = info /\ queue' = queue /\ active' = active /\ leases' = leases
  BY DEF workVars, intentVars, slotVars
<1>2. WorkTypeOK'
  BY <1>0 DEF WorkTypeOK, workVars, intentVars, slotVars
<1>3. WorkOwnership'
  BY <1>0, <1>1, FrameOwnership
<1>4. \A r : OfRun(r)' = OfRun(r)
  BY <1>1 DEF OfRun
<1>5. \A r : run_summary(r)' = run_summary(r)
  BY <1>1, <1>4 DEF run_summary, LiveWork, HasFailed
<1>6. \A r : (LiveWork(r)' <=> LiveWork(r)) /\ (HasFailed(r)' <=> HasFailed(r))
  BY <1>5, SameSummary
<1> QED BY <1>1, <1>2, <1>3, <1>5, <1>6

\* A call of the coordinator by a task that has nothing to tell.
LEMMA CallInv ==
  ASSUME Inv, NEW t \in Tasks, Call(t)
  PROVE  Inv'
<1>0. WorkTypeOK /\ Good
  BY DEF Inv, TypeOK, Good
<1>1. task[t].abort = NoRun /\ task[t].sums = {}
  BY DEF Call, Rest
<1>2. CASE Commit(t)
  <2>1. PICK l \in leases, m \in Msgs :
          /\ commit_enqueue(l, m)
          /\ publish_run_summaries(t, {l.run} \ {NoRun}, NoRun)
          /\ UNCHANGED <<run, used>>
    BY <1>2 DEF Commit
  <2>2. Good'
    BY <1>0, <2>1, CommitGood
  <2>3. {l.run} \ {NoRun} \in SUBSET Runs
    BY <1>0 DEF WorkTypeOK, EnqueueLease
  <2> QED BY <1>0, <1>1, <2>1, <2>2, <2>3, CommitNoNew, PublishInv
<1>3. CASE Abort(t)
  <2>1. PICK l \in leases :
          /\ abort_enqueue(l)
          /\ publish_run_summaries(t, {l.run} \ {NoRun},
                                  IF remove_empty_run(l) THEN l.run ELSE NoRun)
          /\ UNCHANGED <<run, used>>
    BY <1>3 DEF Abort
  <2>2. Good'
    BY <1>0, <2>1, AbortGood
  <2>3. {l.run} \ {NoRun} \in SUBSET Runs /\ l.run \in Runs \cup {NoRun}
    BY <1>0 DEF WorkTypeOK, EnqueueLease
  <2>4. info' = info /\ ist' = ist /\ leases' = leases \ {l}
    BY <2>1 DEF abort_enqueue, intentVars
  <2>5. NoNewWork
    BY <1>0, <2>4, LiveOnly
  <2>6. CASE remove_empty_run(l)
    <3>1. l.run # NoRun /\ OfRun(l.run) = {} /\ \A k \in leases \ {l} : k.run # l.run
      BY <2>6 DEF remove_empty_run
    <3>2. OfRun(l.run)' = {}
      BY <3>1, <2>4 DEF OfRun
    <3>3. ~LiveWork(l.run)'
      BY <3>1, <3>2, <2>4 DEF LiveWork
    <3>4. publish_run_summaries(t, {l.run} \ {NoRun}, l.run)
      BY <2>1, <2>6
    <3> QED BY <1>1, <2>1, <2>2, <2>3, <2>5, <3>1, <3>3, <3>4, PublishInv
  <2>7. CASE ~remove_empty_run(l)
    <3>1. publish_run_summaries(t, {l.run} \ {NoRun}, NoRun)
      BY <2>1, <2>7
    <3> QED BY <1>1, <2>1, <2>2, <2>3, <2>5, <3>1, PublishInv
  <2> QED BY <2>6, <2>7
<1>4. CASE OnBatch(t)
  <2>1. PICK s \in Slots :
          /\ active[s].op # 0
          /\ \/ mark_started(Batch(s)) \/ retry_start(Batch(s))
             \/ complete_batch_with_ack(Batch(s)) \/ fail_batch(Batch(s))
          /\ publish_run_summaries(t, RunsOf(Changed), NoRun)
          /\ UNCHANGED <<run, used>>
    BY <1>4 DEF OnBatch
  <2>2. NoNewWork
    BY <1>0, <2>1, BatchNoNew
  <2>3. Batch(s) \in WorkBatch /\ Copy(Batch(s))
    BY <1>0, <2>1, BatchFacts
  <2>4. Good'
    <3>1. CASE mark_started(Batch(s))
      BY <1>0, <2>3, <3>1, MarkStartedGood
    <3>2. CASE retry_start(Batch(s))
      BY <1>0, <2>3, <3>2, RetryGood
    <3>3. CASE complete_batch_with_ack(Batch(s))
      BY <1>0, <2>3, <3>3, CompleteGood
    <3>4. CASE fail_batch(Batch(s))
      BY <1>0, <2>3, <3>4, FailGood
    <3> QED BY <2>1, <3>1, <3>2, <3>3, <3>4
  <2>5. RunsOf(Changed) \in SUBSET Runs
    BY <1>0, RunsOfIsRuns DEF Changed
  <2> QED BY <1>1, <2>1, <2>2, <2>4, <2>5, PublishInv
<1>5. CASE Claim(t)
  <2>1. PICK s \in Slots :
          /\ next(s)
          /\ publish_run_summaries(t, RunsOf(active'[s].intents), NoRun)
          /\ UNCHANGED <<run, used>>
    BY <1>5 DEF Claim
  <2>2. Good' /\ NoNewWork
    BY <1>0, <2>1, NextGood, NextNoNew
  <2>3. active'[s].intents \subseteq IntentIds
    BY <2>2 DEF Good, WorkTypeOK, ActiveBatch
  <2>4. RunsOf(active'[s].intents) \in SUBSET Runs
    BY <1>0, <2>3, RunsOfIsRuns
  <2> QED BY <1>1, <2>1, <2>2, <2>4, PublishInv
<1>6. CASE OnSlot(t)
  <2> DEFINE c == [kind |-> "Failed", op |-> 0]
  <2>1. PICK s \in Slots :
          /\ remove_slot(s) \/ set_runtime_constraint(s, c)
          /\ publish_run_summaries(t, RunsOf(Changed), NoRun)
          /\ UNCHANGED <<run, used>>
    BY <1>6 DEF OnSlot
  <2>2. c \in RuntimeConstraint
    BY DEF RuntimeConstraint
  <2> HIDE DEF c
  <2>3. Good' /\ NoNewWork
    <3>1. CASE remove_slot(s)
      BY <1>0, <3>1, RemoveGood, RemoveNoNew
    <3>2. CASE set_runtime_constraint(s, c)
      BY <1>0, <2>2, <3>2, ConstrainGood, ConstrainNoNew
    <3> QED BY <2>1, <3>1, <3>2
  <2>4. RunsOf(Changed) \in SUBSET Runs
    BY <1>0, RunsOfIsRuns DEF Changed
  <2> QED BY <1>1, <2>1, <2>3, <2>4, PublishInv
<1>7. CASE Discard(t)
  <2>1. PICK s \in Slots, m \in Msgs : discard_queued_except(s, m)
    BY <1>7 DEF Discard
  <2>2. publish_run_summaries(t, {}, NoRun) /\ UNCHANGED <<run, used>>
    BY <1>7 DEF Discard
  <2>3. Good' /\ NoNewWork
    BY <1>0, <2>1, DiscardGood, DiscardNoNew
  <2> QED BY <1>1, <2>2, <2>3, PublishInv
<1>8. CASE Stop(t)
  <2> DEFINE R == {r \in Runs : OfRun(r) # {} \/ \E l \in leases : l.run = r}
  <2>1. stop /\ publish_run_summaries(t, R, NoRun) /\ UNCHANGED <<run, used>>
    BY <1>8 DEF Stop
  <2>2. Good' /\ NoNewWork
    BY <1>0, <2>1, StopGood, StopNoNew
  <2>3. R \in SUBSET Runs
    OBVIOUS
  <2> HIDE DEF R
  <2> QED BY <1>1, <2>1, <2>2, <2>3, PublishInv
<1>9. CASE begin_cancel(t)
  <2>1. /\ is_active
        /\ run' = [run EXCEPT !.status = "Cancelling"]
        /\ task' = [task EXCEPT ![t].cancel = run.id]
        /\ UNCHANGED <<workVars, used, overtaken, silent>>
    BY <1>9 DEF begin_cancel
  <2>2. /\ run \in [id : Runs \cup {NoRun}, status : ActiveStatus \cup EndedStatus \cup {"None"}]
        /\ task \in [Tasks -> Task]
    BY DEF Inv, TypeOK
  <2>3. /\ run'.id = run.id /\ run'.status = "Cancelling"
        /\ run' \in [id : Runs \cup {NoRun}, status : ActiveStatus \cup EndedStatus \cup {"None"}]
    BY <2>1, <2>2 DEF ActiveStatus
  <2>4. /\ task' \in [Tasks -> Task]
        /\ \A u \in Tasks : task'[u].abort = task[u].abort /\ task'[u].sums = task[u].sums
        /\ \A u \in Tasks : u # t => task'[u] = task[u]
    BY <2>1, <2>2, <2>3 DEF Task
  <2>5. used' = used /\ overtaken' = overtaken /\ silent' = silent
    BY <2>1
  <2>6. /\ WorkTypeOK' /\ WorkOwnership'
        /\ ist' = ist /\ info' = info /\ leases' = leases
    BY <2>1, ManagerFrame
  <2>7. TypeOK'
    BY <2>3, <2>4, <2>5, <2>6 DEF Inv, TypeOK
  <2>8. CancelFirst'
    BY <1>1, <2>4 DEF Inv, CancelFirst
  <2>9. RunsAreUsed'
    BY <2>3, <2>5, <2>6 DEF Inv, RunsAreUsed
  <2>10. \A r : run_summary(r)' = run_summary(r)
    BY <2>1, ManagerFrame
  <2>11. \A r : (LiveWork(r)' <=> LiveWork(r)) /\ (HasFailed(r)' <=> HasFailed(r))
    BY <2>1, ManagerFrame
  <2>12. \A r : (Open(r)' <=> Open(r)) /\ (InFlight(r)' <=> InFlight(r))
    BY <2>1, <2>3, <2>4 DEF Open, is_active, InFlight, ActiveStatus
  <2>13. TellsCurrent'
    BY <2>4, <2>5, <2>10, <2>11 DEF Inv, TellsCurrent
  <2>14. WantedIsOpen'
    BY <2>5, <2>11, <2>12 DEF Inv, WantedIsOpen, Wanted
  <2>15. RunAgreesWithWork'
    <3> SUFFICES ASSUME NEW r \in Runs, Settled(r)'
                 PROVE  Open(r)' <=> (LiveWork(r)' /\ ~HasFailed(r)')
      BY DEF RunAgreesWithWork, Open
    <3>1. Settled(r)
      BY <2>5, <2>12 DEF Settled
    <3> QED BY <3>1, <2>11, <2>12 DEF Inv, RunAgreesWithWork, Open
  <2> QED BY <2>6, <2>7, <2>8, <2>9, <2>13, <2>14, <2>15 DEF Inv
<1> QED BY <1>2, <1>3, <1>4, <1>5, <1>6, <1>7, <1>8, <1>9 DEF Call

\* Dropping the record of an empty run.
LEMMA AbortBindingInv ==
  ASSUME Inv, NEW t \in Tasks, abort_binding(t)
  PROVE  Inv'
<1>1. /\ task[t].abort # NoRun
      /\ run' = IF run.id = task[t].abort THEN NoRecord ELSE run
      /\ task' = [task EXCEPT ![t].abort = NoRun]
      /\ UNCHANGED workVars
      /\ used' = used /\ overtaken' = overtaken /\ silent' = silent
  BY DEF abort_binding
<1>2. /\ run \in [id : Runs \cup {NoRun}, status : ActiveStatus \cup EndedStatus \cup {"None"}]
      /\ task \in [Tasks -> Task]
  BY DEF Inv, TypeOK
<1>3. /\ WorkTypeOK' /\ WorkOwnership'
      /\ ist' = ist /\ info' = info /\ leases' = leases
      /\ \A r : run_summary(r)' = run_summary(r)
      /\ \A r : (LiveWork(r)' <=> LiveWork(r)) /\ (HasFailed(r)' <=> HasFailed(r))
  BY <1>1, ManagerFrame
<1>4. /\ task' \in [Tasks -> Task]
      /\ \A u \in Tasks : task'[u].cancel = task[u].cancel /\ task'[u].sums = task[u].sums
      /\ \A u \in Tasks : task'[u].abort = task[u].abort \/ (u = t /\ task'[u].abort = NoRun)
  BY <1>1, <1>2 DEF Task
<1>5. TypeOK'
  <2>1. run' \in [id : Runs \cup {NoRun}, status : ActiveStatus \cup EndedStatus \cup {"None"}]
    BY <1>1, <1>2 DEF NoRecord
  <2> QED BY <1>1, <1>3, <1>4, <2>1 DEF Inv, TypeOK
<1>6. CancelFirst'
  BY <1>4 DEF Inv, CancelFirst
<1>7. RunsAreUsed'
  BY <1>1, <1>3 DEF Inv, RunsAreUsed, NoRecord
<1>8. TellsCurrent'
  <2> SUFFICES ASSUME NEW r \in Runs, r \notin overtaken, NEW u \in Tasks
               PROVE  /\ \A m \in task'[u].sums : m.run = r => m = run_summary(r)'
                      /\ task'[u].abort = r => ~LiveWork(r)'
    BY <1>1 DEF TellsCurrent
  <2> QED BY <1>3, <1>4 DEF Inv, TellsCurrent
\* The run that is dropped is not wanted, unless the task was overtaken.
<1>9. \A r \in Runs : r \notin overtaken /\ task[t].abort = r => ~Wanted(r)
  BY DEF Inv, TellsCurrent, Wanted
<1>10. \A r \in Runs : task[t].abort # r => (Open(r)' <=> Open(r))
  BY <1>1 DEF Open, is_active, NoRecord
<1>11. \A r \in Runs : task[t].abort = r => ~Open(r)'
  BY <1>1 DEF Open, NoRecord
<1>12. WantedIsOpen'
  BY <1>1, <1>3, <1>9, <1>10 DEF Inv, WantedIsOpen, Wanted
<1>13. RunAgreesWithWork'
  <2> SUFFICES ASSUME NEW r \in Runs, Settled(r)'
               PROVE  Open(r)' <=> Wanted(r)'
    BY DEF RunAgreesWithWork, Open, Wanted
  <2>1. r \notin overtaken /\ r \notin silent /\ ~InFlight(r)'
    BY <1>1 DEF Settled
  <2>2. CASE task[t].abort = r
    BY <2>1, <2>2, <1>3, <1>9, <1>11 DEF Wanted
  <2>3. CASE task[t].abort # r
    <3>1. ~InFlight(r)
      BY <2>1, <2>3, <1>4 DEF InFlight
    <3> QED BY <2>1, <2>3, <3>1, <1>3, <1>10 DEF Inv, RunAgreesWithWork, Settled, Open, Wanted
  <2> QED BY <2>2, <2>3
<1> QED BY <1>3, <1>5, <1>6, <1>7, <1>8, <1>12, <1>13 DEF Inv

\* What a summary that was not overtaken makes of the record: it is open
\* afterwards exactly if the run is wanted.
LEMMA SummaryApplied ==
  ASSUME Inv, NEW t \in Tasks, NEW m \in task[t].sums, m.run \notin overtaken, run.id = m.run
  PROVE  /\ StatusAfter(m) \in ActiveStatus <=> Wanted(m.run)
         /\ ~is_active => StatusAfter(m) \in EndedStatus
<1>1. m.run \in Runs
  BY DEF Inv, TypeOK, Task, RunWorkSummary
<1>2. (m.failed <=> HasFailed(m.run)) /\ (m.work <=> LiveWork(m.run))
  <2>1. m = run_summary(m.run)
    BY <1>1 DEF Inv, TellsCurrent
  <2>2. /\ run_summary(m.run).failed <=> HasFailed(m.run)
        /\ run_summary(m.run).work <=> LiveWork(m.run)
    BY SummaryFields
  <2> QED BY <2>1, <2>2
<1>3. Wanted(m.run) => is_active
  BY <1>1 DEF Inv, WantedIsOpen, Open
<1>4. CASE Wanted(m.run)
  <2>1. ~m.failed /\ m.work
    BY <1>2, <1>4 DEF Wanted
  <2>2. StatusAfter(m) = "Running" \/ StatusAfter(m) = run.status
    BY <2>1 DEF StatusAfter
  <2> QED BY <1>3, <1>4, <2>2 DEF is_active, ActiveStatus
<1>5. CASE ~Wanted(m.run)
  <2>1. m.failed \/ ~m.work
    BY <1>2, <1>5 DEF Wanted
  <2>2. StatusAfter(m) \in EndedStatus
    BY <2>1 DEF StatusAfter, EndedStatus
  <2> QED BY <1>5, <2>2 DEF ActiveStatus, EndedStatus
<1> QED BY <1>3, <1>4, <1>5

\* A summary arrives at the manager.
LEMMA ApplyInv ==
  ASSUME Inv, NEW t \in Tasks, apply_work_summary(t)
  PROVE  Inv'
<1>1. PICK m \in task[t].sums :
        /\ run' = IF run.id = m.run THEN [run EXCEPT !.status = StatusAfter(m)] ELSE run
        /\ task' = [task EXCEPT ![t].sums = @ \ {m}]
        /\ UNCHANGED workVars
        /\ used' = used /\ overtaken' = overtaken /\ silent' = silent
  BY DEF apply_work_summary
<1>2. /\ run \in [id : Runs \cup {NoRun}, status : ActiveStatus \cup EndedStatus \cup {"None"}]
      /\ task \in [Tasks -> Task]
      /\ m.run \in Runs
  BY DEF Inv, TypeOK, Task, RunWorkSummary
<1>3. /\ WorkTypeOK' /\ WorkOwnership'
      /\ ist' = ist /\ info' = info /\ leases' = leases
      /\ \A r : run_summary(r)' = run_summary(r)
      /\ \A r : (LiveWork(r)' <=> LiveWork(r)) /\ (HasFailed(r)' <=> HasFailed(r))
  BY <1>1, ManagerFrame
<1>4. /\ task' \in [Tasks -> Task]
      /\ \A u \in Tasks : task'[u].cancel = task[u].cancel /\ task'[u].abort = task[u].abort
      /\ \A u \in Tasks : task'[u].sums \subseteq task[u].sums
      /\ \A u \in Tasks : \A n : n \in task[u].sums /\ n # m => n \in task'[u].sums
  BY <1>1, <1>2 DEF Task
<1>5. run'.id = run.id
  BY <1>1, <1>2
<1>6. TypeOK'
  <2>1. StatusAfter(m) \in ActiveStatus \cup EndedStatus \cup {"None"}
    BY <1>2 DEF StatusAfter, ActiveStatus, EndedStatus
  <2>2. run' \in [id : Runs \cup {NoRun}, status : ActiveStatus \cup EndedStatus \cup {"None"}]
    BY <1>1, <1>2, <2>1
  <2> QED BY <1>1, <1>3, <1>4, <2>2 DEF Inv, TypeOK
<1>7. CancelFirst'
  BY <1>4 DEF Inv, CancelFirst
<1>8. RunsAreUsed'
  BY <1>1, <1>3, <1>5 DEF Inv, RunsAreUsed
<1>9. TellsCurrent'
  <2> SUFFICES ASSUME NEW r \in Runs, r \notin overtaken, NEW u \in Tasks
               PROVE  /\ \A n \in task'[u].sums : n.run = r => n = run_summary(r)'
                      /\ task'[u].abort = r => ~LiveWork(r)'
    BY <1>1 DEF TellsCurrent
  <2> QED BY <1>3, <1>4 DEF Inv, TellsCurrent
<1>10. \A r \in Runs : r # m.run => (Open(r)' <=> Open(r))
  BY <1>1, <1>5 DEF Open, is_active
<1>11. ASSUME m.run \notin overtaken PROVE Open(m.run)' <=> Wanted(m.run)
  <2>1. CASE run.id = m.run
    <3>1. run'.status = StatusAfter(m)
      BY <1>1, <1>2, <2>1
    <3>2. StatusAfter(m) \in ActiveStatus <=> Wanted(m.run)
      BY <1>11, <2>1, SummaryApplied
    <3> QED BY <2>1, <3>1, <3>2, <1>5 DEF Open, is_active
  <2>2. CASE run.id # m.run
    BY <2>2, <1>2, <1>5, <1>11 DEF Inv, WantedIsOpen, Open
  <2> QED BY <2>1, <2>2
<1>12. WantedIsOpen'
  <2> SUFFICES ASSUME NEW r \in Runs, r \notin overtaken, Wanted(r)'
               PROVE  Open(r)'
    BY <1>1 DEF WantedIsOpen
  <2>1. Wanted(r)
    BY <1>3 DEF Wanted
  <2>2. CASE r = m.run
    BY <2>1, <2>2, <1>11
  <2>3. CASE r # m.run
    BY <2>1, <2>3, <1>10 DEF Inv, WantedIsOpen
  <2> QED BY <2>2, <2>3
<1>13. RunAgreesWithWork'
  <2> SUFFICES ASSUME NEW r \in Runs, Settled(r)'
               PROVE  Open(r)' <=> Wanted(r)'
    BY DEF RunAgreesWithWork, Open, Wanted
  <2>1. r \notin overtaken /\ r \notin silent /\ ~InFlight(r)'
    BY <1>1 DEF Settled
  <2>2. Wanted(r)' <=> Wanted(r)
    BY <1>3 DEF Wanted
  <2>3. CASE r = m.run
    BY <2>1, <2>2, <2>3, <1>11
  <2>4. CASE r # m.run
    <3>1. ~InFlight(r)
      BY <2>1, <2>4, <1>4 DEF InFlight
    <3> QED BY <2>1, <2>2, <2>4, <3>1, <1>10 DEF Inv, RunAgreesWithWork, Settled, Open, Wanted
  <2> QED BY <2>3, <2>4
<1> QED BY <1>3, <1>6, <1>7, <1>8, <1>9, <1>12, <1>13 DEF Inv

\* A task goes on with what it has to do outside the coordinator's lock.
LEMMA TellInv ==
  ASSUME Inv, NEW t \in Tasks, Tell(t)
  PROVE  Inv'
<1>1. CASE CancelWork(t)
  <2>1. PICK r \in Runs :
          /\ task[t].cancel = r
          /\ cancel_run(r)
          /\ publish_run_summaries(t, {r}, NoRun)
          /\ UNCHANGED <<run, used>>
    BY <1>1 DEF CancelWork
  <2>2. Good
    BY DEF Inv, TypeOK, Good
  <2>3. task[t].abort = NoRun /\ task[t].sums = {}
    BY <2>1 DEF Inv, CancelFirst
  <2>4. Good' /\ NoNewWork
    BY <2>1, <2>2, CancelRunGood, CancelRunNoNew
  <2> QED BY <2>1, <2>3, <2>4, PublishInv
<1>2. CASE abort_binding(t)
  BY <1>2, AbortBindingInv
<1>3. CASE apply_work_summary(t)
  BY <1>3, ApplyInv
<1> QED BY <1>1, <1>2, <1>3 DEF Tell
-----------------------------------------------------------------------------
\* At the start there is no run, no work and nothing to tell.
LEMMA InitInv == Init => Inv
<1> SUFFICES ASSUME Init PROVE Inv
  OBVIOUS
<1>1. Good
  BY InitGood DEF Init
<1>2. run.id = NoRun /\ run.status = "None" /\ ~is_active
  BY DEF Init, NoRecord, is_active, ActiveStatus
<1>3. \A t \in Tasks : /\ task[t] = Rest
                       /\ task[t].cancel = NoRun /\ task[t].abort = NoRun /\ task[t].sums = {}
  BY DEF Init, Rest
<1>4. TypeOK
  <2>1. Rest \in Task
    BY DEF Rest, Task
  <2>2. run \in [id : Runs \cup {NoRun}, status : ActiveStatus \cup EndedStatus \cup {"None"}]
    BY DEF Init, NoRecord
  <2> QED BY <1>1, <2>1, <2>2 DEF Good, TypeOK, Init
<1>5. (\A i \in IntentIds : ist[i] = "Unborn") /\ leases = {}
  BY DEF Init, WorkInit
<1>6. \A r : ~LiveWork(r)
  BY <1>5 DEF LiveWork, OfRun
<1>7. CancelFirst /\ RunsAreUsed
  BY <1>2, <1>3, <1>5 DEF CancelFirst, RunsAreUsed
<1>8. TellsCurrent /\ WantedIsOpen /\ RunAgreesWithWork
  BY <1>2, <1>3, <1>6 DEF TellsCurrent, WantedIsOpen, Wanted, RunAgreesWithWork
<1> QED BY <1>1, <1>4, <1>7, <1>8 DEF Good, Inv

\* Every step of every task keeps the invariant.
LEMMA NextInv == Inv /\ [Next]_vars => Inv'
<1> SUFFICES ASSUME Inv, [Next]_vars PROVE Inv'
  OBVIOUS
<1>1. CASE UNCHANGED vars
  <2>1. /\ UNCHANGED workVars
        /\ run' = run /\ used' = used /\ task' = task /\ overtaken' = overtaken /\ silent' = silent
    BY <1>1 DEF vars, runVars
  <2>2. /\ WorkTypeOK' /\ WorkOwnership'
        /\ ist' = ist /\ info' = info /\ leases' = leases
        /\ \A r : run_summary(r)' = run_summary(r)
        /\ \A r : (LiveWork(r)' <=> LiveWork(r)) /\ (HasFailed(r)' <=> HasFailed(r))
    BY <2>1, ManagerFrame
  <2>3. TypeOK' /\ CancelFirst' /\ RunsAreUsed'
    BY <2>1, <2>2 DEF Inv, TypeOK, CancelFirst, RunsAreUsed
  <2>4. TellsCurrent'
    BY <2>1, <2>2 DEF Inv, TellsCurrent
  <2>5. \A r : (Open(r)' <=> Open(r)) /\ (Settled(r)' <=> Settled(r))
    BY <2>1 DEF Open, is_active, Settled, InFlight
  <2>6. WantedIsOpen'
    BY <2>1, <2>2, <2>5 DEF Inv, WantedIsOpen, Wanted
  <2>7. RunAgreesWithWork'
    <3> SUFFICES ASSUME NEW r \in Runs, Settled(r)'
                 PROVE  Open(r)' <=> (LiveWork(r)' /\ ~HasFailed(r)')
      BY DEF RunAgreesWithWork, Open
    <3> QED BY <2>2, <2>5 DEF Inv, RunAgreesWithWork, Open
  <2> QED BY <2>2, <2>3, <2>4, <2>6, <2>7 DEF Inv
<1>2. CASE Acquire
  BY <1>2, AcquireInv
<1>3. CASE \E t \in Tasks : Call(t) \/ Tell(t)
  BY <1>3, CallInv, TellInv
<1> QED BY <1>1, <1>2, <1>3 DEF Next

\* The invariant holds however the tasks, their calls and summaries interleave.
THEOREM Invariance == Spec => []Inv
  BY InitInv, NextInv, PTL DEF Spec

\* The record, the pending summaries and the coordinator below them stay well
\* typed for any number of slots, runs and tasks.
THEOREM TypeCorrect == Spec => []TypeOK
<1>1. Inv => TypeOK
  BY DEF Inv
<1> QED BY Invariance, <1>1, PTL

\* Once the manager was told of everything in order, a run is open on record
\* exactly while it has work or an outstanding enqueue and nothing of it failed.
THEOREM RunsAgree == Spec => []RunAgreesWithWork
<1>1. Inv => RunAgreesWithWork
  BY DEF Inv
<1> QED BY Invariance, <1>1, PTL

\* Only apply_work_summary changes the status of a record that has ended, and a
\* summary that was not overtaken finds no work that could open it again.
LEMMA EndedStep ==
  ASSUME Inv, [Next]_vars,
         run.status \in EndedStatus, run'.id = run.id, run.id \notin overtaken
  PROVE  run'.status \in EndedStatus
<1>0. /\ run \in [id : Runs \cup {NoRun}, status : ActiveStatus \cup EndedStatus \cup {"None"}]
      /\ ~is_active
  BY DEF Inv, TypeOK, is_active, ActiveStatus, EndedStatus
<1> SUFFICES run' = run \/ run'.status \in EndedStatus
  OBVIOUS
<1>1. CASE UNCHANGED vars
  BY <1>1 DEF vars, runVars
<1>2. CASE Acquire
  <2>1. PICK c \in Slots, b \in Bindings, r \in Runs \cup {NoRun} : bind_enqueue(b, c, r)
    BY <1>2 DEF Acquire
  <2>2. \/ run' = run
        \/ r \in Runs \ used /\ run' = [id |-> r, status |-> "Accepted"]
    BY <1>0, <2>1 DEF bind_enqueue, AttachOrCreate
  <2>3. run.id \notin Runs \ used
    BY DEF Inv, RunsAreUsed
  <2> QED BY <2>2, <2>3
<1>3. ASSUME NEW t \in Tasks, Call(t) PROVE run' = run
  BY <1>0, <1>3 DEF Call, Commit, Abort, OnBatch, Claim, OnSlot, Discard, Stop, begin_cancel
<1>4. ASSUME NEW t \in Tasks, Tell(t) PROVE run' = run \/ run'.status \in EndedStatus
  <2>1. CASE CancelWork(t)
    BY <2>1 DEF CancelWork
  <2>2. CASE abort_binding(t)
    BY <2>2 DEF abort_binding, NoRecord
  <2>3. CASE apply_work_summary(t)
    <3>1. PICK m \in task[t].sums :
            run' = IF run.id = m.run THEN [run EXCEPT !.status = StatusAfter(m)] ELSE run
      BY <2>3 DEF apply_work_summary
    <3>2. CASE run.id = m.run
      <4>1. StatusAfter(m) \in EndedStatus
        BY <1>0, <3>2, SummaryApplied
      <4> QED BY <1>0, <3>1, <3>2, <4>1
    <3> QED BY <3>1, <3>2
  <2> QED BY <1>4, <2>1, <2>2, <2>3 DEF Tell
<1> QED BY <1>1, <1>2, <1>3, <1>4 DEF Next

\* A run that ended on record is not opened again while its summaries arrive
\* in order.
THEOREM EndedStaysEnded == Spec => EndedRunStaysEnded
<1>1. Inv /\ [Next]_vars =>
        [run.status \in EndedStatus /\ run'.id = run.id /\ run.id \notin overtaken
           => run'.status \in EndedStatus]_vars
  BY EndedStep
<1> QED BY Invariance, <1>1, PTL DEF Spec, EndedRunStaysEnded
=============================================================================
