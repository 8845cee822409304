---------------------------- MODULE SlotWorkSteps ----------------------------
(***************************************************************************)
(* Every operation of the coordinator, taken alone, keeps the types and    *)
(* the ownership of work: one lemma per operation of SlotWork.  A batch    *)
(* operation is given a batch that is either stale or the active batch.    *)
(***************************************************************************)
EXTENDS SlotWork, IntegerBounds, FiniteSetTheorems

USE ConstantsAssumption

\* Types and ownership, the part of the invariant every operation must restore.
Good == WorkTypeOK /\ WorkOwnership

\* Every source has a lane: WorkSource::priority is total.
LEMMA PriorityIsLane == \A src : priority(src) \in Lanes
  BY DEF priority, Lanes

\* A new coordinator is well typed and owns nothing.
LEMMA InitGood ==
  ASSUME NEW ready \in SUBSET Slots, WorkInit(ready)
  PROVE  Good
<1> USE DEF WorkInit
<1>1. Blank \in WorkIntent
  <2>1. (CHOOSE s \in Slots : TRUE) \in Slots
    OBVIOUS
  <2> QED BY <2>1 DEF Blank, WorkIntent, AllSources
<1>2. ist \in [IntentIds -> IntentStates] /\ info \in [IntentIds -> WorkIntent]
  BY <1>1 DEF IntentStates
<1>3. rank \in [IntentIds -> Int]
  BY DEF IntentIds
<1>4. queue \in [Slots -> [Lanes -> SUBSET IntentIds]] /\ active \in [Slots -> ActiveBatch]
  BY DEF ClearedQueue, NoBatch, ActiveBatch, Lanes
<1>5. constraint \in [Slots -> RuntimeConstraint] /\ failures \in [Slots -> [Msgs -> 0..255]]
  BY DEF RuntimeConstraint
<1>6. WorkTypeOK
  BY <1>2, <1>3, <1>4, <1>5 DEF WorkTypeOK
<1>7. \A i \in IntentIds : ist[i] = "Unborn"
  OBVIOUS
<1>8. QueuedInPlace
  BY <1>7 DEF QueuedInPlace, ClearedQueue
<1>9. ActiveInPlace /\ PhaseAgrees
  BY <1>7 DEF ActiveInPlace, PhaseAgrees, NoBatch
<1> QED BY <1>6, <1>8, <1>9 DEF Good, WorkOwnership

\* Ownership is about ist, info, queue and the batches; an operation that
\* changes none of them (acquire_enqueue, pause_slot, the restart gate) keeps it.
LEMMA FrameOwnership ==
  ASSUME WorkOwnership, WorkTypeOK, ist' = ist, info' = info, queue' = queue,
         \A s \in Slots : /\ active'[s].op = active[s].op
                          /\ active'[s].intents = active[s].intents
                          /\ active'[s].lane = active[s].lane
                          /\ active'[s].turn = active[s].turn
  PROVE  WorkOwnership'
<1>1. \A i : Lane(i)' = Lane(i)
  BY DEF Lane
<1>2. QueuedInPlace'
  BY <1>1 DEF WorkOwnership, QueuedInPlace
<1>3. ActiveInPlace'
  BY DEF WorkOwnership, ActiveInPlace
<1>4. PhaseAgrees'
  BY <1>1 DEF WorkOwnership, PhaseAgrees
<1> QED BY <1>2, <1>3, <1>4 DEF WorkOwnership

\* A step that changes no claimed intent and no batch leaves the batches in place.
LEMMA BatchesUntouched ==
  ASSUME Good, WorkTypeOK', active' = active,
         \A i \in IntentIds :
           ist[i] \in {"Starting", "Running"} \/ ist'[i] \in {"Starting", "Running"}
             => ist'[i] = ist[i] /\ info'[i] = info[i]
  PROVE  ActiveInPlace' /\ PhaseAgrees'
<1>1. ActiveInPlace'
  <2>1. SUFFICES ASSUME NEW t \in Slots, NEW i \in IntentIds
                 PROVE  i \in active[t].intents <=>
                          ist'[i] \in {"Starting", "Running"} /\ info'[i].slot = t
    BY DEF ActiveInPlace, Good, WorkTypeOK, ActiveBatch
  <2>2. i \in active[t].intents <=> ist[i] \in {"Starting", "Running"} /\ info[i].slot = t
    BY DEF Good, WorkOwnership, ActiveInPlace
  <2> QED BY <2>2
<1>2. ASSUME NEW t \in Slots, NEW i \in active[t].intents
      PROVE  ist'[i] = ist[i] /\ Lane(i)' = Lane(i)
  <2>1. i \in IntentIds /\ ist[i] \in {"Starting", "Running"}
    BY DEF Good, WorkOwnership, ActiveInPlace
  <2> QED BY <2>1 DEF Lane
<1>3. PhaseAgrees'
  BY <1>2 DEF Good, WorkOwnership, PhaseAgrees
<1> QED BY <1>1, <1>3

\* Forgetting delivery failures leaves u8 counts.
LEMMA ClearCountsType ==
  ASSUME WorkTypeOK, NEW s \in Slots, NEW M
  PROVE  ClearCounts(s, M) \in [Slots -> [Msgs -> 0..255]]
<1>1. [m \in Msgs |-> IF m \in M THEN 0 ELSE failures[s][m]] \in [Msgs -> 0..255]
  BY DEF WorkTypeOK
<1> QED BY <1>1 DEF WorkTypeOK, ClearCounts

\* Counting a failed delivery saturates at the top of a u8.
LEMMA FailedCountsType ==
  ASSUME WorkTypeOK, NEW b \in WorkBatch
  PROVE  FailedCounts(b) \in [Slots -> [Msgs -> 0..255]]
<1> DEFINE Of(m) == {i \in b.intents : info[i].msg = m}
           Burnt(m) == failures[b.slot][m] + Cardinality(Of(m))
           f == [m \in Msgs |-> IF Burnt(m) <= 255 THEN Burnt(m) ELSE 255]
<1>0. b.slot \in Slots
  BY DEF WorkBatch
<1>1. \A m \in Msgs : failures[b.slot][m] \in 0..255
  BY <1>0 DEF WorkTypeOK
<1>2. f \in [Msgs -> 0..255]
  <2>1. ASSUME NEW m \in Msgs PROVE f[m] \in 0..255
    <3>1. Cardinality(Of(m)) \in Nat
      <4>1. IsFiniteSet(IntentIds)
        BY FS_Interval DEF IntentIds
      <4>2. Of(m) \subseteq IntentIds
        BY DEF WorkBatch
      <4> QED BY <4>1, <4>2, FS_Subset, FS_CardinalityType
    <3>2. failures[b.slot][m] \in 0..255
      BY <1>1
    <3>3. f[m] = IF Burnt(m) <= 255 THEN Burnt(m) ELSE 255
      OBVIOUS
    <3>4. Burnt(m) \in Nat
      <4> HIDE DEF Of, f
      <4> QED BY <3>1, <3>2
    <3> HIDE DEF f, Of, Burnt
    <3> QED BY <3>3, <3>4
  <2> QED BY <2>1
<1>3. FailedCounts(b) = [failures EXCEPT ![b.slot] = f]
  BY DEF FailedCounts
<1> HIDE DEF f
<1> QED BY <1>0, <1>2, <1>3 DEF WorkTypeOK

\* acquire_enqueue keeps types and ownership.
LEMMA AcquireGood ==
  ASSUME Good, NEW id \in LeaseIds, NEW s \in Slots, NEW src \in AllSources, NEW r \in Runs \cup {NoRun},
         acquire_enqueue(id, s, src, r)
  PROVE  Good'
<1>1. WorkTypeOK'
  BY DEF Good, WorkTypeOK, acquire_enqueue, EnqueueLease, intentVars
<1>2. WorkOwnership'
  BY FrameOwnership DEF Good, acquire_enqueue, intentVars
<1> QED BY <1>1, <1>2 DEF Good

\* abort_enqueue keeps types and ownership.
LEMMA AbortGood ==
  ASSUME Good, NEW l \in leases, abort_enqueue(l)
  PROVE  Good'
<1>1. WorkTypeOK'
  BY DEF Good, WorkTypeOK, abort_enqueue, EnqueueLease, intentVars, slotVars
<1>2. WorkOwnership'
  BY FrameOwnership DEF Good, abort_enqueue, intentVars, slotVars
<1> QED BY <1>1, <1>2 DEF Good

\* commit_enqueue puts the new intent in the lane of its source and nowhere else.
LEMMA CommitGood ==
  ASSUME Good, NEW l \in leases, NEW m \in Msgs \cup {NoMsg}, commit_enqueue(l, m)
  PROVE  Good'
<1>0. PICK i \in IntentIds :
       /\ Fresh(i)
       /\ SetState({i}, "Queued")
       /\ info' = [info EXCEPT ![i] = [slot |-> l.slot, source |-> l.source,
                                       msg |-> m, run |-> l.run]]
       /\ rank' = [rank EXCEPT ![i] =
                     IF l.source = "LeadIntervention"
                       THEN LowestRank - 1 ELSE i]
       /\ queue' = [queue EXCEPT ![l.slot][priority(l.source)] = @ \cup {i}]
  BY DEF commit_enqueue
<1>a. l \in EnqueueLease
  BY DEF Good, WorkTypeOK
<1>b. rank' \in [IntentIds -> Int]
  <2>1. LowestRank \in Int
    BY MinIsInt DEF LowestRank, Good, WorkTypeOK, IntentIds
  <2>2. i \in Int
    BY DEF IntentIds
  <2> QED BY <1>0, <2>1, <2>2 DEF Good, WorkTypeOK
<1>c. ist' \in [IntentIds -> IntentStates]
  BY <1>0 DEF SetState, Good, WorkTypeOK, IntentStates, Live
<1>d. info' \in [IntentIds -> WorkIntent]
  BY <1>0, <1>a DEF Good, WorkTypeOK, WorkIntent, EnqueueLease
<1>e. queue' \in [Slots -> [Lanes -> SUBSET IntentIds]]
  BY <1>0, <1>a, PriorityIsLane DEF Good, WorkTypeOK, EnqueueLease
<1>1. WorkTypeOK'
  BY <1>a, <1>b, <1>c, <1>d, <1>e DEF Good, WorkTypeOK, commit_enqueue, EnqueueLease
<1>2. QueuedInPlace'
  BY <1>0, <1>a, <1>d, PriorityIsLane DEF Good, WorkTypeOK, WorkOwnership, QueuedInPlace, Fresh, SetState, Lane, EnqueueLease
<1>3. ActiveInPlace' /\ PhaseAgrees'
  <2>1. \A j \in IntentIds : j # i => ist'[j] = ist[j] /\ info'[j] = info[j]
    BY <1>0 DEF SetState, Good, WorkTypeOK
  <2>2. ist[i] = "Unborn" /\ ist'[i] = "Queued"
    BY <1>0 DEF SetState, Fresh
  <2> QED BY <1>1, <2>1, <2>2, BatchesUntouched DEF commit_enqueue
<1> QED BY <1>1, <1>2, <1>3 DEF Good, WorkOwnership

\* reconcile_mailbox_snapshot takes what it completes out of its lane and
\* puts what it adopts into the Background lane.
LEMMA ReconcileGood ==
  ASSUME Good, NEW s \in Slots, NEW unread \in SUBSET Msgs, NEW cands \in SUBSET IntentIds,
         reconcile_mailbox_snapshot(s, unread, cands)
  PROVE  Good'
<1> DEFINE stale == {i \in queued_ids(s) :
                       info[i].msg # NoMsg /\ info[i].msg \notin unread /\ i \in cands}
           news  == Unowned(s, unread)
<1>1. PICK new \in [news -> IntentIds] :
       /\ \A m \in news :
            /\ ist[new[m]] = "Unborn"
            /\ \A n \in news : m < n => new[m] < new[n]
            /\ \A j \in IntentIds : ist[j] = "Unborn" /\ j < new[m]
                                      => \E n \in news : new[n] = j
       /\ LET born == {new[m] : m \in news}
              row(i) == CHOOSE m \in news : new[m] = i
          IN /\ ist' = [i \in IntentIds |-> IF i \in stale THEN "Completed"
                                            ELSE IF i \in born THEN "Queued" ELSE ist[i]]
             /\ info' = [i \in IntentIds |->
                           IF i \in born
                             THEN [slot |-> s, source |-> "RecoveryDrain",
                                   msg |-> row(i), run |-> NoRun]
                             ELSE info[i]]
             /\ rank' = [i \in IntentIds |-> IF i \in born THEN i ELSE rank[i]]
             /\ queue' = [queue EXCEPT ![s] =
                            [l \in Lanes |-> IF l = "Background"
                                               THEN (queue[s][l] \ stale) \cup born
                                               ELSE queue[s][l] \ stale]]
       /\ failures' = ClearCounts(s, Msgs \ unread)
       /\ present' = present \cup {s}
       /\ UNCHANGED <<active, paused, removed, constraint,
                      leases, interrupted, nextOp>>
  BY DEF reconcile_mailbox_snapshot
<1> DEFINE born == {new[m] : m \in news}
           row(i) == CHOOSE m \in news : new[m] = i
<1>2. /\ ist' = [i \in IntentIds |-> IF i \in stale THEN "Completed"
                                     ELSE IF i \in born THEN "Queued" ELSE ist[i]]
      /\ info' = [i \in IntentIds |->
                    IF i \in born
                      THEN [slot |-> s, source |-> "RecoveryDrain",
                            msg |-> row(i), run |-> NoRun]
                      ELSE info[i]]
      /\ rank' = [i \in IntentIds |-> IF i \in born THEN i ELSE rank[i]]
      /\ queue' = [queue EXCEPT ![s] =
                     [l \in Lanes |-> IF l = "Background"
                                        THEN (queue[s][l] \ stale) \cup born
                                        ELSE queue[s][l] \ stale]]
  BY <1>1
<1>3. born \subseteq IntentIds /\ \A i \in born : ist[i] = "Unborn"
  BY <1>1
<1>4. \A i \in born : row(i) \in Msgs
  <2>1. SUFFICES ASSUME NEW i \in born PROVE row(i) \in news
    BY DEF Unowned
  <2>2. \E m \in news : new[m] = i
    OBVIOUS
  <2> QED BY <2>2
<1>5. stale \subseteq IntentIds /\ \A i \in stale : ist[i] = "Queued" /\ info[i].slot = s
  BY DEF queued_ids, Good, WorkTypeOK, WorkOwnership, QueuedInPlace
<1> HIDE DEF born, row, stale, news
<1>a. ist' \in [IntentIds -> IntentStates]
  BY <1>2 DEF Good, WorkTypeOK, IntentStates, Live, Terminal
<1>b. info' \in [IntentIds -> WorkIntent]
  BY <1>2, <1>4 DEF Good, WorkTypeOK, WorkIntent, AllSources
<1>c. rank' \in [IntentIds -> Int]
  BY <1>2 DEF Good, WorkTypeOK, IntentIds
<1>d. queue' \in [Slots -> [Lanes -> SUBSET IntentIds]]
  BY <1>2, <1>3 DEF Good, WorkTypeOK
<1>e. failures' \in [Slots -> [Msgs -> 0..255]]
  BY <1>1, ClearCountsType DEF Good
<1>f. WorkTypeOK'
  BY <1>1, <1>a, <1>b, <1>c, <1>d, <1>e DEF Good, WorkTypeOK
<1>6. QueuedInPlace'
  <2>1. priority("RecoveryDrain") = "Background"
    BY DEF priority, UserSources, ControlSources
  <2>2. \A i \in born : Lane(i)' = "Background"
    BY <1>2, <1>3, <2>1 DEF Lane
  <2>3. \A i \in IntentIds \ born : Lane(i)' = Lane(i)
    BY <1>2 DEF Lane
  <2>4. SUFFICES ASSUME NEW t \in Slots, NEW l \in Lanes
                 PROVE (queue[t][l] = {i \in IntentIds : ist[i] = "Queued" /\ info[i].slot = t /\ Lane(i) = l})'
    BY DEF QueuedInPlace
  <2>5. ASSUME NEW i \in IntentIds
        PROVE i \in queue'[t][l] <=> ist'[i] = "Queued" /\ info'[i].slot = t /\ Lane(i)' = l
    <3>1. i \in queue[t][l] <=> ist[i] = "Queued" /\ info[i].slot = t /\ Lane(i) = l
      BY DEF Good, WorkOwnership, QueuedInPlace
    <3>2. CASE i \in born
      BY <1>2, <1>3, <1>5, <2>2, <3>1, <3>2 DEF Good, WorkTypeOK
    <3>3. CASE i \notin born
      BY <1>2, <1>3, <1>5, <2>3, <3>1, <3>3 DEF Good, WorkTypeOK
    <3> QED BY <3>2, <3>3
  <2> QED BY <2>5, <1>d
<1>7. ActiveInPlace' /\ PhaseAgrees'
  <2>1. ASSUME NEW i \in IntentIds, i \in stale \/ i \in born
        PROVE  /\ ist[i] \notin {"Starting", "Running"}
               /\ ist'[i] \notin {"Starting", "Running"}
    BY <1>2, <1>3, <1>5, <2>1
  <2>2. \A i \in IntentIds : i \notin stale /\ i \notin born => ist'[i] = ist[i] /\ info'[i] = info[i]
    BY <1>2
  <2>3. active' = active
    BY <1>1
  <2> QED BY <1>f, <2>1, <2>2, <2>3, BatchesUntouched
<1> QED BY <1>f, <1>6, <1>7 DEF Good, WorkOwnership

\* next moves what it claims from its lane to the batch of an idle slot.
LEMMA NextGood ==
  ASSUME Good, NEW s \in Slots, next(s)
  PROVE  Good'
<1>1. PICK l \in Lanes :
    LET B == LeadingRun(s, l) IN
    /\ Claimable(s)
    /\ IsTopLane(s, l)
    /\ B # {}
    /\ nextOp < MaxOps
    /\ nextOp' = nextOp + 1
    /\ SetState(B, "Starting")
    /\ queue' = RemoveQueued(s, B)
    /\ active' = [active EXCEPT ![s] = [op |-> nextOp + 1, intents |-> B, lane |-> l,
                                        turn |-> FALSE, observed |-> {}]]
    /\ UNCHANGED <<info, rank, paused, removed, present, constraint, failures,
                   leases, interrupted>>
  BY DEF next
<1> DEFINE B == LeadingRun(s, l)
<1>2. B \subseteq queue[s][l]
  BY DEF LeadingRun
<1>3. active[s].op = 0
  BY <1>1 DEF Claimable
<1>4. /\ B # {}
      /\ nextOp' = nextOp + 1
      /\ SetState(B, "Starting")
      /\ queue' = RemoveQueued(s, B)
      /\ active' = [active EXCEPT ![s] = [op |-> nextOp + 1, intents |-> B, lane |-> l,
                                          turn |-> FALSE, observed |-> {}]]
      /\ UNCHANGED <<info, rank, paused, removed, present, constraint, failures,
                     leases, interrupted>>
  BY <1>1
<1> HIDE DEF B
<1>5. B \subseteq IntentIds /\ \A i \in B : ist[i] = "Queued" /\ info[i].slot = s
  BY <1>2 DEF Good, WorkTypeOK, WorkOwnership, QueuedInPlace
<1>6. WorkTypeOK'
  BY <1>4, <1>5 DEF Good, WorkTypeOK, SetState, RemoveQueued, IntentStates, Live, ActiveBatch
<1>7. QueuedInPlace'
  BY <1>4, <1>5 DEF Good, WorkTypeOK, WorkOwnership, QueuedInPlace, SetState, RemoveQueued, Lane
<1>8. ActiveInPlace' /\ PhaseAgrees'
  <2>1. \A i : Lane(i)' = Lane(i)
    BY <1>4 DEF Lane
  <2>2. \A i \in B : Lane(i) = l
    BY <1>2 DEF Good, WorkOwnership, QueuedInPlace
  <2>3. \A i \in IntentIds : ist'[i] = IF i \in B THEN "Starting" ELSE ist[i]
    BY <1>4 DEF SetState
  <2>4. active[s].intents = {}
    BY <1>3 DEF Good, WorkOwnership, PhaseAgrees
  <2>5. nextOp + 1 # 0
    BY DEF Good, WorkTypeOK
  <2>6. ASSUME NEW t \in Slots
        PROVE  active'[t] = IF t = s THEN [op |-> nextOp + 1, intents |-> B, lane |-> l,
                                           turn |-> FALSE, observed |-> {}]
                            ELSE active[t]
    BY <1>4 DEF Good, WorkTypeOK
  <2>7. ActiveInPlace'
    <3>1. SUFFICES ASSUME NEW t \in Slots, NEW i \in IntentIds
                   PROVE  i \in active'[t].intents <=>
                            ist'[i] \in {"Starting", "Running"} /\ info'[i].slot = t
      BY <1>6 DEF ActiveInPlace, WorkTypeOK, ActiveBatch
    <3>2. i \in active[t].intents <=> ist[i] \in {"Starting", "Running"} /\ info[i].slot = t
      BY DEF Good, WorkOwnership, ActiveInPlace
    <3> QED BY <1>4, <1>5, <2>3, <2>4, <2>6, <3>2
  <2>8. PhaseAgrees'
    <3>1. SUFFICES ASSUME NEW t \in Slots
                   PROVE  /\ active'[t].op = 0 <=> active'[t].intents = {}
                          /\ \A i \in active'[t].intents :
                               /\ ist'[i] = IF active'[t].turn THEN "Running" ELSE "Starting"
                               /\ Lane(i)' = active'[t].lane
      BY DEF PhaseAgrees
    <3>2. CASE t = s
      BY <1>4, <1>5, <2>1, <2>2, <2>3, <2>5, <2>6, <3>2
    <3>3. CASE t # s
      <4>1. /\ active[t].op = 0 <=> active[t].intents = {}
            /\ \A i \in active[t].intents :
                 /\ ist[i] = IF active[t].turn THEN "Running" ELSE "Starting"
                 /\ Lane(i) = active[t].lane
        BY DEF Good, WorkOwnership, PhaseAgrees
      <4>2. \A i \in active[t].intents : i \in IntentIds /\ i \notin B
        BY <1>5, <3>3 DEF Good, WorkOwnership, ActiveInPlace
      <4> QED BY <2>1, <2>3, <2>6, <3>3, <4>1, <4>2
    <3> QED BY <3>2, <3>3
  <2> QED BY <2>7, <2>8
<1> QED BY <1>6, <1>7, <1>8 DEF Good, WorkOwnership

\* Ending live work of a slot, its whole batch included, keeps ownership.
LEMMA EndedOwnership ==
  ASSUME Good, WorkTypeOK', NEW s \in Slots, NEW D \in SUBSET IntentIds, NEW st \in Terminal,
         \A i \in D : ist[i] \in Live /\ info[i].slot = s,
         active[s].intents \subseteq D,
         SetState(D, st), queue' = RemoveQueued(s, D),
         active' = [active EXCEPT ![s] = NoBatch], info' = info
  PROVE  WorkOwnership'
<1>1. \A i \in IntentIds : Lane(i)' = Lane(i)
  BY DEF Lane
<1>2. \A i \in IntentIds : ist'[i] = IF i \in D THEN st ELSE ist[i]
  BY DEF SetState
<1>3. st \notin {"Queued", "Starting", "Running"}
  BY DEF Terminal
<1>4. QueuedInPlace'
  <2>1. SUFFICES ASSUME NEW t \in Slots, NEW l \in Lanes, NEW i \in IntentIds
                 PROVE  i \in queue'[t][l] <=>
                          ist'[i] = "Queued" /\ info'[i].slot = t /\ Lane(i)' = l
    BY DEF QueuedInPlace, WorkTypeOK
  <2>2. i \in queue[t][l] <=> ist[i] = "Queued" /\ info[i].slot = t /\ Lane(i) = l
    BY DEF Good, WorkOwnership, QueuedInPlace
  <2>3. i \in queue'[t][l] <=> i \in queue[t][l] /\ ~(t = s /\ i \in D)
    BY DEF RemoveQueued, Good, WorkTypeOK
  <2> QED BY <1>1, <1>2, <1>3, <2>2, <2>3
<1>5. ASSUME NEW t \in Slots
      PROVE  active'[t] = IF t = s THEN NoBatch ELSE active[t]
  BY DEF Good, WorkTypeOK
<1>6. ActiveInPlace'
  <2>1. SUFFICES ASSUME NEW t \in Slots, NEW i \in IntentIds
                 PROVE  i \in active'[t].intents <=>
                          ist'[i] \in {"Starting", "Running"} /\ info'[i].slot = t
    BY DEF ActiveInPlace, WorkTypeOK, ActiveBatch
  <2>2. i \in active[t].intents <=> ist[i] \in {"Starting", "Running"} /\ info[i].slot = t
    BY DEF Good, WorkOwnership, ActiveInPlace
  <2> QED BY <1>2, <1>3, <1>5, <2>2 DEF NoBatch
<1>7. PhaseAgrees'
  <2>1. SUFFICES ASSUME NEW t \in Slots
                 PROVE  /\ active'[t].op = 0 <=> active'[t].intents = {}
                        /\ \A i \in active'[t].intents :
                             /\ ist'[i] = IF active'[t].turn THEN "Running" ELSE "Starting"
                             /\ Lane(i)' = active'[t].lane
    BY DEF PhaseAgrees
  <2>2. CASE t = s
    BY <1>5, <2>2 DEF NoBatch
  <2>3. CASE t # s
    <3>1. /\ active[t].op = 0 <=> active[t].intents = {}
          /\ \A i \in active[t].intents :
               /\ ist[i] = IF active[t].turn THEN "Running" ELSE "Starting"
               /\ Lane(i) = active[t].lane
      BY DEF Good, WorkOwnership, PhaseAgrees
    <3>2. \A i \in active[t].intents : i \in IntentIds /\ i \notin D
      BY <2>3 DEF Good, WorkOwnership, ActiveInPlace
    <3> QED BY <1>1, <1>2, <1>5, <2>3, <3>1, <3>2
  <2> QED BY <2>2, <2>3
<1> QED BY <1>4, <1>6, <1>7 DEF WorkOwnership

\* A caller's batch that is current is the active batch of its slot.
Copy(b) ==
  is_current_batch(b) => active[b.slot].intents = b.intents /\ active[b.slot].lane = b.lane

\* What the owner of a slot knows: its copy of the batch is the active batch,
\* and none of its intents is queued.
LEMMA CurrentFacts ==
  ASSUME Good, NEW b \in WorkBatch, Copy(b), is_current_batch(b)
  PROVE  /\ b.slot \in Slots /\ b.lane \in Lanes
         /\ active[b.slot].intents = b.intents
         /\ b.intents \subseteq IntentIds
         /\ b.intents # {}
         /\ \A i \in b.intents : /\ ist[i] \in {"Starting", "Running"}
                                  /\ info[i].slot = b.slot
                                  /\ Lane(i) = b.lane
         /\ RemoveQueued(b.slot, b.intents) = queue
<1>1. b.slot \in Slots /\ b.lane \in Lanes /\ b.op # 0 /\ b.intents \subseteq IntentIds
  BY DEF WorkBatch
<1>2. active[b.slot].intents = b.intents /\ active[b.slot].lane = b.lane
  BY DEF Copy
<1>3. active[b.slot].op # 0
  BY <1>1 DEF is_current_batch
<1>4. b.intents # {}
  BY <1>1, <1>2, <1>3 DEF Good, WorkOwnership, PhaseAgrees
<1>5. \A i \in b.intents : ist[i] \in {"Starting", "Running"} /\ info[i].slot = b.slot
  BY <1>1, <1>2 DEF Good, WorkOwnership, ActiveInPlace
<1>6. \A i \in b.intents : Lane(i) = b.lane
  BY <1>1, <1>2 DEF Good, WorkOwnership, PhaseAgrees
<1>7. \A l \in Lanes : queue[b.slot][l] \cap b.intents = {}
  BY <1>1, <1>5 DEF Good, WorkOwnership, QueuedInPlace
<1>8. RemoveQueued(b.slot, b.intents) = queue
  <2>1. queue[b.slot] \in [Lanes -> SUBSET IntentIds]
    BY <1>1 DEF Good, WorkTypeOK
  <2>2. [l \in Lanes |-> queue[b.slot][l] \ b.intents] = queue[b.slot]
    BY <1>7, <2>1
  <2> QED BY <1>1, <2>2 DEF RemoveQueued, Good, WorkTypeOK
<1> HIDE DEF RemoveQueued
<1> QED BY <1>1, <1>2, <1>4, <1>5, <1>6, <1>8

\* fail_batch keeps types and ownership.
LEMMA FailGood ==
  ASSUME Good, NEW b \in WorkBatch, Copy(b), fail_batch(b)
  PROVE  Good'
<1>1. is_current_batch(b)
  BY DEF fail_batch
<1>2. WorkTypeOK'
  <2>1. ist' \in [IntentIds -> IntentStates]
    BY DEF fail_batch, SetState, Good, WorkTypeOK, IntentStates, Terminal
  <2>2. active' \in [Slots -> ActiveBatch]
    BY DEF fail_batch, Good, WorkTypeOK, ActiveBatch, NoBatch, Lanes
  <2>3. failures' \in [Slots -> [Msgs -> 0..255]]
    BY FailedCountsType DEF fail_batch, Good
  <2> QED BY <2>1, <2>2, <2>3 DEF fail_batch, Good, WorkTypeOK, WorkBatch
<1>3. \A i \in b.intents : ist[i] \in Live /\ info[i].slot = b.slot
  BY <1>1, CurrentFacts DEF Live
<1>4. WorkOwnership'
  BY <1>1, <1>2, <1>3, CurrentFacts, EndedOwnership DEF fail_batch, Terminal
<1> QED BY <1>2, <1>4 DEF Good

\* cancel_batch keeps types and ownership.
LEMMA CancelGood ==
  ASSUME Good, NEW b \in WorkBatch, Copy(b), cancel_batch(b)
  PROVE  Good'
<1>1. is_current_batch(b)
  BY DEF cancel_batch
<1>2. WorkTypeOK'
  <2>1. ist' \in [IntentIds -> IntentStates]
    BY DEF cancel_batch, SetState, Good, WorkTypeOK, IntentStates, Terminal
  <2>2. active' \in [Slots -> ActiveBatch]
    BY DEF cancel_batch, Good, WorkTypeOK, ActiveBatch, NoBatch, Lanes
  <2>3. failures' \in [Slots -> [Msgs -> 0..255]]
    BY ClearCountsType DEF cancel_batch, Good, WorkBatch
  <2> QED BY <2>1, <2>2, <2>3 DEF cancel_batch, Good, WorkTypeOK, WorkBatch
<1>3. \A i \in b.intents : ist[i] \in Live /\ info[i].slot = b.slot
  BY <1>1, CurrentFacts DEF Live
<1>4. WorkOwnership'
  BY <1>1, <1>2, <1>3, CurrentFacts, EndedOwnership DEF cancel_batch, Terminal
<1> QED BY <1>2, <1>4 DEF Good

\* interrupt_batch keeps types and ownership.
LEMMA InterruptGood ==
  ASSUME Good, NEW b \in WorkBatch, Copy(b), interrupt_batch(b)
  PROVE  Good'
<1>1. is_current_batch(b)
  BY DEF interrupt_batch
<1>2. WorkTypeOK'
  <2>1. ist' \in [IntentIds -> IntentStates]
    BY DEF interrupt_batch, SetState, Good, WorkTypeOK, IntentStates, Terminal
  <2>2. active' \in [Slots -> ActiveBatch]
    BY DEF interrupt_batch, Good, WorkTypeOK, ActiveBatch, NoBatch, Lanes
  <2>3. failures' \in [Slots -> [Msgs -> 0..255]]
    BY ClearCountsType DEF interrupt_batch, Good, WorkBatch
  <2> QED BY <2>1, <2>2, <2>3 DEF interrupt_batch, Good, WorkTypeOK, WorkBatch
<1>3. \A i \in b.intents : ist[i] \in Live /\ info[i].slot = b.slot
  BY <1>1, CurrentFacts DEF Live
<1>4. WorkOwnership'
  BY <1>1, <1>2, <1>3, CurrentFacts, EndedOwnership DEF interrupt_batch, Terminal
<1> QED BY <1>2, <1>4 DEF Good

\* mark_started moves the whole batch from Starting to Running, with its turn id.
LEMMA MarkStartedGood ==
  ASSUME Good, NEW b \in WorkBatch, Copy(b), mark_started(b)
  PROVE  Good'
<1>1. /\ b.slot \in Slots
      /\ active[b.slot].intents = b.intents
      /\ \A i \in b.intents : ist[i] \in {"Starting", "Running"} /\ info[i].slot = b.slot
  BY CurrentFacts DEF mark_started
<1>2. \A i \in IntentIds : ist'[i] = IF i \in b.intents THEN "Running" ELSE ist[i]
  BY DEF mark_started, SetState
<1>3. ASSUME NEW t \in Slots
      PROVE  active'[t] = IF t = b.slot THEN [active[t] EXCEPT !.turn = TRUE] ELSE active[t]
  BY DEF mark_started, Good, WorkTypeOK
<1>4. WorkTypeOK'
  <2>1. ist' \in [IntentIds -> IntentStates]
    BY DEF mark_started, SetState, Good, WorkTypeOK, IntentStates, Live
  <2>2. active' \in [Slots -> ActiveBatch]
    <3>1. active[b.slot] \in ActiveBatch
      BY <1>1 DEF Good, WorkTypeOK
    <3>2. [active[b.slot] EXCEPT !.turn = TRUE] \in ActiveBatch
      BY <3>1 DEF ActiveBatch
    <3>3. active' = [active EXCEPT ![b.slot] = [active[b.slot] EXCEPT !.turn = TRUE]]
      BY DEF mark_started
    <3> QED BY <1>1, <3>2, <3>3 DEF Good, WorkTypeOK
  <2> QED BY <2>1, <2>2 DEF mark_started, Good, WorkTypeOK
<1>5. QueuedInPlace'
  <2>1. SUFFICES ASSUME NEW t \in Slots, NEW l \in Lanes, NEW i \in IntentIds
                 PROVE  i \in queue[t][l] <=>
                          ist'[i] = "Queued" /\ info'[i].slot = t /\ Lane(i)' = l
    BY <1>4 DEF QueuedInPlace, WorkTypeOK, mark_started
  <2>2. i \in queue[t][l] <=> ist[i] = "Queued" /\ info[i].slot = t /\ Lane(i) = l
    BY DEF Good, WorkOwnership, QueuedInPlace
  <2>3. info' = info /\ Lane(i)' = Lane(i)
    BY DEF mark_started, Lane
  <2> QED BY <1>1, <1>2, <2>2, <2>3
<1>6. ActiveInPlace'
  <2>1. SUFFICES ASSUME NEW t \in Slots, NEW i \in IntentIds
                 PROVE  i \in active'[t].intents <=>
                          ist'[i] \in {"Starting", "Running"} /\ info'[i].slot = t
    BY <1>4 DEF ActiveInPlace, WorkTypeOK, ActiveBatch
  <2>2. i \in active[t].intents <=> ist[i] \in {"Starting", "Running"} /\ info[i].slot = t
    BY DEF Good, WorkOwnership, ActiveInPlace
  <2>3. active'[t].intents = active[t].intents
    BY <1>3 DEF Good, WorkTypeOK, ActiveBatch
  <2>4. info' = info
    BY DEF mark_started
  <2> QED BY <1>1, <1>2, <2>2, <2>3, <2>4
<1>7. PhaseAgrees'
  <2>1. SUFFICES ASSUME NEW t \in Slots
                 PROVE  /\ active'[t].op = 0 <=> active'[t].intents = {}
                        /\ \A i \in active'[t].intents :
                             /\ ist'[i] = IF active'[t].turn THEN "Running" ELSE "Starting"
                             /\ Lane(i)' = active'[t].lane
    BY DEF PhaseAgrees
  <2>2. /\ active[t].op = 0 <=> active[t].intents = {}
        /\ \A i \in active[t].intents :
             /\ ist[i] = IF active[t].turn THEN "Running" ELSE "Starting"
             /\ Lane(i) = active[t].lane
    BY DEF Good, WorkOwnership, PhaseAgrees
  <2>3. \A i : Lane(i)' = Lane(i)
    BY DEF mark_started, Lane
  <2>4. active[t] \in ActiveBatch
    BY DEF Good, WorkTypeOK
  <2>5. \A i \in active[t].intents : i \in IntentIds /\ info[i].slot = t
    BY DEF Good, WorkOwnership, ActiveInPlace
  <2>6. CASE t = b.slot
    <3>1. /\ active'[t].op = active[t].op
          /\ active'[t].intents = active[t].intents
          /\ active'[t].lane = active[t].lane
          /\ active'[t].turn = TRUE
      BY <1>3, <2>4, <2>6 DEF ActiveBatch
    <3>2. \A i \in active[t].intents : ist'[i] = "Running"
      BY <1>1, <1>2, <2>5, <2>6
    <3> QED BY <2>2, <2>3, <3>1, <3>2
  <2>7. CASE t # b.slot
    <3>1. active'[t] = active[t]
      BY <1>3, <2>7
    <3>2. \A i \in active[t].intents : ist'[i] = ist[i]
      BY <1>1, <1>2, <2>5, <2>7
    <3> QED BY <2>2, <2>3, <3>1, <3>2
  <2> QED BY <2>6, <2>7
<1> QED BY <1>4, <1>5, <1>6, <1>7 DEF Good, WorkOwnership

\* push_front always finds a rank below a lane.
LEMMA FrontShiftIsInt ==
  ASSUME WorkTypeOK, NEW B \in SUBSET IntentIds, B # {}, NEW Q
  PROVE  FrontShift(B, Q) \in Int
<1>1. Max({rank[i] : i \in B}) \in Int
  BY MaxIsInt DEF WorkTypeOK, IntentIds
<1>2. LowestRank \in Int
  BY MinIsInt DEF LowestRank, WorkTypeOK, IntentIds
<1> QED BY <1>1, <1>2 DEF FrontShift

\* retry_start gives every intent of the batch back to the lane it came from.
LEMMA RetryGood ==
  ASSUME Good, NEW b \in WorkBatch, Copy(b), retry_start(b)
  PROVE  Good'
<1>1. /\ b.slot \in Slots /\ b.lane \in Lanes
      /\ active[b.slot].intents = b.intents
      /\ b.intents \subseteq IntentIds
      /\ b.intents # {}
      /\ \A i \in b.intents : /\ ist[i] \in {"Starting", "Running"}
                               /\ info[i].slot = b.slot
                               /\ Lane(i) = b.lane
  BY CurrentFacts DEF retry_start
<1>2. \A i \in IntentIds : ist'[i] = IF i \in b.intents THEN "Queued" ELSE ist[i]
  BY DEF retry_start, SetState
<1>3. ASSUME NEW t \in Slots
      PROVE  active'[t] = IF t = b.slot THEN NoBatch ELSE active[t]
  BY DEF retry_start, Good, WorkTypeOK
<1>4. WorkTypeOK'
  <2>1. ist' \in [IntentIds -> IntentStates]
    BY DEF retry_start, SetState, Good, WorkTypeOK, IntentStates, Live
  <2>2. active' \in [Slots -> ActiveBatch]
    BY DEF retry_start, Good, WorkTypeOK, ActiveBatch, NoBatch, Lanes
  <2>3. rank' \in [IntentIds -> Int]
    <3> DEFINE d == FrontShift(b.intents, queue[b.slot][b.lane])
    <3>1. d \in Int
      BY <1>1, FrontShiftIsInt DEF Good
    <3>2. rank' = [i \in IntentIds |-> IF i \in b.intents THEN rank[i] - d ELSE rank[i]]
      BY DEF retry_start
    <3> HIDE DEF d
    <3> QED BY <3>1, <3>2 DEF Good, WorkTypeOK
  <2>4. queue' \in [Slots -> [Lanes -> SUBSET IntentIds]]
    BY <1>1 DEF retry_start, Good, WorkTypeOK
  <2> QED BY <2>1, <2>2, <2>3, <2>4 DEF retry_start, Good, WorkTypeOK
<1>5. \A i : Lane(i)' = Lane(i)
  BY DEF retry_start, Lane
<1>6. info' = info
  BY DEF retry_start
<1>7. QueuedInPlace'
  <2>1. SUFFICES ASSUME NEW t \in Slots, NEW l \in Lanes, NEW i \in IntentIds
                 PROVE  i \in queue'[t][l] <=>
                          ist'[i] = "Queued" /\ info'[i].slot = t /\ Lane(i)' = l
    BY <1>4 DEF QueuedInPlace, WorkTypeOK
  <2>2. i \in queue[t][l] <=> ist[i] = "Queued" /\ info[i].slot = t /\ Lane(i) = l
    BY DEF Good, WorkOwnership, QueuedInPlace
  <2>3. i \in queue'[t][l] <=>
          i \in queue[t][l] \/ (t = b.slot /\ l = b.lane /\ i \in b.intents)
    BY <1>1 DEF retry_start, Good, WorkTypeOK
  <2> QED BY <1>1, <1>2, <1>5, <1>6, <2>2, <2>3
<1>8. ActiveInPlace'
  <2>1. SUFFICES ASSUME NEW t \in Slots, NEW i \in IntentIds
                 PROVE  i \in active'[t].intents <=>
                          ist'[i] \in {"Starting", "Running"} /\ info'[i].slot = t
    BY <1>4 DEF ActiveInPlace, WorkTypeOK, ActiveBatch
  <2>2. i \in active[t].intents <=> ist[i] \in {"Starting", "Running"} /\ info[i].slot = t
    BY DEF Good, WorkOwnership, ActiveInPlace
  <2> QED BY <1>1, <1>2, <1>3, <1>6, <2>2 DEF NoBatch
<1>9. PhaseAgrees'
  <2>1. SUFFICES ASSUME NEW t \in Slots
                 PROVE  /\ active'[t].op = 0 <=> active'[t].intents = {}
                        /\ \A i \in active'[t].intents :
                             /\ ist'[i] = IF active'[t].turn THEN "Running" ELSE "Starting"
                             /\ Lane(i)' = active'[t].lane
    BY DEF PhaseAgrees
  <2>2. /\ active[t].op = 0 <=> active[t].intents = {}
        /\ \A i \in active[t].intents :
             /\ ist[i] = IF active[t].turn THEN "Running" ELSE "Starting"
             /\ Lane(i) = active[t].lane
    BY DEF Good, WorkOwnership, PhaseAgrees
  <2>3. \A i \in active[t].intents : i \in IntentIds /\ info[i].slot = t
    BY DEF Good, WorkOwnership, ActiveInPlace
  <2>4. CASE t = b.slot
    BY <1>3, <2>4 DEF NoBatch
  <2>5. CASE t # b.slot
    BY <1>1, <1>2, <1>3, <1>5, <2>2, <2>3, <2>5
  <2> QED BY <2>4, <2>5
<1> QED BY <1>4, <1>7, <1>8, <1>9 DEF Good, WorkOwnership

\* complete_batch_with_ack ends the batch and the queued work the turn observed.
LEMMA CompleteGood ==
  ASSUME Good, NEW b \in WorkBatch, Copy(b), complete_batch_with_ack(b)
  PROVE  Good'
<1> DEFINE seen == {i \in LiveOf(b.slot) : info[i].msg \in active[b.slot].observed}
           done == b.intents \cup seen
<1>1. /\ b.slot \in Slots
      /\ active[b.slot].intents = b.intents
      /\ b.intents \subseteq IntentIds
      /\ \A i \in b.intents : ist[i] \in {"Starting", "Running"} /\ info[i].slot = b.slot
  BY CurrentFacts DEF complete_batch_with_ack
<1>2. done \subseteq IntentIds /\ \A i \in done : ist[i] \in Live /\ info[i].slot = b.slot
  BY <1>1 DEF LiveOf, Live
<1>3. /\ SetState(done, "Completed")
      /\ queue' = RemoveQueued(b.slot, done)
      /\ active' = [active EXCEPT ![b.slot] = NoBatch]
      /\ failures' = ClearCounts(b.slot, AckedMsgs(b))
      /\ UNCHANGED <<info, rank, paused, removed, present, constraint,
                     leases, interrupted, nextOp>>
  BY DEF complete_batch_with_ack
<1>4. active[b.slot].intents \subseteq done
  BY <1>1
<1> HIDE DEF seen, done
<1>5. WorkTypeOK'
  <2>1. ist' \in [IntentIds -> IntentStates]
    BY <1>3 DEF SetState, Good, WorkTypeOK, IntentStates, Terminal
  <2>2. active' \in [Slots -> ActiveBatch]
    BY <1>3 DEF Good, WorkTypeOK, ActiveBatch, NoBatch, Lanes
  <2>3. failures' \in [Slots -> [Msgs -> 0..255]]
    BY <1>1, <1>3, ClearCountsType DEF Good
  <2>4. queue' \in [Slots -> [Lanes -> SUBSET IntentIds]]
    BY <1>1, <1>3 DEF RemoveQueued, Good, WorkTypeOK
  <2> QED BY <1>3, <2>1, <2>2, <2>3, <2>4 DEF Good, WorkTypeOK
<1>6. WorkOwnership'
  BY <1>1, <1>2, <1>3, <1>4, <1>5, EndedOwnership DEF Terminal
<1> QED BY <1>5, <1>6 DEF Good

\* observe_messages changes only what the batch has observed.
LEMMA ObserveGood ==
  ASSUME Good, NEW b \in WorkBatch, NEW M \in SUBSET Msgs, observe_messages(b.slot, b.op, M)
  PROVE  Good'
<1>1. b.slot \in Slots
  BY DEF WorkBatch
<1> DEFINE a == [active[b.slot] EXCEPT !.observed = @ \cup (M \ BatchMsgs(active[b.slot]))]
<1>2. active[b.slot] \in ActiveBatch
  BY <1>1 DEF Good, WorkTypeOK
<1>3. active' = [active EXCEPT ![b.slot] = a]
  BY DEF observe_messages
<1>4. a \in ActiveBatch
  BY <1>2 DEF ActiveBatch
<1>5. /\ a.op = active[b.slot].op
      /\ a.intents = active[b.slot].intents
      /\ a.lane = active[b.slot].lane
      /\ a.turn = active[b.slot].turn
  BY <1>2 DEF ActiveBatch
<1> HIDE DEF a
<1>6. WorkTypeOK'
  BY <1>1, <1>3, <1>4 DEF Good, WorkTypeOK, observe_messages, intentVars
<1>7. \A s \in Slots : /\ active'[s].op = active[s].op
                       /\ active'[s].intents = active[s].intents
                       /\ active'[s].lane = active[s].lane
                       /\ active'[s].turn = active[s].turn
  BY <1>1, <1>3, <1>5 DEF Good, WorkTypeOK
<1>8. WorkOwnership'
  BY <1>7, FrameOwnership DEF Good, observe_messages, intentVars
<1> QED BY <1>6, <1>8 DEF Good

\* take_interrupt_metadata keeps types and ownership.
LEMMA TakeMetadataGood ==
  ASSUME Good, NEW op, take_interrupt_metadata(op)
  PROVE  Good'
<1>1. WorkTypeOK'
  BY DEF Good, WorkTypeOK, take_interrupt_metadata, intentVars, slotVars
<1>2. WorkOwnership'
  BY FrameOwnership DEF Good, take_interrupt_metadata, intentVars, slotVars
<1> QED BY <1>1, <1>2 DEF Good

\* Ending queued work of a slot and taking it out of its lanes keeps ownership.
LEMMA DroppedOwnership ==
  ASSUME Good, WorkTypeOK', NEW s \in Slots, NEW D \in SUBSET IntentIds, NEW st \in Terminal,
         \A i \in D : ist[i] = "Queued" /\ info[i].slot = s,
         SetState(D, st), queue' = RemoveQueued(s, D), active' = active, info' = info
  PROVE  WorkOwnership'
<1>1. \A i \in IntentIds : Lane(i)' = Lane(i)
  BY DEF Lane
<1>2. \A i \in IntentIds : ist'[i] = IF i \in D THEN st ELSE ist[i]
  BY DEF SetState
<1>3. st \notin {"Queued", "Starting", "Running"}
  BY DEF Terminal
<1>4. QueuedInPlace'
  <2>1. SUFFICES ASSUME NEW t \in Slots, NEW l \in Lanes, NEW i \in IntentIds
                 PROVE  i \in queue'[t][l] <=>
                          ist'[i] = "Queued" /\ info'[i].slot = t /\ Lane(i)' = l
    BY DEF QueuedInPlace, WorkTypeOK
  <2>2. i \in queue[t][l] <=> ist[i] = "Queued" /\ info[i].slot = t /\ Lane(i) = l
    BY DEF Good, WorkOwnership, QueuedInPlace
  <2>3. i \in queue'[t][l] <=> i \in queue[t][l] /\ ~(t = s /\ i \in D)
    BY DEF RemoveQueued, Good, WorkTypeOK
  <2> QED BY <1>1, <1>2, <1>3, <2>2, <2>3
<1>5. ActiveInPlace' /\ PhaseAgrees'
  BY <1>2, <1>3, BatchesUntouched
<1> QED BY <1>4, <1>5 DEF WorkOwnership

\* complete_signals keeps types and ownership.
LEMMA SignalsGood ==
  ASSUME Good, NEW s \in Slots, NEW S, complete_signals(s, S)
  PROVE  Good'
<1>1. /\ S \subseteq IntentIds
      /\ \A i \in S : ist[i] = "Queued" /\ info[i].slot = s
      /\ SetState(S, "Completed")
      /\ queue' = RemoveQueued(s, S)
      /\ UNCHANGED <<info, rank, active, paused, removed, present, constraint, failures,
                     leases, interrupted, nextOp>>
  BY DEF complete_signals
<1>2. ist' \in [IntentIds -> IntentStates]
  BY <1>1 DEF SetState, Good, WorkTypeOK, IntentStates, Terminal
<1>3. queue' \in [Slots -> [Lanes -> SUBSET IntentIds]]
  BY <1>1 DEF RemoveQueued, Good, WorkTypeOK
<1>4. WorkTypeOK'
  BY <1>1, <1>2, <1>3 DEF Good, WorkTypeOK
<1>5. WorkOwnership'
  BY <1>1, <1>4, DroppedOwnership DEF Terminal
<1> QED BY <1>4, <1>5 DEF Good

\* discard_queued_except keeps types and ownership.
LEMMA DiscardGood ==
  ASSUME Good, NEW s \in Slots, NEW keep, discard_queued_except(s, keep)
  PROVE  Good'
<1> DEFINE S == Discarded(s, keep)
<1>0. S \subseteq IntentIds /\ \A i \in S : ist[i] = "Queued" /\ info[i].slot = s
  BY DEF Discarded, queued_ids, Good, WorkOwnership, QueuedInPlace
<1>1. /\ SetState(S, "Cancelled")
      /\ queue' = RemoveQueued(s, S)
      /\ UNCHANGED <<info, rank, active, paused, removed, present, constraint, failures,
                     leases, interrupted, nextOp>>
  BY DEF discard_queued_except
<1> HIDE DEF S
<1>2. ist' \in [IntentIds -> IntentStates]
  BY <1>1 DEF SetState, Good, WorkTypeOK, IntentStates, Terminal
<1>3. queue' \in [Slots -> [Lanes -> SUBSET IntentIds]]
  BY <1>1 DEF RemoveQueued, Good, WorkTypeOK
<1>4. WorkTypeOK'
  BY <1>1, <1>2, <1>3 DEF Good, WorkTypeOK
<1>5. WorkOwnership'
  BY <1>0, <1>1, <1>4, DroppedOwnership DEF Terminal
<1> QED BY <1>4, <1>5 DEF Good

\* pause_slot keeps types and ownership.
LEMMA PauseGood ==
  ASSUME Good, NEW s \in Slots, pause_slot(s)
  PROVE  Good'
<1>1. WorkTypeOK'
  BY DEF Good, WorkTypeOK, pause_slot, intentVars
<1>2. WorkOwnership'
  BY FrameOwnership DEF Good, pause_slot, intentVars
<1> QED BY <1>1, <1>2 DEF Good

\* begin_runtime_restart keeps types and ownership.
LEMMA BeginRestartGood ==
  ASSUME Good, NEW s \in Slots, NEW q, begin_runtime_restart(s, q)
  PROVE  Good'
<1>1. [kind |-> "Starting", op |-> nextOp + 1] \in RuntimeConstraint
  BY DEF RuntimeConstraint, Good, WorkTypeOK
<1>2. WorkTypeOK'
  BY <1>1 DEF Good, WorkTypeOK, begin_runtime_restart, intentVars
<1>3. WorkOwnership'
  BY FrameOwnership DEF Good, begin_runtime_restart, intentVars
<1> QED BY <1>2, <1>3 DEF Good

\* abort_runtime_restart keeps types and ownership, however stale its gate.
LEMMA AbortRestartGood ==
  ASSUME Good, NEW g \in RuntimeRestartGate, abort_runtime_restart(g)
  PROVE  Good'
<1>1. g.slot \in Slots /\ g.previous \in RuntimeConstraint
  BY DEF RuntimeRestartGate
<1>2. WorkTypeOK'
  BY <1>1 DEF Good, WorkTypeOK, abort_runtime_restart, intentVars
<1>3. WorkOwnership'
  BY FrameOwnership DEF Good, abort_runtime_restart, intentVars
<1> QED BY <1>2, <1>3 DEF Good

\* remove_slot ends everything live of the slot.
LEMMA RemoveGood ==
  ASSUME Good, NEW s \in Slots, remove_slot(s)
  PROVE  Good'
<1> DEFINE gone == active[s].intents \cup queued_ids(s) \cup LiveOf(s)
<1>1. gone \subseteq IntentIds
  BY DEF queued_ids, LiveOf, Good, WorkTypeOK, ActiveBatch
<1>2. \A i \in gone : ist[i] \in Live /\ info[i].slot = s
  <2>1. \A i \in active[s].intents : ist[i] \in Live /\ info[i].slot = s
    BY DEF Good, WorkOwnership, ActiveInPlace, Live
  <2>2. \A i \in queued_ids(s) : ist[i] \in Live /\ info[i].slot = s
    BY DEF queued_ids, Good, WorkOwnership, QueuedInPlace, Live
  <2> QED BY <2>1, <2>2 DEF LiveOf
<1>3. /\ SetState(gone, "Cancelled")
      /\ queue' = [queue EXCEPT ![s] = ClearedQueue]
      /\ active' = [active EXCEPT ![s] = NoBatch]
      /\ removed' = [removed EXCEPT ![s] = s \in present]
      /\ UNCHANGED <<info, rank, paused, present, constraint, failures,
                     leases, interrupted, nextOp>>
  BY DEF remove_slot
<1>4. queue' = RemoveQueued(s, gone)
  <2>1. \A l \in Lanes : queue[s][l] \subseteq gone
    BY DEF queued_ids
  <2> HIDE DEF gone
  <2>2. [l \in Lanes |-> queue[s][l] \ gone] = ClearedQueue
    BY <2>1 DEF ClearedQueue
  <2> QED BY <1>3, <2>2 DEF RemoveQueued
<1>5. active[s].intents \subseteq gone
  OBVIOUS
<1> HIDE DEF gone
<1>6. WorkTypeOK'
  <2>1. ist' \in [IntentIds -> IntentStates]
    BY <1>3 DEF SetState, Good, WorkTypeOK, IntentStates, Terminal
  <2>2. active' \in [Slots -> ActiveBatch]
    BY <1>3 DEF Good, WorkTypeOK, ActiveBatch, NoBatch, Lanes
  <2>3. queue' \in [Slots -> [Lanes -> SUBSET IntentIds]]
    BY <1>3 DEF Good, WorkTypeOK, ClearedQueue
  <2>4. removed' \in [Slots -> BOOLEAN]
    BY <1>3 DEF Good, WorkTypeOK
  <2> QED BY <1>3, <2>1, <2>2, <2>3, <2>4 DEF Good, WorkTypeOK
<1>7. WorkOwnership'
  BY <1>1, <1>2, <1>3, <1>4, <1>5, <1>6, EndedOwnership DEF Terminal
<1> QED BY <1>6, <1>7 DEF Good

\* stop ends everything live of the session.
LEMMA StopGood ==
  ASSUME Good, stop
  PROVE  Good'
<1>1. \A i \in IntentIds : ist'[i] \notin {"Queued", "Starting", "Running"}
  BY DEF stop, SetState, Live
<1>2. /\ queue' = [s \in Slots |-> [l \in Lanes |-> {}]]
      /\ active' = [s \in Slots |-> NoBatch]
  BY DEF stop, ClearedQueue
<1>3. WorkTypeOK'
  <2>1. ist' \in [IntentIds -> IntentStates]
    BY DEF stop, SetState, Good, WorkTypeOK, IntentStates, Terminal
  <2>2. active' \in [Slots -> ActiveBatch]
    BY <1>2 DEF ActiveBatch, NoBatch, Lanes
  <2>3. queue' \in [Slots -> [Lanes -> SUBSET IntentIds]]
    BY <1>2
  <2>4. constraint' \in [Slots -> RuntimeConstraint]
    <3>1. [kind |-> "SessionStopped", op |-> 0] \in RuntimeConstraint
      BY DEF RuntimeConstraint
    <3> QED BY <3>1 DEF stop, Good, WorkTypeOK
  <2> QED BY <2>1, <2>2, <2>3, <2>4 DEF stop, Good, WorkTypeOK
<1>4. QueuedInPlace' /\ ActiveInPlace' /\ PhaseAgrees'
  BY <1>1, <1>2 DEF QueuedInPlace, ActiveInPlace, PhaseAgrees, NoBatch
<1> QED BY <1>3, <1>4 DEF Good, WorkOwnership

\* set_runtime_constraint: a failed runtime puts what it keeps back in its
\* lane and ends the rest, whatever order the HashMap yields.
LEMMA ConstrainGood ==
  ASSUME Good, NEW s \in Slots, NEW c \in RuntimeConstraint, set_runtime_constraint(s, c)
  PROVE  Good'
<1>0. /\ constraint' = [constraint EXCEPT ![s] = c]
      /\ present' = present \cup {s}
      /\ UNCHANGED <<info, paused, removed, failures, leases, interrupted, nextOp>>
  BY DEF set_runtime_constraint
<1>1. CASE c.kind \notin {"Failed", "SessionStopped"}
  <2>1. UNCHANGED <<ist, rank, queue, active>>
    BY <1>1 DEF set_runtime_constraint
  <2>2. WorkTypeOK'
    BY <1>0, <2>1 DEF Good, WorkTypeOK
  <2>3. WorkOwnership'
    BY <1>0, <2>1, FrameOwnership DEF Good
  <2> QED BY <2>2, <2>3 DEF Good
<1>2. CASE c.kind \in {"Failed", "SessionStopped"}
  <2> DEFINE R == Requeued(s, c)
  <2>1. /\ ist' = [i \in IntentIds |->
                      IF i \notin LiveOf(s) THEN ist[i]
                      ELSE IF i \in R THEN "Queued"
                      ELSE IF c.kind = "Failed" THEN "Failed" ELSE "Cancelled"]
        /\ queue' = [queue EXCEPT ![s] = [l \in Lanes |-> {i \in R : Lane(i) = l}]]
        /\ active' = [active EXCEPT ![s] = NoBatch]
        /\ \E p \in [R -> R] :
             /\ \A i, j \in R : i # j => p[i] # p[j]
             /\ rank' = [i \in IntentIds |-> IF i \in R THEN rank[p[i]] ELSE rank[i]]
    BY <1>2 DEF set_runtime_constraint
  <2>2. R \subseteq LiveOf(s) /\ LiveOf(s) \subseteq IntentIds
    BY DEF Requeued, LiveOf
  <2> HIDE DEF R
  <2>3. WorkTypeOK'
    <3>1. ist' \in [IntentIds -> IntentStates]
      BY <2>1 DEF Good, WorkTypeOK, IntentStates, Live, Terminal
    <3>2. active' \in [Slots -> ActiveBatch]
      BY <2>1 DEF Good, WorkTypeOK, ActiveBatch, NoBatch, Lanes
    <3>3. queue' \in [Slots -> [Lanes -> SUBSET IntentIds]]
      BY <2>1, <2>2 DEF Good, WorkTypeOK
    <3>4. rank' \in [IntentIds -> Int]
      BY <2>1, <2>2 DEF Good, WorkTypeOK
    <3> QED BY <1>0, <3>1, <3>2, <3>3, <3>4 DEF Good, WorkTypeOK
  <2>4. \A i : Lane(i)' = Lane(i)
    BY <1>0 DEF Lane
  <2>5. ASSUME NEW i \in IntentIds
        PROVE  /\ i \in LiveOf(s) <=> ist[i] \in {"Queued", "Starting", "Running"} /\ info[i].slot = s
               /\ ist'[i] \in {"Queued", "Starting", "Running"} <=>
                    IF i \in LiveOf(s) THEN i \in R ELSE ist[i] \in {"Queued", "Starting", "Running"}
               /\ i \notin LiveOf(s) => ist'[i] = ist[i]
               /\ i \in R => ist'[i] = "Queued"
    <3>1. i \in LiveOf(s) <=> ist[i] \in {"Queued", "Starting", "Running"} /\ info[i].slot = s
      BY DEF LiveOf, Live
    <3>2. ist'[i] = IF i \notin LiveOf(s) THEN ist[i]
                    ELSE IF i \in R THEN "Queued"
                    ELSE IF c.kind = "Failed" THEN "Failed" ELSE "Cancelled"
      BY <2>1
    <3> QED BY <2>2, <3>1, <3>2
  <2>6. ASSUME NEW t \in Slots
        PROVE  active'[t] = IF t = s THEN NoBatch ELSE active[t]
    BY <2>1 DEF Good, WorkTypeOK
  <2>7. QueuedInPlace'
    <3>1. SUFFICES ASSUME NEW t \in Slots, NEW l \in Lanes, NEW i \in IntentIds
                   PROVE  i \in queue'[t][l] <=>
                            ist'[i] = "Queued" /\ info'[i].slot = t /\ Lane(i)' = l
      BY <2>3 DEF QueuedInPlace, WorkTypeOK
    <3>2. i \in queue[t][l] <=> ist[i] = "Queued" /\ info[i].slot = t /\ Lane(i) = l
      BY DEF Good, WorkOwnership, QueuedInPlace
    <3>3. CASE t = s
      <4>1. i \in queue'[t][l] <=> i \in R /\ Lane(i) = l
        BY <2>1, <3>3 DEF Good, WorkTypeOK
      <4> QED BY <1>0, <2>2, <2>4, <2>5, <3>3, <4>1
    <3>4. CASE t # s
      <4>1. queue'[t][l] = queue[t][l]
        BY <2>1, <3>4 DEF Good, WorkTypeOK
      <4>2. info[i].slot = t => ist'[i] = ist[i]
        BY <2>5, <3>4
      <4> QED BY <1>0, <2>4, <3>2, <4>1, <4>2
    <3> QED BY <3>3, <3>4
  <2>8. ActiveInPlace'
    <3>1. SUFFICES ASSUME NEW t \in Slots, NEW i \in IntentIds
                   PROVE  i \in active'[t].intents <=>
                            ist'[i] \in {"Starting", "Running"} /\ info'[i].slot = t
      BY <2>3 DEF ActiveInPlace, WorkTypeOK, ActiveBatch
    <3>2. i \in active[t].intents <=> ist[i] \in {"Starting", "Running"} /\ info[i].slot = t
      BY DEF Good, WorkOwnership, ActiveInPlace
    <3> QED BY <1>0, <2>5, <2>6, <3>2 DEF NoBatch
  <2>9. PhaseAgrees'
    <3>1. SUFFICES ASSUME NEW t \in Slots
                   PROVE  /\ active'[t].op = 0 <=> active'[t].intents = {}
                          /\ \A i \in active'[t].intents :
                               /\ ist'[i] = IF active'[t].turn THEN "Running" ELSE "Starting"
                               /\ Lane(i)' = active'[t].lane
      BY DEF PhaseAgrees
    <3>2. CASE t = s
      BY <2>6, <3>2 DEF NoBatch
    <3>3. CASE t # s
      <4>1. /\ active[t].op = 0 <=> active[t].intents = {}
            /\ \A i \in active[t].intents :
                 /\ ist[i] = IF active[t].turn THEN "Running" ELSE "Starting"
                 /\ Lane(i) = active[t].lane
        BY DEF Good, WorkOwnership, PhaseAgrees
      <4>2. \A i \in active[t].intents : i \in IntentIds /\ info[i].slot = t
        BY DEF Good, WorkOwnership, ActiveInPlace
      <4>3. \A i \in active[t].intents : ist'[i] = ist[i]
        BY <2>5, <3>3, <4>2
      <4> QED BY <2>4, <2>6, <3>3, <4>1, <4>3
    <3> QED BY <3>2, <3>3
  <2> QED BY <2>3, <2>7, <2>8, <2>9 DEF Good, WorkOwnership
<1> QED BY <1>1, <1>2

\* cancel_run ends the work of the run and gives back, to its own lane, the
\* other work of the batches it takes apart.
LEMMA CancelRunGood ==
  ASSUME Good, NEW r \in Runs, cancel_run(r)
  PROVE  Good'
<1> DEFINE back == UNION {Retained(s, r) : s \in Slots}
           dead == {i \in OfRun(r) : ist[i] \in Live}
           shift(i) == FrontShift({j \in Retained(info[i].slot, r) : Lane(j) = Lane(i)},
                                  queue[info[i].slot][Lane(i)])
<1>1. /\ ist' = [i \in IntentIds |-> IF i \in dead THEN "Cancelled"
                                     ELSE IF i \in back THEN "Queued" ELSE ist[i]]
      /\ rank' = [i \in IntentIds |-> IF i \in back THEN rank[i] - shift(i) ELSE rank[i]]
      /\ queue' = [s \in Slots |->
                     [l \in Lanes |-> (queue[s][l] \cup {i \in Retained(s, r) : Lane(i) = l})
                                        \ OfRun(r)]]
      /\ active' = [s \in Slots |-> IF s \in SlotsOfRun(r) THEN NoBatch ELSE active[s]]
      /\ leases' = {l \in leases : l.run # r}
      /\ UNCHANGED <<info, paused, removed, present, constraint, failures,
                     interrupted, nextOp>>
  BY DEF cancel_run
<1>2. ASSUME NEW s \in Slots
      PROVE  Retained(s, r) \subseteq IntentIds /\ Retained(s, r) \subseteq active[s].intents
  BY DEF Retained, Good, WorkTypeOK, ActiveBatch
<1>3. ASSUME NEW i \in IntentIds
      PROVE  i \in active[info[i].slot].intents <=> ist[i] \in {"Starting", "Running"}
  BY DEF Good, WorkTypeOK, WorkIntent, WorkOwnership, ActiveInPlace
<1>4. ASSUME NEW s \in Slots, NEW i \in IntentIds, i \in active[s].intents
      PROVE  info[i].slot = s
  BY <1>4 DEF Good, WorkOwnership, ActiveInPlace
<1>5. ASSUME NEW i \in IntentIds
      PROVE  i \in back <=> i \in Retained(info[i].slot, r)
  <2>1. info[i].slot \in Slots
    BY DEF Good, WorkTypeOK, WorkIntent
  <2>2. ASSUME NEW s \in Slots, i \in Retained(s, r) PROVE info[i].slot = s
    BY <1>2, <1>4, <2>2
  <2> QED BY <2>1, <2>2
<1>6. \A i \in back : shift(i) \in Int
  <2>1. SUFFICES ASSUME NEW i \in back PROVE shift(i) \in Int
    OBVIOUS
  <2>2. i \in IntentIds
    BY <1>2
  <2> DEFINE B == {j \in Retained(info[i].slot, r) : Lane(j) = Lane(i)}
  <2>3. info[i].slot \in Slots
    BY <2>2 DEF Good, WorkTypeOK, WorkIntent
  <2>4. B \in SUBSET IntentIds /\ i \in B
    BY <1>2, <1>5, <2>2, <2>3
  <2> HIDE DEF B
  <2>5. FrontShift(B, queue[info[i].slot][Lane(i)]) \in Int
    BY <2>4, FrontShiftIsInt DEF Good
  <2> QED BY <2>5 DEF B
<1>7. dead \subseteq IntentIds /\ \A i \in IntentIds : i \in dead <=> i \in OfRun(r) /\ ist[i] \in Live
  BY DEF OfRun
<1> HIDE DEF back, dead, shift
<1>8. WorkTypeOK'
  <2>1. ist' \in [IntentIds -> IntentStates]
    BY <1>1 DEF Good, WorkTypeOK, IntentStates, Live, Terminal
  <2>2. active' \in [Slots -> ActiveBatch]
    BY <1>1 DEF Good, WorkTypeOK, ActiveBatch, NoBatch, Lanes
  <2>3. queue' \in [Slots -> [Lanes -> SUBSET IntentIds]]
    <3>1. ASSUME NEW s \in Slots, NEW l \in Lanes
          PROVE  (queue[s][l] \cup {i \in Retained(s, r) : Lane(i) = l}) \ OfRun(r) \in SUBSET IntentIds
      BY <1>2 DEF Good, WorkTypeOK
    <3> QED BY <1>1, <3>1
  <2>4. rank' \in [IntentIds -> Int]
    BY <1>1, <1>6 DEF Good, WorkTypeOK
  <2> QED BY <1>1, <2>1, <2>2, <2>3, <2>4 DEF Good, WorkTypeOK
<1>9. \A i : Lane(i)' = Lane(i)
  BY <1>1 DEF Lane
<1>10. ASSUME NEW i \in IntentIds
       PROVE  /\ i \in back <=> /\ i \notin OfRun(r)
                                /\ ist[i] \in {"Starting", "Running"}
                                /\ info[i].slot \in SlotsOfRun(r)
              /\ ist'[i] = IF i \in dead THEN "Cancelled"
                           ELSE IF i \in back THEN "Queued" ELSE ist[i]
  <2>1. i \in back <=> /\ i \notin OfRun(r)
                      /\ ist[i] \in {"Starting", "Running"}
                      /\ info[i].slot \in SlotsOfRun(r)
    BY <1>3, <1>5 DEF Retained
  <2> QED BY <1>1, <2>1
<1>11. QueuedInPlace'
  <2>1. SUFFICES ASSUME NEW t \in Slots, NEW l \in Lanes, NEW i \in IntentIds
                 PROVE  i \in queue'[t][l] <=>
                          ist'[i] = "Queued" /\ info'[i].slot = t /\ Lane(i)' = l
    BY <1>8 DEF QueuedInPlace, WorkTypeOK
  <2>2. i \in queue[t][l] <=> ist[i] = "Queued" /\ info[i].slot = t /\ Lane(i) = l
    BY DEF Good, WorkOwnership, QueuedInPlace
  <2>3. i \in queue'[t][l] <=>
          (i \in queue[t][l] \/ (i \in Retained(t, r) /\ Lane(i) = l)) /\ i \notin OfRun(r)
    BY <1>1
  <2>4. i \in Retained(t, r) <=> i \in back /\ info[i].slot = t
    BY <1>2, <1>4, <1>5
  <2>5. ist[i] = "Queued" => ist[i] \in Live
    BY DEF Live
  <2> QED BY <1>1, <1>7, <1>9, <1>10, <2>2, <2>3, <2>4, <2>5
<1>12. ActiveInPlace'
  <2>1. SUFFICES ASSUME NEW t \in Slots, NEW i \in IntentIds
                 PROVE  i \in active'[t].intents <=>
                          ist'[i] \in {"Starting", "Running"} /\ info'[i].slot = t
    BY <1>8 DEF ActiveInPlace, WorkTypeOK, ActiveBatch
  <2>2. i \in active[t].intents <=> ist[i] \in {"Starting", "Running"} /\ info[i].slot = t
    BY DEF Good, WorkOwnership, ActiveInPlace
  <2>3. i \in active'[t].intents <=> i \in active[t].intents /\ t \notin SlotsOfRun(r)
    BY <1>1 DEF NoBatch
  <2>4. ist[i] \in {"Starting", "Running"} => ist[i] \in Live
    BY DEF Live
  <2>5. i \in active[t].intents /\ i \in OfRun(r) => t \in SlotsOfRun(r)
    BY DEF SlotsOfRun
  <2> QED BY <1>1, <1>7, <1>10, <2>2, <2>3, <2>4, <2>5
<1>13. PhaseAgrees'
  <2>1. SUFFICES ASSUME NEW t \in Slots
                 PROVE  /\ active'[t].op = 0 <=> active'[t].intents = {}
                        /\ \A i \in active'[t].intents :
                             /\ ist'[i] = IF active'[t].turn THEN "Running" ELSE "Starting"
                             /\ Lane(i)' = active'[t].lane
    BY DEF PhaseAgrees
  <2>2. CASE t \in SlotsOfRun(r)
    BY <1>1, <2>2 DEF NoBatch
  <2>3. CASE t \notin SlotsOfRun(r)
    <3>1. /\ active[t].op = 0 <=> active[t].intents = {}
          /\ \A i \in active[t].intents :
               /\ ist[i] = IF active[t].turn THEN "Running" ELSE "Starting"
               /\ Lane(i) = active[t].lane
      BY DEF Good, WorkOwnership, PhaseAgrees
    <3>2. \A i \in active[t].intents : i \in IntentIds /\ info[i].slot = t
      BY DEF Good, WorkOwnership, ActiveInPlace
    <3>3. \A i \in active[t].intents : i \notin OfRun(r)
      BY <2>3 DEF SlotsOfRun
    <3>4. \A i \in active[t].intents : ist'[i] = ist[i]
      BY <1>7, <1>10, <2>3, <3>2, <3>3
    <3>5. active'[t] = active[t]
      BY <1>1, <2>3
    <3> QED BY <1>9, <3>1, <3>4, <3>5
  <2> QED BY <2>2, <2>3
<1> QED BY <1>8, <1>11, <1>12, <1>13 DEF Good, WorkOwnership
=============================================================================
