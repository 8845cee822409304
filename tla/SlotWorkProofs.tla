--------------------------- MODULE SlotWorkProofs ---------------------------
(***************************************************************************)
(* The invariants and action properties of SlotWorkCallers, for every      *)
(* value of its constants.  The invariant Inv is inductive; each property  *)
(* of the runs follows from it.                                            *)
(***************************************************************************)
EXTENDS SlotWorkCallers, SlotWorkSteps

USE ConstantsAssumption, CallersAssumption

\* Every operation id a caller holds was handed out before.
OpsInPast == \A b \in held : b.op <= nextOp

\* The inductive invariant.  Ownership alone is not inductive: that a batch
\* given back or ended by its holder is the active one needs HeldCopiesAgree,
\* and that a new claim makes no old copy current needs OpsInPast.
Inv == TypeOK /\ WorkOwnership /\ HeldCopiesAgree /\ OpsInPast

\* Of a batch there is only one claim: a step keeps it, or takes the slot away.
KeptOrGone ==
  \A s \in Slots : \/ active'[s].op = 0
                   \/ /\ active'[s].op = active[s].op
                      /\ active'[s].intents = active[s].intents
                      /\ active'[s].lane = active[s].lane

\* A step that keeps or frees every slot makes no held copy current again.
LEMMA CopiesStayTrue ==
  ASSUME Inv, KeptOrGone, held' = held, nextOp' \in Nat, nextOp' >= nextOp
  PROVE  HeldCopiesAgree' /\ OpsInPast'
<1>1. HeldCopiesAgree'
  <2>1. SUFFICES ASSUME NEW b \in held, active'[b.slot].op = b.op
                 PROVE  active'[b.slot].intents = b.intents /\ active'[b.slot].lane = b.lane
    BY DEF HeldCopiesAgree, is_current_batch
  <2>2. b.slot \in Slots /\ b.op # 0
    BY DEF Inv, TypeOK, WorkBatch
  <2>3. /\ active'[b.slot].op = active[b.slot].op
        /\ active'[b.slot].intents = active[b.slot].intents
        /\ active'[b.slot].lane = active[b.slot].lane
    BY <2>1, <2>2 DEF KeptOrGone
  <2> QED BY <2>1, <2>3 DEF Inv, HeldCopiesAgree, is_current_batch
<1>2. ASSUME NEW b \in held PROVE b.op <= nextOp'
  <2>1. b.op \in Nat /\ b.op <= nextOp /\ nextOp \in Nat
    BY DEF Inv, OpsInPast, TypeOK, WorkTypeOK, WorkBatch
  <2> QED BY <2>1
<1> QED BY <1>1, <1>2 DEF OpsInPast

\* Freeing one slot keeps or frees every slot.
LEMMA SlotCleared ==
  ASSUME WorkTypeOK, NEW s \in Slots, active' = [active EXCEPT ![s] = NoBatch]
  PROVE  KeptOrGone
<1>1. \A t \in Slots : active'[t] = IF t = s THEN NoBatch ELSE active[t]
  BY DEF WorkTypeOK
<1> QED BY <1>1 DEF KeptOrGone, NoBatch

\* The enqueue calls (acquire, commit, abort) keep the invariant.
LEMMA EnqueueKeepsInv ==
  ASSUME Inv, Enqueue
  PROVE  Inv'
<1>0. Good
  BY DEF Inv, TypeOK, Good
<1>1. Good' /\ active' = active /\ nextOp' = nextOp /\ UNCHANGED <<held, gates>>
  <2>1. CASE \E id \in LeaseIds, s \in Slots, src \in Sources, r \in Runs \cup {NoRun} :
               acquire_enqueue(id, s, src, r)
    <3>1. PICK id \in LeaseIds, s \in Slots, src \in AllSources, r \in Runs \cup {NoRun} :
               acquire_enqueue(id, s, src, r)
      BY <2>1
    <3> QED BY <1>0, <3>1, AcquireGood DEF acquire_enqueue, Enqueue
  <2>2. CASE \E l \in leases, m \in Msgs \cup {NoMsg} : commit_enqueue(l, m)
    <3>1. PICK l \in leases, m \in Msgs \cup {NoMsg} : commit_enqueue(l, m)
      BY <2>2
    <3> QED BY <1>0, <3>1, CommitGood DEF commit_enqueue, Enqueue
  <2>3. CASE \E l \in leases : Does("abort") /\ abort_enqueue(l)
    <3>1. PICK l \in leases : abort_enqueue(l)
      BY <2>3
    <3> QED BY <1>0, <3>1, AbortGood DEF abort_enqueue, slotVars, Enqueue
  <2> QED BY <2>1, <2>2, <2>3 DEF Enqueue
<1>2. KeptOrGone
  BY <1>1 DEF KeptOrGone
<1>3. nextOp' \in Nat /\ nextOp' >= nextOp
  BY <1>0, <1>1 DEF Good, WorkTypeOK
<1>4. HeldCopiesAgree' /\ OpsInPast'
  BY <1>1, <1>2, <1>3, CopiesStayTrue
<1> QED BY <1>1, <1>4 DEF Inv, TypeOK, Good

\* The mailbox projection and signal completion keep the invariant.
LEMMA ReconcileKeepsInv ==
  ASSUME Inv, Reconcile
  PROVE  Inv'
<1>0. Good
  BY DEF Inv, TypeOK, Good
<1>1. Good' /\ active' = active /\ nextOp' = nextOp /\ UNCHANGED <<held, gates>>
  <2>1. PICK s \in Slots :
          \/ \E unread \in SUBSET Msgs, cands \in SUBSET mailbox_reconcile_candidates(s) :
               reconcile_mailbox_snapshot(s, unread, cands)
          \/ \E S \in SUBSET queued_ids(s) : complete_signals(s, S)
    BY DEF Reconcile
  <2>2. CASE \E unread \in SUBSET Msgs, cands \in SUBSET mailbox_reconcile_candidates(s) :
               reconcile_mailbox_snapshot(s, unread, cands)
    <3>1. mailbox_reconcile_candidates(s) \subseteq IntentIds
      BY <1>0 DEF mailbox_reconcile_candidates, queued_ids, Good, WorkTypeOK
    <3>2. PICK unread \in SUBSET Msgs, cands \in SUBSET IntentIds :
               reconcile_mailbox_snapshot(s, unread, cands)
      BY <2>2, <3>1
    <3>3. active' = active /\ nextOp' = nextOp
      BY <3>2 DEF reconcile_mailbox_snapshot
    <3> QED BY <1>0, <3>2, <3>3, ReconcileGood DEF Reconcile
  <2>3. CASE \E S \in SUBSET queued_ids(s) : complete_signals(s, S)
    <3>1. PICK S \in SUBSET queued_ids(s) : complete_signals(s, S)
      BY <2>3
    <3> QED BY <1>0, <3>1, SignalsGood DEF complete_signals, Reconcile
  <2> QED BY <2>1, <2>2, <2>3
<1>2. KeptOrGone
  BY <1>1 DEF KeptOrGone
<1>3. nextOp' \in Nat /\ nextOp' >= nextOp
  BY <1>0, <1>1 DEF Good, WorkTypeOK
<1>4. HeldCopiesAgree' /\ OpsInPast'
  BY <1>1, <1>2, <1>3, CopiesStayTrue
<1> QED BY <1>1, <1>4 DEF Inv, TypeOK, Good

\* A claim keeps the invariant: its operation id is new, so that no copy
\* handed out before can pass for it.
LEMMA ClaimKeepsInv ==
  ASSUME Inv, Claim
  PROVE  Inv'
<1>0. Good
  BY DEF Inv, TypeOK, Good
<1>1. PICK s \in Slots :
        /\ next(s)
        /\ held' = held \cup {[slot |-> s, op |-> active'[s].op,
                               intents |-> active'[s].intents, lane |-> active'[s].lane]}
        /\ UNCHANGED gates
  BY DEF Claim
<1>2. Good'
  BY <1>0, <1>1, NextGood
<1>3. /\ nextOp' = nextOp + 1
      /\ active'[s].op = nextOp + 1
      /\ \A t \in Slots : t # s => active'[t] = active[t]
  <2>1. PICK l \in Lanes :
          /\ nextOp' = nextOp + 1
          /\ active' = [active EXCEPT ![s] = [op |-> nextOp + 1, intents |-> LeadingRun(s, l), lane |-> l,
                                              turn |-> FALSE, observed |-> {}]]
    BY <1>1 DEF next
  <2> QED BY <1>0, <2>1 DEF Good, WorkTypeOK
<1>4. nextOp \in Nat
  BY <1>0 DEF Good, WorkTypeOK
<1> DEFINE new == [slot |-> s, op |-> active'[s].op,
                   intents |-> active'[s].intents, lane |-> active'[s].lane]
<1>5. new \in WorkBatch
  <2>1. active'[s] \in ActiveBatch
    BY <1>2 DEF Good, WorkTypeOK
  <2> QED BY <1>3, <1>4, <2>1 DEF ActiveBatch, WorkBatch
<1>6. held' = held \cup {new} /\ new.slot = s /\ new.op = nextOp + 1
      /\ new.intents = active'[s].intents /\ new.lane = active'[s].lane
  BY <1>1, <1>3
<1> HIDE DEF new
<1>7. TypeOK'
  BY <1>1, <1>2, <1>5, <1>6 DEF Good, Inv, TypeOK
<1>8. ASSUME NEW b \in held
      PROVE  b.op \in Nat /\ b.op <= nextOp /\ b.slot \in Slots
  BY DEF Inv, OpsInPast, TypeOK, WorkBatch
<1>9. HeldCopiesAgree'
  <2>1. SUFFICES ASSUME NEW b \in held', active'[b.slot].op = b.op
                 PROVE  active'[b.slot].intents = b.intents /\ active'[b.slot].lane = b.lane
    BY DEF HeldCopiesAgree, is_current_batch
  <2>2. CASE b = new
    BY <1>6, <2>2
  <2>3. CASE b \in held
    <3>1. b.slot # s
      BY <1>3, <1>4, <1>8, <2>1, <2>3
    <3> QED BY <1>3, <1>8, <2>1, <2>3, <3>1 DEF Inv, HeldCopiesAgree, is_current_batch
  <2> QED BY <1>6, <2>2, <2>3
<1>10. OpsInPast'
  <2>1. ASSUME NEW b \in held PROVE b.op <= nextOp + 1
    BY <1>4, <1>8
  <2> QED BY <1>3, <1>4, <1>6, <2>1 DEF OpsInPast
<1> QED BY <1>2, <1>7, <1>9, <1>10 DEF Inv, Good

\* The calls of the holder of a batch, stale or not, keep the invariant.
LEMMA OwnKeepsInv ==
  ASSUME Inv, Own
  PROVE  Inv'
<1>0. Good /\ WorkTypeOK
  BY DEF Inv, TypeOK, Good
<1>1. PICK b \in held :
       \/ \E M \in SUBSET Msgs : observe_messages(b.slot, b.op, M)
       \/ mark_started(b)
       \/ retry_start(b)
       \/ complete_batch_with_ack(b)
       \/ fail_batch(b)
       \/ cancel_batch(b)
       \/ interrupt_batch(b)
       \/ take_interrupt_metadata(b.op)
  BY DEF Own
<1>2. b \in WorkBatch /\ Copy(b) /\ b.slot \in Slots
  BY DEF Inv, TypeOK, HeldCopiesAgree, Copy, WorkBatch
<1>3. UNCHANGED <<held, gates>>
  BY DEF Own
<1>4. Good' /\ KeptOrGone /\ nextOp' = nextOp
  <2>1. CASE \E M \in SUBSET Msgs : observe_messages(b.slot, b.op, M)
    <3>1. PICK M \in SUBSET Msgs : observe_messages(b.slot, b.op, M)
      BY <2>1
    <3>2. KeptOrGone
      <4> DEFINE a == [active[b.slot] EXCEPT !.observed = @ \cup (M \ BatchMsgs(active[b.slot]))]
      <4>1. active' = [active EXCEPT ![b.slot] = a]
        BY <3>1 DEF observe_messages
      <4>2. active[b.slot] \in ActiveBatch
        BY <1>0, <1>2 DEF WorkTypeOK
      <4>3. /\ a.op = active[b.slot].op
            /\ a.intents = active[b.slot].intents
            /\ a.lane = active[b.slot].lane
        BY <4>2 DEF ActiveBatch
      <4> HIDE DEF a
      <4> QED BY <1>0, <1>2, <4>1, <4>3 DEF KeptOrGone, WorkTypeOK
    <3>3. nextOp' = nextOp
      BY <3>1 DEF observe_messages
    <3> QED BY <1>0, <1>2, <3>1, <3>2, <3>3, ObserveGood
  <2>2. CASE mark_started(b)
    <3>1. KeptOrGone
      <4>1. active' = [active EXCEPT ![b.slot] = [active[b.slot] EXCEPT !.turn = TRUE]]
        BY <2>2 DEF mark_started
      <4>2. active[b.slot] \in ActiveBatch
        BY <1>0, <1>2 DEF WorkTypeOK
      <4> QED BY <1>0, <1>2, <4>1, <4>2 DEF KeptOrGone, WorkTypeOK, ActiveBatch
    <3> QED BY <1>0, <1>2, <2>2, <3>1, MarkStartedGood DEF mark_started
  <2>3. CASE retry_start(b)
    BY <1>0, <1>2, <2>3, RetryGood, SlotCleared DEF retry_start
  <2>4. CASE complete_batch_with_ack(b)
    BY <1>0, <1>2, <2>4, CompleteGood, SlotCleared DEF complete_batch_with_ack
  <2>5. CASE fail_batch(b)
    BY <1>0, <1>2, <2>5, FailGood, SlotCleared DEF fail_batch
  <2>6. CASE cancel_batch(b)
    BY <1>0, <1>2, <2>6, CancelGood, SlotCleared DEF cancel_batch
  <2>7. CASE interrupt_batch(b)
    BY <1>0, <1>2, <2>7, InterruptGood, SlotCleared DEF interrupt_batch
  <2>8. CASE take_interrupt_metadata(b.op)
    BY <1>0, <2>8, TakeMetadataGood DEF take_interrupt_metadata, slotVars, KeptOrGone
  <2> QED BY <1>1, <2>1, <2>2, <2>3, <2>4, <2>5, <2>6, <2>7, <2>8
<1>5. nextOp' \in Nat /\ nextOp' >= nextOp
  BY <1>0, <1>4 DEF WorkTypeOK
<1>6. HeldCopiesAgree' /\ OpsInPast'
  BY <1>3, <1>4, <1>5, CopiesStayTrue
<1> QED BY <1>3, <1>4, <1>6 DEF Inv, TypeOK, Good

\* The calls on slots, runs and the session keep the invariant.
LEMMA ControlKeepsInv ==
  ASSUME Inv, Control
  PROVE  Inv'
<1>0. Good /\ WorkTypeOK
  BY DEF Inv, TypeOK, Good
<1>1. UNCHANGED <<held, gates>>
  BY DEF Control
<1>2. \/ \E s \in Slots : \E m \in Msgs : discard_queued_except(s, m)
      \/ \E s \in Slots : pause_slot(s)
      \/ \E s \in Slots : \E c \in Constraints : set_runtime_constraint(s, c)
      \/ \E s \in Slots : remove_slot(s)
      \/ \E g \in gates : abort_runtime_restart(g)
      \/ \E r \in Runs : cancel_run(r)
      \/ stop
  BY DEF Control
<1>3. Good' /\ KeptOrGone /\ nextOp' = nextOp
  <2>1. ASSUME NEW s \in Slots, NEW m \in Msgs, discard_queued_except(s, m)
        PROVE  Good' /\ KeptOrGone /\ nextOp' = nextOp
    BY <1>0, <2>1, DiscardGood DEF discard_queued_except, KeptOrGone
  <2>2. ASSUME NEW s \in Slots, pause_slot(s)
        PROVE  Good' /\ KeptOrGone /\ nextOp' = nextOp
    BY <1>0, <2>2, PauseGood DEF pause_slot, KeptOrGone
  <2>3. ASSUME NEW s \in Slots, NEW c \in Constraints, set_runtime_constraint(s, c)
        PROVE  Good' /\ KeptOrGone /\ nextOp' = nextOp
    <3>1. c \in RuntimeConstraint
      BY DEF Constraints, RuntimeConstraint
    <3>2. active' = active \/ active' = [active EXCEPT ![s] = NoBatch]
      BY <2>3 DEF set_runtime_constraint
    <3>3. KeptOrGone
      <4>1. CASE active' = active
        BY <4>1 DEF KeptOrGone
      <4>2. CASE active' = [active EXCEPT ![s] = NoBatch]
        BY <1>0, <4>2, SlotCleared
      <4> QED BY <3>2, <4>1, <4>2
    <3>4. nextOp' = nextOp
      BY <2>3 DEF set_runtime_constraint
    <3> QED BY <1>0, <2>3, <3>1, <3>3, <3>4, ConstrainGood
  <2>4. ASSUME NEW s \in Slots, remove_slot(s)
        PROVE  Good' /\ KeptOrGone /\ nextOp' = nextOp
    BY <1>0, <2>4, RemoveGood, SlotCleared DEF remove_slot
  <2>5. ASSUME NEW g \in gates, abort_runtime_restart(g)
        PROVE  Good' /\ KeptOrGone /\ nextOp' = nextOp
    <3>1. g \in RuntimeRestartGate
      BY DEF Inv, TypeOK
    <3> QED BY <1>0, <2>5, <3>1, AbortRestartGood DEF abort_runtime_restart, KeptOrGone
  <2>6. ASSUME NEW r \in Runs, cancel_run(r)
        PROVE  Good' /\ KeptOrGone /\ nextOp' = nextOp
    <3>1. /\ active' = [s \in Slots |-> IF s \in SlotsOfRun(r) THEN NoBatch ELSE active[s]]
          /\ nextOp' = nextOp
      BY <2>6 DEF cancel_run
    <3>2. KeptOrGone
      BY <3>1 DEF KeptOrGone, NoBatch
    <3> QED BY <1>0, <2>6, <3>1, <3>2, CancelRunGood
  <2>7. ASSUME stop
        PROVE  Good' /\ KeptOrGone /\ nextOp' = nextOp
    <3>1. KeptOrGone
      BY <2>7 DEF stop, KeptOrGone, NoBatch
    <3>2. nextOp' = nextOp
      BY <2>7 DEF stop
    <3> QED BY <1>0, <2>7, <3>1, <3>2, StopGood
  <2> QED BY <1>2, <2>1, <2>2, <2>3, <2>4, <2>5, <2>6, <2>7
<1>4. nextOp' \in Nat /\ nextOp' >= nextOp
  BY <1>0, <1>3 DEF WorkTypeOK
<1>5. HeldCopiesAgree' /\ OpsInPast'
  BY <1>1, <1>3, <1>4, CopiesStayTrue
<1> QED BY <1>1, <1>3, <1>5 DEF Inv, TypeOK, Good

\* Opening a restart gate keeps the invariant.
LEMMA GateKeepsInv ==
  ASSUME Inv, Gate
  PROVE  Inv'
<1>0. Good /\ WorkTypeOK
  BY DEF Inv, TypeOK, Good
<1>1. PICK s \in Slots, q \in BOOLEAN :
        /\ begin_runtime_restart(s, q)
        /\ gates' = gates \cup {[slot |-> s, op |-> nextOp', previous |-> constraint[s]]}
        /\ UNCHANGED held
  BY DEF Gate
<1>2. Good'
  BY <1>0, <1>1, BeginRestartGood
<1>3. nextOp' \in Nat /\ nextOp' >= nextOp /\ active' = active
  BY <1>0, <1>1 DEF begin_runtime_restart, WorkTypeOK
<1>4. gates' \subseteq RuntimeRestartGate
  <2>1. [slot |-> s, op |-> nextOp', previous |-> constraint[s]] \in RuntimeRestartGate
    BY <1>0, <1>3 DEF RuntimeRestartGate, WorkTypeOK
  <2> QED BY <1>1, <2>1 DEF Inv, TypeOK
<1>5. HeldCopiesAgree' /\ OpsInPast'
  BY <1>1, <1>3, CopiesStayTrue DEF KeptOrGone
<1> QED BY <1>1, <1>2, <1>4, <1>5 DEF Inv, TypeOK, Good

\* A new coordinator satisfies the invariant.
LEMMA InitInv == Init => Inv
<1> SUFFICES ASSUME Init PROVE Inv
  OBVIOUS
<1>1. Good
  BY InitGood DEF Init
<1>2. TypeOK
  BY <1>1 DEF Good, TypeOK, Init
<1> QED BY <1>1, <1>2 DEF Good, Inv, HeldCopiesAgree, OpsInPast, Init

\* Every call of every caller keeps the invariant.
LEMMA NextInv == Inv /\ [Next]_vars => Inv'
<1> SUFFICES ASSUME Inv, [Next]_vars PROVE Inv'
  OBVIOUS
<1>1. CASE UNCHANGED vars
  <2>1. UNCHANGED <<ist, info, rank, queue, active, paused, removed, present, constraint,
                    failures, leases, interrupted, nextOp, held, gates>>
    BY <1>1 DEF vars, workVars, intentVars, slotVars
  <2>2. TypeOK'
    BY <2>1 DEF Inv, TypeOK, WorkTypeOK
  <2>3. WorkOwnership'
    BY <2>1, FrameOwnership DEF Inv, TypeOK
  <2> QED BY <2>1, <2>2, <2>3 DEF Inv, HeldCopiesAgree, OpsInPast, is_current_batch
<1>2. CASE Enqueue
  BY <1>2, EnqueueKeepsInv
<1>3. CASE Reconcile
  BY <1>3, ReconcileKeepsInv
<1>4. CASE Claim
  BY <1>4, ClaimKeepsInv
<1>5. CASE Own
  BY <1>5, OwnKeepsInv
<1>6. CASE Control
  BY <1>6, ControlKeepsInv
<1>7. CASE Gate
  BY <1>7, GateKeepsInv
<1> QED BY <1>1, <1>2, <1>3, <1>4, <1>5, <1>6, <1>7 DEF Next

\* The inductive invariant holds for every number of slots, messages, runs,
\* leases and calls of the coordinator.
THEOREM Invariance == Spec => []Inv
  BY InitInv, NextInv, PTL DEF Spec

\* Every call of the coordinator leaves a well-typed state: in particular a
\* delivery failure count stays within a u8, and a batch only holds real intents.
THEOREM TypeCorrect == Spec => []TypeOK
<1>1. Inv => TypeOK
  BY DEF Inv
<1> QED BY Invariance, <1>1, PTL

\* Every live intent is in exactly one place, its lane or the active batch
\* of its slot, whatever callers do with the batches they were ever handed.
THEOREM OwnershipHolds == Spec => []WorkOwnership
<1>1. Inv => WorkOwnership
  BY DEF Inv
<1> QED BY Invariance, <1>1, PTL

\* A batch held by a caller either is the active batch of its slot, with the
\* same intents and lane, or is not current: operation ids are never reused.
THEOREM CopiesAgree == Spec => []HeldCopiesAgree
<1>1. Inv => HeldCopiesAgree
  BY DEF Inv
<1> QED BY Invariance, <1>1, PTL

\* What a step may never do: change an intent that is finished.
FinalStep ==
  \A i \in IntentIds : ist[i] \in Terminal => ist'[i] = ist[i] /\ info'[i] = info[i]

\* A step that sets the state of live intents only leaves finished ones alone.
LEMMA OnlyLiveChange ==
  ASSUME NEW D, NEW st, SetState(D, st), info' = info,
         \A i \in D : ist[i] \in Live
  PROVE  FinalStep
<1>1. \A i \in IntentIds : ist'[i] = IF i \in D THEN st ELSE ist[i]
  BY DEF SetState
<1>2. \A i \in D : ist[i] \notin Terminal
  BY DEF Live, Terminal
<1> QED BY <1>1, <1>2 DEF FinalStep

\* The enqueue calls touch no finished intent.
LEMMA EnqueueFinal ==
  ASSUME Inv, Enqueue
  PROVE  FinalStep
<1>1. CASE \E id \in LeaseIds, s \in Slots, src \in Sources, r \in Runs \cup {NoRun} :
             acquire_enqueue(id, s, src, r)
  BY <1>1 DEF acquire_enqueue, intentVars, FinalStep
<1>2. CASE \E l \in leases, m \in Msgs \cup {NoMsg} : commit_enqueue(l, m)
  <2>1. PICK l \in leases, m \in Msgs \cup {NoMsg}, i \in IntentIds :
          /\ Fresh(i)
          /\ SetState({i}, "Queued")
          /\ info' = [info EXCEPT ![i] = [slot |-> l.slot, source |-> l.source,
                                          msg |-> m, run |-> l.run]]
    BY <1>2 DEF commit_enqueue
  <2>2. ist[i] \notin Terminal
    BY <2>1 DEF Fresh, Terminal
  <2>3. \A j \in IntentIds : j # i => ist'[j] = ist[j] /\ info'[j] = info[j]
    BY <2>1 DEF SetState, Inv, TypeOK, WorkTypeOK
  <2> QED BY <2>2, <2>3 DEF FinalStep
<1>3. CASE \E l \in leases : Does("abort") /\ abort_enqueue(l)
  BY <1>3 DEF abort_enqueue, intentVars, FinalStep
<1> QED BY <1>1, <1>2, <1>3 DEF Enqueue

\* The mailbox projection touches no finished intent.
LEMMA ReconcileFinal ==
  ASSUME Inv, Reconcile
  PROVE  FinalStep
<1>0. Good
  BY DEF Inv, TypeOK, Good
<1>1. PICK s \in Slots :
        \/ \E unread \in SUBSET Msgs, cands \in SUBSET mailbox_reconcile_candidates(s) :
             reconcile_mailbox_snapshot(s, unread, cands)
        \/ \E S \in SUBSET queued_ids(s) : complete_signals(s, S)
  BY DEF Reconcile
<1>2. CASE \E S \in SUBSET queued_ids(s) : complete_signals(s, S)
  <2>1. PICK S : complete_signals(s, S)
    BY <1>2
  <2>2. \A i \in S : ist[i] \in Live
    BY <2>1 DEF complete_signals, Live
  <2> QED BY <2>1, <2>2, OnlyLiveChange DEF complete_signals
<1>3. CASE \E unread \in SUBSET Msgs, cands \in SUBSET mailbox_reconcile_candidates(s) :
             reconcile_mailbox_snapshot(s, unread, cands)
  <2>1. PICK unread \in SUBSET Msgs, cands \in SUBSET mailbox_reconcile_candidates(s) :
          reconcile_mailbox_snapshot(s, unread, cands)
    BY <1>3
  <2> DEFINE stale == {i \in queued_ids(s) :
                         info[i].msg # NoMsg /\ info[i].msg \notin unread /\ i \in cands}
             news  == Unowned(s, unread)
             row(new, i) == CHOOSE m \in news : new[m] = i
  <2>2. PICK new \in [news -> IntentIds] :
          /\ \A m \in news : ist[new[m]] = "Unborn"
          /\ ist' = [i \in IntentIds |-> IF i \in stale THEN "Completed"
                                         ELSE IF i \in {new[m] : m \in news} THEN "Queued" ELSE ist[i]]
          /\ info' = [i \in IntentIds |->
                        IF i \in {new[m] : m \in news}
                          THEN [slot |-> s, source |-> "RecoveryDrain",
                                msg |-> row(new, i), run |-> NoRun]
                          ELSE info[i]]
    BY <2>1 DEF reconcile_mailbox_snapshot
  <2>3. \A i \in stale : ist[i] = "Queued"
    BY <1>0 DEF queued_ids, Good, WorkOwnership, QueuedInPlace
  <2> HIDE DEF stale, news, row
  <2>4. ASSUME NEW i \in IntentIds, ist[i] \in Terminal
        PROVE  ist'[i] = ist[i] /\ info'[i] = info[i]
    <3>1. i \notin stale /\ i \notin {new[m] : m \in news}
      BY <2>2, <2>3, <2>4 DEF Terminal
    <3> QED BY <2>2, <3>1
  <2> QED BY <2>4 DEF FinalStep
<1> QED BY <1>1, <1>2, <1>3

\* A claim touches no finished intent.
LEMMA ClaimFinal ==
  ASSUME Inv, Claim
  PROVE  FinalStep
<1>1. PICK s \in Slots, l \in Lanes : SetState(LeadingRun(s, l), "Starting") /\ info' = info
  BY DEF Claim, next
<1>2. \A i \in LeadingRun(s, l) : ist[i] \in Live
  BY DEF LeadingRun, Inv, WorkOwnership, QueuedInPlace, Live
<1> QED BY <1>1, <1>2, OnlyLiveChange

\* The holder of a batch, stale or not, touches no finished intent.
LEMMA OwnFinal ==
  ASSUME Inv, Own
  PROVE  FinalStep
<1>0. Good
  BY DEF Inv, TypeOK, Good
<1>1. PICK b \in held :
       \/ \E M \in SUBSET Msgs : observe_messages(b.slot, b.op, M)
       \/ mark_started(b)
       \/ retry_start(b)
       \/ complete_batch_with_ack(b)
       \/ fail_batch(b)
       \/ cancel_batch(b)
       \/ interrupt_batch(b)
       \/ take_interrupt_metadata(b.op)
  BY DEF Own
<1>2. b \in WorkBatch /\ Copy(b)
  BY DEF Inv, TypeOK, HeldCopiesAgree, Copy
<1>3. is_current_batch(b) => \A i \in b.intents : ist[i] \in Live
  BY <1>0, <1>2, CurrentFacts DEF Live
<1>4. CASE \E M \in SUBSET Msgs : observe_messages(b.slot, b.op, M)
  BY <1>4 DEF observe_messages, intentVars, FinalStep
<1>5. CASE mark_started(b)
  BY <1>3, <1>5, OnlyLiveChange DEF mark_started
<1>6. CASE retry_start(b)
  BY <1>3, <1>6, OnlyLiveChange DEF retry_start
<1>7. CASE complete_batch_with_ack(b)
  <2> DEFINE done == b.intents \cup {i \in LiveOf(b.slot) : info[i].msg \in active[b.slot].observed}
  <2>1. SetState(done, "Completed") /\ info' = info /\ is_current_batch(b)
    BY <1>7 DEF complete_batch_with_ack
  <2>2. \A i \in done : ist[i] \in Live
    BY <1>3, <2>1 DEF LiveOf
  <2> HIDE DEF done
  <2> QED BY <2>1, <2>2, OnlyLiveChange
<1>8. CASE fail_batch(b)
  BY <1>3, <1>8, OnlyLiveChange DEF fail_batch
<1>9. CASE cancel_batch(b)
  BY <1>3, <1>9, OnlyLiveChange DEF cancel_batch
<1>10. CASE interrupt_batch(b)
  BY <1>3, <1>10, OnlyLiveChange DEF interrupt_batch
<1>11. CASE take_interrupt_metadata(b.op)
  BY <1>11 DEF take_interrupt_metadata, intentVars, FinalStep
<1> QED BY <1>1, <1>4, <1>5, <1>6, <1>7, <1>8, <1>9, <1>10, <1>11

\* The calls on slots, runs and the session touch no finished intent.
LEMMA ControlFinal ==
  ASSUME Inv, Control
  PROVE  FinalStep
<1>0. Good
  BY DEF Inv, TypeOK, Good
<1>1. \/ \E s \in Slots : \E m \in Msgs : discard_queued_except(s, m)
      \/ \E s \in Slots : pause_slot(s)
      \/ \E s \in Slots : \E c \in Constraints : set_runtime_constraint(s, c)
      \/ \E s \in Slots : remove_slot(s)
      \/ \E g \in gates : abort_runtime_restart(g)
      \/ \E r \in Runs : cancel_run(r)
      \/ stop
  BY DEF Control
<1>2. ASSUME NEW s \in Slots, NEW m \in Msgs, discard_queued_except(s, m)
      PROVE  FinalStep
  <2>1. \A i \in Discarded(s, m) : ist[i] \in Live
    BY <1>0 DEF Discarded, queued_ids, Good, WorkOwnership, QueuedInPlace, Live
  <2> QED BY <1>2, <2>1, OnlyLiveChange DEF discard_queued_except
<1>3. ASSUME NEW s \in Slots, pause_slot(s)
      PROVE  FinalStep
  BY <1>3 DEF pause_slot, intentVars, FinalStep
<1>4. ASSUME NEW s \in Slots, NEW c \in Constraints, set_runtime_constraint(s, c)
      PROVE  FinalStep
  <2>1. info' = info
    BY <1>4 DEF set_runtime_constraint
  <2>2. ASSUME NEW i \in IntentIds, ist[i] \in Terminal
        PROVE  ist'[i] = ist[i]
    <3>1. i \notin LiveOf(s)
      BY <2>2 DEF LiveOf, Live, Terminal
    <3> QED BY <1>4, <3>1 DEF set_runtime_constraint
  <2> QED BY <2>1, <2>2 DEF FinalStep
<1>5. ASSUME NEW s \in Slots, remove_slot(s)
      PROVE  FinalStep
  <2> DEFINE gone == active[s].intents \cup queued_ids(s) \cup LiveOf(s)
  <2>1. SetState(gone, "Cancelled") /\ info' = info
    BY <1>5 DEF remove_slot
  <2>2. \A i \in active[s].intents : ist[i] \in Live
    BY <1>0 DEF Good, WorkOwnership, ActiveInPlace, Live
  <2>3. \A i \in queued_ids(s) : ist[i] \in Live
    BY <1>0 DEF queued_ids, Good, WorkOwnership, QueuedInPlace, Live
  <2>4. \A i \in gone : ist[i] \in Live
    BY <2>2, <2>3 DEF LiveOf
  <2> HIDE DEF gone
  <2> QED BY <2>1, <2>4, OnlyLiveChange
<1>6. ASSUME NEW g \in gates, abort_runtime_restart(g)
      PROVE  FinalStep
  BY <1>6 DEF abort_runtime_restart, intentVars, FinalStep
<1>7. ASSUME NEW r \in Runs, cancel_run(r)
      PROVE  FinalStep
  <2> DEFINE back == UNION {Retained(s, r) : s \in Slots}
             dead == {i \in OfRun(r) : ist[i] \in Live}
  <2>1. /\ ist' = [i \in IntentIds |-> IF i \in dead THEN "Cancelled"
                                       ELSE IF i \in back THEN "Queued" ELSE ist[i]]
        /\ info' = info
    BY <1>7 DEF cancel_run
  <2>2. \A i \in dead : ist[i] \in Live
    OBVIOUS
  <2>3. \A i \in back : ist[i] \in Live
    BY <1>0 DEF Retained, Good, WorkOwnership, ActiveInPlace, Live
  <2> HIDE DEF back, dead
  <2> QED BY <2>1, <2>2, <2>3 DEF FinalStep, Live, Terminal
<1>8. ASSUME stop
      PROVE  FinalStep
  <2>1. SetState({i \in IntentIds : ist[i] \in Live}, "Cancelled") /\ info' = info
    BY <1>8 DEF stop
  <2> QED BY <2>1, OnlyLiveChange
<1> QED BY <1>1, <1>2, <1>3, <1>4, <1>5, <1>6, <1>7, <1>8

\* A completed, failed or cancelled intent is never changed again by any
\* operation of the coordinator, late calls of former owners included.
THEOREM FinishedStaysFinished == Spec => TerminalIsFinal
<1>1. Inv /\ [Next]_vars => [FinalStep]_workVars
  <2> SUFFICES ASSUME Inv, [Next]_vars PROVE FinalStep \/ UNCHANGED workVars
    OBVIOUS
  <2>1. CASE UNCHANGED vars
    BY <2>1 DEF vars
  <2>2. CASE Gate
    BY <2>2 DEF Gate, begin_runtime_restart, intentVars, FinalStep
  <2> QED BY <2>1, <2>2, EnqueueFinal, ReconcileFinal, ClaimFinal, OwnFinal, ControlFinal DEF Next
<1>2. Spec => [][FinalStep]_workVars
  BY <1>1, Invariance, PTL DEF Spec
<1> QED BY <1>2 DEF TerminalIsFinal, FinalStep

\* The effect of cancel_run that CancelRunIsExact promises.
ExactCancel(r) ==
  /\ \A i \in IntentIds :
       ist[i] \in Live => (ist'[i] \in Live <=> info[i].run # r)
  /\ \A s \in Slots :
       active'[s] # active[s] => \A i \in active[s].intents : ist'[i] \in {"Queued", "Cancelled"}
  /\ \A l \in leases : l \in leases' <=> l.run # r

\* What one cancel_run does, from the invariant.
LEMMA CancelRunStep ==
  ASSUME Inv, NEW r \in Runs, cancel_run(r)
  PROVE  ExactCancel(r)
<1> DEFINE back == UNION {Retained(s, r) : s \in Slots}
           dead == {i \in OfRun(r) : ist[i] \in Live}
<1>1. /\ ist' = [i \in IntentIds |-> IF i \in dead THEN "Cancelled"
                                     ELSE IF i \in back THEN "Queued" ELSE ist[i]]
      /\ active' = [s \in Slots |-> IF s \in SlotsOfRun(r) THEN NoBatch ELSE active[s]]
      /\ leases' = {l \in leases : l.run # r}
  BY DEF cancel_run
<1>2. ASSUME NEW i \in IntentIds
      PROVE  i \in dead <=> ist[i] \in Live /\ info[i].run = r
  BY DEF OfRun, Live
<1>3. ASSUME NEW s \in Slots, s \in SlotsOfRun(r), NEW i \in active[s].intents
      PROVE  i \in IntentIds /\ (i \in dead \/ i \in back)
  <2>1. i \in IntentIds /\ ist[i] \in Live
    BY DEF Inv, WorkOwnership, ActiveInPlace, Live
  <2> QED BY <1>3, <2>1 DEF Retained
<1> HIDE DEF back, dead
<1>4. ASSUME NEW i \in IntentIds, ist[i] \in Live
      PROVE  ist'[i] \in Live <=> info[i].run # r
  BY <1>1, <1>2, <1>4 DEF Live
<1>5. ASSUME NEW s \in Slots, active'[s] # active[s], NEW i \in active[s].intents
      PROVE  ist'[i] \in {"Queued", "Cancelled"}
  <2>1. s \in SlotsOfRun(r)
    BY <1>1, <1>5
  <2> QED BY <1>1, <1>3, <2>1
<1> QED BY <1>1, <1>4, <1>5 DEF ExactCancel

\* cancel_run ends all live work of its run and no other, gives back what
\* shared a batch with it, and revokes exactly the leases of the run.
THEOREM CancelRunExact == Spec => CancelRunIsExact
<1>1. Inv => [\A r \in Runs : cancel_run(r) => ExactCancel(r)]_workVars
  BY CancelRunStep
<1>2. Spec => [][\A r \in Runs : cancel_run(r) => ExactCancel(r)]_workVars
  BY <1>1, Invariance, PTL
<1> QED BY <1>2 DEF CancelRunIsExact, ExactCancel
=============================================================================
