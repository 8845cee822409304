---------------------------- MODULE SlotWorkOrder ----------------------------
(***************************************************************************)
(* The order of claims: what is batched together, and what may be claimed  *)
(* before what, for every value of the constants.                          *)
(***************************************************************************)
EXTENDS SlotWorkProofs

USE ConstantsAssumption

\* The work that stands for a row of a run, which NoOvertaking is about.
Counted(i) == ist[i] \in Live /\ info[i].run # NoRun /\ info[i].msg # NoMsg

\* No two live intents of a slot are at the same place of a deque, whichever
\* lanes they are in: the requeueing of a failed runtime mixes their ranks.
UniqueRanks ==
  \A i, j \in IntentIds :
    /\ ist[i] \in Live /\ ist[j] \in Live
    /\ info[i].slot = info[j].slot /\ rank[i] = rank[j]
    => i = j

\* The rank of a new intent, which is its id, is above all that were given.
NewRanksAreHighest ==
  /\ \A i \in IntentIds : ist[i] = "Unborn" => rank[i] = i
  /\ \A i, j \in IntentIds : ist[i] # "Unborn" /\ ist[j] = "Unborn" => i < j /\ rank[i] < j

\* Within a lane, counted work is in the order it was committed in, also while
\* it is in a batch, but for lead interventions.
CommitOrder ==
  \A i, j \in IntentIds :
    /\ Counted(i) /\ Counted(j)
    /\ info[i].slot = info[j].slot /\ Lane(i) = Lane(j)
    /\ j < i /\ info[i].source # "LeadIntervention"
    => rank[j] < rank[i]

OrderInv == UniqueRanks /\ NewRanksAreHighest /\ CommitOrder /\ BarrierIsAlone /\ NoOvertaking
-----------------------------------------------------------------------------
(* Ranks below all others.                                                 *)

\* The least of finitely many integers is one of them and bounds them.
LEMMA MinBounds ==
  ASSUME NEW N \in Nat, NEW f \in [1..N -> Int], NEW A \in SUBSET (1..N), A # {},
         NEW S, S = {f[a] : a \in A}
  PROVE  Min(S) \in Int /\ \A a \in A : Min(S) <= f[a]
<1>1. PICK a \in A : \A b \in A : f[a] <= f[b]
  BY LeastValue
<1>2. \E x \in S : \A y \in S : x <= y
  BY <1>1
<1>3. Min(S) \in S /\ \A y \in S : Min(S) <= y
  BY <1>2 DEF Min
<1> QED BY <1>3

\* The greatest of finitely many integers is one of them and bounds them.
LEMMA MaxBounds ==
  ASSUME NEW N \in Nat, NEW f \in [1..N -> Int], NEW A \in SUBSET (1..N), A # {},
         NEW S, S = {f[a] : a \in A}
  PROVE  Max(S) \in Int /\ \A a \in A : f[a] <= Max(S)
<1> DEFINE g == [i \in 1..N |-> 0 - f[i]]
<1>1. g \in [1..N -> Int] /\ \A c \in A : g[c] = 0 - f[c] /\ f[c] \in Int
  OBVIOUS
<1> HIDE DEF g
<1>2. PICK a \in A : \A b \in A : g[a] <= g[b]
  BY <1>1, LeastValue
<1>3. \A b \in A : f[a] >= f[b]
  BY <1>1, <1>2
<1>4. \E x \in S : \A y \in S : x >= y
  BY <1>3
<1>5. Max(S) \in S /\ \A y \in S : Max(S) >= y
  BY <1>4 DEF Max
<1>6. \A b \in A : f[b] \in S /\ f[b] \in Int
  OBVIOUS
<1>7. Max(S) \in Int
  BY <1>5
<1> QED BY <1>5, <1>6, <1>7

\* LowestRank is a lower bound of all ranks.
LEMMA LowestIsLowest ==
  ASSUME WorkTypeOK, IntentIds # {}
  PROVE  LowestRank \in Int /\ \A j \in IntentIds : LowestRank <= rank[j]
<1> DEFINE S == {rank[j] : j \in IntentIds}
<1>1. /\ MaxIntents \in Nat /\ rank \in [1..MaxIntents -> Int] /\ IntentIds \in SUBSET (1..MaxIntents)
      /\ S = {rank[j] : j \in IntentIds}
  BY DEF WorkTypeOK, IntentIds
<1> HIDE DEF S
<1>2. Min(S) \in Int /\ \A j \in IntentIds : Min(S) <= rank[j]
  BY <1>1, MinBounds
<1> QED BY <1>2 DEF LowestRank, S

\* push_front puts a batch in front of its lane as it is, or in front of
\* everything.
LEMMA FrontShiftBounds ==
  ASSUME WorkTypeOK, NEW B \in SUBSET IntentIds, B # {}, NEW Q
  PROVE  /\ FrontShift(B, Q) \in Nat
         /\ FrontShift(B, Q) = 0 \/ \A i \in B, j \in IntentIds : rank[i] - FrontShift(B, Q) < rank[j]
<1> DEFINE S == {rank[i] : i \in B}
           M == Max(S)
<1>0. /\ MaxIntents \in Nat /\ rank \in [1..MaxIntents -> Int] /\ B \in SUBSET (1..MaxIntents)
      /\ S = {rank[i] : i \in B}
  BY DEF WorkTypeOK, IntentIds
<1>1. M \in Int /\ \A i \in B : rank[i] <= M
  <2> HIDE DEF S
  <2> QED BY <1>0, MaxBounds
<1>2. LowestRank \in Int /\ \A j \in IntentIds : LowestRank <= rank[j]
  BY LowestIsLowest
<1>3. \A j \in IntentIds : rank[j] \in Int
  BY DEF WorkTypeOK
<1>4. FrontShift(B, Q) = 0 \/ FrontShift(B, Q) = M - LowestRank + 1
  BY DEF FrontShift
<1> HIDE DEF M
<1>5. M - LowestRank + 1 \in Nat
  <2>1. PICK i \in B : TRUE
    OBVIOUS
  <2>2. LowestRank <= rank[i] /\ rank[i] <= M /\ rank[i] \in Int
    BY <1>1, <1>2, <1>3
  <2> QED BY <1>1, <1>2, <2>2
<1>6. \A i \in B, j \in IntentIds : rank[i] - (M - LowestRank + 1) < rank[j]
  BY <1>1, <1>2, <1>3
<1> QED BY <1>4, <1>5, <1>6
-----------------------------------------------------------------------------
(* What the steps do to the order.                                         *)

\* A step that frees slots and gives B back of their batches, in front of
\* everything (by d) or where it was.
GivesBack(B, d) ==
  /\ \A i \in IntentIds :
       rank'[i] = IF i \in B[info[i].slot] THEN rank[i] - d[info[i].slot] ELSE rank[i]
  /\ \A s \in Slots :
       /\ B[s] \subseteq active[s].intents
       /\ d[s] = 0 \/ \A i \in B[s], j \in IntentIds : rank[i] - d[s] < rank[j]
       /\ \/ /\ active'[s].intents = {}
             /\ \A i \in active[s].intents : ist'[i] \in Live => i \in B[s]
          \/ /\ B[s] = {}
             /\ active'[s].intents = active[s].intents /\ active'[s].lane = active[s].lane
             /\ queue'[s][active[s].lane] \subseteq queue[s][active[s].lane]

\* The work given back was claimed before all that waits, so that to be in
\* front of it is its order; only a lead intervention can have come later.
LEMMA GiveBackKeepsOrder ==
  ASSUME Good, OrderInv, info' = info,
         \A i \in IntentIds : ist'[i] \in Live => ist[i] \in Live,
         \A i \in IntentIds : ist'[i] = "Unborn" <=> ist[i] = "Unborn",
         NEW B \in [Slots -> SUBSET IntentIds], NEW d \in [Slots -> Nat],
         GivesBack(B, d)
  PROVE  OrderInv'
<1> USE DEF GivesBack
<1>1. ASSUME NEW i \in IntentIds
      PROVE  /\ info[i].slot \in Slots /\ rank[i] \in Int /\ i \in Int
             /\ d[info[i].slot] \in Nat
             /\ i \in B[info[i].slot] => ist[i] \in {"Starting", "Running"}
  <2>1. info[i].slot \in Slots /\ rank[i] \in Int /\ i \in Int
    <3>1. rank \in [IntentIds -> Int] /\ info[i] \in WorkIntent
      BY DEF Good, WorkTypeOK
    <3>2. i \in Int
      BY DEF IntentIds
    <3> QED BY <3>1, <3>2 DEF WorkIntent
  <2>2. i \in active[info[i].slot].intents => ist[i] \in {"Starting", "Running"}
    BY <2>1 DEF Good, WorkOwnership, ActiveInPlace
  <2> QED BY <2>1, <2>2
<1>2. UniqueRanks'
  <2>1. SUFFICES ASSUME NEW i \in IntentIds, NEW j \in IntentIds, ist[i] \in Live, ist[j] \in Live,
                        info[i].slot = info[j].slot, rank'[i] = rank'[j]
                 PROVE  i = j
    BY DEF UniqueRanks
  <2> DEFINE s == info[i].slot
  <2>2. d[s] = 0 \/ \A k \in B[s], n \in IntentIds : rank[k] - d[s] < rank[n]
    BY <1>1
  <2>3. /\ rank'[i] = IF i \in B[s] THEN rank[i] - d[s] ELSE rank[i]
        /\ rank'[j] = IF j \in B[s] THEN rank[j] - d[s] ELSE rank[j]
        /\ rank[i] \in Int /\ rank[j] \in Int /\ d[s] \in Nat
    BY <1>1, <2>1
  <2>4. \/ rank'[i] = rank[i] /\ rank'[j] = rank[j]
        \/ rank'[i] = rank[i] - d[s] /\ rank'[j] = rank[j] - d[s]
        \/ rank'[i] = rank[i] - d[s] /\ rank'[j] = rank[j] /\ rank[i] - d[s] < rank[j]
        \/ rank'[i] = rank[i] /\ rank'[j] = rank[j] - d[s] /\ rank[j] - d[s] < rank[i]
    <3>1. CASE d[s] = 0
      <4>1. rank[i] - d[s] = rank[i] /\ rank[j] - d[s] = rank[j]
        BY <2>3, <3>1
      <4> QED BY <2>3, <4>1
    <3>2. CASE \A k \in B[s], n \in IntentIds : rank[k] - d[s] < rank[n]
      BY <2>3, <3>2
    <3> QED BY <2>2, <3>1, <3>2
  <2>5. rank[i] = rank[j]
    <3> DEFINE x == rank[i]
               y == rank[j]
               e == d[s]
    <3>1. x \in Int /\ y \in Int /\ e \in Nat
      BY <2>3
    <3>2. x = y \/ x - e = y - e \/ (x - e = y /\ x - e < y) \/ (y - e = x /\ y - e < x)
      BY <2>1, <2>4
    <3> HIDE DEF x, y, e
    <3>3. x = y
      BY <3>1, <3>2
    <3> QED BY <3>3 DEF x, y
  <2> QED BY <2>1, <2>5 DEF OrderInv, UniqueRanks
<1>3. NewRanksAreHighest'
  <2>1. ASSUME NEW i \in IntentIds, ist'[i] = "Unborn" PROVE rank'[i] = i
    BY <1>1, <2>1 DEF OrderInv, NewRanksAreHighest
  <2>2. ASSUME NEW i \in IntentIds, NEW j \in IntentIds, ist'[i] # "Unborn", ist'[j] = "Unborn"
        PROVE  i < j /\ rank'[i] < j
    <3>1. i < j /\ rank[i] < j
      BY <2>2 DEF OrderInv, NewRanksAreHighest
    <3>2. rank'[i] = rank[i] \/ rank'[i] = rank[i] - d[info[i].slot]
      OBVIOUS
    <3>3. rank[i] \in Int /\ d[info[i].slot] \in Nat /\ j \in Int
      BY <1>1
    <3> QED BY <3>1, <3>2, <3>3
  <2> QED BY <2>1, <2>2 DEF NewRanksAreHighest
<1>4. CommitOrder'
  <2>1. SUFFICES ASSUME NEW i \in IntentIds, NEW j \in IntentIds, Counted(i)', Counted(j)',
                        info[i].slot = info[j].slot, Lane(i) = Lane(j), j < i,
                        info[i].source # "LeadIntervention"
                 PROVE  rank'[j] < rank'[i]
    BY DEF CommitOrder, Lane
  <2> DEFINE s == info[i].slot
  <2>2. Counted(i) /\ Counted(j) /\ ist'[j] \in Live
    BY <2>1 DEF Counted
  <2>3. rank[j] < rank[i]
    BY <2>1, <2>2 DEF OrderInv, CommitOrder
  <2>4. /\ rank'[i] = IF i \in B[s] THEN rank[i] - d[s] ELSE rank[i]
        /\ rank'[j] = IF j \in B[s] THEN rank[j] - d[s] ELSE rank[j]
        /\ rank[i] \in Int /\ rank[j] \in Int /\ d[s] \in Nat
    BY <1>1, <2>1
  <2>5. CASE i \notin B[s] \/ j \in B[s]
    <3> HIDE DEF s
    <3> QED BY <2>3, <2>4, <2>5
  <2>6. CASE i \in B[s] /\ j \notin B[s]
    <3>1. s \in Slots /\ i \in active[s].intents /\ j \notin active[s].intents
      BY <1>1, <2>2, <2>6
    <3>2. ist[j] = "Queued" /\ Lane(i) = active[s].lane
      BY <2>1, <2>2, <3>1 DEF Good, WorkOwnership, ActiveInPlace, PhaseAgrees, Counted, Live
    <3>3. active[s].lane \in Lanes
      BY <3>1 DEF Good, WorkTypeOK, ActiveBatch
    <3>4. j \in queue[s][active[s].lane]
      <4>1. j \in queue[s][active[s].lane] <=>
              ist[j] = "Queued" /\ info[j].slot = s /\ Lane(j) = active[s].lane
        BY <3>1, <3>3 DEF Good, WorkOwnership, QueuedInPlace
      <4> QED BY <2>1, <3>2, <4>1
    <3>5. info[i].source = "LeadIntervention"
      BY <2>1, <2>2, <3>1, <3>4 DEF OrderInv, NoOvertaking, Counted
    <3> QED BY <2>1, <3>5
  <2> QED BY <2>5, <2>6
<1>5. BarrierIsAlone' /\ NoOvertaking'
  <2>1. ASSUME NEW s \in Slots, active'[s].intents # {}
        PROVE  /\ active'[s].intents = active[s].intents /\ active'[s].lane = active[s].lane
               /\ queue'[s][active[s].lane] \subseteq queue[s][active[s].lane]
    BY <2>1
  <2>2. BarrierIsAlone'
    BY <2>1 DEF OrderInv, BarrierIsAlone
  <2>3. NoOvertaking'
    <3>1. SUFFICES ASSUME NEW s \in Slots, NEW i \in active'[s].intents,
                          NEW j \in queue'[s][active'[s].lane],
                          info[i].run # NoRun, info[j].run # NoRun, info[j].msg # NoMsg, j < i
                   PROVE  info[i].source = "LeadIntervention"
      BY DEF NoOvertaking
    <3>2. i \in active[s].intents /\ j \in queue[s][active[s].lane]
      BY <2>1
    <3> QED BY <3>1, <3>2 DEF OrderInv, NoOvertaking
  <2> QED BY <2>2, <2>3
<1> QED BY <1>2, <1>3, <1>4, <1>5 DEF OrderInv

\* A step that ends work and frees slots, and moves nothing.
LEMMA EndKeepsOrder ==
  ASSUME Good, OrderInv, info' = info, rank' = rank,
         \A i \in IntentIds : ist'[i] \in Live => ist[i] \in Live,
         \A i \in IntentIds : ist'[i] = "Unborn" <=> ist[i] = "Unborn",
         \A s \in Slots :
           \/ /\ active'[s].intents = {}
              /\ \A i \in active[s].intents : ist'[i] \notin Live
           \/ /\ active'[s].intents = active[s].intents /\ active'[s].lane = active[s].lane
              /\ queue'[s][active[s].lane] \subseteq queue[s][active[s].lane]
  PROVE  OrderInv'
<1> DEFINE B == [s \in Slots |-> {}]
           d == [s \in Slots |-> 0]
<1>1. B \in [Slots -> SUBSET IntentIds] /\ d \in [Slots -> Nat] /\ \A s \in Slots : B[s] = {} /\ d[s] = 0
  OBVIOUS
<1>2. \A i \in IntentIds : info[i].slot \in Slots /\ rank'[i] = rank[i]
  BY DEF Good, WorkTypeOK, WorkIntent
<1> HIDE DEF B, d
<1>3. \A i \in IntentIds :
        rank'[i] = IF i \in B[info[i].slot] THEN rank[i] - d[info[i].slot] ELSE rank[i]
  BY <1>1, <1>2
<1>4. GivesBack(B, d)
  BY <1>1, <1>3 DEF GivesBack
<1> QED BY <1>1, <1>4, GiveBackKeepsOrder

\* Where the work of a batch and of a lane is.
LEMMA PlaceFacts ==
  ASSUME Good
  PROVE  /\ \A s \in Slots : \A i \in active[s].intents :
              /\ i \in IntentIds /\ i \in Int /\ ist[i] \in {"Starting", "Running"} /\ ist[i] \in Live
              /\ info[i].slot = s /\ Lane(i) = active[s].lane
         /\ \A s \in Slots, l \in Lanes : \A i \in queue[s][l] :
              /\ i \in IntentIds /\ i \in Int /\ ist[i] = "Queued" /\ ist[i] \in Live
              /\ info[i].slot = s /\ Lane(i) = l
         /\ \A s \in Slots : active[s].lane \in Lanes
         /\ \A i \in IntentIds : rank[i] \in Int /\ i \in Int /\ info[i].slot \in Slots
<1>1. \A i \in IntentIds : i \in Int
  BY DEF IntentIds
<1>2. ASSUME NEW s \in Slots, NEW i \in active[s].intents
      PROVE  /\ i \in IntentIds /\ ist[i] \in {"Starting", "Running"} /\ ist[i] \in Live
             /\ info[i].slot = s /\ Lane(i) = active[s].lane
  BY DEF Good, WorkOwnership, ActiveInPlace, PhaseAgrees, Live
<1>3. ASSUME NEW s \in Slots, NEW l \in Lanes, NEW i \in queue[s][l]
      PROVE  i \in IntentIds /\ ist[i] = "Queued" /\ ist[i] \in Live /\ info[i].slot = s /\ Lane(i) = l
  BY DEF Good, WorkOwnership, QueuedInPlace, Live
<1>4. \A s \in Slots : active[s].lane \in Lanes
  BY DEF Good, WorkTypeOK, ActiveBatch
<1>5. \A i \in IntentIds : rank[i] \in Int /\ info[i] \in WorkIntent
  BY DEF Good, WorkTypeOK
<1>6. \A i \in IntentIds : info[i].slot \in Slots
  BY <1>5 DEF WorkIntent
<1> QED BY <1>1, <1>2, <1>3, <1>4, <1>5, <1>6

\* commit_enqueue puts new work behind everything, and an intervention of the
\* lead in front of everything.
LEMMA CommitKeepsOrder ==
  ASSUME Good, OrderInv, NEW l \in leases, NEW m \in Msgs \cup {NoMsg}, commit_enqueue(l, m)
  PROVE  OrderInv'
<1>1. PICK i \in IntentIds :
       /\ Fresh(i)
       /\ SetState({i}, "Queued")
       /\ info' = [info EXCEPT ![i] = [slot |-> l.slot, source |-> l.source,
                                       msg |-> m, run |-> l.run]]
       /\ rank' = [rank EXCEPT ![i] =
                     IF l.source = "LeadIntervention"
                       THEN LowestRank - 1 ELSE i]
       /\ queue' = [queue EXCEPT ![l.slot][priority(l.source)] = @ \cup {i}]
  BY DEF commit_enqueue
<1>2. /\ ist[i] = "Unborn" /\ ist'[i] = "Queued"
      /\ \A j \in IntentIds : j # i => ist'[j] = ist[j] /\ info'[j] = info[j] /\ rank'[j] = rank[j]
      /\ info'[i].source = l.source
      /\ rank'[i] = IF l.source = "LeadIntervention" THEN LowestRank - 1 ELSE i
  BY <1>1 DEF Fresh, SetState, Good, WorkTypeOK
<1>3. /\ active' = active /\ l.slot \in Slots
      /\ \A s \in Slots, k \in Lanes : queue'[s][k] \subseteq queue[s][k] \cup {i}
  <2>1. active' = active /\ l.slot \in Slots
    BY DEF commit_enqueue, Good, WorkTypeOK, EnqueueLease
  <2> QED BY <1>1, <2>1 DEF Good, WorkTypeOK
<1>4. LowestRank \in Int /\ \A j \in IntentIds : LowestRank <= rank[j]
  BY LowestIsLowest DEF Good
<1>5. \A j \in IntentIds : rank[j] \in Int /\ j \in Int
  BY PlaceFacts
<1>6. \A j \in IntentIds : ist[j] # "Unborn" => j < i /\ rank[j] < i
  BY <1>2 DEF OrderInv, NewRanksAreHighest
<1>7. \A j \in IntentIds : ist[j] = "Unborn" => rank[j] = j /\ (j # i => i < j)
  <2>1. \A j \in IntentIds : ist[j] = "Unborn" => i <= j
    BY <1>1 DEF Fresh
  <2> QED BY <1>5, <2>1 DEF OrderInv, NewRanksAreHighest
<1>8. rank'[i] \in Int /\ rank'[i] <= i
  BY <1>2, <1>4, <1>5, <1>7
<1>9. \A j \in IntentIds : ist[j] # "Unborn" => rank'[i] # rank[j]
  BY <1>2, <1>4, <1>5, <1>6
<1>10. \A j \in IntentIds : ist[j] \in Live => ist[j] # "Unborn"
  BY DEF Live
<1>11. UniqueRanks'
  <2>1. SUFFICES ASSUME NEW a \in IntentIds, NEW b \in IntentIds, ist'[a] \in Live, ist'[b] \in Live,
                        info'[a].slot = info'[b].slot, rank'[a] = rank'[b], a # b
                 PROVE  FALSE
    BY DEF UniqueRanks
  <2>2. CASE a = i
    BY <1>2, <1>9, <1>10, <2>1, <2>2
  <2>3. CASE b = i
    BY <1>2, <1>9, <1>10, <2>1, <2>3
  <2>4. CASE a # i /\ b # i
    BY <1>2, <2>1, <2>4 DEF OrderInv, UniqueRanks
  <2> QED BY <2>2, <2>3, <2>4
<1>12. NewRanksAreHighest'
  <2>1. ASSUME NEW a \in IntentIds, ist'[a] = "Unborn" PROVE rank'[a] = a
    BY <1>2, <1>7, <2>1
  <2>2. ASSUME NEW a \in IntentIds, NEW b \in IntentIds, ist'[a] # "Unborn", ist'[b] = "Unborn"
        PROVE  a < b /\ rank'[a] < b
    <3>1. b # i /\ ist[b] = "Unborn" /\ i < b
      BY <1>2, <1>7, <2>2
    <3>2. CASE a = i
      BY <1>5, <1>8, <3>1, <3>2
    <3>3. CASE a # i
      BY <1>2, <2>2, <3>1, <3>3 DEF OrderInv, NewRanksAreHighest
    <3> QED BY <3>2, <3>3
  <2> QED BY <2>1, <2>2 DEF NewRanksAreHighest
<1>13. CommitOrder'
  <2>1. SUFFICES ASSUME NEW a \in IntentIds, NEW b \in IntentIds, Counted(a)', Counted(b)',
                        info'[a].slot = info'[b].slot, Lane(a)' = Lane(b)', b < a,
                        info'[a].source # "LeadIntervention"
                 PROVE  rank'[b] < rank'[a]
    BY DEF CommitOrder
  <2>2. CASE a = i
    <3>1. b # i /\ ist[b] \in Live
      BY <1>2, <1>5, <2>1, <2>2 DEF Counted
    <3> QED BY <1>2, <1>6, <1>10, <2>1, <2>2, <3>1
  <2>3. CASE b = i
    <3>1. a # i /\ ist[a] \in Live
      BY <1>2, <1>5, <2>1, <2>3 DEF Counted
    <3>2. a < i
      BY <1>6, <1>10, <3>1
    <3> QED BY <1>5, <2>1, <2>3, <3>2
  <2>4. CASE a # i /\ b # i
    BY <1>2, <2>1, <2>4 DEF OrderInv, CommitOrder, Counted, Lane
  <2> QED BY <2>2, <2>3, <2>4
<1>14. \A s \in Slots : \A a \in active[s].intents :
         a \in IntentIds /\ a \in Int /\ a # i /\ info'[a] = info[a] /\ a < i
  BY <1>2, <1>6, PlaceFacts
<1>15. BarrierIsAlone'
  BY <1>3, <1>14 DEF OrderInv, BarrierIsAlone
<1>16. NoOvertaking'
  <2>1. SUFFICES ASSUME NEW s \in Slots, NEW a \in active[s].intents,
                        NEW b \in queue'[s][active[s].lane],
                        info'[a].run # NoRun, info'[b].run # NoRun, info'[b].msg # NoMsg, b < a
                 PROVE  info'[a].source = "LeadIntervention"
    BY <1>3 DEF NoOvertaking
  <2>2. b # i
    BY <1>5, <1>14, <2>1
  <2>3. active[s].lane \in Lanes
    BY PlaceFacts
  <2>4. b \in queue[s][active[s].lane]
    BY <1>3, <2>2, <2>3
  <2>5. info'[b] = info[b]
    BY <1>2, <2>2, <2>3, <2>4, PlaceFacts
  <2> QED BY <1>14, <2>1, <2>4, <2>5 DEF OrderInv, NoOvertaking
<1> QED BY <1>11, <1>12, <1>13, <1>15, <1>16 DEF OrderInv

\* The rows that reconcile adopts are work of no run, behind everything.
LEMMA ReconcileKeepsOrder ==
  ASSUME Good, OrderInv, NEW s \in Slots, NEW unread \in SUBSET Msgs, NEW cands \in SUBSET IntentIds,
         reconcile_mailbox_snapshot(s, unread, cands)
  PROVE  OrderInv'
<1> DEFINE stale == {i \in queued_ids(s) :
                       info[i].msg # NoMsg /\ info[i].msg \notin unread /\ i \in cands}
           news  == Unowned(s, unread)
           born(new) == {new[m] : m \in news}
           row(new, i) == CHOOSE m \in news : new[m] = i
<1>1. PICK new \in [news -> IntentIds] :
       /\ \A m \in news :
            /\ ist[new[m]] = "Unborn"
            /\ \A j \in IntentIds : ist[j] = "Unborn" /\ j < new[m]
                                      => \E n \in news : new[n] = j
       /\ ist' = [i \in IntentIds |-> IF i \in stale THEN "Completed"
                                      ELSE IF i \in born(new) THEN "Queued" ELSE ist[i]]
       /\ info' = [i \in IntentIds |->
                     IF i \in born(new)
                       THEN [slot |-> s, source |-> "RecoveryDrain", msg |-> row(new, i), run |-> NoRun]
                       ELSE info[i]]
       /\ rank' = [i \in IntentIds |-> IF i \in born(new) THEN i ELSE rank[i]]
       /\ queue' = [queue EXCEPT ![s] =
                      [l \in Lanes |-> IF l = "Background"
                                         THEN (queue[s][l] \ stale) \cup born(new)
                                         ELSE queue[s][l] \ stale]]
  BY DEF reconcile_mailbox_snapshot
<1> DEFINE N == born(new)
<1>2. N \subseteq IntentIds /\ \A i \in N : ist[i] = "Unborn"
  BY <1>1
<1>3. \A i \in stale : i \in IntentIds /\ ist[i] = "Queued"
  BY DEF queued_ids, Good, WorkOwnership, QueuedInPlace
<1>4. \A i \in N, j \in IntentIds : ist[j] = "Unborn" /\ j < i => j \in N
  BY <1>1
<1>5. ASSUME NEW i \in IntentIds
      PROVE  /\ i \in N => ist'[i] = "Queued" /\ rank'[i] = i /\ info'[i].run = NoRun
             /\ i \notin N => rank'[i] = rank[i] /\ info'[i] = info[i] /\ (ist'[i] = ist[i] \/ ist'[i] = "Completed")
             /\ i \notin N => (ist'[i] = "Unborn" <=> ist[i] = "Unborn")
  <2>1. i \in N => i \notin stale
    BY <1>2, <1>3
  <2>2. i \in stale => ist[i] = "Queued"
    BY <1>3
  <2> HIDE DEF stale, news, row
  <2> QED BY <1>1, <2>1, <2>2
<1>6. /\ active' = active
      /\ \A t \in Slots, k \in Lanes : queue'[t][k] \subseteq queue[t][k] \cup N
  <2>1. active' = active
    BY DEF reconcile_mailbox_snapshot
  <2> HIDE DEF stale, N
  <2>2. queue' = [queue EXCEPT ![s] = [l \in Lanes |-> IF l = "Background"
                                         THEN (queue[s][l] \ stale) \cup N
                                         ELSE queue[s][l] \ stale]]
    BY <1>1 DEF N
  <2> QED BY <2>1, <2>2 DEF Good, WorkTypeOK
<1> HIDE DEF stale, news, N, row
<1>7. \A j \in IntentIds : rank[j] \in Int /\ j \in Int
  BY PlaceFacts
<1>8. \A i \in N, j \in IntentIds : ist[j] # "Unborn" => j < i /\ rank[j] < i
  BY <1>2 DEF OrderInv, NewRanksAreHighest
<1>9. \A i \in N, j \in IntentIds : ist[j] = "Unborn" /\ j \notin N => i < j
  BY <1>2, <1>4, <1>7
<1>10. \A i \in IntentIds : ist'[i] \in Live => i \in N \/ (ist[i] \in Live /\ ist[i] # "Unborn")
  BY <1>5 DEF Live
<1>11. UniqueRanks'
  <2>1. SUFFICES ASSUME NEW a \in IntentIds, NEW b \in IntentIds, ist'[a] \in Live, ist'[b] \in Live,
                        info'[a].slot = info'[b].slot, rank'[a] = rank'[b], a # b
                 PROVE  FALSE
    BY DEF UniqueRanks
  <2>2. CASE a \in N /\ b \in N
    BY <1>5, <2>1, <2>2
  <2>3. CASE a \in N /\ b \notin N
    BY <1>5, <1>7, <1>8, <1>10, <2>1, <2>3
  <2>4. CASE a \notin N /\ b \in N
    BY <1>5, <1>7, <1>8, <1>10, <2>1, <2>4
  <2>5. CASE a \notin N /\ b \notin N
    BY <1>5, <1>10, <2>1, <2>5 DEF OrderInv, UniqueRanks
  <2> QED BY <2>2, <2>3, <2>4, <2>5
<1>12. NewRanksAreHighest'
  <2>1. ASSUME NEW a \in IntentIds, ist'[a] = "Unborn" PROVE rank'[a] = a
    BY <1>5, <2>1 DEF OrderInv, NewRanksAreHighest
  <2>2. ASSUME NEW a \in IntentIds, NEW b \in IntentIds, ist'[a] # "Unborn", ist'[b] = "Unborn"
        PROVE  a < b /\ rank'[a] < b
    <3>1. b \notin N /\ ist[b] = "Unborn"
      BY <1>5, <2>2
    <3>2. CASE a \in N
      BY <1>5, <1>9, <3>1, <3>2
    <3>3. CASE a \notin N
      BY <1>5, <2>2, <3>1, <3>3 DEF OrderInv, NewRanksAreHighest
    <3> QED BY <3>2, <3>3
  <2> QED BY <2>1, <2>2 DEF NewRanksAreHighest
<1>13. CommitOrder'
  <2>1. SUFFICES ASSUME NEW a \in IntentIds, NEW b \in IntentIds, Counted(a)', Counted(b)',
                        info'[a].slot = info'[b].slot, Lane(a)' = Lane(b)', b < a,
                        info'[a].source # "LeadIntervention"
                 PROVE  rank'[b] < rank'[a]
    BY DEF CommitOrder
  <2>2. a \notin N /\ b \notin N /\ Counted(a) /\ Counted(b)
    BY <1>5, <1>10, <2>1 DEF Counted
  <2> QED BY <1>5, <2>1, <2>2 DEF OrderInv, CommitOrder, Lane
<1>14. \A t \in Slots : \A a \in active[t].intents : a \in IntentIds /\ a \notin N /\ info'[a] = info[a]
  BY <1>2, <1>5, PlaceFacts
<1>15. BarrierIsAlone'
  BY <1>6, <1>14 DEF OrderInv, BarrierIsAlone
<1>16. NoOvertaking'
  <2>1. SUFFICES ASSUME NEW t \in Slots, NEW a \in active[t].intents,
                        NEW b \in queue'[t][active[t].lane],
                        info'[a].run # NoRun, info'[b].run # NoRun, info'[b].msg # NoMsg, b < a
                 PROVE  info'[a].source = "LeadIntervention"
    BY <1>6 DEF NoOvertaking
  <2>2. active[t].lane \in Lanes
    BY PlaceFacts
  <2>3. b \notin N
    BY <1>2, <1>5, <2>1
  <2>4. b \in queue[t][active[t].lane]
    BY <1>6, <2>2, <2>3
  <2>5. info'[b] = info[b]
    BY <1>5, <2>2, <2>3, <2>4, PlaceFacts
  <2> QED BY <1>14, <2>1, <2>4, <2>5 DEF OrderInv, NoOvertaking
<1> QED BY <1>11, <1>12, <1>13, <1>15, <1>16 DEF OrderInv

\* A claim takes the front of a lane: a barrier alone, or what is in front of
\* the first barrier.
LEMMA NextKeepsOrder ==
  ASSUME Good, OrderInv, NEW s \in Slots, next(s)
  PROVE  OrderInv'
<1>1. PICK l \in Lanes :
        /\ SetState(LeadingRun(s, l), "Starting")
        /\ queue' = RemoveQueued(s, LeadingRun(s, l))
        /\ active' = [active EXCEPT ![s] = [op |-> nextOp + 1, intents |-> LeadingRun(s, l), lane |-> l,
                                            turn |-> FALSE, observed |-> {}]]
        /\ info' = info /\ rank' = rank
  BY DEF next
<1> DEFINE M == {i \in queue[s][l] : info[i].msg # NoMsg}
           B == LeadingRun(s, l)
<1>2. /\ B \subseteq M
      /\ \A i \in M : i \in B <=> \/ \A j \in M : rank[i] <= rank[j]
                                  \/ \A j \in M : rank[j] <= rank[i] => ~is_batch_barrier(info[j].source)
  BY DEF LeadingRun
<1>3. \A i \in M : /\ i \in IntentIds /\ rank[i] \in Int /\ i \in Int /\ ist[i] = "Queued" /\ ist[i] \in Live
                   /\ info[i].slot = s /\ Lane(i) = l /\ info[i].msg # NoMsg
  BY PlaceFacts
<1>4. \A i, j \in M : rank[i] = rank[j] => i = j
  BY <1>3 DEF OrderInv, UniqueRanks
<1>5. \A t \in Slots : /\ t # s => active'[t] = active[t] /\ queue'[t] = queue[t]
                       /\ t = s => /\ active'[t].intents = B /\ active'[t].lane = l
                                   /\ queue'[t][l] = queue[t][l] \ B
  BY <1>1 DEF Good, WorkTypeOK, RemoveQueued
<1>6. \A i \in IntentIds : ist'[i] = IF i \in B THEN "Starting" ELSE ist[i]
  BY <1>1 DEF SetState
<1> HIDE DEF M, B
<1>7. \A i \in IntentIds : /\ ist'[i] \in Live => ist[i] \in Live
                           /\ ist'[i] = "Unborn" <=> ist[i] = "Unborn"
  BY <1>2, <1>3, <1>6
<1>8. UniqueRanks' /\ NewRanksAreHighest'
  BY <1>1, <1>7 DEF OrderInv, UniqueRanks, NewRanksAreHighest
<1>9. CommitOrder'
  BY <1>1, <1>7 DEF OrderInv, CommitOrder, Counted, Lane
<1>10. ASSUME NEW i \in B, is_batch_barrier(info[i].source) PROVE B = {i}
  <2>1. i \in M /\ \A j \in M : rank[i] <= rank[j]
    <3>1. i \in M /\ rank[i] <= rank[i]
      BY <1>2, <1>3
    <3> QED BY <1>2, <1>10, <3>1
  <2>2. ASSUME NEW k \in B PROVE k = i
    <3>1. k \in M /\ rank[i] <= rank[k]
      BY <1>2, <2>1
    <3>2. \A j \in M : rank[k] <= rank[j]
      BY <1>2, <1>10, <2>1, <3>1
    <3>3. rank[k] = rank[i]
      BY <1>3, <2>1, <3>1, <3>2
    <3> QED BY <1>4, <2>1, <3>1, <3>3
  <2> QED BY <2>2
<1>11. ASSUME NEW i \in B, NEW j \in M, j \notin B PROVE rank[i] < rank[j]
  <2>1. i \in M /\ i # j /\ rank[i] \in Int /\ rank[j] \in Int /\ rank[i] # rank[j]
    BY <1>2, <1>3, <1>4, <1>11
  <2>2. CASE \A k \in M : rank[i] <= rank[k]
    BY <2>1, <2>2
  <2>3. CASE \A k \in M : rank[k] <= rank[i] => ~is_batch_barrier(info[k].source)
    <3>1. PICK k \in M : rank[k] <= rank[j] /\ is_batch_barrier(info[k].source)
      BY <1>2, <1>11
    <3>2. ~(rank[k] <= rank[i]) /\ rank[k] \in Int
      BY <1>3, <2>3, <3>1
    <3> QED BY <2>1, <3>1, <3>2
  <2> QED BY <1>2, <2>1, <2>2, <2>3
<1>12. BarrierIsAlone'
  <2>1. SUFFICES ASSUME NEW t \in Slots, NEW i \in active'[t].intents,
                        is_batch_barrier(info[i].source)
                 PROVE  active'[t].intents = {i}
    BY <1>1 DEF BarrierIsAlone
  <2>2. CASE t = s
    BY <1>5, <1>10, <2>1, <2>2
  <2>3. CASE t # s
    BY <1>5, <2>1, <2>3 DEF OrderInv, BarrierIsAlone
  <2> QED BY <2>2, <2>3
<1>13. NoOvertaking'
  <2>1. SUFFICES ASSUME NEW t \in Slots, NEW i \in active'[t].intents,
                        NEW j \in queue'[t][active'[t].lane],
                        info[i].run # NoRun, info[j].run # NoRun, info[j].msg # NoMsg, j < i
                 PROVE  info[i].source = "LeadIntervention"
    BY <1>1 DEF NoOvertaking
  <2>2. CASE t = s
    <3>1. i \in B /\ j \in queue[s][l] /\ j \notin B
      BY <1>5, <2>2
    <3>2. i \in M /\ j \in M
      BY <1>2, <2>1, <3>1 DEF M
    <3>3. rank[i] < rank[j]
      BY <1>11, <3>1, <3>2
    <3>4. Counted(i) /\ Counted(j) /\ info[i].slot = info[j].slot /\ Lane(i) = Lane(j)
      BY <1>3, <2>1, <3>2 DEF Counted
    <3>5. ~(rank[j] < rank[i])
      BY <1>3, <3>2, <3>3
    <3> QED BY <1>3, <2>1, <3>2, <3>4, <3>5 DEF OrderInv, CommitOrder
  <2>3. CASE t # s
    BY <1>5, <2>1, <2>3 DEF OrderInv, NoOvertaking
  <2> QED BY <2>2, <2>3
<1> QED BY <1>8, <1>9, <1>12, <1>13 DEF OrderInv

\* retry_start gives the whole batch back.
LEMMA RetryKeepsOrder ==
  ASSUME Good, OrderInv, NEW b \in WorkBatch, Copy(b), retry_start(b)
  PROVE  OrderInv'
<1> DEFINE f == FrontShift(b.intents, queue[b.slot][b.lane])
           B == [s \in Slots |-> IF s = b.slot THEN b.intents ELSE {}]
           d == [s \in Slots |-> IF s = b.slot THEN f ELSE 0]
<1>1. /\ b.slot \in Slots /\ b.lane \in Lanes
      /\ active[b.slot].intents = b.intents
      /\ b.intents \subseteq IntentIds
      /\ b.intents # {}
      /\ \A i \in b.intents : ist[i] \in {"Starting", "Running"} /\ info[i].slot = b.slot
  BY CurrentFacts DEF retry_start
<1>2. /\ \A i \in IntentIds : ist'[i] = IF i \in b.intents THEN "Queued" ELSE ist[i]
      /\ \A i \in IntentIds : rank'[i] = IF i \in b.intents THEN rank[i] - f ELSE rank[i]
      /\ info' = info
      /\ \A s \in Slots : active'[s] = IF s = b.slot THEN NoBatch ELSE active[s]
      /\ \A s \in Slots : s # b.slot => queue'[s] = queue[s]
  BY DEF retry_start, SetState, Good, WorkTypeOK
<1>3. f \in Nat /\ (f = 0 \/ \A i \in b.intents, j \in IntentIds : rank[i] - f < rank[j])
  BY <1>1, FrontShiftBounds DEF Good
<1> HIDE DEF f
<1>4. /\ B \in [Slots -> SUBSET IntentIds] /\ d \in [Slots -> Nat]
      /\ B[b.slot] = b.intents /\ d[b.slot] = f
      /\ \A s \in Slots : s # b.slot => B[s] = {} /\ d[s] = 0
  BY <1>1, <1>3
<1> HIDE DEF B, d
<1>5. \A i \in IntentIds :
        rank'[i] = IF i \in B[info[i].slot] THEN rank[i] - d[info[i].slot] ELSE rank[i]
  <2>1. SUFFICES ASSUME NEW i \in IntentIds
                 PROVE  rank'[i] = IF i \in B[info[i].slot] THEN rank[i] - d[info[i].slot] ELSE rank[i]
    OBVIOUS
  <2>2. info[i].slot \in Slots
    BY PlaceFacts
  <2>3. CASE info[i].slot = b.slot
    BY <1>2, <1>4, <2>3
  <2>4. CASE info[i].slot # b.slot
    BY <1>1, <1>2, <1>4, <2>2, <2>4
  <2> QED BY <2>3, <2>4
<1>6. GivesBack(B, d)
  <2>1. ASSUME NEW s \in Slots, s = b.slot
        PROVE  /\ B[s] \subseteq active[s].intents
               /\ d[s] = 0 \/ \A i \in B[s], j \in IntentIds : rank[i] - d[s] < rank[j]
               /\ active'[s].intents = {}
               /\ \A i \in active[s].intents : ist'[i] \in Live => i \in B[s]
    BY <1>1, <1>2, <1>3, <1>4, <2>1 DEF NoBatch
  <2>2. ASSUME NEW s \in Slots, s # b.slot
        PROVE  /\ B[s] = {} /\ d[s] = 0
               /\ active'[s].intents = active[s].intents /\ active'[s].lane = active[s].lane
               /\ queue'[s][active[s].lane] \subseteq queue[s][active[s].lane]
    BY <1>2, <1>4, <2>2
  <2> QED BY <1>5, <2>1, <2>2 DEF GivesBack
<1>7. \A i \in IntentIds : /\ ist'[i] \in Live => ist[i] \in Live
                           /\ ist'[i] = "Unborn" <=> ist[i] = "Unborn"
  BY <1>1, <1>2 DEF Live
<1> QED BY <1>2, <1>4, <1>6, <1>7, GiveBackKeepsOrder

\* cancel_run gives back what is not of its run, slot by slot.
LEMMA CancelRunKeepsOrder ==
  ASSUME Good, OrderInv, NEW r \in Runs, cancel_run(r)
  PROVE  OrderInv'
<1> DEFINE shift(i) == FrontShift({j \in Retained(info[i].slot, r) : Lane(j) = Lane(i)},
                                  queue[info[i].slot][Lane(i)])
           back == UNION {Retained(s, r) : s \in Slots}
           dead == {i \in OfRun(r) : ist[i] \in Live}
           B == [s \in Slots |-> Retained(s, r)]
           d == [s \in Slots |-> IF Retained(s, r) = {} THEN 0
                                 ELSE FrontShift(Retained(s, r), queue[s][active[s].lane])]
<1>1. /\ ist' = [i \in IntentIds |-> IF i \in dead THEN "Cancelled"
                                     ELSE IF i \in back THEN "Queued" ELSE ist[i]]
      /\ rank' = [i \in IntentIds |-> IF i \in back THEN rank[i] - shift(i) ELSE rank[i]]
      /\ queue' = [s \in Slots |->
                     [l \in Lanes |-> (queue[s][l] \cup {i \in Retained(s, r) : Lane(i) = l})
                                        \ OfRun(r)]]
      /\ active' = [s \in Slots |-> IF s \in SlotsOfRun(r) THEN NoBatch ELSE active[s]]
      /\ info' = info
  BY DEF cancel_run
<1>2. ASSUME NEW s \in Slots
      PROVE  /\ Retained(s, r) \subseteq active[s].intents /\ Retained(s, r) \subseteq IntentIds
             /\ \A i \in Retained(s, r) : info[i].slot = s /\ Lane(i) = active[s].lane
             /\ s \notin SlotsOfRun(r) => Retained(s, r) = {}
             /\ s \in SlotsOfRun(r) => \A i \in active[s].intents : i \in Retained(s, r) \/ i \in OfRun(r)
  <2>1. Retained(s, r) \subseteq active[s].intents
    BY DEF Retained
  <2> QED BY <2>1, PlaceFacts DEF Retained
<1>3. ASSUME NEW i \in IntentIds
      PROVE  i \in back <=> i \in Retained(info[i].slot, r)
  <2>1. info[i].slot \in Slots
    BY PlaceFacts
  <2>2. ASSUME NEW s \in Slots, i \in Retained(s, r) PROVE info[i].slot = s
    BY <1>2, <2>2
  <2> QED BY <2>1, <2>2
<1>4. /\ B \in [Slots -> SUBSET IntentIds]
      /\ \A s \in Slots : B[s] = Retained(s, r)
  BY <1>2
<1>5. ASSUME NEW s \in Slots
      PROVE  /\ d[s] \in Nat
             /\ d[s] = 0 \/ \A i \in B[s], j \in IntentIds : rank[i] - d[s] < rank[j]
  <2>1. CASE Retained(s, r) = {}
    BY <2>1
  <2>2. CASE Retained(s, r) # {}
    <3> DEFINE R == Retained(s, r)
               Q == queue[s][active[s].lane]
    <3>1. R \in SUBSET IntentIds /\ R # {}
      BY <1>2, <2>2
    <3>2. d[s] = FrontShift(R, Q) /\ B[s] = R
      BY <2>2
    <3> HIDE DEF R, Q, B, d
    <3> QED BY <3>1, <3>2, FrontShiftBounds DEF Good
  <2> QED BY <2>1, <2>2
<1>6. ASSUME NEW i \in IntentIds, i \in Retained(info[i].slot, r)
      PROVE  shift(i) = d[info[i].slot]
  <2> DEFINE s == info[i].slot
  <2>1. s \in Slots
    BY PlaceFacts
  <2>2. Lane(i) = active[s].lane /\ {j \in Retained(s, r) : Lane(j) = Lane(i)} = Retained(s, r)
    BY <1>2, <1>6, <2>1
  <2>3. d[s] = FrontShift(Retained(s, r), queue[s][active[s].lane])
    BY <1>6, <2>1
  <2>4. shift(i) = FrontShift({j \in Retained(s, r) : Lane(j) = Lane(i)}, queue[s][Lane(i)])
    OBVIOUS
  <2> HIDE DEF s, d, shift
  <2>5. shift(i) = d[s]
    BY <2>2, <2>3, <2>4
  <2> QED BY <2>5 DEF s
<1>7. d \in [Slots -> Nat]
  <2>1. \A s \in Slots : d[s] \in Nat
    BY <1>5
  <2> QED BY <2>1
<1> HIDE DEF shift, d, B
<1>8. \A i \in IntentIds :
        rank'[i] = IF i \in B[info[i].slot] THEN rank[i] - d[info[i].slot] ELSE rank[i]
  <2>1. ASSUME NEW i \in IntentIds
        PROVE  rank'[i] = IF i \in B[info[i].slot] THEN rank[i] - d[info[i].slot] ELSE rank[i]
    <3>1. B[info[i].slot] = Retained(info[i].slot, r)
      BY <1>4, PlaceFacts
    <3>2. rank'[i] = IF i \in back THEN rank[i] - shift(i) ELSE rank[i]
      BY <1>1
    <3> QED BY <1>3, <1>6, <3>1, <3>2
  <2> QED BY <2>1
<1>9. ASSUME NEW i \in IntentIds
      PROVE  /\ ist'[i] \in Live => ist[i] \in Live /\ i \notin OfRun(r)
             /\ ist'[i] = "Unborn" <=> ist[i] = "Unborn"
  <2>1. i \in back => ist[i] \in Live /\ i \notin OfRun(r)
    BY PlaceFacts DEF Retained
  <2>2. i \in dead <=> i \in OfRun(r) /\ ist[i] \in Live
    OBVIOUS
  <2>3. ist'[i] = IF i \in dead THEN "Cancelled" ELSE IF i \in back THEN "Queued" ELSE ist[i]
    BY <1>1
  <2> HIDE DEF back, dead
  <2> QED BY <2>1, <2>2, <2>3 DEF Live
<1>10. GivesBack(B, d)
  <2>1. ASSUME NEW s \in Slots, s \in SlotsOfRun(r)
        PROVE  /\ active'[s].intents = {}
               /\ \A i \in active[s].intents : ist'[i] \in Live => i \in B[s]
    <3>1. active'[s].intents = {}
      BY <1>1, <2>1 DEF NoBatch
    <3> QED BY <1>2, <1>4, <1>9, <2>1, <3>1, PlaceFacts
  <2>2. ASSUME NEW s \in Slots, s \notin SlotsOfRun(r)
        PROVE  /\ B[s] = {}
               /\ active'[s].intents = active[s].intents /\ active'[s].lane = active[s].lane
               /\ queue'[s][active[s].lane] \subseteq queue[s][active[s].lane]
    <3>1. active'[s] = active[s] /\ active[s].lane \in Lanes /\ Retained(s, r) = {}
      BY <1>1, <1>2, <2>2, PlaceFacts
    <3>2. queue'[s][active[s].lane] \subseteq queue[s][active[s].lane]
      BY <1>1, <3>1
    <3> QED BY <1>4, <3>1, <3>2
  <2>3. \A s \in Slots : B[s] \subseteq active[s].intents
    BY <1>2, <1>4
  <2> QED BY <1>5, <1>8, <2>1, <2>2, <2>3 DEF GivesBack
<1> QED BY <1>1, <1>4, <1>7, <1>9, <1>10, GiveBackKeepsOrder

\* A failed runtime keeps only work of no run, in some order; a stopped session
\* keeps none; the other constraints move nothing.
LEMMA ConstrainKeepsOrder ==
  ASSUME Good, OrderInv, NEW s \in Slots, NEW c, set_runtime_constraint(s, c)
  PROVE  OrderInv'
<1>1. info' = info
  BY DEF set_runtime_constraint
<1>2. CASE c.kind \notin {"Failed", "SessionStopped"}
  <2>1. UNCHANGED <<ist, rank, queue, active>>
    BY <1>2 DEF set_runtime_constraint
  <2> QED BY <1>1, <2>1, EndKeepsOrder
<1>3. CASE c.kind \in {"Failed", "SessionStopped"}
  <2> DEFINE R == Requeued(s, c)
  <2>1. PICK p \in [R -> R] :
          /\ ist' = [i \in IntentIds |->
                       IF i \notin LiveOf(s) THEN ist[i]
                       ELSE IF i \in R THEN "Queued"
                       ELSE IF c.kind = "Failed" THEN "Failed" ELSE "Cancelled"]
          /\ queue' = [queue EXCEPT ![s] = [l \in Lanes |-> {i \in R : Lane(i) = l}]]
          /\ active' = [active EXCEPT ![s] = NoBatch]
          /\ \A i, j \in R : i # j => p[i] # p[j]
          /\ rank' = [i \in IntentIds |-> IF i \in R THEN rank[p[i]] ELSE rank[i]]
    BY <1>3 DEF set_runtime_constraint
  <2>2. \A i \in R : i \in IntentIds /\ ist[i] \in Live /\ info[i].slot = s /\ info[i].run = NoRun
    BY DEF Requeued, LiveOf
  <2>3. ASSUME NEW i \in IntentIds
        PROVE  /\ i \in R => ist'[i] = "Queued" /\ rank'[i] = rank[p[i]]
               /\ i \notin R => rank'[i] = rank[i]
               /\ ist'[i] \in Live /\ i \notin R => ist[i] \in Live /\ info[i].slot # s
               /\ ist'[i] = "Unborn" <=> ist[i] = "Unborn"
    <3>1. i \in LiveOf(s) <=> ist[i] \in Live /\ info[i].slot = s
      BY DEF LiveOf
    <3>2. ist'[i] = IF i \notin LiveOf(s) THEN ist[i]
                    ELSE IF i \in R THEN "Queued"
                    ELSE IF c.kind = "Failed" THEN "Failed" ELSE "Cancelled"
      BY <2>1
    <3>3. i \in R => i \in LiveOf(s)
      BY <2>2, <3>1
    <3>4. rank'[i] = IF i \in R THEN rank[p[i]] ELSE rank[i]
      BY <2>1
    <3> HIDE DEF R
    <3> QED BY <3>1, <3>2, <3>3, <3>4 DEF Live
  <2>4. \A t \in Slots : /\ t = s => active'[t].intents = {}
                         /\ t # s => active'[t] = active[t] /\ queue'[t] = queue[t]
    BY <2>1 DEF Good, WorkTypeOK, NoBatch
  <2> HIDE DEF R
  <2>5. UniqueRanks'
    <3>1. SUFFICES ASSUME NEW i \in IntentIds, NEW j \in IntentIds, ist'[i] \in Live, ist'[j] \in Live,
                          info[i].slot = info[j].slot, rank'[i] = rank'[j], i # j
                   PROVE  FALSE
      BY <1>1 DEF UniqueRanks
    <3>2. CASE i \in R /\ j \in R
      <4>1. p[i] \in R /\ p[j] \in R /\ p[i] # p[j] /\ rank[p[i]] = rank[p[j]]
        BY <2>1, <2>3, <3>1, <3>2
      <4> QED BY <2>2, <4>1 DEF OrderInv, UniqueRanks
    <3>3. CASE i \notin R /\ j \notin R
      BY <2>3, <3>1, <3>3 DEF OrderInv, UniqueRanks
    <3>4. CASE (i \in R /\ j \notin R) \/ (i \notin R /\ j \in R)
      BY <2>2, <2>3, <3>1, <3>4
    <3> QED BY <3>2, <3>3, <3>4
  <2>6. NewRanksAreHighest'
    <3>1. ASSUME NEW i \in IntentIds, ist'[i] = "Unborn" PROVE rank'[i] = i
      BY <2>2, <2>3, <3>1 DEF OrderInv, NewRanksAreHighest
    <3>2. ASSUME NEW i \in IntentIds, NEW j \in IntentIds, ist'[i] # "Unborn", ist'[j] = "Unborn"
          PROVE  i < j /\ rank'[i] < j
      <4>1. ist[i] # "Unborn" /\ ist[j] = "Unborn"
        BY <2>3, <3>2
      <4>2. CASE i \in R
        <5>1. p[i] \in R
          BY <4>2
        <5>2. p[i] \in IntentIds /\ ist[p[i]] # "Unborn"
          BY <2>2, <5>1 DEF Live
        <5> QED BY <2>3, <4>1, <4>2, <5>2 DEF OrderInv, NewRanksAreHighest
      <4>3. CASE i \notin R
        BY <2>3, <4>1, <4>3 DEF OrderInv, NewRanksAreHighest
      <4> QED BY <4>2, <4>3
    <3> QED BY <3>1, <3>2 DEF NewRanksAreHighest
  <2>7. CommitOrder'
    <3>1. SUFFICES ASSUME NEW i \in IntentIds, NEW j \in IntentIds, Counted(i)', Counted(j)',
                          info[i].slot = info[j].slot, Lane(i) = Lane(j), j < i,
                          info[i].source # "LeadIntervention"
                   PROVE  rank'[j] < rank'[i]
      BY <1>1 DEF CommitOrder, Lane
    <3>2. i \notin R /\ j \notin R /\ Counted(i) /\ Counted(j)
      BY <1>1, <2>2, <2>3, <3>1 DEF Counted
    <3> QED BY <2>3, <3>1, <3>2 DEF OrderInv, CommitOrder
  <2>8. BarrierIsAlone'
    BY <1>1, <2>4 DEF OrderInv, BarrierIsAlone
  <2>9. NoOvertaking'
    BY <1>1, <2>4 DEF OrderInv, NoOvertaking
  <2> QED BY <2>5, <2>6, <2>7, <2>8, <2>9 DEF OrderInv
<1> QED BY <1>2, <1>3

\* A step that ends all of D, which is work of one slot or queued work.
LEMMA SetStateKeepsOrder ==
  ASSUME Good, OrderInv, info' = info, rank' = rank, NEW D, NEW st \in Terminal,
         SetState(D, st), \A i \in D : ist[i] \in Live,
         \A s \in Slots :
           \/ active'[s].intents = {} /\ active[s].intents \subseteq D
           \/ /\ active'[s].intents = active[s].intents /\ active'[s].lane = active[s].lane
              /\ queue'[s][active[s].lane] \subseteq queue[s][active[s].lane]
  PROVE  OrderInv'
<1>1. \A i \in IntentIds : ist'[i] = IF i \in D THEN st ELSE ist[i]
  BY DEF SetState
<1>2. \A i \in IntentIds : /\ ist'[i] \in Live => ist[i] \in Live
                           /\ ist'[i] = "Unborn" <=> ist[i] = "Unborn"
                           /\ i \in D => ist'[i] \notin Live
  BY <1>1 DEF Live, Terminal
<1>3. \A s \in Slots : active[s].intents \subseteq IntentIds
  BY PlaceFacts
<1> QED BY <1>2, <1>3, EndKeepsOrder

\* Taking work out of a lane leaves the others, and the lane no longer.
LEMMA RemoveQueuedShrinks ==
  ASSUME Good, NEW s \in Slots, NEW S, NEW t \in Slots, NEW l \in Lanes
  PROVE  RemoveQueued(s, S)[t][l] \subseteq queue[t][l]
  BY DEF RemoveQueued, Good, WorkTypeOK

\* Enqueueing keeps the order.
LEMMA EnqueueKeepsOrder ==
  ASSUME Inv, OrderInv, Enqueue
  PROVE  OrderInv'
<1>0. Good
  BY DEF Inv, TypeOK, Good
<1>1. CASE \E id \in LeaseIds, s \in Slots, src \in Sources, r \in Runs \cup {NoRun} :
             acquire_enqueue(id, s, src, r)
  <2>1. UNCHANGED <<ist, info, rank, queue, active>>
    BY <1>1 DEF acquire_enqueue, intentVars
  <2> QED BY <1>0, <2>1, EndKeepsOrder
<1>2. CASE \E l \in leases, m \in Msgs \cup {NoMsg} : commit_enqueue(l, m)
  BY <1>0, <1>2, CommitKeepsOrder
<1>3. CASE \E l \in leases : Does("abort") /\ abort_enqueue(l)
  <2>1. UNCHANGED <<ist, info, rank, queue, active>>
    BY <1>3 DEF abort_enqueue, intentVars, slotVars
  <2> QED BY <1>0, <2>1, EndKeepsOrder
<1> QED BY <1>1, <1>2, <1>3 DEF Enqueue

\* The mailbox projection and the completion of signals keep the order.
LEMMA ReconcileStepKeepsOrder ==
  ASSUME Inv, OrderInv, Reconcile
  PROVE  OrderInv'
<1>0. Good
  BY DEF Inv, TypeOK, Good
<1>1. PICK s \in Slots :
        \/ \E unread \in SUBSET Msgs, cands \in SUBSET mailbox_reconcile_candidates(s) :
             reconcile_mailbox_snapshot(s, unread, cands)
        \/ \E S \in SUBSET queued_ids(s) : complete_signals(s, S)
  BY DEF Reconcile
<1>2. CASE \E unread \in SUBSET Msgs, cands \in SUBSET mailbox_reconcile_candidates(s) :
             reconcile_mailbox_snapshot(s, unread, cands)
  <2>1. mailbox_reconcile_candidates(s) \subseteq IntentIds
    BY <1>0 DEF mailbox_reconcile_candidates, queued_ids, Good, WorkTypeOK
  <2>2. PICK unread \in SUBSET Msgs, cands \in SUBSET IntentIds :
             reconcile_mailbox_snapshot(s, unread, cands)
    BY <1>2, <2>1
  <2> QED BY <1>0, <2>2, ReconcileKeepsOrder
<1>3. CASE \E S \in SUBSET queued_ids(s) : complete_signals(s, S)
  <2>1. PICK S : complete_signals(s, S)
    BY <1>3
  <2>2. /\ SetState(S, "Completed") /\ info' = info /\ rank' = rank /\ active' = active
        /\ queue' = RemoveQueued(s, S) /\ \A i \in S : ist[i] \in Live
    BY <2>1 DEF complete_signals, Live
  <2>3. \A t \in Slots : queue'[t][active[t].lane] \subseteq queue[t][active[t].lane]
    BY <1>0, <2>2, RemoveQueuedShrinks, PlaceFacts
  <2>4. "Completed" \in Terminal
    BY DEF Terminal
  <2> QED BY <1>0, <2>2, <2>3, <2>4, SetStateKeepsOrder
<1> QED BY <1>1, <1>2, <1>3

\* The end of a batch keeps the order.
LEMMA EndBatchKeepsOrder ==
  ASSUME Good, OrderInv, NEW b \in WorkBatch, Copy(b), is_current_batch(b),
         NEW D, b.intents \subseteq D, \A i \in D : ist[i] \in Live,
         NEW st \in Terminal, SetState(D, st), info' = info, rank' = rank,
         queue' = queue \/ queue' = RemoveQueued(b.slot, D),
         active' = [active EXCEPT ![b.slot] = NoBatch]
  PROVE  OrderInv'
<1>1. b.slot \in Slots /\ active[b.slot].intents = b.intents
  BY CurrentFacts
<1>2. \A t \in Slots : active'[t] = IF t = b.slot THEN NoBatch ELSE active[t]
  BY <1>1 DEF Good, WorkTypeOK
<1>3. \A t \in Slots, l \in Lanes : queue'[t][l] \subseteq queue[t][l]
  BY <1>1, RemoveQueuedShrinks
<1>4. \A t \in Slots : active[t].lane \in Lanes
  BY PlaceFacts
<1>5. \A t \in Slots :
        \/ active'[t].intents = {} /\ active[t].intents \subseteq D
        \/ /\ active'[t].intents = active[t].intents /\ active'[t].lane = active[t].lane
           /\ queue'[t][active[t].lane] \subseteq queue[t][active[t].lane]
  BY <1>1, <1>2, <1>3, <1>4 DEF NoBatch
<1> QED BY <1>5, SetStateKeepsOrder

\* The calls of the holder of a batch keep the order.
LEMMA OwnKeepsOrder ==
  ASSUME Inv, OrderInv, Own
  PROVE  OrderInv'
<1>0. Good
  BY DEF Inv, TypeOK, Good
<1>1. PICK b \in held :
       \/ \E M \in SUBSET Msgs : observe_messages(b.slot, b.op, M)
       \/ mark_started(b)
       \/ retry_start(b)
       \/ complete_batch_with_ack(b)
       \/ fail_batch(b)
       \/ cancel_batch(b)
       \/ interrupt_batch(b)
       \/ take_interrupt_metadata(b.op)
  BY DEF Own
<1>2. b \in WorkBatch /\ Copy(b) /\ b.slot \in Slots
  BY DEF Inv, TypeOK, HeldCopiesAgree, Copy, WorkBatch
<1>3. is_current_batch(b) => /\ b.intents \subseteq IntentIds
                             /\ \A i \in b.intents : ist[i] \in Live /\ ist[i] # "Unborn"
  BY <1>0, <1>2, CurrentFacts DEF Live
<1>4. "Completed" \in Terminal /\ "Failed" \in Terminal /\ "Cancelled" \in Terminal
  BY DEF Terminal
<1>5. active[b.slot] \in ActiveBatch
  BY <1>0, <1>2 DEF Good, WorkTypeOK
<1>6. CASE \E M \in SUBSET Msgs : observe_messages(b.slot, b.op, M)
  <2>1. PICK M \in SUBSET Msgs : observe_messages(b.slot, b.op, M)
    BY <1>6
  <2>2. UNCHANGED <<ist, info, rank, queue>>
    BY <2>1 DEF observe_messages, intentVars
  <2> DEFINE a == [active[b.slot] EXCEPT !.observed = @ \cup (M \ BatchMsgs(active[b.slot]))]
  <2>3. active' = [active EXCEPT ![b.slot] = a]
    BY <2>1 DEF observe_messages
  <2>4. a.intents = active[b.slot].intents /\ a.lane = active[b.slot].lane
    BY <1>5 DEF ActiveBatch
  <2> HIDE DEF a
  <2>5. \A s \in Slots : active'[s].intents = active[s].intents /\ active'[s].lane = active[s].lane
    BY <1>0, <2>3, <2>4 DEF Good, WorkTypeOK
  <2> QED BY <1>0, <2>2, <2>5, EndKeepsOrder
<1>7. CASE mark_started(b)
  <2>1. /\ is_current_batch(b) /\ info' = info /\ rank' = rank /\ queue' = queue
        /\ \A i \in IntentIds : ist'[i] = IF i \in b.intents THEN "Running" ELSE ist[i]
        /\ active' = [active EXCEPT ![b.slot] = [active[b.slot] EXCEPT !.turn = TRUE]]
    BY <1>7 DEF mark_started, SetState
  <2>2. \A s \in Slots : active'[s].intents = active[s].intents /\ active'[s].lane = active[s].lane
    BY <1>0, <1>5, <2>1 DEF Good, WorkTypeOK, ActiveBatch
  <2>3. \A i \in IntentIds : /\ ist'[i] \in Live => ist[i] \in Live
                             /\ ist'[i] = "Unborn" <=> ist[i] = "Unborn"
    BY <1>3, <2>1
  <2> QED BY <1>0, <2>1, <2>2, <2>3, EndKeepsOrder
<1>8. CASE retry_start(b)
  BY <1>0, <1>2, <1>8, RetryKeepsOrder
<1>9. CASE complete_batch_with_ack(b)
  <2> DEFINE done == b.intents \cup {i \in LiveOf(b.slot) : info[i].msg \in active[b.slot].observed}
  <2>1. /\ SetState(done, "Completed") /\ info' = info /\ rank' = rank /\ is_current_batch(b)
        /\ queue' = RemoveQueued(b.slot, done) /\ active' = [active EXCEPT ![b.slot] = NoBatch]
    BY <1>9 DEF complete_batch_with_ack
  <2>2. b.intents \subseteq done /\ \A i \in done : ist[i] \in Live
    BY <1>3, <2>1 DEF LiveOf
  <2> HIDE DEF done
  <2> QED BY <1>0, <1>2, <1>4, <2>1, <2>2, EndBatchKeepsOrder
<1>10. CASE fail_batch(b)
  <2>1. /\ SetState(b.intents, "Failed") /\ info' = info /\ rank' = rank /\ is_current_batch(b)
        /\ queue' = queue /\ active' = [active EXCEPT ![b.slot] = NoBatch]
    BY <1>10 DEF fail_batch
  <2> QED BY <1>0, <1>2, <1>3, <1>4, <2>1, EndBatchKeepsOrder
<1>11. CASE cancel_batch(b) \/ interrupt_batch(b)
  <2>1. /\ SetState(b.intents, "Cancelled") /\ info' = info /\ rank' = rank /\ is_current_batch(b)
        /\ queue' = queue /\ active' = [active EXCEPT ![b.slot] = NoBatch]
    BY <1>11 DEF cancel_batch, interrupt_batch
  <2> QED BY <1>0, <1>2, <1>3, <1>4, <2>1, EndBatchKeepsOrder
<1>12. CASE take_interrupt_metadata(b.op)
  <2>1. UNCHANGED <<ist, info, rank, queue, active>>
    BY <1>12 DEF take_interrupt_metadata, intentVars, slotVars
  <2> QED BY <1>0, <2>1, EndKeepsOrder
<1> QED BY <1>1, <1>6, <1>7, <1>8, <1>9, <1>10, <1>11, <1>12

\* The calls on slots, runs and the session keep the order.
LEMMA ControlKeepsOrder ==
  ASSUME Inv, OrderInv, Control
  PROVE  OrderInv'
<1>0. Good
  BY DEF Inv, TypeOK, Good
<1>1. \/ \E s \in Slots : \E m \in Msgs : discard_queued_except(s, m)
      \/ \E s \in Slots : pause_slot(s)
      \/ \E s \in Slots : \E c \in Constraints : set_runtime_constraint(s, c)
      \/ \E s \in Slots : remove_slot(s)
      \/ \E g \in gates : abort_runtime_restart(g)
      \/ \E r \in Runs : cancel_run(r)
      \/ stop
  BY DEF Control
<1>2. "Cancelled" \in Terminal
  BY DEF Terminal
<1>3. ASSUME NEW s \in Slots, NEW m \in Msgs, discard_queued_except(s, m)
      PROVE  OrderInv'
  <2>1. /\ SetState(Discarded(s, m), "Cancelled") /\ info' = info /\ rank' = rank /\ active' = active
        /\ queue' = RemoveQueued(s, Discarded(s, m))
    BY <1>3 DEF discard_queued_except
  <2>2. \A i \in Discarded(s, m) : ist[i] \in Live
    BY <1>0 DEF Discarded, queued_ids, Good, WorkOwnership, QueuedInPlace, Live
  <2>3. \A t \in Slots : queue'[t][active[t].lane] \subseteq queue[t][active[t].lane]
    BY <1>0, <2>1, RemoveQueuedShrinks, PlaceFacts
  <2> QED BY <1>0, <1>2, <2>1, <2>2, <2>3, SetStateKeepsOrder
<1>4. ASSUME NEW s \in Slots, pause_slot(s)
      PROVE  OrderInv'
  <2>1. UNCHANGED <<ist, info, rank, queue, active>>
    BY <1>4 DEF pause_slot, intentVars
  <2> QED BY <1>0, <2>1, EndKeepsOrder
<1>5. ASSUME NEW s \in Slots, NEW c \in Constraints, set_runtime_constraint(s, c)
      PROVE  OrderInv'
  BY <1>0, <1>5, ConstrainKeepsOrder
<1>6. ASSUME NEW s \in Slots, remove_slot(s)
      PROVE  OrderInv'
  <2> DEFINE gone == active[s].intents \cup queued_ids(s) \cup LiveOf(s)
  <2>1. /\ SetState(gone, "Cancelled") /\ info' = info /\ rank' = rank
        /\ \A t \in Slots : active'[t] = IF t = s THEN NoBatch ELSE active[t]
        /\ \A t \in Slots : t # s => queue'[t] = queue[t]
    BY <1>0, <1>6 DEF remove_slot, Good, WorkTypeOK
  <2>2. active[s].intents \subseteq gone /\ \A i \in gone : ist[i] \in Live
    <3>1. \A i \in queued_ids(s) : ist[i] \in Live
      BY <1>0 DEF queued_ids, Good, WorkOwnership, QueuedInPlace, Live
    <3> QED BY <1>0, <3>1, PlaceFacts DEF LiveOf
  <2> HIDE DEF gone
  <2>3. \A t \in Slots :
          \/ active'[t].intents = {} /\ active[t].intents \subseteq gone
          \/ /\ active'[t].intents = active[t].intents /\ active'[t].lane = active[t].lane
             /\ queue'[t][active[t].lane] \subseteq queue[t][active[t].lane]
    BY <2>1, <2>2 DEF NoBatch
  <2> QED BY <1>0, <1>2, <2>1, <2>2, <2>3, SetStateKeepsOrder
<1>7. ASSUME NEW g \in gates, abort_runtime_restart(g)
      PROVE  OrderInv'
  <2>1. UNCHANGED <<ist, info, rank, queue, active>>
    BY <1>7 DEF abort_runtime_restart, intentVars
  <2> QED BY <1>0, <2>1, EndKeepsOrder
<1>8. ASSUME NEW r \in Runs, cancel_run(r)
      PROVE  OrderInv'
  BY <1>0, <1>8, CancelRunKeepsOrder
<1>9. ASSUME stop
      PROVE  OrderInv'
  <2> DEFINE D == {i \in IntentIds : ist[i] \in Live}
  <2>1. SetState(D, "Cancelled") /\ info' = info /\ rank' = rank /\ \A t \in Slots : active'[t] = NoBatch
    BY <1>9 DEF stop
  <2>2. \A t \in Slots : active'[t].intents = {} /\ active[t].intents \subseteq D
    BY <1>0, <2>1, PlaceFacts DEF NoBatch
  <2>3. \A i \in D : ist[i] \in Live
    OBVIOUS
  <2> HIDE DEF D
  <2> QED BY <1>0, <1>2, <2>1, <2>2, <2>3, SetStateKeepsOrder
<1> QED BY <1>1, <1>3, <1>4, <1>5, <1>6, <1>7, <1>8, <1>9
-----------------------------------------------------------------------------
(* The theorems.                                                           *)

\* In a new coordinator nothing is born.
LEMMA InitOrder == Init => OrderInv
<1> SUFFICES ASSUME Init PROVE OrderInv
  OBVIOUS
<1>1. /\ \A i \in IntentIds : ist[i] = "Unborn" /\ rank[i] = i
      /\ \A s \in Slots : active[s].intents = {}
  BY DEF Init, WorkInit, NoBatch
<1>2. UniqueRanks /\ NewRanksAreHighest /\ CommitOrder
  BY <1>1 DEF UniqueRanks, NewRanksAreHighest, CommitOrder, Counted, Live
<1>3. BarrierIsAlone /\ NoOvertaking
  BY <1>1 DEF BarrierIsAlone, NoOvertaking
<1> QED BY <1>2, <1>3 DEF OrderInv

\* Every call keeps the order.
LEMMA NextOrder == Inv /\ OrderInv /\ [Next]_vars => OrderInv'
<1> SUFFICES ASSUME Inv, OrderInv, [Next]_vars PROVE OrderInv'
  OBVIOUS
<1>0. Good
  BY DEF Inv, TypeOK, Good
<1>1. CASE Enqueue
  BY <1>1, EnqueueKeepsOrder
<1>2. CASE Reconcile
  BY <1>2, ReconcileStepKeepsOrder
<1>3. CASE Claim
  BY <1>0, <1>3, NextKeepsOrder DEF Claim
<1>4. CASE Own
  BY <1>4, OwnKeepsOrder
<1>5. CASE Control
  BY <1>5, ControlKeepsOrder
<1>6. CASE Gate \/ UNCHANGED vars
  <2>1. UNCHANGED <<ist, info, rank, queue, active>>
    BY <1>6 DEF Gate, begin_runtime_restart, vars, workVars, intentVars, slotVars
  <2> QED BY <1>0, <2>1, EndKeepsOrder
<1> QED BY <1>1, <1>2, <1>3, <1>4, <1>5, <1>6 DEF Next

\* The order invariant holds in every reachable state.
THEOREM OrderInvariance == Spec => []OrderInv
  BY Invariance, InitOrder, NextOrder, PTL DEF Spec

\* A slash command or a lead intervention shares no batch, whatever was given
\* back or put in front before the claim.
THEOREM BarriersAlone == Spec => []BarrierIsAlone
<1>1. OrderInv => BarrierIsAlone
  BY DEF OrderInv
<1> QED BY OrderInvariance, <1>1, PTL

\* Among the messages of a lane that belong to a run, `next` claims none before
\* an older one, but for a lead intervention.
THEOREM ClaimsInOrder == Spec => []NoOvertaking
<1>1. OrderInv => NoOvertaking
  BY DEF OrderInv
<1> QED BY OrderInvariance, <1>1, PTL
=============================================================================
