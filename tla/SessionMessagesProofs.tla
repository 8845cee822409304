------------------------ MODULE SessionMessagesProofs ------------------------
(***************************************************************************)
(* What holds of the messages between conversations for any number of      *)
(* conversations and messages and for any limits.                          *)
(***************************************************************************)
EXTENDS SessionMessages, IntegerBounds, FiniteSetTheorems

(* A queued message is in the queue of its target, once, and its request   *)
(* has pushed it.                                                          *)
Entries(w) == {w[i] : i \in DOMAIN w}
Once(w) == \A i, j \in DOMAIN w : w[i] = w[j] => i = j

Pushed(m) == req[m].st \in {"Notify", "Done"}

QueueInv == \A t \in Targets : \A m \in Entries(queue[t]) : To(m) = t /\ Pushed(m)

(* The drainer holds copies only between its snapshot and the end of its   *)
(* round, one for a target, of messages that were pushed.                  *)
HeldInv ==
  /\ drainer.pc \in {"Check", "Park", "Wait", "Expire", "Copy"} => drainer.todo = {}
  /\ drainer.cur = NoMsg <=> drainer.pc \notin {"Deliver", "Disabled", "Remove"}
  /\ drainer.cur \notin drainer.todo
  /\ \A m \in Held : Pushed(m)
  /\ \A m, n \in Held : To(m) = To(n) => m = n

(* A copy of a message whose target was cleared is not queued any more.    *)
CrossedInv == \A m \in Held : To(m) \in crossed => m \notin Queued

(* What is queued, or about to be sent or queued, was not delivered yet,   *)
(* but for the message the drainer is about to remove.                     *)
GivenInv ==
  /\ \A m \in Msgs : req[m].st \in {"Unsent", "Admitted", "Push"} => given[m] = 0
  /\ \A m \in Queued \cup Held : given[m] = 0 \/ (At("Remove") /\ drainer.cur = m)

(* The windows hold every send that is still recent, and no more than the  *)
(* limits allow.                                                           *)
RateInv ==
  /\ \A f \in Senders :
       /\ Len(outbound[f]) <= OUTBOUND_LIMIT
       /\ \A m \in Msgs : age[m] < WINDOW /\ req[m].from = f => m \in Entries(outbound[f])
  /\ \A f \in Senders, t \in Targets :
       /\ Len(pair[<<f, t>>]) <= PAIR_LIMIT
       /\ \A m \in Msgs :
            age[m] < WINDOW /\ req[m].from = f /\ To(m) = t => m \in Entries(pair[<<f, t>>])

Inv == /\ TypeOK /\ CountAgrees /\ QueueInv /\ HeldInv /\ HeldCopyIsHead /\ CrossedInv
       /\ DeliveredOnce /\ GivenInv /\ RateInv /\ NoLostWakeup
-----------------------------------------------------------------------------
(* VecDeque::retain.                                                       *)

(* The equation of the recursive function that Keep is defined by.         *)
IsKept(f, s, S, n) ==
  f = [i \in 0..n |-> IF i = 0 THEN <<>>
                      ELSE IF s[i] \in S THEN Append(f[i - 1], s[i]) ELSE f[i - 1]]

(* There is such a function on every prefix of the sequence. *)
LEMMA KeptExists ==
  ASSUME NEW s, NEW S, NEW n \in Nat
  PROVE  \E f : IsKept(f, s, S, n)
<1> DEFINE T == {k \in 0..n : \E f : IsKept(f, s, S, k)}
<1>1. 0 \in T
  <2> DEFINE f == [i \in 0..0 |-> <<>>]
  <2>1. IsKept(f, s, S, 0)
    BY DEF IsKept
  <2> QED
    BY <2>1
<1>2. ASSUME NEW k \in 0..(n - 1), k \in T PROVE k + 1 \in T
  <2>1. PICK f : IsKept(f, s, S, k)
    BY <1>2
  <2> DEFINE g == [i \in 0..(k + 1) |->
                     IF i <= k THEN f[i]
                     ELSE IF s[i] \in S THEN Append(f[i - 1], s[i]) ELSE f[i - 1]]
  <2>2. ASSUME NEW i \in 0..(k + 1)
        PROVE  g[i] = IF i = 0 THEN <<>>
                      ELSE IF s[i] \in S THEN Append(g[i - 1], s[i]) ELSE g[i - 1]
    <3>1. CASE i <= k
      <4>1. i \in 0..k /\ (i # 0 => i - 1 \in 0..k /\ i - 1 \in 0..(k + 1))
        BY <3>1
      <4>2. f[i] = IF i = 0 THEN <<>>
                   ELSE IF s[i] \in S THEN Append(f[i - 1], s[i]) ELSE f[i - 1]
        BY <2>1, <4>1 DEF IsKept
      <4> QED
        BY <3>1, <4>1, <4>2
    <3>2. CASE i = k + 1
      BY <3>2
    <3> QED
      BY <3>1, <3>2
  <2>3. IsKept(g, s, S, k + 1)
    <3> HIDE DEF g
    <3>1. g = [i \in 0..(k + 1) |-> g[i]]
      BY DEF g
    <3> QED
      BY <2>2, <3>1 DEF IsKept
  <2> QED
    BY <2>3, <1>2
<1>3. 0..n \subseteq T
  <2> HIDE DEF T
  <2> QED
    BY <1>1, <1>2, IntervalInduction
<1> QED
  BY <1>3

(* What is kept of a sequence: the members that are in S; nothing twice    *)
(* that was not there twice, and no more than there was.                   *)
LEMMA KeepFacts ==
  ASSUME NEW M, NEW s \in Seq(M), NEW S
  PROVE  /\ Keep(s, S) \in Seq(M)
         /\ Len(Keep(s, S)) <= Len(s)
         /\ Entries(Keep(s, S)) = Entries(s) \cap S
         /\ Once(s) => Once(Keep(s, S))
<1> DEFINE n == Len(s)
           kept == CHOOSE f : IsKept(f, s, S, n)
           Good(k) == /\ kept[k] \in Seq(M) /\ Len(kept[k]) <= k
                      /\ Entries(kept[k]) = {s[i] : i \in 1..k} \cap S
                      /\ Once(s) => Once(kept[k])
           T == {k \in 0..n : Good(k)}
<1>1. n \in Nat /\ DOMAIN s = 1..n /\ \A i \in 1..n : s[i] \in M
  OBVIOUS
<1>2. Keep(s, S) = kept[n]
  BY DEF Keep, IsKept
<1>3. IsKept(kept, s, S, n)
  BY <1>1, KeptExists
<1> HIDE DEF kept, n
<1>4. kept[0] = <<>>
  BY <1>1, <1>3 DEF IsKept
<1>5. 0 \in T
  <2>1. kept[0] \in Seq(M) /\ Len(kept[0]) = 0 /\ DOMAIN kept[0] = {}
    BY <1>4
  <2>2. Entries(kept[0]) = {} /\ {s[i] : i \in 1..0} = {}
    BY <2>1 DEF Entries
  <2>3. Good(0)
    BY <2>1, <2>2 DEF Once
  <2> HIDE DEF Good
  <2> QED
    BY <1>1, <2>3
<1>6. ASSUME NEW k \in 0..(n - 1), k \in T PROVE k + 1 \in T
  <2>1. /\ k + 1 \in 1..n /\ k \in Nat
        /\ kept[k + 1] = IF s[k + 1] \in S THEN Append(kept[k], s[k + 1]) ELSE kept[k]
    <3>1. k + 1 \in 0..n /\ k + 1 # 0 /\ (k + 1) - 1 = k
      BY <1>1
    <3>2. \A i \in 0..n : kept[i] = IF i = 0 THEN <<>>
                                   ELSE IF s[i] \in S THEN Append(kept[i - 1], s[i]) ELSE kept[i - 1]
      BY <1>3 DEF IsKept
    <3>3. kept[k + 1] = IF s[k + 1] \in S THEN Append(kept[(k + 1) - 1], s[k + 1])
                                          ELSE kept[(k + 1) - 1]
      BY <3>1, <3>2
    <3> QED
      BY <1>1, <3>1, <3>3
  <2>2. Good(k)
    <3> HIDE DEF Good
    <3> QED
      BY <1>6
  <2>3. {s[i] : i \in 1..(k + 1)} = {s[i] : i \in 1..k} \cup {s[k + 1]}
    BY <2>1
  <2>4. CASE s[k + 1] \notin S
    BY <1>1, <2>1, <2>2, <2>3, <2>4
  <2>5. CASE s[k + 1] \in S
    <3> DEFINE w == kept[k]
               x == s[k + 1]
    <3>1. w \in Seq(M) /\ x \in M /\ Len(w) <= k
      BY <1>1, <2>1, <2>2
    <3>2. kept[k + 1] = Append(w, x)
      BY <2>1, <2>5
    <3> HIDE DEF w, x
    <3>3. /\ Append(w, x) \in Seq(M) /\ Len(Append(w, x)) = Len(w) + 1
          /\ DOMAIN Append(w, x) = 1..(Len(w) + 1) /\ DOMAIN w = 1..Len(w) /\ Len(w) \in Nat
          /\ \A i \in 1..Len(w) : Append(w, x)[i] = w[i]
          /\ Append(w, x)[Len(w) + 1] = x
      BY <3>1
    <3>4. Entries(Append(w, x)) = Entries(w) \cup {x}
      <4>1. 1..(Len(w) + 1) = (1..Len(w)) \cup {Len(w) + 1}
        BY <3>3
      <4> QED
        BY <3>3, <4>1 DEF Entries
    <3>5. Entries(Append(w, x)) = {s[i] : i \in 1..(k + 1)} \cap S
      BY <2>2, <2>3, <2>5, <3>4 DEF w, x
    <3>6. ASSUME Once(s) PROVE Once(Append(w, x))
      <4>1. x \notin Entries(w)
        <5>1. \A i \in 1..k : s[i] # s[k + 1]
          BY <1>1, <2>1, <3>6 DEF Once
        <5> QED
          BY <2>2, <5>1 DEF w, x
      <4>2. Once(w)
        BY <2>2, <3>6 DEF w
      <4>3. \A i \in 1..Len(w) : w[i] # x
        BY <3>3, <4>1 DEF Entries
      <4>4. ASSUME NEW i \in 1..(Len(w) + 1), NEW j \in 1..(Len(w) + 1),
                   Append(w, x)[i] = Append(w, x)[j]
            PROVE  i = j
        <5>1. CASE i = Len(w) + 1 /\ j # Len(w) + 1
          <6>1. j \in 1..Len(w)
            BY <3>3, <5>1
          <6> QED
            BY <3>3, <4>3, <4>4, <5>1, <6>1
        <5>2. CASE j = Len(w) + 1 /\ i # Len(w) + 1
          <6>1. i \in 1..Len(w)
            BY <3>3, <5>2
          <6> QED
            BY <3>3, <4>3, <4>4, <5>2, <6>1
        <5>3. CASE i # Len(w) + 1 /\ j # Len(w) + 1
          <6>1. i \in 1..Len(w) /\ j \in 1..Len(w)
            BY <3>3, <5>3
          <6> QED
            BY <3>3, <4>2, <4>4, <6>1 DEF Once
        <5> QED
          BY <5>1, <5>2, <5>3
      <4> QED
        BY <3>3, <4>4 DEF Once
    <3>7. Len(kept[k + 1]) <= k + 1
      <4>1. Len(kept[k + 1]) = Len(w) + 1 /\ Len(w) \in Nat /\ Len(w) <= k /\ k \in Nat
        BY <2>1, <3>1, <3>2, <3>3
      <4> QED
        BY <4>1
    <3>8. Good(k + 1)
      BY <3>2, <3>3, <3>5, <3>6, <3>7
    <3> HIDE DEF Good
    <3> QED
      BY <2>1, <3>8
  <2> QED
    BY <2>4, <2>5
<1>7. 0..n \subseteq T
  <2> HIDE DEF T
  <2> QED
    BY <1>1, <1>5, <1>6, IntervalInduction
<1>8. Good(n)
  <2> HIDE DEF Good
  <2> QED
    BY <1>1, <1>7
<1>9. Entries(s) = {s[i] : i \in 1..n}
  BY <1>1 DEF Entries
<1> QED
  BY <1>1, <1>2, <1>8, <1>9 DEF n
-----------------------------------------------------------------------------
(* Sequences without repetitions, and what the calls of the queue do.      *)

(* A sequence has at most as many different members as it is long, and as  *)
(* many if it repeats none.                                                *)
LEMMA EntriesCount ==
  ASSUME NEW M, NEW w \in Seq(M)
  PROVE  /\ IsFiniteSet(Entries(w)) /\ Entries(w) \subseteq M
         /\ Cardinality(Entries(w)) \in Nat /\ Cardinality(Entries(w)) <= Len(w)
         /\ Once(w) => Cardinality(Entries(w)) = Len(w)
<1>1. Len(w) \in Nat /\ DOMAIN w = 1..Len(w) /\ w \in [1..Len(w) -> M]
  OBVIOUS
<1>2. IsFiniteSet(1..Len(w)) /\ Cardinality(1..Len(w)) = Len(w)
  BY <1>1, FS_Interval
<1>3. w \in Surjection(1..Len(w), Entries(w))
  BY <1>1 DEF Surjection, Entries
<1>4. /\ IsFiniteSet(Entries(w))
      /\ Cardinality(Entries(w)) <= Cardinality(1..Len(w))
      /\ Cardinality(Entries(w)) = Cardinality(1..Len(w)) <=> w \in Injection(1..Len(w), Entries(w))
  BY <1>2, <1>3, FS_Surjection
<1>5. Once(w) => w \in Injection(1..Len(w), Entries(w))
  BY <1>1, <1>3 DEF Injection, IsInjective, Once, Surjection
<1>6. Cardinality(Entries(w)) \in Nat
  BY <1>4, FS_CardinalityType
<1> QED
  BY <1>1, <1>2, <1>4, <1>5, <1>6 DEF Entries

(* A message put at the end. *)
LEMMA AppendFacts ==
  ASSUME NEW M, NEW w \in Seq(M), NEW x \in M
  PROVE  /\ Append(w, x) \in Seq(M) /\ Len(Append(w, x)) = Len(w) + 1
         /\ Entries(Append(w, x)) = Entries(w) \cup {x}
         /\ w # <<>> => Append(w, x) # <<>> /\ Head(Append(w, x)) = Head(w)
         /\ Once(w) /\ x \notin Entries(w) => Once(Append(w, x))
<1>1. /\ Append(w, x) \in Seq(M) /\ Len(Append(w, x)) = Len(w) + 1
      /\ DOMAIN Append(w, x) = 1..(Len(w) + 1) /\ DOMAIN w = 1..Len(w) /\ Len(w) \in Nat
      /\ \A i \in 1..Len(w) : Append(w, x)[i] = w[i]
      /\ Append(w, x)[Len(w) + 1] = x
  OBVIOUS
<1>2. 1..(Len(w) + 1) = (1..Len(w)) \cup {Len(w) + 1}
  BY <1>1
<1>3. Entries(Append(w, x)) = Entries(w) \cup {x}
  BY <1>1, <1>2 DEF Entries
<1>4. w # <<>> => Append(w, x) # <<>> /\ Head(Append(w, x)) = Head(w)
  OBVIOUS
<1>5. Once(w) /\ x \notin Entries(w) => Once(Append(w, x))
  BY <1>1, <1>2 DEF Entries, Once
<1> QED
  BY <1>1, <1>3, <1>4, <1>5

(* The first message taken out. *)
LEMMA TailFacts ==
  ASSUME NEW M, NEW w \in Seq(M), w # <<>>, Once(w)
  PROVE  /\ Tail(w) \in Seq(M) /\ Once(Tail(w)) /\ Head(w) \in Entries(w)
         /\ Entries(Tail(w)) = Entries(w) \ {Head(w)}
<1>1. /\ Tail(w) \in Seq(M) /\ Len(w) \in Nat /\ Len(w) >= 1
      /\ DOMAIN w = 1..Len(w) /\ DOMAIN Tail(w) = 1..(Len(w) - 1)
      /\ Head(w) = w[1]
      /\ \A i \in 1..(Len(w) - 1) : Tail(w)[i] = w[i + 1]
  OBVIOUS
<1>2. Once(Tail(w))
  <2>1. ASSUME NEW i \in 1..(Len(w) - 1), NEW j \in 1..(Len(w) - 1), Tail(w)[i] = Tail(w)[j]
        PROVE  i = j
    <3>1. i + 1 \in DOMAIN w /\ j + 1 \in DOMAIN w /\ w[i + 1] = w[j + 1]
      BY <1>1, <2>1
    <3>2. i + 1 = j + 1
      BY <3>1 DEF Once
    <3> QED
      BY <3>2
  <2> QED
    BY <1>1, <2>1 DEF Once
<1>3. Head(w) \in Entries(w)
  BY <1>1 DEF Entries
<1>4. ASSUME NEW x \in Entries(Tail(w)) PROVE x \in Entries(w) \ {Head(w)}
  <2>1. PICK i \in 1..(Len(w) - 1) : x = w[i + 1]
    BY <1>1, <1>4 DEF Entries
  <2>2. i + 1 \in DOMAIN w /\ 1 \in DOMAIN w /\ i + 1 # 1
    BY <1>1, <2>1
  <2> QED
    BY <1>1, <2>1, <2>2 DEF Entries, Once
<1>5. ASSUME NEW x \in Entries(w), x # Head(w) PROVE x \in Entries(Tail(w))
  <2>1. PICK i \in 1..Len(w) : x = w[i] /\ i # 1
    BY <1>1, <1>5 DEF Entries
  <2>2. i - 1 \in 1..(Len(w) - 1) /\ (i - 1) + 1 = i
    BY <1>1, <2>1
  <2>3. Tail(w)[i - 1] = x
    BY <1>1, <2>1, <2>2
  <2> QED
    BY <1>1, <2>2, <2>3 DEF Entries
<1> QED
  BY <1>1, <1>2, <1>3, <1>4, <1>5

(* The queued messages are those of the queues, and there are finitely     *)
(* many.                                                                   *)
LEMMA QueuedFacts ==
  ASSUME TypeOK
  PROVE  /\ \A m : m \in Queued <=> \E t \in Targets : m \in Entries(queue[t])
         /\ Queued \subseteq Msgs /\ IsFiniteSet(Queued) /\ Cardinality(Queued) \in Nat
         /\ \A S \in SUBSET Queued : IsFiniteSet(S) /\ Cardinality(S) \in Nat
<1>1. \A m : m \in Queued <=> \E t \in Targets : m \in Entries(queue[t])
  BY DEF Queued, Entries
<1>2. \A t \in Targets : Entries(queue[t]) \subseteq Msgs
  <2>1. \A t \in Targets : queue[t] \in Seq(Msgs)
    BY DEF TypeOK
  <2> QED
    BY <2>1, EntriesCount
<1>3. Queued \subseteq Msgs
  BY <1>1, <1>2
<1>4. IsFiniteSet(Msgs)
  BY FS_Interval, MessageAssumption DEF Msgs
<1>5. ASSUME NEW S \in SUBSET Msgs PROVE IsFiniteSet(S) /\ Cardinality(S) \in Nat
  BY <1>4, FS_Subset, FS_CardinalityType
<1> QED
  BY <1>1, <1>3, <1>5
(* push: the message is the last of its target's queue, and queued once. *)
LEMMA PushQueue ==
  ASSUME TypeOK, CountAgrees, NEW m \in Msgs, To(m) \in Targets, m \notin Queued, push(m)
  PROVE  /\ queue' \in [Targets -> Seq(Msgs)] /\ ttl' \in [Msgs -> 0..TTL]
         /\ Queued' = Queued \cup {m} /\ CountAgrees' /\ total' = total + 1
         /\ \A t \in Targets :
              /\ Entries(queue'[t]) = IF t = To(m) THEN Entries(queue[t]) \cup {m} ELSE Entries(queue[t])
              /\ queue[t] # <<>> => queue'[t] # <<>> /\ Head(queue'[t]) = Head(queue[t])
<1> DEFINE u == To(m)
           w == queue[u]
<1>1. /\ queue \in [Targets -> Seq(Msgs)] /\ u \in Targets /\ w \in Seq(Msgs)
      /\ queue' = [queue EXCEPT ![u] = Append(w, m)] /\ total' = total + 1
  BY DEF push, TypeOK
<1>2. ttl' \in [Msgs -> 0..TTL]
  BY MessageAssumption DEF push, TypeOK
<1>3. m \notin Entries(w) /\ Once(w)
  BY <1>1, QueuedFacts DEF CountAgrees, Once
<1> HIDE DEF u, w
<1>4. /\ Append(w, m) \in Seq(Msgs) /\ Entries(Append(w, m)) = Entries(w) \cup {m}
      /\ w # <<>> => Append(w, m) # <<>> /\ Head(Append(w, m)) = Head(w)
      /\ Once(Append(w, m))
  BY <1>1, <1>3, AppendFacts
<1>5. /\ queue' \in [Targets -> Seq(Msgs)]
      /\ \A t \in Targets : queue'[t] = IF t = u THEN Append(w, m) ELSE queue[t]
  BY <1>1, <1>4
<1>6. \A t \in Targets :
         /\ Entries(queue'[t]) = IF t = u THEN Entries(queue[t]) \cup {m} ELSE Entries(queue[t])
         /\ queue[t] # <<>> => queue'[t] # <<>> /\ Head(queue'[t]) = Head(queue[t])
         /\ Once(queue'[t])
  <2>1. \A t \in Targets : Once(queue[t])
    BY DEF CountAgrees, Once
  <2> QED
    BY <1>4, <1>5, <2>1 DEF w
<1>7. Queued' = Queued \cup {m}
  <2>1. \A x : x \in Queued' <=> \E t \in Targets : x \in Entries(queue'[t])
    BY DEF Queued, Entries
  <2> QED
    BY <1>1, <1>6, <2>1, QueuedFacts
<1>8. Cardinality(Queued') = Cardinality(Queued) + 1
  BY <1>7, QueuedFacts, FS_AddElement
<1>9. CountAgrees'
  BY <1>1, <1>6, <1>8 DEF CountAgrees, Once
<1> QED
  BY <1>1, <1>2, <1>5, <1>6, <1>7, <1>9 DEF u

(* remove_head: the head, if there is one, is queued no more. *)
LEMMA RemoveQueue ==
  ASSUME TypeOK, CountAgrees, QueueInv, NEW u \in Targets, remove_head(u)
  PROVE  /\ queue' \in [Targets -> Seq(Msgs)] /\ UNCHANGED ttl
         /\ CountAgrees' /\ total' <= total
         /\ Queued' = IF queue[u] = <<>> THEN Queued ELSE Queued \ {Head(queue[u])}
         /\ \A t \in Targets :
              /\ Entries(queue'[t]) \subseteq Entries(queue[t])
              /\ t # u => queue'[t] = queue[t]
<1>1. CASE queue[u] = <<>>
  <2>1. UNCHANGED <<queue, total, ttl>>
    BY <1>1 DEF remove_head, queueVars
  <2>2. UNCHANGED Queued /\ total \in Nat
    BY <2>1, QueuedFacts DEF Queued, CountAgrees
  <2> QED
    BY <1>1, <2>1, <2>2 DEF CountAgrees, TypeOK
<1>2. CASE queue[u] # <<>>
  <2> DEFINE w == queue[u]
  <2>1. /\ queue \in [Targets -> Seq(Msgs)] /\ w \in Seq(Msgs) /\ Once(w)
        /\ queue' = [queue EXCEPT ![u] = Tail(w)] /\ total' = total - 1 /\ UNCHANGED ttl
    BY <1>2 DEF remove_head, TypeOK, CountAgrees, Once
  <2> HIDE DEF w
  <2>2. /\ Tail(w) \in Seq(Msgs) /\ Once(Tail(w)) /\ Head(w) \in Entries(w)
        /\ Entries(Tail(w)) = Entries(w) \ {Head(w)}
    BY <1>2, <2>1, TailFacts DEF w
  <2>3. /\ queue' \in [Targets -> Seq(Msgs)]
        /\ \A t \in Targets : queue'[t] = IF t = u THEN Tail(w) ELSE queue[t]
    BY <2>1, <2>2
  <2>4. \A t \in Targets :
          /\ Entries(queue'[t]) = IF t = u THEN Entries(queue[t]) \ {Head(w)} ELSE Entries(queue[t])
          /\ Once(queue'[t])
    <3>1. \A t \in Targets : Once(queue[t])
      BY DEF CountAgrees, Once
    <3> QED
      BY <2>2, <2>3, <3>1 DEF w
  <2>5. \A t \in Targets : Head(w) \in Entries(queue[t]) => t = u
    BY <2>2 DEF QueueInv, w
  <2>6. Queued' = Queued \ {Head(w)} /\ Head(w) \in Queued
    <3>1. \A x : x \in Queued' <=> \E t \in Targets : x \in Entries(queue'[t])
      BY DEF Queued, Entries
    <3> QED
      BY <2>2, <2>4, <2>5, <3>1, QueuedFacts DEF w
  <2>7. Cardinality(Queued') = Cardinality(Queued) - 1 /\ Cardinality(Queued) \in Nat
    BY <2>6, QueuedFacts, FS_RemoveElement
  <2>8. CountAgrees' /\ total' <= total
    BY <2>1, <2>4, <2>7 DEF CountAgrees, Once
  <2> QED
    BY <1>2, <2>1, <2>3, <2>4, <2>6, <2>8 DEF w
<1> QED
  BY <1>1, <1>2

(* clear_for: nothing of the target is queued any more. *)
LEMMA ClearQueue ==
  ASSUME TypeOK, CountAgrees, QueueInv, NEW u \in Targets, clear_for(u)
  PROVE  /\ queue' \in [Targets -> Seq(Msgs)] /\ UNCHANGED ttl
         /\ CountAgrees' /\ total' <= total /\ total \in Nat
         /\ Queued' = Queued \ Entries(queue[u])
         /\ \A t \in Targets : queue'[t] = IF t = u THEN <<>> ELSE queue[t]
<1> DEFINE w == queue[u]
<1>1. /\ queue \in [Targets -> Seq(Msgs)] /\ w \in Seq(Msgs) /\ Once(w) /\ UNCHANGED ttl
      /\ queue' = [queue EXCEPT ![u] = <<>>] /\ total' = total - Len(w)
  BY DEF clear_for, TypeOK, CountAgrees, Once
<1>2. /\ queue' \in [Targets -> Seq(Msgs)]
      /\ \A t \in Targets : queue'[t] = IF t = u THEN <<>> ELSE queue[t]
  BY <1>1
<1>3. Entries(<<>>) = {} /\ Once(<<>>)
  BY DEF Entries, Once
<1>4. \A t \in Targets : \A x : x \in Entries(w) /\ x \in Entries(queue[t]) => t = u
  BY DEF QueueInv
<1>5. Queued' = Queued \ Entries(w)
  <2>1. \A x : x \in Queued' <=> \E t \in Targets : x \in Entries(queue'[t])
    BY DEF Queued, Entries
  <2> QED
    BY <1>2, <1>3, <1>4, <2>1, QueuedFacts
<1>6. Queued \cap Entries(w) = Entries(w)
  BY QueuedFacts
<1> HIDE DEF w
<1>7. Cardinality(Queued') = Cardinality(Queued) - Len(w) /\ Cardinality(Queued) \in Nat /\ Len(w) \in Nat
  <2>1. Cardinality(Entries(w)) = Len(w)
    BY <1>1, EntriesCount
  <2>2. Cardinality(Queued \ Entries(w)) = Cardinality(Queued) - Cardinality(Queued \cap Entries(w))
    BY QueuedFacts, FS_Difference
  <2> QED
    BY <1>1, <1>5, <1>6, <2>1, <2>2, QueuedFacts
<1>8. \A t \in Targets : Once(queue'[t])
  BY <1>2, <1>3 DEF CountAgrees, Once
<1>9. CountAgrees' /\ total' <= total /\ total \in Nat
  BY <1>1, <1>7, <1>8 DEF CountAgrees, Once
<1> QED
  BY <1>1, <1>2, <1>5, <1>9 DEF w

(* drop_expired: what had no time left is queued no more, and the count is *)
(* corrected by as many as were dropped.                                   *)
LEMMA ExpireQueue ==
  ASSUME TypeOK, CountAgrees, drop_expired
  PROVE  /\ queue' \in [Targets -> Seq(Msgs)] /\ UNCHANGED ttl
         /\ CountAgrees'
         /\ Queued' = {m \in Queued : ttl[m] # 0}
         /\ \A t \in Targets : Entries(queue'[t]) \subseteq Entries(queue[t])
<1> DEFINE S == {m \in Msgs : ttl[m] > 0}
           D == {m \in Queued : ttl[m] = 0}
<1>1. /\ \A t \in Targets : queue[t] \in Seq(Msgs) /\ Once(queue[t])
      /\ queue' = [t \in Targets |-> Keep(queue[t], S)] /\ total' = total - Cardinality(D)
      /\ UNCHANGED ttl
  BY DEF drop_expired, TypeOK, CountAgrees, Once
<1>2. \A m \in Msgs : m \in S <=> ttl[m] # 0
  BY MessageAssumption DEF TypeOK
<1> HIDE DEF S
<1>3. \A t \in Targets : /\ Keep(queue[t], S) \in Seq(Msgs)
                         /\ Entries(Keep(queue[t], S)) = Entries(queue[t]) \cap S
                         /\ Once(Keep(queue[t], S))
  BY <1>1, KeepFacts
<1>4. /\ queue' \in [Targets -> Seq(Msgs)]
      /\ \A t \in Targets : Entries(queue'[t]) = Entries(queue[t]) \cap S /\ Once(queue'[t])
  BY <1>1, <1>3
<1>5. Queued' = Queued \ D
  <2>1. \A x : x \in Queued' <=> \E t \in Targets : x \in Entries(queue'[t])
    BY DEF Queued, Entries
  <2>2. \A x : x \in Queued' <=> x \in Queued /\ x \in S
    BY <1>4, <2>1, QueuedFacts
  <2> QED
    BY <1>2, <2>2, QueuedFacts
<1>6. Cardinality(Queued \ D) = Cardinality(Queued) - Cardinality(Queued \cap D)
  BY QueuedFacts, FS_Difference
<1>7. Queued \cap D = D
  OBVIOUS
<1>8. CountAgrees'
  BY <1>1, <1>4, <1>5, <1>6, <1>7 DEF CountAgrees, Once
<1> QED
  BY <1>1, <1>4, <1>5, <1>8
-----------------------------------------------------------------------------
(* Requests.                                                               *)

(* The windows and the messages in them stay as they are. *)
LEMMA RateFrame ==
  ASSUME RateInv, UNCHANGED limitVars,
         \A n \in Msgs : req'[n].from = req[n].from /\ req'[n].to = req[n].to
  PROVE  RateInv'
  BY DEF RateInv, limitVars, To

(* An answer moves the request on and keeps what it is about. *)
LEMMA ReplyUpdate ==
  ASSUME TypeOK, NEW m \in Msgs, NEW st \in {"Push", "Notify", "Done"}, Reply(m, st),
         req[m].st # "Unsent"
  PROVE  /\ req' \in [Msgs -> [from : Senders \cup {NoMsg}, to : Targets \cup {NoMsg},
                               st : {"Unsent", "Admitted", "Push", "Notify", "Done"}]]
         /\ \A n \in Msgs : req'[n].st # "Unsent" => req'[n].from \in Senders /\ req'[n].to \in Targets
         /\ \A n \in Msgs : /\ req'[n].from = req[n].from /\ req'[n].to = req[n].to
                            /\ req'[n].st = IF n = m THEN st ELSE req[n].st
  BY DEF Reply, TypeOK

(* What is queued or held was pushed. *)
LEMMA QueuedPushed ==
  ASSUME TypeOK, QueueInv, HeldInv, NEW m \in Queued \cup Held
  PROVE  Pushed(m) /\ m \in Msgs
<1>1. ASSUME m \in Queued PROVE Pushed(m) /\ m \in Msgs
  BY <1>1, QueuedFacts DEF QueueInv
<1>2. ASSUME m \in Held PROVE Pushed(m) /\ m \in Msgs
  BY <1>2 DEF HeldInv, Held, TypeOK
<1> QED
  BY <1>1, <1>2

(* A step of a request that does not touch the queue. *)
LEMMA AnswerStep ==
  ASSUME Inv, NEW m \in Msgs, req[m].st \in {"Admitted", "Push", "Notify"},
         NEW st \in {"Push", "Done"}, Reply(m, st),
         UNCHANGED <<queueVars, limitVars, drainer, crossed>>,
         permit' \in BOOLEAN, permit => permit', req[m].st = "Notify" => st = "Done" /\ permit',
         given' \in [Msgs -> Nat], \A n \in Msgs : n # m => given'[n] = given[n],
         \/ given'[m] = given[m]
         \/ req[m].st = "Admitted" /\ st = "Done" /\ given'[m] <= 1
  PROVE  Inv'
<1> USE DEF Inv
<1>1. /\ req' \in [Msgs -> [from : Senders \cup {NoMsg}, to : Targets \cup {NoMsg},
                            st : {"Unsent", "Admitted", "Push", "Notify", "Done"}]]
      /\ \A n \in Msgs : req'[n].st # "Unsent" => req'[n].from \in Senders /\ req'[n].to \in Targets
      /\ \A n \in Msgs : /\ req'[n].from = req[n].from /\ req'[n].to = req[n].to
                         /\ req'[n].st = IF n = m THEN st ELSE req[n].st
  BY ReplyUpdate
<1>2. UNCHANGED <<queue, total, ttl, pair, outbound, age>> /\ UNCHANGED <<Queued, Held>>
  BY DEF queueVars, limitVars, Queued, Held
<1>3. TypeOK'
  BY <1>1, <1>2 DEF TypeOK
<1>4. \A n \in Queued \cup Held : n \in Msgs /\ Pushed(n) /\ Pushed(n)' /\ To(n)' = To(n)
  BY <1>1, QueuedPushed DEF Pushed, To
<1>5. CountAgrees'
  BY <1>2 DEF CountAgrees
<1>6. QueueInv'
  BY <1>2, <1>4, QueuedFacts DEF QueueInv, Entries
<1>7. HeldInv' /\ HeldCopyIsHead' /\ CrossedInv'
  BY <1>2, <1>4 DEF HeldInv, HeldCopyIsHead, CrossedInv
<1>8. DeliveredOnce' /\ GivenInv'
  <2>1. DeliveredOnce'
    BY DEF DeliveredOnce
  <2>2. \A n \in Msgs : req'[n].st \in {"Unsent", "Admitted", "Push"} => given'[n] = 0
    BY <1>1 DEF GivenInv
  <2>3. \A n \in Queued \cup Held : given'[n] = given[n]
    BY <1>4 DEF Pushed
  <2> QED
    BY <1>2, <2>1, <2>2, <2>3 DEF GivenInv, At
<1>9. RateInv'
  BY <1>1, RateFrame
<1>10. NoLostWakeup'
  BY <1>1, <1>2 DEF NoLostWakeup, At
<1> QED
  BY <1>3, <1>5, <1>6, <1>7, <1>8, <1>9, <1>10

(* The target is refused. *)
LEMMA RefuseStep ==
  ASSUME Inv, NEW m \in Msgs, RefuseTarget(m)
  PROVE  Inv'
<1>1. given' \in [Msgs -> Nat] /\ permit' \in BOOLEAN
  BY DEF RefuseTarget, Inv, TypeOK
<1> QED
  BY <1>1, AnswerStep DEF RefuseTarget

(* What Give records. *)
LEMMA GiveFacts ==
  ASSUME TypeOK, NEW m \in Msgs, NEW outcome, Give(m, outcome), given[m] = 0
  PROVE  /\ given' \in [Msgs -> Nat] /\ given'[m] <= 1
         /\ \A n \in Msgs : n # m => given'[n] = given[n]
         /\ outcome # "Delivered" => given'[m] = given[m]
  BY DEF Give, TypeOK

(* The message is sent at once: only a transient refusal leaves it to be   *)
(* queued, and then it was not delivered.                                  *)
LEMMA DeliverNowStep ==
  ASSUME Inv, NEW m \in Msgs, deliver_now(m)
  PROVE  Inv'
<1>1. PICK outcome \in Outcomes :
        Give(m, outcome) /\ Reply(m, IF outcome = "Transient" THEN "Push" ELSE "Done")
  BY DEF deliver_now
<1>2. /\ req[m].st = "Admitted" /\ UNCHANGED <<queueVars, limitVars, permit, drainer, crossed>>
      /\ permit' \in BOOLEAN
  BY DEF deliver_now, Inv, TypeOK
<1>3. /\ given' \in [Msgs -> Nat] /\ given'[m] <= 1
      /\ \A n \in Msgs : n # m => given'[n] = given[n]
      /\ outcome # "Delivered" => given'[m] = given[m]
  <2>1. given[m] = 0
    BY <1>2 DEF Inv, GivenInv
  <2> QED
    BY <1>1, <2>1, GiveFacts DEF Inv
<1>4. CASE outcome = "Transient"
  BY <1>1, <1>2, <1>3, <1>4, AnswerStep
<1>5. CASE outcome # "Transient"
  BY <1>1, <1>2, <1>3, <1>5, AnswerStep
<1> QED
  BY <1>4, <1>5

(* The wakeup is stored, whether or not the drainer waits. *)
LEMMA NotifyStep ==
  ASSUME Inv, NEW m \in Msgs, notify_one(m)
  PROVE  Inv'
<1>1. given' \in [Msgs -> Nat]
  BY DEF notify_one, Inv, TypeOK
<1> QED
  BY <1>1, AnswerStep DEF notify_one

(* A message is queued while the drainer may be anywhere: behind the head  *)
(* it holds a copy of, or in a queue that was cleared under it.            *)
LEMMA EnqueueStep ==
  ASSUME Inv, NEW m \in Msgs, Enqueue(m)
  PROVE  Inv'
<1> USE DEF Inv
<1>1. req[m].st = "Push" /\ UNCHANGED <<limitVars, permit, drainer, given, crossed>>
  BY DEF Enqueue
<1>2. CASE Full(To(m)) /\ Reply(m, "Done") /\ UNCHANGED queueVars
  <2>1. given' \in [Msgs -> Nat] /\ permit' \in BOOLEAN
    BY <1>1 DEF TypeOK
  <2> QED
    BY <1>1, <1>2, <2>1, AnswerStep
<1>3. CASE push(m) /\ Reply(m, "Notify")
  <2>1. /\ req' \in [Msgs -> [from : Senders \cup {NoMsg}, to : Targets \cup {NoMsg},
                              st : {"Unsent", "Admitted", "Push", "Notify", "Done"}]]
        /\ \A n \in Msgs : req'[n].st # "Unsent" => req'[n].from \in Senders /\ req'[n].to \in Targets
        /\ \A n \in Msgs : /\ req'[n].from = req[n].from /\ req'[n].to = req[n].to
                           /\ req'[n].st = IF n = m THEN "Notify" ELSE req[n].st
    BY <1>1, <1>3, ReplyUpdate
  <2>2. \A n \in Queued \cup Held : n \in Msgs /\ n # m /\ Pushed(n)
    BY <1>1, QueuedPushed DEF Pushed
  <2>3. To(m) \in Targets
    BY <1>1 DEF TypeOK, To
  <2>4. /\ queue' \in [Targets -> Seq(Msgs)] /\ ttl' \in [Msgs -> 0..TTL]
        /\ Queued' = Queued \cup {m} /\ CountAgrees' /\ total' = total + 1
        /\ \A t \in Targets :
             /\ Entries(queue'[t]) = IF t = To(m) THEN Entries(queue[t]) \cup {m} ELSE Entries(queue[t])
             /\ queue[t] # <<>> => queue'[t] # <<>> /\ Head(queue'[t]) = Head(queue[t])
    BY <1>3, <2>2, <2>3, PushQueue
  <2>5. TypeOK'
    BY <1>1, <2>1, <2>4 DEF TypeOK, limitVars
  <2>6. UNCHANGED Held /\ \A n \in Msgs : To(n)' = To(n) /\ (Pushed(n) => Pushed(n)')
    BY <1>1, <2>1 DEF Held, To, Pushed
  <2>7. QueueInv'
    <3>1. \A t \in Targets : Entries(queue[t]) \subseteq Queued
      BY QueuedFacts
    <3>2. ASSUME NEW t \in Targets, NEW n \in Entries(queue'[t]) PROVE To(n)' = t /\ Pushed(n)'
      <4>1. CASE n = m
        <5>1. t = To(m)
          BY <2>2, <2>4, <3>1, <3>2, <4>1
        <5>2. Pushed(m)'
          BY <2>1 DEF Pushed
        <5> QED
          BY <2>6, <4>1, <5>1, <5>2
      <4>2. CASE n # m
        <5>1. n \in Entries(queue[t])
          BY <2>4, <3>2, <4>2
        <5> QED
          BY <2>2, <2>6, <3>1, <5>1 DEF QueueInv
      <4> QED
        BY <4>1, <4>2
    <3>3. QueueInv' = \A t \in Targets : \A n \in Entries(queue'[t]) : To(n)' = t /\ Pushed(n)'
      BY DEF QueueInv, Entries, To, Pushed
    <3> QED
      BY <3>2, <3>3
  <2>8. HeldInv'
    BY <1>1, <2>2, <2>6 DEF HeldInv
  <2>9. HeldCopyIsHead'
    <3>1. \A n \in Held : To(n) \in Targets
      BY <2>2 DEF Pushed, TypeOK, To
    <3> QED
      BY <1>1, <2>2, <2>4, <2>6, <3>1 DEF HeldCopyIsHead
  <2>10. CrossedInv'
    BY <1>1, <2>2, <2>4, <2>6 DEF CrossedInv
  <2>11. DeliveredOnce' /\ GivenInv'
    BY <1>1, <2>1, <2>4, <2>6 DEF DeliveredOnce, GivenInv, At
  <2>12. RateInv'
    BY <1>1, <2>1, RateFrame
  <2>13. NoLostWakeup'
    BY <2>1 DEF NoLostWakeup
  <2> QED
    BY <2>4, <2>5, <2>7, <2>8, <2>9, <2>10, <2>11, <2>12, <2>13
<1> QED
  BY <1>2, <1>3 DEF Enqueue

(* The pruned windows hold the recent entries. *)
LEMMA RetainFacts ==
  ASSUME NEW w \in Seq(Msgs), NEW lag \in Nat, TypeOK
  PROVE  /\ Retain(w, lag) \in Seq(Msgs) /\ Len(Retain(w, lag)) <= Len(w)
         /\ \A m \in Entries(w) : m \in Msgs /\ age[m] < WINDOW => m \in Entries(Retain(w, lag))
<1> DEFINE S == {m \in Msgs : age[m] < WINDOW + lag}
<1>1. \A m \in Msgs : age[m] < WINDOW => m \in S
  BY MessageAssumption DEF TypeOK
<1>2. /\ Keep(w, S) \in Seq(Msgs) /\ Len(Keep(w, S)) <= Len(w)
      /\ \A m \in Entries(w) : m \in S => m \in Entries(Keep(w, S))
  BY KeepFacts
<1> QED
  BY <1>1, <1>2 DEF Retain

(* Nothing, or one entry, put behind a window. *)
LEMMA ConcatFacts ==
  ASSUME NEW M, NEW w \in Seq(M), NEW x \in M
  PROVE  w \o <<>> = w /\ w \o <<x>> = Append(w, x)
  OBVIOUS

(* A tripped check prunes and keeps what is recent. *)
LEMMA RateLimitedStep ==
  ASSUME Inv, RateLimited
  PROVE  Inv'
<1> USE DEF Inv
<1>1. PICK f \in Senders, t \in Targets, lag \in 0..MaxLag : check_and_record(f, t, <<>>, lag)
  BY DEF RateLimited
<1>2. UNCHANGED <<queueVars, age, req, permit, drainer, given, crossed>>
  BY DEF RateLimited
<1> DEFINE v == pair[<<f, t>>]
           w == outbound[f]
<1>3. v \in Seq(Msgs) /\ w \in Seq(Msgs) /\ <<f, t>> \in Senders \X Targets /\ lag \in Nat
  BY MessageAssumption DEF TypeOK
<1>4. /\ pair' = [pair EXCEPT ![<<f, t>>] = Retain(v, lag)]
      /\ outbound' = [outbound EXCEPT ![f] = Retain(w, lag)]
      /\ Retain(v, lag) \in Seq(Msgs) /\ Retain(w, lag) \in Seq(Msgs)
  <2>1. Retain(v, lag) \in Seq(Msgs) /\ Retain(w, lag) \in Seq(Msgs)
    BY <1>3, RetainFacts
  <2>2. Retain(v, lag) \o <<>> = Retain(v, lag) /\ Retain(w, lag) \o <<>> = Retain(w, lag)
    BY <2>1
  <2> QED
    BY <1>1, <2>1, <2>2 DEF check_and_record
<1>5. TypeOK'
  BY <1>2, <1>3, <1>4 DEF TypeOK, queueVars
<1>6. CountAgrees' /\ QueueInv'
  BY <1>2 DEF CountAgrees, Queued, QueueInv, Entries, To, Pushed, queueVars
<1>7. HeldInv' /\ HeldCopyIsHead' /\ CrossedInv'
  BY <1>2 DEF HeldInv, HeldCopyIsHead, CrossedInv, Held, Queued, To, Pushed, queueVars
<1>8. DeliveredOnce' /\ GivenInv' /\ NoLostWakeup'
  BY <1>2 DEF DeliveredOnce, GivenInv, NoLostWakeup, Held, Queued, At, queueVars
<1>9. RateInv'
  <2>1. /\ Len(Retain(w, lag)) <= OUTBOUND_LIMIT
        /\ \A m \in Msgs : age[m] < WINDOW /\ req[m].from = f => m \in Entries(Retain(w, lag))
    <3>1. Len(w) <= OUTBOUND_LIMIT /\ Len(Retain(w, lag)) <= Len(w)
      BY <1>3, RetainFacts DEF RateInv
    <3>2. Len(w) \in Nat /\ Len(Retain(w, lag)) \in Nat /\ OUTBOUND_LIMIT \in Nat
      BY <1>3, <1>4, MessageAssumption
    <3>3. Len(Retain(w, lag)) <= OUTBOUND_LIMIT
      <4> HIDE DEF w
      <4> QED
        BY <3>1, <3>2
    <3> QED
      BY <1>3, <3>3, RetainFacts DEF RateInv
  <2>2. /\ Len(Retain(v, lag)) <= PAIR_LIMIT
        /\ \A m \in Msgs : age[m] < WINDOW /\ req[m].from = f /\ To(m) = t => m \in Entries(Retain(v, lag))
    <3>1. Len(v) <= PAIR_LIMIT /\ Len(Retain(v, lag)) <= Len(v)
      BY <1>3, RetainFacts DEF RateInv
    <3>2. Len(v) \in Nat /\ Len(Retain(v, lag)) \in Nat /\ PAIR_LIMIT \in Nat
      BY <1>3, <1>4, MessageAssumption
    <3>3. Len(Retain(v, lag)) <= PAIR_LIMIT
      <4> HIDE DEF v
      <4> QED
        BY <3>1, <3>2
    <3> QED
      BY <1>3, <3>3, RetainFacts DEF RateInv
  <2>3. /\ \A g \in Senders : outbound'[g] = IF g = f THEN Retain(w, lag) ELSE outbound[g]
        /\ \A g \in Senders, u \in Targets :
             pair'[<<g, u>>] = IF g = f /\ u = t THEN Retain(v, lag) ELSE pair[<<g, u>>]
    <3> HIDE DEF v, w
    <3> QED
      BY <1>3, <1>4 DEF TypeOK
  <2> HIDE DEF v, w
  <2>4. \A g \in Senders :
          /\ Len(outbound'[g]) <= OUTBOUND_LIMIT
          /\ \A m \in Msgs : age[m] < WINDOW /\ req[m].from = g => m \in Entries(outbound'[g])
    BY <2>1, <2>3 DEF RateInv
  <2>5. \A g \in Senders, u \in Targets :
          /\ Len(pair'[<<g, u>>]) <= PAIR_LIMIT
          /\ \A m \in Msgs :
               age[m] < WINDOW /\ req[m].from = g /\ To(m) = u => m \in Entries(pair'[<<g, u>>])
    BY <2>2, <2>3 DEF RateInv
  <2> QED
    BY <1>2, <2>4, <2>5 DEF RateInv, To, Entries
<1> QED
  BY <1>5, <1>6, <1>7, <1>8, <1>9

(* Time passes: what was recent may cease to be. *)
LEMMA TickStep ==
  ASSUME Inv, Tick
  PROVE  Inv'
<1> USE DEF Inv
<1>1. UNCHANGED <<queue, total, pair, outbound, req, permit, drainer, given, crossed>>
  BY DEF Tick
<1>2. ttl' \in [Msgs -> 0..TTL] /\ age' \in [Msgs -> 0..(WINDOW + MaxLag)]
  <2>1. WINDOW + MaxLag \in Nat /\ TTL \in Nat
    BY MessageAssumption
  <2>2. ttl' \in [Msgs -> 0..TTL]
    BY <2>1 DEF Tick, TypeOK
  <2>3. age' \in [Msgs -> 0..(WINDOW + MaxLag)]
    BY <2>1 DEF Tick, TypeOK
  <2> QED
    BY <2>2, <2>3
<1>3. ASSUME NEW m \in Msgs, age'[m] < WINDOW PROVE age[m] < WINDOW
  <2>1. age[m] \in Int /\ WINDOW \in Int /\ MaxLag \in Nat
    BY MessageAssumption DEF TypeOK
  <2>2. age'[m] = IF age[m] < WINDOW + MaxLag THEN age[m] + 1 ELSE WINDOW + MaxLag
    BY DEF Tick
  <2> QED
    BY <1>3, <2>1, <2>2
<1>4. TypeOK'
  BY <1>1, <1>2 DEF TypeOK
<1>5. CountAgrees' /\ QueueInv'
  BY <1>1 DEF CountAgrees, Queued, QueueInv, Entries, To, Pushed
<1>6. HeldInv' /\ HeldCopyIsHead' /\ CrossedInv'
  BY <1>1 DEF HeldInv, HeldCopyIsHead, CrossedInv, Held, Queued, To, Pushed
<1>7. DeliveredOnce' /\ GivenInv' /\ NoLostWakeup'
  BY <1>1 DEF DeliveredOnce, GivenInv, NoLostWakeup, Held, Queued, At
<1>8. RateInv'
  BY <1>1, <1>3 DEF RateInv, To, Entries
<1> QED
  BY <1>4, <1>5, <1>6, <1>7, <1>8

(* The next message is one that was not sent. *)
LEMMA MinUnsent ==
  ASSUME Unsent # {}
  PROVE  Min(Unsent) \in Unsent
<1>1. Unsent \in SUBSET Nat
  BY MessageAssumption DEF Unsent, Msgs
<1>2. \E x \in Unsent : \A y \in Unsent : x <= y
  BY <1>1, LeastNatural
<1> QED
  BY <1>2 DEF Min

(* A window that has room takes one more entry. *)
LEMMA RecordFacts ==
  ASSUME NEW w \in Seq(Msgs), NEW m \in Msgs, NEW limit \in Nat, NEW lag \in Nat, TypeOK,
         ~(Len(Retain(w, lag)) >= limit)
  PROVE  /\ Retain(w, lag) \o <<m>> \in Seq(Msgs)
         /\ Len(Retain(w, lag) \o <<m>>) <= limit
         /\ \A n \in Entries(w) : n \in Msgs /\ age[n] < WINDOW => n \in Entries(Retain(w, lag) \o <<m>>)
         /\ m \in Entries(Retain(w, lag) \o <<m>>)
<1> DEFINE r == Retain(w, lag)
<1>1. /\ r \in Seq(Msgs)
      /\ \A n \in Entries(w) : n \in Msgs /\ age[n] < WINDOW => n \in Entries(r)
  BY RetainFacts
<1>2. ~(Len(r) >= limit)
  OBVIOUS
<1> HIDE DEF r
<1>3. r \o <<m>> = Append(r, m)
  BY <1>1, ConcatFacts
<1>4. /\ Append(r, m) \in Seq(Msgs) /\ Len(Append(r, m)) = Len(r) + 1
      /\ Entries(Append(r, m)) = Entries(r) \cup {m} /\ Len(r) \in Nat
  BY <1>1, AppendFacts
<1>5. Len(Append(r, m)) <= limit
  BY <1>2, <1>4
<1> QED
  BY <1>1, <1>3, <1>4, <1>5 DEF r

(* A send that passes both gates is recorded in both windows. *)
LEMMA AdmitStep ==
  ASSUME Inv, Admit
  PROVE  Inv'
<1> USE DEF Inv
<1> DEFINE m == Min(Unsent)
<1>1. PICK f \in Senders, t \in Targets, lag \in 0..MaxLag :
        /\ Unsent # {} /\ ~Tripped(f, t, lag) /\ check_and_record(f, t, <<m>>, lag)
        /\ req' = [req EXCEPT ![m] = [from |-> f, to |-> t, st |-> "Admitted"]]
        /\ age' = [age EXCEPT ![m] = lag]
  BY DEF Admit
<1>2. UNCHANGED <<queueVars, permit, drainer, given, crossed>>
  BY DEF Admit
<1>3. m \in Msgs /\ req[m].st = "Unsent"
  BY <1>1, MinUnsent DEF Unsent
<1> HIDE DEF m
<1> DEFINE v == pair[<<f, t>>]
           w == outbound[f]
<1>4. v \in Seq(Msgs) /\ w \in Seq(Msgs) /\ <<f, t>> \in Senders \X Targets /\ lag \in Nat
  BY MessageAssumption DEF TypeOK
<1>5. /\ Retain(w, lag) \o <<m>> \in Seq(Msgs)
      /\ Len(Retain(w, lag) \o <<m>>) <= OUTBOUND_LIMIT
      /\ \A n \in Entries(w) : n \in Msgs /\ age[n] < WINDOW => n \in Entries(Retain(w, lag) \o <<m>>)
      /\ m \in Entries(Retain(w, lag) \o <<m>>)
  BY <1>1, <1>3, <1>4, RecordFacts, MessageAssumption DEF Tripped
<1>6. /\ Retain(v, lag) \o <<m>> \in Seq(Msgs)
      /\ Len(Retain(v, lag) \o <<m>>) <= PAIR_LIMIT
      /\ \A n \in Entries(v) : n \in Msgs /\ age[n] < WINDOW => n \in Entries(Retain(v, lag) \o <<m>>)
      /\ m \in Entries(Retain(v, lag) \o <<m>>)
  BY <1>1, <1>3, <1>4, RecordFacts, MessageAssumption DEF Tripped
<1> DEFINE v2 == Retain(v, lag) \o <<m>>
           w2 == Retain(w, lag) \o <<m>>
<1>7. pair' = [pair EXCEPT ![<<f, t>>] = v2] /\ outbound' = [outbound EXCEPT ![f] = w2]
  BY <1>1 DEF check_and_record
<1> HIDE DEF v2, w2
<1>8. /\ pair' \in [Senders \X Targets -> Seq(Msgs)] /\ outbound' \in [Senders -> Seq(Msgs)]
      /\ \A g \in Senders : outbound'[g] = IF g = f THEN w2 ELSE outbound[g]
      /\ \A g \in Senders, u \in Targets :
           pair'[<<g, u>>] = IF g = f /\ u = t THEN v2 ELSE pair[<<g, u>>]
  <2>1. v2 \in Seq(Msgs) /\ w2 \in Seq(Msgs)
    BY <1>5, <1>6 DEF v2, w2
  <2> QED
    BY <1>4, <1>7, <2>1 DEF TypeOK
<1>9. /\ age' \in [Msgs -> 0..(WINDOW + MaxLag)]
      /\ \A n \in Msgs : age'[n] = IF n = m THEN lag ELSE age[n]
  BY <1>1, <1>3, MessageAssumption DEF TypeOK
<1>10. /\ req' \in [Msgs -> [from : Senders \cup {NoMsg}, to : Targets \cup {NoMsg},
                             st : {"Unsent", "Admitted", "Push", "Notify", "Done"}]]
       /\ \A n \in Msgs : req'[n].st # "Unsent" => req'[n].from \in Senders /\ req'[n].to \in Targets
       /\ req'[m].from = f /\ req'[m].to = t /\ req'[m].st = "Admitted"
       /\ \A n \in Msgs : n # m => req'[n] = req[n]
  BY <1>1, <1>3 DEF TypeOK
<1>11. TypeOK'
  BY <1>2, <1>8, <1>9, <1>10 DEF TypeOK, queueVars
<1>12. UNCHANGED <<Queued, Held>> /\ UNCHANGED <<queue, total>>
  BY <1>2 DEF Queued, Held, queueVars
<1>13. \A n \in Queued \cup Held : n \in Msgs /\ To(n)' = To(n) /\ Pushed(n)'
  <2>1. \A n \in Queued \cup Held : n \in Msgs /\ n # m /\ Pushed(n)
    BY <1>3, QueuedPushed DEF Pushed
  <2> QED
    BY <1>10, <2>1 DEF To, Pushed
<1>14. CountAgrees'
  BY <1>12 DEF CountAgrees
<1>15. QueueInv'
  BY <1>12, <1>13, QueuedFacts DEF QueueInv, Entries
<1>16. HeldInv' /\ HeldCopyIsHead' /\ CrossedInv'
  BY <1>2, <1>12, <1>13 DEF HeldInv, HeldCopyIsHead, CrossedInv
<1>17. DeliveredOnce' /\ GivenInv'
  BY <1>2, <1>3, <1>10, <1>12 DEF DeliveredOnce, GivenInv, At
<1>18. NoLostWakeup'
  BY <1>2, <1>3, <1>10, <1>12 DEF NoLostWakeup, At
<1>19. RateInv'
  <2>1. ASSUME NEW g \in Senders
        PROVE  /\ Len(outbound'[g]) <= OUTBOUND_LIMIT
               /\ \A n \in Msgs : age'[n] < WINDOW /\ req'[n].from = g => n \in Entries(outbound'[g])
    <3>1. CASE g = f
      BY <1>5, <1>8, <1>9, <1>10, <3>1 DEF RateInv, w2
    <3>2. CASE g # f
      BY <1>8, <1>9, <1>10, <3>2 DEF RateInv
    <3> QED
      BY <3>1, <3>2
  <2>2. ASSUME NEW g \in Senders, NEW u \in Targets
        PROVE  /\ Len(pair'[<<g, u>>]) <= PAIR_LIMIT
               /\ \A n \in Msgs : age'[n] < WINDOW /\ req'[n].from = g /\ req'[n].to = u
                                    => n \in Entries(pair'[<<g, u>>])
    <3>1. CASE g = f /\ u = t
      <4>1. pair'[<<g, u>>] = v2
        BY <1>8, <3>1
      <4>2. \A n \in Msgs : age[n] < WINDOW /\ req[n].from = f /\ req[n].to = t => n \in Entries(v)
        BY DEF RateInv, To
      <4>3. /\ Len(v2) <= PAIR_LIMIT /\ m \in Entries(v2)
            /\ \A n \in Entries(v) : n \in Msgs /\ age[n] < WINDOW => n \in Entries(v2)
        BY <1>6 DEF v2
      <4> HIDE DEF v
      <4> QED
        BY <1>9, <1>10, <3>1, <4>1, <4>2, <4>3
    <3>2. CASE ~(g = f /\ u = t)
      BY <1>8, <1>9, <1>10, <3>2 DEF RateInv, To
    <3> QED
      BY <3>1, <3>2
  <2> QED
    BY <2>1, <2>2 DEF RateInv, To, Entries
<1> QED
  BY <1>11, <1>14, <1>15, <1>16, <1>17, <1>18, <1>19
-----------------------------------------------------------------------------
(* The drainer.                                                            *)

(* A step of the drainer that moves it and perhaps lays the current copy   *)
(* down, with the queue, the requests and the deliveries as they are.      *)
LEMMA DrainerMoves ==
  ASSUME Inv, UNCHANGED <<queueVars, limitVars, req, given>>,
         permit' \in BOOLEAN, crossed' \subseteq Targets,
         drainer' \in [pc : {"Check", "Park", "Wait", "Expire", "Copy", "Items", "Deliver", "Disabled", "Remove"},
                       todo : SUBSET Msgs, cur : Msgs \cup {NoMsg}],
         HeldInv', HeldCopyIsHead', CrossedInv', NoLostWakeup',
         \A m \in Held' : given[m] = 0 \/ (At("Remove")' /\ drainer'.cur = m),
         At("Remove") => drainer'.pc = "Remove" /\ drainer'.cur = drainer.cur
  PROVE  Inv'
<1> USE DEF Inv
<1>1. UNCHANGED <<queue, total, ttl>> /\ UNCHANGED Queued
  BY DEF queueVars, Queued
<1>2. TypeOK'
  BY <1>1 DEF TypeOK, limitVars
<1>3. CountAgrees' /\ QueueInv'
  BY <1>1 DEF CountAgrees, QueueInv, Entries, To, Pushed
<1>4. DeliveredOnce' /\ GivenInv'
  BY <1>1 DEF DeliveredOnce, GivenInv, At
<1>5. RateInv'
  BY RateFrame
<1> QED
  BY <1>2, <1>3, <1>4, <1>5

(* The drainer moves without a copy in its hands. *)
LEMMA IdleMoves ==
  ASSUME Inv, UNCHANGED <<queueVars, limitVars, req, given, crossed>>, permit' \in BOOLEAN,
         drainer.pc \in {"Check", "Park", "Wait"} \/ (At("Items") /\ drainer.todo = {}),
         NEW pc \in {"Check", "Park", "Wait", "Expire", "Copy"}, GoTo(pc),
         pc \in {"Park", "Wait"} => \/ total = 0
                                    \/ drainer.pc \in {"Park", "Wait"} /\ permit' = permit
  PROVE  Inv'
<1> USE DEF Inv
<1>1. /\ drainer' \in [pc : {"Check", "Park", "Wait", "Expire", "Copy", "Items", "Deliver", "Disabled", "Remove"},
                       todo : SUBSET Msgs, cur : Msgs \cup {NoMsg}]
      /\ drainer'.pc = pc /\ drainer'.todo = {} /\ drainer'.cur = NoMsg
  BY DEF GoTo, TypeOK, HeldInv, At
<1>2. Held' = {}
  BY <1>1 DEF Held
<1>3. HeldInv' /\ HeldCopyIsHead' /\ CrossedInv'
  BY <1>1, <1>2 DEF HeldInv, HeldCopyIsHead, CrossedInv
<1>4. NoLostWakeup'
  BY <1>1 DEF NoLostWakeup, At, queueVars
<1>5. crossed' \subseteq Targets
  BY DEF TypeOK
<1> QED
  BY <1>1, <1>2, <1>3, <1>4, <1>5, DrainerMoves DEF At

(* The drainer only goes to wait when it saw the queue empty. *)
LEMMA IsEmptyStep ==
  ASSUME Inv, IsEmpty
  PROVE  Inv'
<1>1. permit' \in BOOLEAN
  BY DEF IsEmpty, Inv, TypeOK
<1> QED
  BY <1>1, IdleMoves DEF IsEmpty, At

(* It begins to wait after it looked: a wakeup in between is stored. *)
LEMMA ParkStep ==
  ASSUME Inv, Park
  PROVE  Inv'
<1>1. permit' \in BOOLEAN
  BY DEF Park, Inv, TypeOK
<1> QED
  BY <1>1, IdleMoves DEF Park, At

(* It wakes and looks again. *)
LEMMA NotifiedStep ==
  ASSUME Inv, Notified
  PROVE  Inv'
  BY IdleMoves DEF Notified, At

(* A round ends when every copy was tried. *)
LEMMA SleepStep ==
  ASSUME Inv, Sleep
  PROVE  Inv'
<1>1. permit' \in BOOLEAN
  BY DEF Sleep, Inv, TypeOK
<1> QED
  BY <1>1, IdleMoves DEF Sleep

(* Expiry comes before the copies are made. *)
LEMMA ExpireStep ==
  ASSUME Inv, Expire
  PROVE  Inv'
<1> USE DEF Inv
<1>1. /\ drop_expired /\ drainer.pc = "Expire" /\ UNCHANGED <<limitVars, req, permit, given, crossed>>
      /\ drainer' \in [pc : {"Check", "Park", "Wait", "Expire", "Copy", "Items", "Deliver", "Disabled", "Remove"},
                       todo : SUBSET Msgs, cur : Msgs \cup {NoMsg}]
      /\ drainer'.pc = "Copy" /\ drainer'.todo = {} /\ drainer'.cur = NoMsg
  BY DEF Expire, At, GoTo, TypeOK, HeldInv
<1>2. /\ queue' \in [Targets -> Seq(Msgs)] /\ UNCHANGED ttl
      /\ CountAgrees'
      /\ Queued' \subseteq Queued
      /\ \A t \in Targets : Entries(queue'[t]) \subseteq Entries(queue[t])
  BY <1>1, ExpireQueue
<1>3. TypeOK'
  BY <1>1, <1>2 DEF TypeOK, limitVars
<1>4. Held' = {}
  BY <1>1 DEF Held
<1>5. QueueInv'
  BY <1>1, <1>2 DEF QueueInv, Entries, To, Pushed
<1>6. HeldInv' /\ HeldCopyIsHead' /\ CrossedInv'
  BY <1>1, <1>4 DEF HeldInv, HeldCopyIsHead, CrossedInv
<1>7. DeliveredOnce' /\ GivenInv'
  BY <1>1, <1>2, <1>4 DEF DeliveredOnce, GivenInv, At
<1>8. RateInv'
  BY <1>1, RateFrame
<1>9. NoLostWakeup'
  BY <1>1 DEF NoLostWakeup, At
<1> QED
  BY <1>2, <1>3, <1>5, <1>6, <1>7, <1>8, <1>9

(* `NoMsg` is no message. *)
LEMMA NoMsgIsNone == NoMsg \notin Msgs
  BY DEF NoMsg, Msgs

(* The heads of the queues: one for a target. *)
LEMMA HeadFacts ==
  ASSUME TypeOK, QueueInv
  PROVE  /\ \A t \in Targets : queue[t] # <<>> =>
              /\ Head(queue[t]) \in Entries(queue[t]) /\ Head(queue[t]) \in Queued /\ Head(queue[t]) \in Msgs
              /\ To(Head(queue[t])) = t /\ Pushed(Head(queue[t]))
         /\ \A m \in snapshot_heads :
              /\ m \in Queued /\ m \in Msgs /\ Pushed(m) /\ To(m) \in Targets
              /\ queue[To(m)] # <<>> /\ Head(queue[To(m)]) = m
<1>1. ASSUME NEW t \in Targets, queue[t] # <<>>
      PROVE  /\ Head(queue[t]) \in Entries(queue[t]) /\ Head(queue[t]) \in Queued /\ Head(queue[t]) \in Msgs
             /\ To(Head(queue[t])) = t /\ Pushed(Head(queue[t]))
  <2> DEFINE w == queue[t]
  <2>1. w \in Seq(Msgs) /\ w # <<>>
    BY <1>1 DEF TypeOK
  <2>2. Head(w) = w[1] /\ 1 \in DOMAIN w
    <3> HIDE DEF w
    <3> QED
      BY <2>1
  <2>3. Head(w) \in Entries(w)
    BY <2>2 DEF Entries
  <2> QED
    BY <2>3, QueuedFacts DEF QueueInv
<1> QED
  BY <1>1 DEF snapshot_heads

(* The copies are the heads, and nothing was cleared since. *)
LEMMA CopyStep ==
  ASSUME Inv, Copy
  PROVE  Inv'
<1> USE DEF Inv
<1>1. /\ drainer.pc = "Copy" /\ crossed' = {} /\ UNCHANGED <<queueVars, limitVars, req, permit, given>>
      /\ drainer' \in [pc : {"Check", "Park", "Wait", "Expire", "Copy", "Items", "Deliver", "Disabled", "Remove"},
                       todo : SUBSET Msgs, cur : Msgs \cup {NoMsg}]
      /\ drainer'.pc = "Items" /\ drainer'.todo = snapshot_heads /\ drainer'.cur = NoMsg
  <2>1. snapshot_heads \subseteq Msgs
    BY HeadFacts
  <2> QED
    BY <2>1 DEF Copy, At, TypeOK, HeldInv
<1>2. Held' = snapshot_heads
  BY <1>1 DEF Held
<1>3. UNCHANGED <<queue, total>> /\ UNCHANGED Queued /\ \A m : To(m)' = To(m) /\ (Pushed(m)' <=> Pushed(m))
  BY <1>1 DEF queueVars, Queued, To, Pushed
<1>4. HeldInv'
  <2>1. \A m, n \in snapshot_heads : To(m) = To(n) => m = n
    BY HeadFacts
  <2> QED
    BY <1>1, <1>2, <1>3, <2>1, HeadFacts, NoMsgIsNone DEF HeldInv
<1>5. HeldCopyIsHead' /\ CrossedInv'
  BY <1>1, <1>2, <1>3, HeadFacts DEF HeldCopyIsHead, CrossedInv
<1>6. NoLostWakeup' /\ permit' \in BOOLEAN /\ crossed' \subseteq Targets
  BY <1>1 DEF NoLostWakeup, At, TypeOK
<1>7. \A m \in Held' : given[m] = 0
  BY <1>1, <1>2, HeadFacts DEF GivenInv, At
<1> QED
  BY <1>1, <1>4, <1>5, <1>6, <1>7, DrainerMoves DEF At

(* One of the copies becomes the current one. *)
LEMMA NextItemStep ==
  ASSUME Inv, NextItem
  PROVE  Inv'
<1> USE DEF Inv
<1>1. PICK m \in drainer.todo, enabled \in BOOLEAN :
        drainer' = [pc |-> IF enabled THEN "Deliver" ELSE "Disabled",
                    todo |-> drainer.todo \ {m}, cur |-> m]
  BY DEF NextItem
<1>2. /\ drainer.pc = "Items" /\ drainer.cur = NoMsg /\ m \in Msgs /\ m # NoMsg
      /\ UNCHANGED <<queueVars, limitVars, req, permit, given, crossed>>
  BY NoMsgIsNone DEF NextItem, At, HeldInv, TypeOK
<1>3. /\ drainer' \in [pc : {"Check", "Park", "Wait", "Expire", "Copy", "Items", "Deliver", "Disabled", "Remove"},
                       todo : SUBSET Msgs, cur : Msgs \cup {NoMsg}]
      /\ drainer'.pc \in {"Deliver", "Disabled"} /\ drainer'.todo = drainer.todo \ {m} /\ drainer'.cur = m
  BY <1>1, <1>2 DEF TypeOK
<1>4. Held' = Held
  BY <1>2, <1>3 DEF Held
<1>5. UNCHANGED <<queue, total>> /\ UNCHANGED Queued /\ \A n : To(n)' = To(n) /\ (Pushed(n)' <=> Pushed(n))
  BY <1>2 DEF queueVars, Queued, To, Pushed
<1>6. HeldInv'
  BY <1>2, <1>3, <1>4, <1>5 DEF HeldInv
<1>7. HeldCopyIsHead' /\ CrossedInv'
  BY <1>2, <1>4, <1>5 DEF HeldCopyIsHead, CrossedInv
<1>8. NoLostWakeup' /\ permit' \in BOOLEAN /\ crossed' \subseteq Targets
  BY <1>2, <1>3 DEF NoLostWakeup, At, TypeOK
<1>9. \A n \in Held' : given[n] = 0
  BY <1>2, <1>4 DEF GivenInv, At
<1> QED
  BY <1>2, <1>3, <1>6, <1>7, <1>8, <1>9, DrainerMoves DEF At

(* What laying the current copy down leaves in the drainer's hands. *)
LEMMA DoneWithFacts ==
  ASSUME TypeOK, HeldInv, drainer.pc \in {"Deliver", "Disabled", "Remove"}, DoneWith("Items")
  PROVE  /\ drainer' \in [pc : {"Check", "Park", "Wait", "Expire", "Copy", "Items", "Deliver", "Disabled", "Remove"},
                          todo : SUBSET Msgs, cur : Msgs \cup {NoMsg}]
         /\ drainer'.pc = "Items" /\ drainer'.todo = drainer.todo /\ drainer'.cur = NoMsg
         /\ Held' = Held \ {drainer.cur} /\ drainer.cur \in Held /\ drainer.cur \in Msgs
         /\ Pushed(drainer.cur) /\ To(drainer.cur) \in Targets
         /\ \A m \in Held' : m \in Msgs /\ Pushed(m) /\ To(m) \in Targets /\ To(m) # To(drainer.cur)
<1>1. /\ drainer' \in [pc : {"Check", "Park", "Wait", "Expire", "Copy", "Items", "Deliver", "Disabled", "Remove"},
                       todo : SUBSET Msgs, cur : Msgs \cup {NoMsg}]
      /\ drainer'.pc = "Items" /\ drainer'.todo = drainer.todo /\ drainer'.cur = NoMsg
  BY DEF DoneWith, TypeOK
<1>2. drainer.cur \in Msgs /\ drainer.cur # NoMsg /\ drainer.cur \notin drainer.todo
  BY DEF TypeOK, HeldInv
<1>3. drainer.cur \in Held /\ Held' = Held \ {drainer.cur}
  BY <1>1, <1>2 DEF Held
<1>4. \A m \in Held : m \in Msgs /\ Pushed(m) /\ To(m) \in Targets
  BY DEF Held, HeldInv, TypeOK, Pushed, To
<1> QED
  BY <1>1, <1>2, <1>3, <1>4 DEF HeldInv

(* A delivery from a copy: it is the first one of this message. *)
LEMMA DeliverStep ==
  ASSUME Inv, Deliver
  PROVE  Inv'
<1> USE DEF Inv
<1> DEFINE c == drainer.cur
<1>1. PICK outcome \in Outcomes :
        Give(c, outcome) /\ IF outcome = "Transient" THEN DoneWith("Items") ELSE GoTo("Remove")
  BY DEF Deliver
<1>2. drainer.pc = "Deliver" /\ UNCHANGED <<queueVars, limitVars, req, permit, crossed>>
  BY DEF Deliver, At
<1>3. UNCHANGED <<queue, total>> /\ UNCHANGED Queued /\ \A n : To(n)' = To(n) /\ (Pushed(n)' <=> Pushed(n))
  BY <1>2 DEF queueVars, Queued, To, Pushed
<1>4. c \in Held /\ c \in Msgs /\ given[c] = 0 /\ \A n \in Queued \cup Held : given[n] = 0
  BY <1>2 DEF Held, HeldInv, TypeOK, GivenInv, At
<1>5. /\ given' \in [Msgs -> Nat] /\ given'[c] <= 1
      /\ \A n \in Msgs : n # c => given'[n] = given[n]
      /\ outcome # "Delivered" => given'[c] = given[c]
  BY <1>1, <1>4, GiveFacts
<1>6. CASE outcome = "Transient"
  <2>1. given' = given
    BY <1>1, <1>6 DEF Give, TypeOK
  <2>2. /\ drainer' \in [pc : {"Check", "Park", "Wait", "Expire", "Copy", "Items", "Deliver", "Disabled", "Remove"},
                         todo : SUBSET Msgs, cur : Msgs \cup {NoMsg}]
        /\ drainer'.pc = "Items" /\ drainer'.todo = drainer.todo /\ drainer'.cur = NoMsg
        /\ Held' = Held \ {c}
    BY <1>1, <1>2, <1>6, DoneWithFacts
  <2>3. HeldInv'
    BY <1>3, <2>2, NoMsgIsNone DEF HeldInv, TypeOK
  <2>4. HeldCopyIsHead' /\ CrossedInv'
    BY <1>2, <1>3, <2>2 DEF HeldCopyIsHead, CrossedInv
  <2>5. NoLostWakeup' /\ permit' \in BOOLEAN /\ crossed' \subseteq Targets
    BY <1>2, <2>2 DEF NoLostWakeup, At, TypeOK
  <2> QED
    BY <1>2, <1>4, <2>1, <2>2, <2>3, <2>4, <2>5, DrainerMoves DEF At
<1>7. CASE outcome # "Transient"
  <2>1. /\ drainer' \in [pc : {"Check", "Park", "Wait", "Expire", "Copy", "Items", "Deliver", "Disabled", "Remove"},
                         todo : SUBSET Msgs, cur : Msgs \cup {NoMsg}]
        /\ drainer'.pc = "Remove" /\ drainer'.todo = drainer.todo /\ drainer'.cur = c
    BY <1>1, <1>7 DEF GoTo, TypeOK
  <2>2. Held' = Held
    BY <2>1 DEF Held
  <2>3. TypeOK'
    BY <1>2, <1>5, <2>1 DEF TypeOK, queueVars, limitVars
  <2>4. CountAgrees' /\ QueueInv'
    BY <1>3 DEF CountAgrees, QueueInv, Entries
  <2>5. HeldInv'
    BY <1>2, <1>3, <2>1, <2>2 DEF HeldInv
  <2>6. HeldCopyIsHead' /\ CrossedInv'
    BY <1>2, <1>3, <2>2 DEF HeldCopyIsHead, CrossedInv
  <2>7. DeliveredOnce' /\ GivenInv'
    <3>1. DeliveredOnce'
      BY <1>5 DEF DeliveredOnce
    <3>2. \A n \in Msgs : req'[n].st \in {"Unsent", "Admitted", "Push"} => given'[n] = 0
      <4>1. Pushed(c)
        BY <1>4 DEF HeldInv
      <4> QED
        BY <1>2, <1>5, <4>1 DEF GivenInv, Pushed
    <3>3. \A n \in Queued \cup Held : given'[n] = 0 \/ n = c
      <4>1. Queued \cup Held \subseteq Msgs
        BY QueuedPushed
      <4> QED
        BY <1>4, <1>5, <4>1
    <3> QED
      BY <1>3, <2>1, <2>2, <3>1, <3>2, <3>3 DEF GivenInv, At
  <2>8. RateInv'
    BY <1>2, RateFrame
  <2>9. NoLostWakeup'
    BY <2>1 DEF NoLostWakeup, At
  <2> QED
    BY <2>3, <2>4, <2>5, <2>6, <2>7, <2>8, <2>9
<1> QED
  BY <1>6, <1>7

(* A step that only takes messages out of the queue, and perhaps lays the  *)
(* current copy down.                                                      *)
LEMMA QueueShrinks ==
  ASSUME Inv, UNCHANGED <<limitVars, req, permit, given, ttl>>,
         queue' \in [Targets -> Seq(Msgs)], CountAgrees', crossed' \subseteq Targets,
         \A t \in Targets : Entries(queue'[t]) \subseteq Entries(queue[t]),
         drainer' \in [pc : {"Check", "Park", "Wait", "Expire", "Copy", "Items", "Deliver", "Disabled", "Remove"},
                       todo : SUBSET Msgs, cur : Msgs \cup {NoMsg}],
         HeldInv', HeldCopyIsHead', CrossedInv', NoLostWakeup',
         \A m \in Queued' \cup Held' : given[m] = 0 \/ (At("Remove")' /\ drainer'.cur = m)
  PROVE  Inv'
<1> USE DEF Inv
<1>1. TypeOK'
  BY DEF TypeOK, limitVars
<1>2. QueueInv'
  BY DEF QueueInv, Entries, To, Pushed
<1>3. DeliveredOnce' /\ GivenInv'
  BY DEF DeliveredOnce, GivenInv, At
<1>4. RateInv'
  BY RateFrame
<1> QED
  BY <1>1, <1>2, <1>3, <1>4

(* The queue of a target that is not the one of the current copy keeps its *)
(* head, so that the other copies stay good.                               *)
LEMMA OtherCopies ==
  ASSUME Inv, drainer.pc \in {"Disabled", "Remove"}, DoneWith("Items"), UNCHANGED req,
         crossed \subseteq crossed', crossed' \subseteq crossed \cup {To(drainer.cur)},
         Queued' \subseteq Queued,
         \A t \in Targets : t # To(drainer.cur) => queue'[t] = queue[t]
  PROVE  HeldInv' /\ HeldCopyIsHead' /\ CrossedInv' /\ NoLostWakeup'
<1> USE DEF Inv
<1> DEFINE c == drainer.cur
<1>1. /\ drainer'.pc = "Items" /\ drainer'.todo = drainer.todo /\ drainer'.cur = NoMsg
      /\ Held' = Held \ {c}
      /\ \A m \in Held' : m \in Msgs /\ Pushed(m) /\ To(m) \in Targets /\ To(m) # To(c)
  BY DoneWithFacts
<1>2. \A n : To(n)' = To(n) /\ (Pushed(n)' <=> Pushed(n))
  BY DEF To, Pushed
<1> HIDE DEF c
<1>3. HeldInv'
  BY <1>1, <1>2, NoMsgIsNone DEF HeldInv, TypeOK
<1>4. HeldCopyIsHead'
  BY <1>1, <1>2 DEF HeldCopyIsHead, c
<1>5. CrossedInv'
  BY <1>1, <1>2 DEF CrossedInv, c
<1>6. NoLostWakeup'
  BY <1>1 DEF NoLostWakeup, At
<1> QED
  BY <1>3, <1>4, <1>5, <1>6

(* The message that was tried leaves the queue, unless it was cleared in   *)
(* the meantime; then whatever is first now goes, but the message is not   *)
(* queued in any case.                                                     *)
LEMMA RemoveStep ==
  ASSUME Inv, Remove
  PROVE  Inv'
<1> USE DEF Inv
<1> DEFINE c == drainer.cur
           u == To(c)
<1>1. /\ drainer.pc = "Remove" /\ remove_head(u) /\ DoneWith("Items")
      /\ UNCHANGED <<limitVars, req, permit, given, crossed>>
  BY DEF Remove, At
<1>2. /\ drainer' \in [pc : {"Check", "Park", "Wait", "Expire", "Copy", "Items", "Deliver", "Disabled", "Remove"},
                       todo : SUBSET Msgs, cur : Msgs \cup {NoMsg}]
      /\ Held' = Held \ {c} /\ c \in Held /\ u \in Targets
  BY <1>1, DoneWithFacts
<1>3. /\ queue' \in [Targets -> Seq(Msgs)] /\ UNCHANGED ttl /\ CountAgrees'
      /\ Queued' = IF queue[u] = <<>> THEN Queued ELSE Queued \ {Head(queue[u])}
      /\ \A t \in Targets : /\ Entries(queue'[t]) \subseteq Entries(queue[t])
                            /\ t # u => queue'[t] = queue[t]
  BY <1>1, <1>2, RemoveQueue
<1>4. c \notin Queued'
  <2>1. CASE u \in crossed
    BY <1>2, <1>3, <2>1 DEF CrossedInv
  <2>2. CASE u \notin crossed
    BY <1>2, <1>3, <2>2 DEF HeldCopyIsHead
  <2> QED
    BY <2>1, <2>2
<1>5. Queued' \subseteq Queued
  BY <1>3
<1>6. HeldInv' /\ HeldCopyIsHead' /\ CrossedInv' /\ NoLostWakeup'
  BY <1>1, <1>3, <1>5, OtherCopies
<1>7. \A m \in Queued' \cup Held' : given[m] = 0
  BY <1>2, <1>4, <1>5 DEF GivenInv
<1>8. crossed' \subseteq Targets
  BY <1>1 DEF TypeOK
<1> QED
  BY <1>1, <1>2, <1>3, <1>6, <1>7, <1>8, QueueShrinks

(* What a cleared queue means for the drainer. *)
LEMMA ClearFacts ==
  ASSUME TypeOK, CountAgrees, QueueInv, NEW u \in Targets, clear_for(u)
  PROVE  /\ queue' \in [Targets -> Seq(Msgs)] /\ UNCHANGED ttl /\ CountAgrees'
         /\ Queued' \subseteq Queued
         /\ \A m \in Queued : To(m) = u => m \notin Queued'
         /\ \A t \in Targets : /\ Entries(queue'[t]) \subseteq Entries(queue[t])
                               /\ t # u => queue'[t] = queue[t]
         /\ crossed \subseteq crossed' /\ crossed' \subseteq crossed \cup {u}
         /\ crossed' \subseteq Targets
         /\ \A m \in Held : To(m) = u => u \in crossed'
         /\ total' > 0 => total > 0
<1>1. /\ queue' \in [Targets -> Seq(Msgs)] /\ UNCHANGED ttl
      /\ CountAgrees' /\ total' <= total /\ total \in Nat
      /\ Queued' = Queued \ Entries(queue[u])
      /\ \A t \in Targets : queue'[t] = IF t = u THEN <<>> ELSE queue[t]
  BY ClearQueue
<1>2. \A m \in Queued : To(m) = u => m \in Entries(queue[u])
  BY QueuedFacts DEF QueueInv
<1>3. \A t \in Targets : Entries(queue'[t]) \subseteq Entries(queue[t])
  <2>1. Entries(<<>>) = {}
    BY DEF Entries
  <2> QED
    BY <1>1, <2>1
<1>4. crossed' = crossed \cup {t \in {u} : \E m \in Held : To(m) = u}
  BY DEF clear_for
<1>5. total' > 0 => total > 0
  <2>1. total' = total - Len(queue[u]) /\ Len(queue[u]) \in Nat
    BY DEF clear_for, TypeOK
  <2> QED
    BY <1>1, <2>1
<1> QED
  BY <1>1, <1>2, <1>3, <1>4, <1>5 DEF TypeOK

(* The drainer clears the target of a user who switched the feature off. *)
LEMMA ClearDisabledStep ==
  ASSUME Inv, ClearDisabled
  PROVE  Inv'
<1> USE DEF Inv
<1> DEFINE c == drainer.cur
           u == To(c)
<1>1. /\ drainer.pc = "Disabled" /\ clear_for(u) /\ DoneWith("Items")
      /\ UNCHANGED <<limitVars, req, permit, given>>
  BY DEF ClearDisabled, At
<1>2. /\ drainer' \in [pc : {"Check", "Park", "Wait", "Expire", "Copy", "Items", "Deliver", "Disabled", "Remove"},
                       todo : SUBSET Msgs, cur : Msgs \cup {NoMsg}]
      /\ Held' = Held \ {c} /\ c \in Held /\ u \in Targets
  BY <1>1, DoneWithFacts
<1>3. /\ queue' \in [Targets -> Seq(Msgs)] /\ UNCHANGED ttl /\ CountAgrees'
      /\ Queued' \subseteq Queued
      /\ \A t \in Targets : /\ Entries(queue'[t]) \subseteq Entries(queue[t])
                            /\ t # u => queue'[t] = queue[t]
      /\ crossed \subseteq crossed' /\ crossed' \subseteq crossed \cup {u}
      /\ crossed' \subseteq Targets
  BY <1>1, <1>2, ClearFacts
<1>4. HeldInv' /\ HeldCopyIsHead' /\ CrossedInv' /\ NoLostWakeup'
  BY <1>1, <1>3, OtherCopies
<1>5. \A m \in Queued' \cup Held' : given[m] = 0
  BY <1>1, <1>2, <1>3 DEF GivenInv, At
<1> QED
  BY <1>1, <1>2, <1>3, <1>4, <1>5, QueueShrinks

(* A step that changes none of the variables. *)
LEMMA StutterStep ==
  ASSUME Inv, UNCHANGED vars
  PROVE  Inv'
<1> USE DEF Inv
<1>1. UNCHANGED <<queue, total, ttl, pair, outbound, age, req, permit, drainer, given, crossed>>
  BY DEF vars, queueVars, limitVars
<1>2. TypeOK'
  BY <1>1 DEF TypeOK
<1>3. CountAgrees' /\ QueueInv'
  BY <1>1 DEF CountAgrees, Queued, QueueInv, Entries, To, Pushed
<1>4. HeldInv' /\ HeldCopyIsHead' /\ CrossedInv'
  BY <1>1 DEF HeldInv, HeldCopyIsHead, CrossedInv, Held, Queued, To, Pushed
<1>5. DeliveredOnce' /\ GivenInv' /\ NoLostWakeup'
  BY <1>1 DEF DeliveredOnce, GivenInv, NoLostWakeup, Held, Queued, At
<1>6. RateInv'
  BY <1>1, RateFrame DEF limitVars
<1> QED
  BY <1>2, <1>3, <1>4, <1>5, <1>6

(* The hook may clear a target at any point of the drainer's round. *)
LEMMA HookStep ==
  ASSUME Inv, NEW u \in Targets, NEW cause \in Causes, on_turn_cancelled(u, cause)
  PROVE  Inv'
<1> USE DEF Inv
<1>1. UNCHANGED <<limitVars, req, permit, drainer, given>>
  BY DEF on_turn_cancelled
<1>2. CASE cause = "UserRequested"
  <2>1. clear_for(u)
    BY <1>2 DEF on_turn_cancelled
  <2>2. /\ queue' \in [Targets -> Seq(Msgs)] /\ UNCHANGED ttl /\ CountAgrees'
        /\ Queued' \subseteq Queued
        /\ \A m \in Queued : To(m) = u => m \notin Queued'
        /\ \A t \in Targets : /\ Entries(queue'[t]) \subseteq Entries(queue[t])
                              /\ t # u => queue'[t] = queue[t]
        /\ crossed \subseteq crossed' /\ crossed' \subseteq crossed \cup {u}
        /\ crossed' \subseteq Targets
        /\ \A m \in Held : To(m) = u => u \in crossed'
        /\ total' > 0 => total > 0
    BY <2>1, ClearFacts
  <2>3. /\ Held' = Held /\ \A n : To(n)' = To(n) /\ (Pushed(n)' <=> Pushed(n))
        /\ \A m \in Held : m \in Msgs /\ Pushed(m) /\ To(m) \in Targets
    BY <1>1 DEF Held, To, Pushed, HeldInv, TypeOK
  <2>4. HeldInv'
    BY <1>1, <2>3 DEF HeldInv
  <2>5. HeldCopyIsHead'
    BY <2>2, <2>3 DEF HeldCopyIsHead
  <2>6. CrossedInv'
    BY <2>2, <2>3 DEF CrossedInv
  <2>7. NoLostWakeup'
    BY <1>1, <2>2 DEF NoLostWakeup, At
  <2>8. \A m \in Queued' \cup Held' : given[m] = 0 \/ (At("Remove")' /\ drainer'.cur = m)
    BY <1>1, <2>2, <2>3 DEF GivenInv, At
  <2>9. drainer' \in [pc : {"Check", "Park", "Wait", "Expire", "Copy", "Items", "Deliver", "Disabled", "Remove"},
                      todo : SUBSET Msgs, cur : Msgs \cup {NoMsg}]
    BY <1>1 DEF TypeOK
  <2> QED
    BY <1>1, <2>2, <2>4, <2>5, <2>6, <2>7, <2>8, <2>9, QueueShrinks
<1>3. CASE cause # "UserRequested"
  BY <1>1, <1>3, StutterStep DEF on_turn_cancelled, vars
<1> QED
  BY <1>2, <1>3
-----------------------------------------------------------------------------
(* The theorems.                                                           *)

(* Nothing was sent yet. *)
LEMMA InitInv == Init => Inv
<1> SUFFICES ASSUME Init PROVE Inv
  OBVIOUS
<1>1. <<>> \in Seq(Msgs) /\ Entries(<<>>) = {} /\ Len(<<>>) = 0
  BY DEF Entries
<1>2. /\ \A t \in Targets : queue[t] = <<>>
      /\ \A f \in Senders : outbound[f] = <<>>
      /\ \A f \in Senders, t \in Targets : pair[<<f, t>>] = <<>>
      /\ \A m \in Msgs : req[m].st = "Unsent" /\ age[m] = WINDOW + MaxLag /\ given[m] = 0
      /\ drainer.pc = "Check" /\ drainer.todo = {} /\ drainer.cur = NoMsg
  BY DEF Init
<1>3. TypeOK
  <2>1. /\ queue \in [Targets -> Seq(Msgs)] /\ pair \in [Senders \X Targets -> Seq(Msgs)]
        /\ outbound \in [Senders -> Seq(Msgs)]
    BY <1>1 DEF Init
  <2>2. ttl \in [Msgs -> 0..TTL] /\ age \in [Msgs -> 0..(WINDOW + MaxLag)] /\ given \in [Msgs -> Nat]
    BY MessageAssumption DEF Init
  <2>3. /\ req \in [Msgs -> [from : Senders \cup {NoMsg}, to : Targets \cup {NoMsg},
                             st : {"Unsent", "Admitted", "Push", "Notify", "Done"}]]
        /\ \A m \in Msgs : req[m].st # "Unsent" => req[m].from \in Senders /\ req[m].to \in Targets
    BY DEF Init
  <2>4. permit \in BOOLEAN /\ crossed \subseteq Targets
    BY DEF Init
  <2>5. drainer \in [pc : {"Check", "Park", "Wait", "Expire", "Copy", "Items", "Deliver", "Disabled", "Remove"},
                     todo : SUBSET Msgs, cur : Msgs \cup {NoMsg}]
    BY DEF Init
  <2> QED
    BY <2>1, <2>2, <2>3, <2>4, <2>5 DEF TypeOK
<1>4. Queued = {} /\ Held = {}
  <2>1. \A t \in Targets : Entries(queue[t]) = {}
    BY <1>1, <1>2
  <2> QED
    BY <1>2, <1>3, <2>1, QueuedFacts DEF Held
<1>5. CountAgrees
  <2>1. \A t \in Targets : DOMAIN queue[t] = {}
    BY <1>2
  <2> QED
    BY <1>4, <2>1, FS_EmptySet DEF CountAgrees, Init
<1>6. QueueInv
  BY <1>1, <1>2 DEF QueueInv
<1>7. HeldInv /\ HeldCopyIsHead /\ CrossedInv
  BY <1>2, <1>4 DEF HeldInv, HeldCopyIsHead, CrossedInv
<1>8. DeliveredOnce /\ GivenInv
  BY <1>2, <1>4 DEF DeliveredOnce, GivenInv
<1>9. RateInv
  BY <1>1, <1>2, MessageAssumption DEF RateInv
<1>10. NoLostWakeup
  BY <1>2 DEF NoLostWakeup, At
<1> QED
  BY <1>3, <1>5, <1>6, <1>7, <1>8, <1>9, <1>10 DEF Inv

(* Every step of a request, of the drainer, of the hook and of the clock   *)
(* keeps the invariant.                                                    *)
LEMMA NextInv == Inv /\ [Next]_vars => Inv'
<1> SUFFICES ASSUME Inv, [Next]_vars PROVE Inv'
  OBVIOUS
<1>1. CASE Admit
  BY <1>1, AdmitStep
<1>2. CASE RateLimited
  BY <1>2, RateLimitedStep
<1>3. CASE Drain
  BY <1>3, IsEmptyStep, ParkStep, NotifiedStep, ExpireStep, CopyStep, NextItemStep,
     ClearDisabledStep, DeliverStep, RemoveStep, SleepStep DEF Drain
<1>4. CASE Hook
  BY <1>4, HookStep DEF Hook
<1>5. CASE Tick
  BY <1>5, TickStep
<1>6. ASSUME NEW m \in Msgs, Request(m) PROVE Inv'
  BY <1>6, RefuseStep, DeliverNowStep, EnqueueStep, NotifyStep DEF Request
<1>7. CASE UNCHANGED vars
  BY <1>7, StutterStep
<1> QED
  BY <1>1, <1>2, <1>3, <1>4, <1>5, <1>6, <1>7 DEF Next

(* The inductive invariant holds in every reachable state. *)
THEOREM Invariance == Spec => []Inv
  BY InitInv, NextInv, PTL DEF Spec

(* The queues, windows, requests and the drainer stay within their types:  *)
(* the drainer never works on a message that was not sent.                 *)
THEOREM TypeCorrect == Spec => []TypeOK
<1>1. Inv => TypeOK
  BY DEF Inv
<1> QED
  BY Invariance, <1>1, PTL

(* The count of DeliveryQueue is the number of messages in it, through     *)
(* push, drop_expired, pop_head and clear_for, and none is queued twice.   *)
THEOREM CountIsExact == Spec => []CountAgrees
<1>1. Inv => CountAgrees
  BY DEF Inv
<1> QED
  BY Invariance, <1>1, PTL

(* The copy that tick_once works on across its awaits is still the head of *)
(* its target's queue, unless the target was cleared since.                *)
THEOREM CopiesAreHeads == Spec => []HeldCopyIsHead
<1>1. Inv => HeldCopyIsHead
  BY DEF Inv
<1> QED
  BY Invariance, <1>1, PTL

(* No message is delivered twice, by `send` and the drainer together. *)
THEOREM AtMostOnce == Spec => []DeliveredOnce
<1>1. Inv => DeliveredOnce
  BY DEF Inv
<1> QED
  BY Invariance, <1>1, PTL

(* A drainer that waits while messages are queued has a wakeup coming. *)
THEOREM WakeupsKept == Spec => []NoLostWakeup
<1>1. Inv => NoLostWakeup
  BY DEF Inv
<1> QED
  BY Invariance, <1>1, PTL

(* A set of messages that is within a window is no larger than it. *)
LEMMA WindowBounds ==
  ASSUME NEW w \in Seq(Msgs), NEW limit \in Nat, Len(w) <= limit, NEW S, S \subseteq Entries(w)
  PROVE  Cardinality(S) <= limit
<1>1. IsFiniteSet(Entries(w)) /\ Cardinality(Entries(w)) \in Nat /\ Cardinality(Entries(w)) <= Len(w)
  BY EntriesCount
<1>2. IsFiniteSet(S) /\ Cardinality(S) <= Cardinality(Entries(w))
  BY <1>1, FS_Subset
<1>3. Cardinality(S) \in Nat /\ Len(w) \in Nat
  BY <1>2, FS_CardinalityType
<1> QED
  BY <1>1, <1>2, <1>3

(* check_and_record admits no more sends of one sender, and of one pair,   *)
(* in any window than the limits say.                                      *)
THEOREM RatesHold == Spec => []RateHolds
<1>1. Inv => RateHolds
  <2> SUFFICES ASSUME Inv PROVE RateHolds
    OBVIOUS
  <2> DEFINE Recent(f) == {m \in Msgs : age[m] < WINDOW /\ req[m].from = f}
  <2>1. ASSUME NEW f \in Senders PROVE Cardinality(Recent(f)) <= OUTBOUND_LIMIT
    <3>1. /\ outbound[f] \in Seq(Msgs) /\ Len(outbound[f]) <= OUTBOUND_LIMIT
          /\ Recent(f) \subseteq Entries(outbound[f])
      BY DEF Inv, TypeOK, RateInv
    <3> HIDE DEF Recent
    <3> QED
      BY <3>1, WindowBounds, MessageAssumption
  <2>2. ASSUME NEW f \in Senders, NEW t \in Targets
        PROVE  Cardinality({m \in Recent(f) : To(m) = t}) <= PAIR_LIMIT
    <3> DEFINE S == {m \in Recent(f) : To(m) = t}
    <3>1. /\ pair[<<f, t>>] \in Seq(Msgs) /\ Len(pair[<<f, t>>]) <= PAIR_LIMIT
          /\ S \subseteq Entries(pair[<<f, t>>])
      BY DEF Inv, TypeOK, RateInv
    <3> HIDE DEF S
    <3>2. Cardinality(S) <= PAIR_LIMIT
      BY <3>1, WindowBounds, MessageAssumption
    <3> QED
      BY <3>2 DEF S
  <2> QED
    BY <2>1, <2>2 DEF RateHolds
<1> QED
  BY Invariance, <1>1, PTL

(* What a step may take out of the queue. *)
LEMMA LeaveStep ==
  ASSUME Inv, [Next]_vars, NEW m \in Queued, m \notin Queued'
  PROVE  MayLeave(m) \/ To(m) \in crossed
<1> USE DEF Inv
<1>1. m \in Msgs /\ To(m) \in Targets /\ m \in Entries(queue[To(m)])
  BY QueuedFacts, QueuedPushed DEF QueueInv
<1>2. ~UNCHANGED queue
  BY DEF Queued
<1>3. CASE Admit \/ RateLimited \/ Tick \/ UNCHANGED vars
  BY <1>2, <1>3 DEF Admit, RateLimited, Tick, vars, queueVars
<1>4. CASE Drain
  <2>1. ~(IsEmpty \/ Park \/ Notified \/ Copy \/ NextItem \/ Deliver \/ Sleep)
    BY <1>2 DEF IsEmpty, Park, Notified, Copy, NextItem, Deliver, Sleep, queueVars
  <2>2. CASE Expire
    <3>1. At("Expire") /\ Queued' = {n \in Queued : ttl[n] # 0}
      BY <2>2, ExpireQueue DEF Expire
    <3> QED
      BY <3>1 DEF MayLeave
  <2>3. CASE ClearDisabled
    <3>1. /\ drainer.pc = "Disabled" /\ clear_for(To(drainer.cur)) /\ DoneWith("Items")
      BY <2>3 DEF ClearDisabled, At
    <3>2. To(drainer.cur) \in Targets
      BY <3>1, DoneWithFacts
    <3>3. Queued' = Queued \ Entries(queue[To(drainer.cur)])
      BY <3>1, <3>2, ClearQueue
    <3> QED
      BY <3>1, <3>2, <3>3 DEF MayLeave, At, QueueInv
  <2>4. CASE Remove
    <3> DEFINE u == To(drainer.cur)
    <3>1. /\ drainer.pc = "Remove" /\ remove_head(u) /\ DoneWith("Items")
      BY <2>4 DEF Remove, At
    <3>2. u \in Targets /\ drainer.cur \in Held
      BY <3>1, DoneWithFacts
    <3>3. Queued' = IF queue[u] = <<>> THEN Queued ELSE Queued \ {Head(queue[u])}
      BY <3>1, <3>2, RemoveQueue
    <3>4. queue[u] # <<>> /\ m = Head(queue[u])
      BY <3>3
    <3>5. To(m) = u
      BY <3>2, <3>4, HeadFacts
    <3> QED
      BY <3>1, <3>2, <3>4, <3>5 DEF MayLeave, At, HeldCopyIsHead
  <2> QED
    BY <1>4, <2>1, <2>2, <2>3, <2>4 DEF Drain
<1>5. CASE Hook
  <2>1. PICK t \in Targets, cause \in Causes : on_turn_cancelled(t, cause)
    BY <1>5 DEF Hook
  <2>2. cause = "UserRequested" /\ clear_for(t)
    BY <1>2, <2>1 DEF on_turn_cancelled, queueVars
  <2>3. Queued' = Queued \ Entries(queue[t])
    BY <2>2, ClearQueue
  <2>4. To(m) = t
    BY <2>3 DEF QueueInv
  <2> QED
    BY <2>1, <2>2, <2>4 DEF MayLeave
<1>6. ASSUME NEW n \in Msgs, Request(n) PROVE FALSE
  <2>1. ~(RefuseTarget(n) \/ deliver_now(n) \/ notify_one(n))
    BY <1>2 DEF RefuseTarget, deliver_now, notify_one, queueVars
  <2>2. Enqueue(n)
    BY <1>6, <2>1 DEF Request
  <2>3. push(n) /\ req[n].st = "Push"
    BY <1>2, <2>2 DEF Enqueue, queueVars
  <2>4. n \notin Queued /\ To(n) \in Targets
    BY <2>3, QueuedPushed DEF Pushed, TypeOK, To
  <2>5. Queued' = Queued \cup {n}
    BY <2>3, <2>4, PushQueue
  <2> QED
    BY <2>5
<1> QED
  BY <1>3, <1>4, <1>5, <1>6 DEF Next

(* A queued message leaves only as delivered or refused for good, expired, *)
(* or cleared by a user's stop or by the feature switch, unless its target *)
(* was cleared while the drainer held a copy.                              *)
THEOREM LeavesSettled == Spec => OnlySettledLeave
<1>1. Inv /\ [Next]_vars => [\A m \in Queued : m \notin Queued' => MayLeave(m) \/ To(m) \in crossed]_vars
  BY LeaveStep
<1> QED
  BY Invariance, <1>1, PTL DEF Spec, OnlySettledLeave
=============================================================================
