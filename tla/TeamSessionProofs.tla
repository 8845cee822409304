------------------------- MODULE TeamSessionProofs -------------------------
(***************************************************************************)
(* Proofs about TeamSession: its type invariant, that no acknowledged row  *)
(* is handed to a turn again, that no row is settled in silence and that a *)
(* pause holds once it was answered, for every number of slots, requests,  *)
(* rows and runs and whichever requests and failures occur; and that the   *)
(* session implements Delivery.                                            *)
(*                                                                         *)
(* The invariant says what each process knows although it let go of the    *)
(* coordinator and the mailbox since it looked: its copy of a batch is the *)
(* active batch or stale for good, the rows it holds are addressed to its  *)
(* slot, and those it is about to settle are already accounted for.        *)
(***************************************************************************)
EXTENDS TeamSession, SlotWorkSteps

Written(m) == mail[m].st # "unwritten"

\* Row m is in the table and addressed to slot s.
Addressed(m, s) == m \in Msgs /\ Written(m) /\ mail[m].to = s

\* Intent i was committed for slot s, with a row.
BornTo(i, s) == ist[i] # "Unborn" /\ info[i].slot = s /\ info[i].msg \in Msgs

\* What may have become of a row that is marked read.
Accounted(m) ==
  \/ m \in delivered
  \/ m \in refused
  \/ Ended(m, "Cancelled") # {}
  \/ Cardinality(Ended(m, "Failed")) >= MaxDeliveryFailures

MailFailed == "mailbox" \in Faults /\ faults > 0

\* The coordinator never takes on a row that is not in the mailbox of the slot.
WorkRows ==
  /\ \A i \in IntentIds :
       ist[i] # "Unborn" /\ info[i].msg # NoMsg => Addressed(info[i].msg, info[i].slot)
  /\ \A s \in Slots :
       /\ \A i \in active[s].intents : info[i].msg # NoMsg
       /\ \A m \in active[s].observed : Addressed(m, s)
       /\ active[s].op <= nextOp

\* A delivery failure that was counted is an intent that failed.
CountsBacked ==
  \A s \in Slots, m \in Msgs : failures[s][m] <= Cardinality(Ended(m, "Failed"))

\* Only finitely many rows have been written.
FiniteMail == IsFiniteSet({m \in Msgs : Written(m)})

\* A snapshot of the active batch of s that was taken earlier.
Snapshot(s, op, intents) ==
  /\ op <= nextOp
  /\ op # 0 /\ active[s].op = op => active[s].intents = intents

Settling == {"settle", "settleDiscarded", "settleRun"}

\* What a request remembers is true.
Knows(r) ==
  /\ r.msg # NoMsg => Addressed(r.msg, r.slot)
  /\ \A m \in r.rows : Written(m) /\ (r.pc # "settleRun" => mail[m].to = r.slot)
  /\ \A i \in r.intents : BornTo(i, r.slot)
  /\ r.pc \notin {"inbox", "observe"} => Snapshot(r.slot, r.op, r.intents)
  /\ r.pc \in {"stop", "break", "stopChild", "dropChild"} => r.op # 0
  /\ r.pc \in {"scan", "noticeRow", "noticeFind"} => r.slot = Lead
  /\ r.pc = "nextRow" => r.rows # {}
  /\ r.pc = "pause" => r.kind = "pause"
  /\ r.pc = "compensate" => r.msg # NoMsg

CallOK(c) ==
  /\ Knows(call[c])
  /\ call[c].pc \in Settling => \A m \in call[c].rows : Accounted(m)

\* Where an event loop works on a batch.
Holding == {"reread", "giveback", "turn", "late", "drop", "run", "err", "won", "lost",
            "complete", "failStart", "failTurn"}

\* What an event loop remembers is true.
LoopKnows(s, r) ==
  /\ r.b.slot = s
  /\ \A i \in r.b.intents : BornTo(i, s)
  /\ Snapshot(s, r.b.op, r.b.intents)
  /\ r.b.op # 0 /\ active[s].op = r.b.op => active[s].lane = r.b.lane
  /\ r.pc \in Holding => r.b.op # 0
  /\ \A m \in r.rows : Addressed(m, s)
  /\ r.pc \in {"idleRow", "wakeLead"} => Lead \in Slots

\* Where an event loop is about to mark rows read.
Reading == {"ack", "exhaustStart", "exhaustTurn"}

LoopOK(s) ==
  /\ LoopKnows(s, loop[s])
  /\ loop[s].pc \in Reading => \A m \in loop[s].rows : Accounted(m)

\* A lease belongs to the request that acquired it, which is still to use it.
LeaseOK ==
  /\ \A l \in leases : /\ l.slot = call[l.id].slot
                       /\ call[l.id].pc \in {"write", "commit", "abort"}
  /\ \A k, l \in leases : k.id = l.id => k = l

\* A loop makes one request at a time and is registered by its attachment.
LoopsAlone ==
  \A s \in Slots :
    /\ loop[s].pc \notin {"telling", "tellingEnd", "waking"} => call[s].pc = "idle"
    /\ attach[s] = "spawn" => loop[s].pc = "gone"

\* A row that was delivered is marked read before its loop does anything else.
DeliveredRead ==
  \A m \in delivered :
    \/ WasRead(m)
    \/ MailFailed
    \/ \E s \in Slots : At(s, "ack") /\ m \in loop[s].rows

SettledAccounted == \A m \in Msgs : WasRead(m) => Accounted(m)

\* A turn that owns a paused slot is about to be cancelled by the pause.
PauseCancels ==
  \A s \in Slots :
    paused[s] /\ faults = 0 /\ At(s, "run") /\ active[s].op = Batch(s).op
      => \E c \in Procs : /\ call[c].kind = "pause"
                          /\ call[c].slot = s
                          /\ call[c].op = Batch(s).op
                          /\ call[c].pc \in {"stopChild", "dropChild"}

Inv ==
  /\ TypeOK
  /\ WorkOwnership
  /\ WorkRows
  /\ CountsBacked
  /\ FiniteMail
  /\ \A c \in Procs : CallOK(c)
  /\ \A s \in Slots : LoopOK(s)
  /\ LeaseOK
  /\ LoopsAlone
  /\ DeliveredRead
  /\ NoRedelivery
  /\ SettledAccounted
  /\ PauseCancels
-----------------------------------------------------------------------------
(* What no step takes back.                                                *)

\* Intents keep what they were committed with and terminal ones their state; a
\* slot gets no batch that was active before, except the one it has.
WorkKept ==
  /\ \A i \in IntentIds : ist[i] # "Unborn" => ist'[i] # "Unborn" /\ info'[i] = info[i]
  /\ \A i \in IntentIds : ist[i] \in Terminal => ist'[i] = ist[i]
  /\ nextOp <= nextOp'
  /\ \A s \in Slots : \/ active'[s].op = 0
                      \/ /\ active'[s].op = active[s].op
                         /\ active'[s].intents = active[s].intents
                         /\ active'[s].lane = active[s].lane
                      \/ active'[s].op > nextOp

\* A row stays written, and read, and keeps its address.
MailKept ==
  \A m \in Msgs : Written(m) => /\ Written(m)' /\ mail'[m].to = mail[m].to
                                /\ WasRead(m) => WasRead(m)'

Kept ==
  /\ WorkKept
  /\ MailKept
  /\ delivered \subseteq delivered'
  /\ refused \subseteq refused'
  /\ faults <= faults'

\* The intents of a row that ended in some way are finitely many.
LEMMA EndedFinite ==
  ASSUME NEW m, NEW st
  PROVE  IsFiniteSet(Ended(m, st)) /\ Cardinality(Ended(m, st)) \in Nat
<1>1. Ended(m, st) \subseteq IntentIds
  BY DEF Ended
<1>2. IsFiniteSet(IntentIds)
  BY FS_Interval, ConstantsAssumption DEF IntentIds
<1> QED
  BY <1>1, <1>2, FS_Subset, FS_CardinalityType

\* Ended intents only become more.
LEMMA EndedKept ==
  ASSUME WorkKept, NEW m, NEW st \in Terminal
  PROVE  /\ Ended(m, st) \subseteq Ended(m, st)'
         /\ Cardinality(Ended(m, st)') \in Nat
         /\ Cardinality(Ended(m, st)) <= Cardinality(Ended(m, st)')
<1>1. Ended(m, st) \subseteq Ended(m, st)'
  BY DEF Ended, WorkKept, Terminal
<1>2. IsFiniteSet(Ended(m, st)')
  <2>1. Ended(m, st)' \subseteq IntentIds
    BY DEF Ended
  <2>2. IsFiniteSet(IntentIds)
    BY FS_Interval, ConstantsAssumption DEF IntentIds
  <2> QED
    BY <2>1, <2>2, FS_Subset
<1> QED
  BY <1>1, <1>2, FS_Subset, FS_CardinalityType

\* A row that is accounted for remains so.
LEMMA AccountedKept ==
  ASSUME Kept
  PROVE  \A m : Accounted(m) => Accounted(m)'
<1>1. SUFFICES ASSUME NEW m, Accounted(m) PROVE Accounted(m)'
  OBVIOUS
<1>2. CASE m \in delivered \/ m \in refused
  BY <1>2 DEF Accounted, Kept
<1>3. CASE Ended(m, "Cancelled") # {}
  <2>1. Ended(m, "Cancelled") \subseteq Ended(m, "Cancelled")'
    BY EndedKept DEF Kept, Terminal
  <2> QED BY <1>3, <2>1 DEF Accounted
<1>4. CASE Cardinality(Ended(m, "Failed")) >= MaxDeliveryFailures
  <2>1. Cardinality(Ended(m, "Failed")) <= Cardinality(Ended(m, "Failed")')
    BY EndedKept DEF Kept, Terminal
  <2>2. Cardinality(Ended(m, "Failed")) \in Nat /\ Cardinality(Ended(m, "Failed")') \in Nat
    BY EndedFinite, EndedKept DEF Kept, Terminal
  <2> QED BY <1>4, <2>1, <2>2 DEF Accounted, MaxDeliveryFailures
<1> QED
  BY <1>1, <1>2, <1>3, <1>4 DEF Accounted

\* A snapshot stays the active batch or becomes stale for good.
LEMMA SnapshotKept ==
  ASSUME WorkTypeOK, WorkTypeOK', WorkKept, NEW s \in Slots, NEW op \in Nat, NEW I,
         Snapshot(s, op, I)
  PROVE  /\ Snapshot(s, op, I)'
         /\ op # 0 /\ active'[s].op = op => active[s].op = op /\ active'[s].lane = active[s].lane
<1>1. nextOp \in Nat /\ nextOp' \in Nat /\ nextOp <= nextOp' /\ op <= nextOp
  BY DEF WorkTypeOK, WorkKept, Snapshot
<1>2. \/ active'[s].op = 0
      \/ /\ active'[s].op = active[s].op
         /\ active'[s].intents = active[s].intents
         /\ active'[s].lane = active[s].lane
      \/ active'[s].op > nextOp
  BY DEF WorkKept
<1>3. ASSUME op # 0, active'[s].op = op
      PROVE  /\ active[s].op = op
             /\ active'[s].intents = active[s].intents
             /\ active'[s].lane = active[s].lane
  BY <1>1, <1>2, <1>3
<1> QED
  BY <1>1, <1>3 DEF Snapshot

\* What was true when a request looked stays true.
LEMMA KnownKept ==
  ASSUME TypeOK, WorkTypeOK', Kept, NEW r \in CallState, Knows(r)
  PROVE  Knows(r)'
<1>2. /\ r.slot \in Slots /\ r.op \in Nat /\ r.rows \subseteq Msgs
      /\ r.intents \subseteq IntentIds /\ r.msg \in Msgs \cup {NoMsg}
  BY DEF CallState
<1>3. /\ r.msg # NoMsg => Addressed(r.msg, r.slot)
      /\ \A m \in r.rows : Written(m) /\ (r.pc # "settleRun" => mail[m].to = r.slot)
      /\ \A i \in r.intents : BornTo(i, r.slot)
      /\ r.pc \notin {"inbox", "observe"} => Snapshot(r.slot, r.op, r.intents)
  BY DEF Knows
<1>4. r.msg # NoMsg => Addressed(r.msg, r.slot)'
  BY <1>3 DEF Addressed, Kept, MailKept
<1>5. \A m \in r.rows : Written(m)' /\ (r.pc # "settleRun" => mail'[m].to = r.slot)
  BY <1>2, <1>3 DEF Kept, MailKept
<1>6. \A i \in r.intents : BornTo(i, r.slot)'
  BY <1>2, <1>3 DEF BornTo, Kept, WorkKept
<1>7. r.pc \notin {"inbox", "observe"} => Snapshot(r.slot, r.op, r.intents)'
  BY <1>2, <1>3, SnapshotKept DEF Kept, TypeOK
<1> QED
  BY <1>4, <1>5, <1>6, <1>7 DEF Knows

\* What a request knows stays true while it takes no step itself.
LEMMA CallKept ==
  ASSUME TypeOK, WorkTypeOK', Kept, NEW c \in Procs, CallOK(c), call'[c] = call[c]
  PROVE  CallOK(c)'
<1>1. PICK r \in CallState : r = call[c]
  BY DEF TypeOK
<1>2. Knows(r) /\ (r.pc \in Settling => \A m \in r.rows : Accounted(m))
  BY <1>1 DEF CallOK
<1>3. Knows(r)'
  BY <1>2, KnownKept
<1>4. r.pc \in Settling => \A m \in r.rows : Accounted(m)'
  BY <1>2, AccountedKept
<1>5. r = call'[c]
  BY <1>1
<1> QED
  BY <1>3, <1>4, <1>5 DEF CallOK

\* What an event loop knows stays true while it takes no step itself.
LEMMA LoopKnownKept ==
  ASSUME TypeOK, WorkTypeOK', Kept, NEW s \in Slots, NEW r \in LoopState, LoopKnows(s, r)
  PROVE  LoopKnows(s, r)'
<1>2. r.b.op \in Nat /\ r.rows \subseteq Msgs /\ r.b.intents \subseteq IntentIds
  BY DEF LoopState
<1>3. /\ r.b.slot = s
      /\ \A i \in r.b.intents : BornTo(i, s)
      /\ Snapshot(s, r.b.op, r.b.intents)
      /\ r.b.op # 0 /\ active[s].op = r.b.op => active[s].lane = r.b.lane
      /\ r.pc \in Holding => r.b.op # 0
      /\ \A m \in r.rows : Addressed(m, s)
      /\ r.pc \in {"idleRow", "wakeLead"} => Lead \in Slots
  BY DEF LoopKnows
<1>4. \A i \in r.b.intents : BornTo(i, s)'
  BY <1>2, <1>3 DEF BornTo, Kept, WorkKept
<1>5. /\ Snapshot(s, r.b.op, r.b.intents)'
      /\ r.b.op # 0 /\ active'[s].op = r.b.op => active'[s].lane = r.b.lane
  BY <1>2, <1>3, SnapshotKept DEF Kept, TypeOK
<1>6. \A m \in r.rows : Addressed(m, s)'
  BY <1>2, <1>3 DEF Addressed, Kept, MailKept
<1> QED
  BY <1>3, <1>4, <1>5, <1>6 DEF LoopKnows

\* The same for a loop that takes no step itself.
LEMMA LoopKept ==
  ASSUME TypeOK, WorkTypeOK', Kept, NEW s \in Slots, LoopOK(s), loop'[s] = loop[s]
  PROVE  LoopOK(s)'
<1>1. PICK r \in LoopState : r = loop[s]
  BY DEF TypeOK, LoopTypeOK
<1>2. LoopKnows(s, r) /\ (r.pc \in Reading => \A m \in r.rows : Accounted(m))
  BY <1>1 DEF LoopOK
<1>3. LoopKnows(s, r)'
  BY <1>2, LoopKnownKept
<1>4. r.pc \in Reading => \A m \in r.rows : Accounted(m)'
  BY <1>2, AccountedKept
<1>5. r = loop'[s]
  BY <1>1
<1> QED
  BY <1>3, <1>4, <1>5 DEF LoopOK

\* Counts that are not raised stay backed.
LEMMA CountsKept ==
  ASSUME CountsBacked, WorkKept, WorkTypeOK, WorkTypeOK',
         \A s \in Slots, m \in Msgs : failures'[s][m] <= failures[s][m]
  PROVE  CountsBacked'
<1>1. SUFFICES ASSUME NEW s \in Slots, NEW m \in Msgs
               PROVE  failures'[s][m] <= Cardinality(Ended(m, "Failed")')
  BY DEF CountsBacked
<1>2. failures[s][m] \in Nat /\ failures'[s][m] \in Nat
  <2>1. failures \in [Slots -> [Msgs -> 0..255]] /\ failures' \in [Slots -> [Msgs -> 0..255]]
    BY DEF WorkTypeOK
  <2>2. failures[s][m] \in 0..255 /\ failures'[s][m] \in 0..255
    BY <2>1
  <2> QED BY <2>2
<1>3. Cardinality(Ended(m, "Failed")) \in Nat
  BY EndedFinite
<1>4. /\ Cardinality(Ended(m, "Failed")') \in Nat
      /\ Cardinality(Ended(m, "Failed")) <= Cardinality(Ended(m, "Failed")')
  BY EndedKept DEF Terminal
<1>5. failures[s][m] <= Cardinality(Ended(m, "Failed"))
  BY DEF CountsBacked
<1>6. failures'[s][m] <= failures[s][m]
  OBVIOUS
<1> QED
  BY <1>2, <1>3, <1>4, <1>5, <1>6

\* A step of the coordinator that commits and claims nothing.
LEMMA NothingNew ==
  ASSUME WorkTypeOK, WorkTypeOK', WorkRows, mail' = mail, info' = info, nextOp' = nextOp,
         \A i \in IntentIds : /\ ist[i] \in Terminal \cup {"Unborn"} => ist'[i] = ist[i]
                              /\ ist[i] # "Unborn" => ist'[i] # "Unborn",
         \A s \in Slots : \/ active'[s] = NoBatch
                          \/ /\ active'[s].op = active[s].op
                             /\ active'[s].intents = active[s].intents
                             /\ active'[s].lane = active[s].lane
                             /\ \A m \in active'[s].observed : Addressed(m, s)
  PROVE  WorkKept /\ WorkRows'
<1>0. nextOp \in Nat /\ \A s \in Slots : active[s].op \in Nat /\ active[s].intents \subseteq IntentIds
  BY DEF WorkTypeOK, ActiveBatch
<1>1. WorkKept
  <2>1. \A i \in IntentIds : ist[i] \in Terminal => ist'[i] = ist[i]
    OBVIOUS
  <2>2. \A s \in Slots : active'[s] = NoBatch => active'[s].op = 0
    BY DEF NoBatch
  <2>3. nextOp <= nextOp'
    BY <1>0
  <2>4. \A i \in IntentIds : ist[i] # "Unborn" => ist'[i] # "Unborn" /\ info'[i] = info[i]
    OBVIOUS
  <2> QED BY <2>1, <2>2, <2>3, <2>4 DEF WorkKept
<1>2. ASSUME NEW i \in IntentIds, ist'[i] # "Unborn", info'[i].msg # NoMsg
      PROVE  Addressed(info[i].msg, info[i].slot)'
  <2>1. ist[i] # "Unborn" /\ info[i].msg # NoMsg
    BY <1>2
  <2>2. Addressed(info[i].msg, info[i].slot)
    BY <2>1 DEF WorkRows
  <2> QED BY <2>2 DEF Addressed, Written
<1>3. ASSUME NEW s \in Slots
      PROVE  /\ \A i \in active'[s].intents : info'[i].msg # NoMsg
             /\ \A m \in active'[s].observed : Addressed(m, s)'
             /\ active'[s].op <= nextOp'
  <2>1. CASE active'[s] = NoBatch
    <3>1. active'[s].intents = {} /\ active'[s].observed = {} /\ active'[s].op = 0
      BY <2>1 DEF NoBatch
    <3> QED BY <1>0, <3>1
  <2>2. CASE /\ active'[s].op = active[s].op
             /\ active'[s].intents = active[s].intents
             /\ \A m \in active'[s].observed : Addressed(m, s)
    <3>1. \A m \in active'[s].observed : Addressed(m, s)'
      BY <2>2 DEF Addressed, Written
    <3>2. active[s].op <= nextOp /\ \A i \in active[s].intents : info[i].msg # NoMsg
      BY DEF WorkRows
    <3> QED BY <2>2, <3>1, <3>2
  <2> QED BY <2>1, <2>2
<1> QED
  BY <1>1, <1>2, <1>3 DEF WorkRows
-----------------------------------------------------------------------------
(* What the operations of the coordinator keep.                            *)

WorkInv == Good /\ WorkRows /\ CountsBacked

WorkStep == WorkInv' /\ WorkKept

\* Failure counts that are not touched, or forgotten, are not raised.
LEMMA SameCounts ==
  ASSUME WorkTypeOK, failures' = failures
  PROVE  \A t \in Slots, m \in Msgs : failures'[t][m] <= failures[t][m]
<1>1. ASSUME NEW t \in Slots, NEW m \in Msgs PROVE failures[t][m] \in 0..255
  BY DEF WorkTypeOK
<1> QED
  BY <1>1

LEMMA ClearedCounts ==
  ASSUME WorkTypeOK, NEW s \in Slots, NEW M, failures' = ClearCounts(s, M)
  PROVE  \A t \in Slots, m \in Msgs : failures'[t][m] <= failures[t][m]
<1>1. ASSUME NEW t \in Slots, NEW m \in Msgs
      PROVE  failures[t][m] \in 0..255 /\ failures'[t][m] \in {0, failures[t][m]}
  <2>1. failures \in [Slots -> [Msgs -> 0..255]]
    BY DEF WorkTypeOK
  <2>2. failures[t] \in [Msgs -> 0..255]
    BY <2>1
  <2>3. failures' = [failures EXCEPT ![s] = [n \in Msgs |-> IF n \in M THEN 0 ELSE failures[s][n]]]
    BY DEF ClearCounts
  <2>4. CASE t = s
    <3>1. failures'[t] = [n \in Msgs |-> IF n \in M THEN 0 ELSE failures[s][n]]
      BY <2>1, <2>3, <2>4
    <3> QED BY <2>2, <2>4, <3>1
  <2>5. CASE t # s
    BY <2>1, <2>2, <2>3, <2>5
  <2> QED BY <2>4, <2>5
<1> QED
  BY <1>1

\* A step that starts from a good state, commits and claims nothing and raises
\* no failure count.
LEMMA QuietStep ==
  ASSUME WorkInv, Good', mail' = mail, info' = info, nextOp' = nextOp,
         \A i \in IntentIds : /\ ist[i] \in Terminal \cup {"Unborn"} => ist'[i] = ist[i]
                              /\ ist[i] # "Unborn" => ist'[i] # "Unborn",
         \A s \in Slots : \/ active'[s] = NoBatch
                          \/ /\ active'[s].op = active[s].op
                             /\ active'[s].intents = active[s].intents
                             /\ active'[s].lane = active[s].lane
                             /\ \A m \in active'[s].observed : Addressed(m, s),
         \A s \in Slots, m \in Msgs : failures'[s][m] <= failures[s][m]
  PROVE  WorkStep
<1>1. WorkTypeOK /\ WorkTypeOK' /\ WorkRows /\ CountsBacked
  BY DEF WorkInv, Good
<1>2. WorkKept /\ WorkRows'
  BY <1>1, NothingNew
<1>3. CountsBacked'
  BY <1>1, <1>2, CountsKept
<1> QED
  BY <1>2, <1>3 DEF WorkStep, WorkInv

\* Every batch keeps what it has observed.
LEMMA SameActive ==
  ASSUME WorkInv, active' = active
  PROVE  \A s \in Slots : /\ active'[s].op = active[s].op
                          /\ active'[s].intents = active[s].intents
                          /\ active'[s].lane = active[s].lane
                          /\ \A m \in active'[s].observed : Addressed(m, s)
  BY DEF WorkInv, WorkRows

\* One slot drops its batch.
LEMMA OneDropped ==
  ASSUME WorkInv, NEW b \in WorkBatch, active' = [active EXCEPT ![b.slot] = NoBatch]
  PROVE  \A s \in Slots : \/ active'[s] = NoBatch
                          \/ /\ active'[s].op = active[s].op
                             /\ active'[s].intents = active[s].intents
                             /\ active'[s].lane = active[s].lane
                             /\ \A m \in active'[s].observed : Addressed(m, s)
  BY DEF WorkInv, WorkRows, Good, WorkTypeOK

\* The intents of the batch that owns the slot may change state.
LEMMA OwnedChange ==
  ASSUME WorkInv, NEW b \in WorkBatch, Copy(b), is_current_batch(b), NEW st, st # "Unborn",
         SetState(b.intents, st)
  PROVE  \A i \in IntentIds : /\ ist[i] \in Terminal \cup {"Unborn"} => ist'[i] = ist[i]
                              /\ ist[i] # "Unborn" => ist'[i] # "Unborn"
<1>1. \A i \in b.intents : ist[i] \in {"Starting", "Running"}
  BY CurrentFacts DEF WorkInv
<1> QED
  BY <1>1 DEF SetState, Terminal

\* acquire_enqueue
LEMMA AcquireStep ==
  ASSUME WorkInv, mail' = mail, NEW id \in LeaseIds, NEW s \in Slots, NEW src \in AllSources,
         NEW r \in Runs, acquire_enqueue(id, s, src, r)
  PROVE  WorkStep
<1>1. Good'
  BY AcquireGood DEF WorkInv
<1>2. /\ ist' = ist /\ info' = info /\ active' = active /\ nextOp' = nextOp
      /\ failures' = failures
  BY DEF acquire_enqueue, intentVars
<1> QED
  BY <1>1, <1>2, QuietStep, SameActive, SameCounts DEF WorkInv, Good

\* abort_enqueue
LEMMA AbortStep ==
  ASSUME WorkInv, mail' = mail, NEW l \in leases, abort_enqueue(l)
  PROVE  WorkStep
<1>1. Good'
  BY AbortGood DEF WorkInv
<1>2. /\ ist' = ist /\ info' = info /\ active' = active /\ nextOp' = nextOp
      /\ failures' = failures
  BY DEF abort_enqueue, intentVars, slotVars
<1> QED
  BY <1>1, <1>2, QuietStep, SameActive, SameCounts DEF WorkInv, Good

\* take_interrupt_metadata
LEMMA TakeMetadataStep ==
  ASSUME WorkInv, mail' = mail, NEW op, take_interrupt_metadata(op)
  PROVE  WorkStep
<1>1. Good'
  BY TakeMetadataGood DEF WorkInv
<1>2. /\ ist' = ist /\ info' = info /\ active' = active /\ nextOp' = nextOp
      /\ failures' = failures
  BY DEF take_interrupt_metadata, intentVars, slotVars
<1> QED
  BY <1>1, <1>2, QuietStep, SameActive, SameCounts DEF WorkInv, Good

\* pause_slot
LEMMA PauseStep ==
  ASSUME WorkInv, mail' = mail, NEW s \in Slots, pause_slot(s)
  PROVE  WorkStep
<1>1. Good'
  BY PauseGood DEF WorkInv
<1>2. /\ ist' = ist /\ info' = info /\ active' = active /\ nextOp' = nextOp
      /\ failures' = failures
  BY DEF pause_slot, intentVars
<1> QED
  BY <1>1, <1>2, QuietStep, SameActive, SameCounts DEF WorkInv, Good

\* set_runtime_constraint, as the session calls it
LEMMA ConstrainStep ==
  ASSUME WorkInv, mail' = mail, NEW s \in Slots, NEW k \in {"Ready", "Starting"},
         set_runtime_constraint(s, [kind |-> k, op |-> 0])
  PROVE  WorkStep
<1>1. Good'
  <2>1. [kind |-> k, op |-> 0] \in RuntimeConstraint
    BY DEF RuntimeConstraint
  <2> QED BY <2>1, ConstrainGood DEF WorkInv
<1>2. /\ ist' = ist /\ info' = info /\ active' = active /\ nextOp' = nextOp
      /\ failures' = failures
  BY DEF set_runtime_constraint
<1> QED
  BY <1>1, <1>2, QuietStep, SameActive, SameCounts DEF WorkInv, Good

\* complete_signals
LEMMA SignalsStep ==
  ASSUME WorkInv, mail' = mail, NEW s \in Slots, NEW S, complete_signals(s, S)
  PROVE  WorkStep
<1>1. Good'
  BY SignalsGood DEF WorkInv
<1>2. /\ info' = info /\ active' = active /\ nextOp' = nextOp /\ failures' = failures
  BY DEF complete_signals
<1>3. \A i \in IntentIds : /\ ist[i] \in Terminal \cup {"Unborn"} => ist'[i] = ist[i]
                           /\ ist[i] # "Unborn" => ist'[i] # "Unborn"
  BY DEF complete_signals, SetState, Terminal
<1> QED
  BY <1>1, <1>2, <1>3, QuietStep, SameActive, SameCounts DEF WorkInv, Good

\* discard_queued_except
LEMMA DiscardStep ==
  ASSUME WorkInv, mail' = mail, NEW s \in Slots, NEW keep, discard_queued_except(s, keep)
  PROVE  WorkStep
<1>1. Good'
  BY DiscardGood DEF WorkInv
<1>2. /\ info' = info /\ active' = active /\ nextOp' = nextOp /\ failures' = failures
  BY DEF discard_queued_except
<1>3. \A i \in Discarded(s, keep) : ist[i] = "Queued"
  BY DEF Discarded, queued_ids, WorkInv, Good, WorkOwnership, QueuedInPlace
<1>4. \A i \in IntentIds : /\ ist[i] \in Terminal \cup {"Unborn"} => ist'[i] = ist[i]
                           /\ ist[i] # "Unborn" => ist'[i] # "Unborn"
  BY <1>3 DEF discard_queued_except, SetState, Terminal
<1> QED
  BY <1>1, <1>2, <1>4, QuietStep, SameActive, SameCounts DEF WorkInv, Good

\* cancel_run
LEMMA CancelRunStep ==
  ASSUME WorkInv, mail' = mail, NEW r \in Runs, cancel_run(r)
  PROVE  WorkStep
<1> DEFINE back == UNION {Retained(s, r) : s \in Slots}
           dead == {i \in OfRun(r) : ist[i] \in Live}
<1>1. Good'
  BY CancelRunGood DEF WorkInv
<1>2. /\ info' = info /\ nextOp' = nextOp /\ failures' = failures
      /\ active' = [s \in Slots |-> IF s \in SlotsOfRun(r) THEN NoBatch ELSE active[s]]
      /\ ist' = [i \in IntentIds |-> IF i \in dead THEN "Cancelled"
                                     ELSE IF i \in back THEN "Queued" ELSE ist[i]]
  BY DEF cancel_run
<1>3. \A i \in back : ist[i] \in {"Starting", "Running"}
  BY DEF Retained, WorkInv, Good, WorkOwnership, ActiveInPlace
<1>4. \A i \in IntentIds : /\ ist[i] \in Terminal \cup {"Unborn"} => ist'[i] = ist[i]
                           /\ ist[i] # "Unborn" => ist'[i] # "Unborn"
  <2>1. \A i \in dead : ist[i] \in Live
    OBVIOUS
  <2> HIDE DEF back, dead
  <2> QED BY <1>2, <1>3, <2>1 DEF Terminal, Live
<1>5. \A s \in Slots : \/ active'[s] = NoBatch
                       \/ /\ active'[s].op = active[s].op
                          /\ active'[s].intents = active[s].intents
                          /\ active'[s].lane = active[s].lane
                          /\ \A m \in active'[s].observed : Addressed(m, s)
  BY <1>2 DEF WorkInv, WorkRows
<1> QED
  BY <1>1, <1>2, <1>4, <1>5, QuietStep, SameCounts DEF WorkInv, Good

\* mark_started
LEMMA MarkStartedStep ==
  ASSUME WorkInv, mail' = mail, NEW b \in WorkBatch, Copy(b), mark_started(b)
  PROVE  WorkStep
<1>1. Good'
  BY MarkStartedGood DEF WorkInv
<1>2. /\ info' = info /\ nextOp' = nextOp /\ failures' = failures /\ is_current_batch(b)
      /\ SetState(b.intents, "Running") /\ active' = [active EXCEPT ![b.slot].turn = TRUE]
  BY DEF mark_started
<1>3. \A s \in Slots : /\ active'[s].op = active[s].op
                       /\ active'[s].intents = active[s].intents
                       /\ active'[s].lane = active[s].lane
                       /\ active'[s].observed = active[s].observed
  BY <1>2 DEF WorkInv, Good, WorkTypeOK, ActiveBatch
<1>4. \A s \in Slots : \A m \in active'[s].observed : Addressed(m, s)
  BY <1>3 DEF WorkInv, WorkRows
<1> QED
  BY <1>1, <1>2, <1>3, <1>4, OwnedChange, QuietStep, SameCounts DEF WorkInv, Good

\* retry_start
LEMMA RetryStep ==
  ASSUME WorkInv, mail' = mail, NEW b \in WorkBatch, Copy(b), retry_start(b)
  PROVE  WorkStep
<1>1. Good'
  BY RetryGood DEF WorkInv
<1>2. /\ info' = info /\ nextOp' = nextOp /\ failures' = failures /\ is_current_batch(b)
      /\ SetState(b.intents, "Queued") /\ active' = [active EXCEPT ![b.slot] = NoBatch]
  BY DEF retry_start
<1> QED
  BY <1>1, <1>2, OwnedChange, OneDropped, QuietStep, SameCounts DEF WorkInv, Good

\* cancel_batch
LEMMA CancelStepKept ==
  ASSUME WorkInv, mail' = mail, NEW b \in WorkBatch, Copy(b), cancel_batch(b)
  PROVE  WorkStep
<1>1. Good'
  BY CancelGood DEF WorkInv
<1>2. /\ info' = info /\ nextOp' = nextOp /\ is_current_batch(b)
      /\ failures' = ClearCounts(b.slot, BatchMsgs(b))
      /\ SetState(b.intents, "Cancelled") /\ active' = [active EXCEPT ![b.slot] = NoBatch]
  BY DEF cancel_batch
<1>3. b.slot \in Slots
  BY DEF WorkBatch
<1>4. \A t \in Slots, m \in Msgs : failures'[t][m] <= failures[t][m]
  BY <1>2, <1>3, ClearedCounts DEF WorkInv, Good
<1> QED
  BY <1>1, <1>2, <1>4, OwnedChange, OneDropped, QuietStep

\* interrupt_batch
LEMMA InterruptStepKept ==
  ASSUME WorkInv, mail' = mail, NEW b \in WorkBatch, Copy(b), interrupt_batch(b)
  PROVE  WorkStep
<1>1. Good'
  BY InterruptGood DEF WorkInv
<1>2. /\ info' = info /\ nextOp' = nextOp /\ is_current_batch(b)
      /\ failures' = ClearCounts(b.slot, BatchMsgs(b))
      /\ SetState(b.intents, "Cancelled") /\ active' = [active EXCEPT ![b.slot] = NoBatch]
  BY DEF interrupt_batch
<1>3. b.slot \in Slots
  BY DEF WorkBatch
<1>4. \A t \in Slots, m \in Msgs : failures'[t][m] <= failures[t][m]
  BY <1>2, <1>3, ClearedCounts DEF WorkInv, Good
<1> QED
  BY <1>1, <1>2, <1>4, OwnedChange, OneDropped, QuietStep

\* complete_batch_with_ack
LEMMA CompleteStep ==
  ASSUME WorkInv, mail' = mail, NEW b \in WorkBatch, Copy(b), complete_batch_with_ack(b)
  PROVE  WorkStep
<1> DEFINE seen == {i \in LiveOf(b.slot) : info[i].msg \in active[b.slot].observed}
<1>1. Good'
  BY CompleteGood DEF WorkInv
<1>2. /\ info' = info /\ nextOp' = nextOp /\ is_current_batch(b)
      /\ failures' = ClearCounts(b.slot, AckedMsgs(b))
      /\ SetState(b.intents \cup seen, "Completed")
      /\ active' = [active EXCEPT ![b.slot] = NoBatch]
  BY DEF complete_batch_with_ack
<1>3. b.slot \in Slots
  BY DEF WorkBatch
<1>4. \A t \in Slots, m \in Msgs : failures'[t][m] <= failures[t][m]
  BY <1>2, <1>3, ClearedCounts DEF WorkInv, Good
<1>5. \A i \in b.intents : ist[i] \in {"Starting", "Running"}
  BY <1>2, CurrentFacts DEF WorkInv
<1>6. \A i \in seen : ist[i] \in Live
  BY DEF LiveOf
<1>7. \A i \in IntentIds : /\ ist[i] \in Terminal \cup {"Unborn"} => ist'[i] = ist[i]
                           /\ ist[i] # "Unborn" => ist'[i] # "Unborn"
  <2> HIDE DEF seen
  <2> QED BY <1>2, <1>5, <1>6 DEF SetState, Terminal, Live
<1> QED
  BY <1>1, <1>2, <1>4, <1>7, OneDropped, QuietStep

\* observe_messages
LEMMA ObserveStepKept ==
  ASSUME WorkInv, mail' = mail, NEW s \in Slots, NEW op \in Nat, NEW M \in SUBSET Msgs,
         \A m \in M : Addressed(m, s), observe_messages(s, op, M)
  PROVE  WorkStep
<1> DEFINE b == [slot |-> s, op |-> op, intents |-> {}, lane |-> "Background"]
<1>1. op # 0
  BY DEF observe_messages
<1>2. b \in WorkBatch /\ b.slot = s /\ b.op = op
  BY <1>1 DEF WorkBatch, Lanes
<1>3. Good'
  <2> HIDE DEF b
  <2>1. observe_messages(b.slot, b.op, M)
    BY <1>2
  <2> QED BY <1>2, <2>1, ObserveGood DEF WorkInv
<1>4. /\ ist' = ist /\ info' = info /\ nextOp' = nextOp /\ failures' = failures
      /\ active' = [active EXCEPT ![s].observed = @ \cup (M \ BatchMsgs(active[s]))]
  BY DEF observe_messages, intentVars
<1>5. \A t \in Slots : /\ active'[t].op = active[t].op
                       /\ active'[t].intents = active[t].intents
                       /\ active'[t].lane = active[t].lane
                       /\ \/ active'[t].observed = active[t].observed
                          \/ t = s /\ active'[t].observed \subseteq active[t].observed \cup M
  BY <1>4 DEF WorkInv, Good, WorkTypeOK, ActiveBatch
<1>6. \A t \in Slots : \A m \in active'[t].observed : Addressed(m, t)
  BY <1>5 DEF WorkInv, WorkRows
<1> QED
  BY <1>3, <1>4, <1>5, <1>6, QuietStep, SameCounts DEF WorkInv, Good

\* fail_batch: the failures it counts are the intents it fails.
LEMMA FailStep ==
  ASSUME WorkInv, mail' = mail, NEW b \in WorkBatch, Copy(b), fail_batch(b)
  PROVE  WorkStep
<1>1. Good'
  BY FailGood DEF WorkInv
<1>2. /\ info' = info /\ nextOp' = nextOp /\ is_current_batch(b)
      /\ failures' = FailedCounts(b)
      /\ SetState(b.intents, "Failed") /\ active' = [active EXCEPT ![b.slot] = NoBatch]
  BY DEF fail_batch
<1>3. b.slot \in Slots /\ b.intents \subseteq IntentIds
  BY DEF WorkBatch
<1>4. WorkTypeOK /\ WorkTypeOK' /\ WorkRows /\ CountsBacked
  BY <1>1 DEF WorkInv, Good
<1>5. WorkKept /\ WorkRows'
  BY <1>2, <1>4, OwnedChange, OneDropped, NothingNew
<1>6. ASSUME NEW s \in Slots, NEW m \in Msgs
      PROVE  failures'[s][m] <= Cardinality(Ended(m, "Failed")')
  <2> DEFINE X == {i \in b.intents : info[i].msg = m}
  <2>1. failures[s][m] \in Nat /\ failures[s][m] <= Cardinality(Ended(m, "Failed"))
    <3>1. failures[s][m] \in 0..255
      BY <1>4 DEF WorkTypeOK
    <3> QED BY <1>4, <3>1 DEF CountsBacked
  <2>2. IsFiniteSet(Ended(m, "Failed")) /\ Cardinality(Ended(m, "Failed")) \in Nat
    BY EndedFinite
  <2>3. /\ Cardinality(Ended(m, "Failed")') \in Nat
        /\ Cardinality(Ended(m, "Failed")) <= Cardinality(Ended(m, "Failed")')
    BY <1>5, EndedKept DEF Terminal
  <2>4. CASE s # b.slot
    <3>1. failures'[s] = failures[s]
      BY <1>2, <1>3, <1>4, <2>4 DEF FailedCounts, WorkTypeOK
    <3> QED BY <2>1, <2>2, <2>3, <3>1
  <2>5. CASE s = b.slot
    <3>1. IsFiniteSet(X) /\ Cardinality(X) \in Nat
      <4>1. X \subseteq IntentIds
        BY <1>3
      <4>2. IsFiniteSet(IntentIds)
        BY FS_Interval, ConstantsAssumption DEF IntentIds
      <4> QED BY <4>1, <4>2, FS_Subset, FS_CardinalityType
    <3>2. Ended(m, "Failed")' = Ended(m, "Failed") \cup X
      BY <1>2, <1>3 DEF Ended, SetState
    <3>3. Ended(m, "Failed") \cap X = {}
      <4>1. \A i \in b.intents : ist[i] \in {"Starting", "Running"}
        BY <1>2, CurrentFacts DEF WorkInv
      <4> QED BY <4>1 DEF Ended
    <3>4. Cardinality(Ended(m, "Failed")') = Cardinality(Ended(m, "Failed")) + Cardinality(X)
      <4>1. Cardinality(Ended(m, "Failed") \cap X) = 0
        BY <3>3, FS_EmptySet
      <4>2. Cardinality(Ended(m, "Failed") \cup X)
              = Cardinality(Ended(m, "Failed")) + Cardinality(X)
                - Cardinality(Ended(m, "Failed") \cap X)
        BY <2>2, <3>1, FS_Union
      <4>3. Cardinality(Ended(m, "Failed")') = Cardinality(Ended(m, "Failed") \cup X)
        BY <3>2
      <4> QED BY <2>2, <3>1, <4>1, <4>2, <4>3
    <3>5. failures'[s][m] <= failures[s][m] + Cardinality(X)
      <4> DEFINE Burnt(n) == failures[s][n] + Cardinality({i \in b.intents : info[i].msg = n})
                 f == [n \in Msgs |-> IF Burnt(n) <= 255 THEN Burnt(n) ELSE 255]
      <4>1. failures'[s] = f
        BY <1>2, <1>3, <1>4, <2>5 DEF FailedCounts, WorkTypeOK
      <4>2. failures'[s][m] = IF Burnt(m) <= 255 THEN Burnt(m) ELSE 255
        <5> HIDE DEF Burnt
        <5> QED BY <4>1
      <4>3. Burnt(m) = failures[s][m] + Cardinality(X)
        OBVIOUS
      <4> HIDE DEF Burnt, X
      <4> QED BY <2>1, <3>1, <4>2, <4>3
    <3>6. failures'[s][m] \in Nat
      <4>1. failures'[s][m] \in 0..255
        BY <1>4 DEF WorkTypeOK
      <4> QED BY <4>1
    <3> HIDE DEF X
    <3> QED BY <2>1, <2>2, <3>1, <3>4, <3>5, <3>6
  <2> QED BY <2>4, <2>5
<1>7. CountsBacked'
  BY <1>6 DEF CountsBacked
<1> QED
  BY <1>1, <1>5, <1>7 DEF WorkStep, WorkInv

\* A step that gives unborn intents a row of their slot and may claim.
LEMMA NewIntents ==
  ASSUME WorkInv, Good', mail' = mail, nextOp <= nextOp',
         \A i \in IntentIds : ist[i] # "Unborn" => ist'[i] # "Unborn" /\ info'[i] = info[i],
         \A i \in IntentIds : ist[i] \in Terminal => ist'[i] = ist[i],
         \A i \in IntentIds :
           ist[i] = "Unborn" /\ ist'[i] # "Unborn" /\ info'[i].msg # NoMsg
             => Addressed(info'[i].msg, info'[i].slot),
         \A s \in Slots :
           \/ active'[s] = active[s]
           \/ /\ nextOp < active'[s].op /\ active'[s].op <= nextOp'
              /\ active'[s].observed = {}
              /\ \A i \in active'[s].intents :
                   ist[i] # "Unborn" /\ i \in IntentIds /\ info[i].msg # NoMsg,
         \A s \in Slots, m \in Msgs : failures'[s][m] <= failures[s][m]
  PROVE  WorkStep
<1>1. WorkTypeOK /\ WorkTypeOK' /\ WorkRows /\ CountsBacked /\ WorkOwnership
  BY DEF WorkInv, Good
<1>2. WorkKept
  BY DEF WorkKept
<1>3. ASSUME NEW i \in IntentIds, ist'[i] # "Unborn", info'[i].msg # NoMsg
      PROVE  Addressed(info[i].msg, info[i].slot)'
  <2>1. CASE ist[i] # "Unborn"
    <3>1. info'[i] = info[i] /\ Addressed(info[i].msg, info[i].slot)
      BY <1>1, <1>3, <2>1 DEF WorkRows
    <3> QED BY <3>1 DEF Addressed, Written
  <2>2. CASE ist[i] = "Unborn"
    BY <1>3, <2>2 DEF Addressed, Written
  <2> QED BY <2>1, <2>2
<1>4. ASSUME NEW s \in Slots
      PROVE  /\ \A i \in active'[s].intents : info'[i].msg # NoMsg
             /\ \A m \in active'[s].observed : Addressed(m, s)'
             /\ active'[s].op <= nextOp'
  <2>1. CASE active'[s] = active[s]
    <3>1. \A i \in active[s].intents : i \in IntentIds /\ ist[i] # "Unborn"
      BY <1>1 DEF WorkOwnership, ActiveInPlace
    <3>2. \A i \in active[s].intents : info'[i].msg # NoMsg
      BY <1>1, <3>1 DEF WorkRows
    <3>3. \A m \in active[s].observed : Addressed(m, s)'
      BY <1>1 DEF WorkRows, Addressed, Written
    <3>4. active[s].op \in Nat /\ nextOp \in Nat /\ nextOp' \in Nat /\ active[s].op <= nextOp
      BY <1>1 DEF WorkTypeOK, ActiveBatch, WorkRows
    <3> QED BY <2>1, <3>2, <3>3, <3>4
  <2>2. CASE /\ active'[s].op <= nextOp'
             /\ active'[s].observed = {}
             /\ \A i \in active'[s].intents :
                  ist[i] # "Unborn" /\ i \in IntentIds /\ info[i].msg # NoMsg
    BY <2>2
  <2> QED BY <2>1, <2>2
<1>5. WorkRows'
  BY <1>3, <1>4 DEF WorkRows
<1>6. CountsBacked'
  BY <1>1, <1>2, CountsKept
<1> QED
  BY <1>2, <1>5, <1>6 DEF WorkStep, WorkInv

\* commit_enqueue
LEMMA CommitStep ==
  ASSUME WorkInv, mail' = mail, NEW l \in leases, NEW m \in Msgs \cup {NoMsg},
         m # NoMsg => Addressed(m, l.slot), commit_enqueue(l, m)
  PROVE  WorkStep
<1>1. Good'
  BY CommitGood DEF WorkInv
<1>2. PICK i \in IntentIds :
       /\ Fresh(i)
       /\ SetState({i}, "Queued")
       /\ info' = [info EXCEPT ![i] = [slot |-> l.slot, source |-> l.source,
                                       msg |-> m, run |-> l.run]]
  BY DEF commit_enqueue
<1>3. active' = active /\ nextOp' = nextOp /\ failures' = failures
  BY DEF commit_enqueue
<1>4. \A j \in IntentIds : j # i => ist'[j] = ist[j] /\ info'[j] = info[j]
  BY <1>2 DEF SetState, WorkInv, Good, WorkTypeOK
<1>5. ist[i] = "Unborn" /\ info'[i].slot = l.slot /\ info'[i].msg = m
  BY <1>2 DEF Fresh, WorkInv, Good, WorkTypeOK
<1>6. \A j \in IntentIds : ist[j] # "Unborn" => ist'[j] # "Unborn" /\ info'[j] = info[j]
  BY <1>4, <1>5
<1>7. \A j \in IntentIds : ist[j] \in Terminal => ist'[j] = ist[j]
  BY <1>4, <1>5 DEF Terminal
<1>8. \A j \in IntentIds :
        ist[j] = "Unborn" /\ ist'[j] # "Unborn" /\ info'[j].msg # NoMsg
          => Addressed(info'[j].msg, info'[j].slot)
  BY <1>4, <1>5
<1>9. nextOp <= nextOp'
  BY <1>3 DEF WorkInv, Good, WorkTypeOK
<1> QED
  BY <1>1, <1>3, <1>6, <1>7, <1>8, <1>9, NewIntents, SameCounts DEF WorkInv, Good

\* reconcile_mailbox_snapshot adopts rows of the slot only.
LEMMA ReconcileStep ==
  ASSUME WorkInv, mail' = mail, NEW s \in Slots, NEW unread \in SUBSET Msgs,
         \A m \in unread : Addressed(m, s), NEW cands \in SUBSET IntentIds,
         reconcile_mailbox_snapshot(s, unread, cands)
  PROVE  WorkStep
<1> DEFINE stale == {i \in queued_ids(s) :
                       info[i].msg # NoMsg /\ info[i].msg \notin unread /\ i \in cands}
           news  == Unowned(s, unread)
<1>1. Good'
  BY ReconcileGood DEF WorkInv
<1>2. PICK new \in [news -> IntentIds] :
       /\ \A m \in news : ist[new[m]] = "Unborn"
       /\ LET born == {new[m] : m \in news}
              row(i) == CHOOSE m \in news : new[m] = i
          IN /\ ist' = [i \in IntentIds |-> IF i \in stale THEN "Completed"
                                            ELSE IF i \in born THEN "Queued" ELSE ist[i]]
             /\ info' = [i \in IntentIds |->
                           IF i \in born
                             THEN [slot |-> s, source |-> "RecoveryDrain",
                                   msg |-> row(i), run |-> NoRun]
                             ELSE info[i]]
  BY DEF reconcile_mailbox_snapshot
<1> DEFINE born == {new[m] : m \in news}
           row(i) == CHOOSE m \in news : new[m] = i
<1>3. /\ ist' = [i \in IntentIds |-> IF i \in stale THEN "Completed"
                                     ELSE IF i \in born THEN "Queued" ELSE ist[i]]
      /\ info' = [i \in IntentIds |->
                    IF i \in born THEN [slot |-> s, source |-> "RecoveryDrain",
                                        msg |-> row(i), run |-> NoRun]
                    ELSE info[i]]
  BY <1>2
<1>4. active' = active /\ nextOp' = nextOp /\ failures' = ClearCounts(s, Msgs \ unread)
  BY DEF reconcile_mailbox_snapshot
<1>5. \A i \in stale : ist[i] = "Queued"
  BY DEF queued_ids, WorkInv, Good, WorkOwnership, QueuedInPlace
<1>6. \A i \in born : ist[i] = "Unborn"
  BY <1>2
<1>7. \A i \in born : row(i) \in unread
  BY DEF Unowned
<1>8. \A j \in IntentIds : ist[j] # "Unborn" => ist'[j] # "Unborn" /\ info'[j] = info[j]
  <2> HIDE DEF stale, born, row
  <2> QED BY <1>3, <1>6
<1>9. \A j \in IntentIds : ist[j] \in Terminal => ist'[j] = ist[j]
  <2> HIDE DEF stale, born, row
  <2> QED BY <1>3, <1>5, <1>6 DEF Terminal
<1>10. \A j \in IntentIds :
         ist[j] = "Unborn" /\ ist'[j] # "Unborn" /\ info'[j].msg # NoMsg
           => Addressed(info'[j].msg, info'[j].slot)
  <2> HIDE DEF stale, born, row
  <2> QED BY <1>3, <1>5, <1>7
<1>11. nextOp <= nextOp'
  BY <1>4 DEF WorkInv, Good, WorkTypeOK
<1>12. \A t \in Slots, m \in Msgs : failures'[t][m] <= failures[t][m]
  BY <1>4, ClearedCounts DEF WorkInv, Good
<1> HIDE DEF stale, news, born, row
<1> QED
  BY <1>1, <1>4, <1>8, <1>9, <1>10, <1>11, <1>12, NewIntents

\* next hands out an operation id that no batch had before.
LEMMA NextStep ==
  ASSUME WorkInv, mail' = mail, NEW s \in Slots, next(s)
  PROVE  /\ WorkStep
         /\ nextOp < active'[s].op
         /\ \A t \in Slots \ {s} : active'[t] = active[t]
<1>1. Good'
  BY NextGood DEF WorkInv
<1>2. PICK l \in Lanes :
    /\ nextOp' = nextOp + 1
    /\ SetState(LeadingRun(s, l), "Starting")
    /\ active' = [active EXCEPT ![s] = [op |-> nextOp + 1, intents |-> LeadingRun(s, l),
                                        lane |-> l, turn |-> FALSE, observed |-> {}]]
  BY DEF next
<1>3. info' = info /\ failures' = failures
  BY DEF next
<1>4. nextOp \in Nat /\ nextOp' \in Nat /\ nextOp < nextOp + 1 /\ nextOp <= nextOp'
  BY <1>2 DEF WorkInv, Good, WorkTypeOK
<1>5. \A i \in LeadingRun(s, l) : i \in IntentIds /\ ist[i] = "Queued" /\ info[i].msg # NoMsg
  BY DEF LeadingRun, WorkInv, Good, WorkOwnership, QueuedInPlace
<1>6. /\ active'[s] = [op |-> nextOp + 1, intents |-> LeadingRun(s, l),
                       lane |-> l, turn |-> FALSE, observed |-> {}]
      /\ \A t \in Slots \ {s} : active'[t] = active[t]
  BY <1>2 DEF WorkInv, Good, WorkTypeOK
<1>7. \A i \in IntentIds : ist[i] # "Unborn" => ist'[i] # "Unborn" /\ info'[i] = info[i]
  BY <1>2, <1>3 DEF SetState
<1>8. \A i \in IntentIds : /\ ist[i] \in Terminal => ist'[i] = ist[i]
                           /\ ist[i] = "Unborn" => ist'[i] = "Unborn"
  BY <1>2, <1>5 DEF SetState, Terminal
<1>9. \A t \in Slots :
        \/ active'[t] = active[t]
        \/ /\ nextOp < active'[t].op /\ active'[t].op <= nextOp'
           /\ active'[t].observed = {}
           /\ \A i \in active'[t].intents :
                ist[i] # "Unborn" /\ i \in IntentIds /\ info[i].msg # NoMsg
  BY <1>2, <1>4, <1>5, <1>6
<1>10. WorkStep
  BY <1>1, <1>3, <1>4, <1>7, <1>8, <1>9, NewIntents, SameCounts DEF WorkInv, Good
<1> QED
  BY <1>4, <1>6, <1>10
-----------------------------------------------------------------------------
(* What the mailbox keeps.                                                 *)

\* The coordinator is not touched.
LEMMA SameWork ==
  ASSUME WorkInv, MailKept, UNCHANGED workVars
  PROVE  WorkStep
<1>1. /\ ist' = ist /\ info' = info /\ active' = active /\ nextOp' = nextOp
      /\ failures' = failures /\ queue' = queue
  BY DEF workVars, intentVars, slotVars
<1>2. WorkTypeOK'
  BY DEF WorkInv, Good, WorkTypeOK, workVars, intentVars, slotVars
<1>3. WorkOwnership'
  BY <1>1, FrameOwnership DEF WorkInv, Good
<1>4. WorkKept
  BY <1>1 DEF WorkKept, WorkInv, Good, WorkTypeOK
<1>5. WorkRows'
  <2>1. ASSUME NEW i \in IntentIds, ist'[i] # "Unborn", info'[i].msg # NoMsg
        PROVE  Addressed(info[i].msg, info[i].slot)'
    <3>1. Addressed(info[i].msg, info[i].slot) /\ info'[i] = info[i]
      BY <1>1, <2>1 DEF WorkInv, WorkRows
    <3> QED BY <3>1 DEF Addressed, MailKept
  <2>2. ASSUME NEW s \in Slots
        PROVE  /\ \A i \in active'[s].intents : info'[i].msg # NoMsg
               /\ \A m \in active'[s].observed : Addressed(m, s)'
               /\ active'[s].op <= nextOp'
    <3>1. \A m \in active[s].observed : Addressed(m, s)'
      BY DEF WorkInv, WorkRows, Addressed, MailKept
    <3> QED BY <1>1, <3>1 DEF WorkInv, WorkRows
  <2> QED BY <2>1, <2>2 DEF WorkRows
<1>6. CountsBacked'
  BY <1>1, <1>2, <1>4, CountsKept, SameCounts DEF WorkInv, Good
<1> QED
  BY <1>2, <1>3, <1>4, <1>5, <1>6 DEF WorkStep, WorkInv, Good

\* The mailbox is not touched.
LEMMA SameMail ==
  ASSUME mail' = mail, FiniteMail
  PROVE  MailKept /\ FiniteMail' /\ \A n \in Msgs : WasRead(n)' => WasRead(n)
  BY DEF MailKept, FiniteMail, Written, WasRead

\* A new row is the only one that changes.
LEMMA WriteKept ==
  ASSUME mail \in [Msgs -> Row], FiniteMail, NEW m \in Msgs, NEW to \in Slots,
         NEW from \in Slots \cup {User}, write(m, to, from)
  PROVE  /\ mail' \in [Msgs -> Row]
         /\ MailKept /\ FiniteMail'
         /\ Written(m)' /\ mail'[m].to = to /\ mail'[m].from = from
         /\ \A n \in Msgs : WasRead(n)' => WasRead(n)
<1>1. mail[m].st = "unwritten" /\ mail' = [mail EXCEPT ![m] = [to |-> to, from |-> from, st |-> "unread"]]
  BY DEF write, IsNextRow
<1>2. /\ mail'[m] = [to |-> to, from |-> from, st |-> "unread"]
      /\ \A n \in Msgs : n # m => mail'[n] = mail[n]
  BY <1>1
<1>3. mail' \in [Msgs -> Row]
  <2>1. [to |-> to, from |-> from, st |-> "unread"] \in Row
    BY DEF Row
  <2> QED BY <1>1, <2>1
<1>4. MailKept
  BY <1>1, <1>2 DEF MailKept, Written, WasRead
<1>5. \A n \in Msgs : WasRead(n)' => WasRead(n)
  BY <1>2 DEF WasRead
<1>6. FiniteMail'
  <2>1. {n \in Msgs : Written(n)}' = {n \in Msgs : Written(n)} \cup {m}
    BY <1>2 DEF Written
  <2>2. IsFiniteSet({n \in Msgs : Written(n)} \cup {m})
    BY FS_AddElement DEF FiniteMail
  <2> QED BY <2>1, <2>2 DEF FiniteMail
<1> QED
  BY <1>2, <1>3, <1>4, <1>5, <1>6 DEF Written

\* Marking rows read changes nothing else.
LEMMA ReadKept ==
  ASSUME mail \in [Msgs -> Row], FiniteMail, NEW M, \A m \in M : Written(m),
         mark_read_batch(M)
  PROVE  /\ mail' \in [Msgs -> Row]
         /\ MailKept /\ FiniteMail'
         /\ \A n \in Msgs : WasRead(n)' <=> WasRead(n) \/ n \in M
<1>1. \A n \in Msgs : mail'[n] = IF n \in M THEN [mail[n] EXCEPT !.st = "read"] ELSE mail[n]
  BY DEF mark_read_batch
<1>2. \A n \in Msgs : /\ mail'[n].to = mail[n].to
                      /\ mail'[n].st = IF n \in M THEN "read" ELSE mail[n].st
                      /\ mail'[n] \in Row
  BY <1>1 DEF Row
<1>3. mail' \in [Msgs -> Row]
  BY <1>2 DEF mark_read_batch
<1>4. MailKept
  BY <1>2 DEF MailKept, Written, WasRead
<1>5. \A n \in Msgs : WasRead(n)' <=> WasRead(n) \/ n \in M
  BY <1>2 DEF WasRead
<1>6. FiniteMail'
  <2>1. {n \in Msgs : Written(n)}' = {n \in Msgs : Written(n)}
    BY <1>2 DEF Written
  <2> QED BY <2>1 DEF FiniteMail
<1> QED
  BY <1>3, <1>4, <1>5, <1>6

\* Every row that is read stays accounted for.
LEMMA SettledKept ==
  ASSUME Kept, SettledAccounted,
         \A n \in Msgs : WasRead(n)' => WasRead(n) \/ Accounted(n) \/ Accounted(n)'
  PROVE  SettledAccounted'
  BY AccountedKept DEF SettledAccounted

\* The newest and the oldest of some rows are among them.
LEMMA NewestRow ==
  ASSUME FiniteMail, NEW S \in SUBSET {m \in Msgs : Written(m)}, S # {}
  PROVE  Max(S) \in S /\ Min(S) \in S
<1>1. IsFiniteSet(S)
  BY FS_Subset DEF FiniteMail
<1>2. S \in SUBSET Nat
  BY ConstantsAssumption
<1>3. PICK n \in Nat : \E f \in [1..n -> S] : \A x \in S : \E i \in 1..n : f[i] = x
  BY <1>1, FS_NatSurjection DEF ExistsSurjection, Surjection
<1>4. PICK f \in [1..n -> S] : \A x \in S : \E i \in 1..n : f[i] = x
  BY <1>3
<1> DEFINE g == [i \in 1..n |-> 0 - f[i]]
<1>5. \A i \in 1..n : f[i] \in S /\ f[i] \in Nat
  BY <1>2, <1>4
<1>6. g \in [1..n -> Int]
  BY <1>5
<1>7. 1..n # {} /\ (1..n) \in SUBSET (1..n)
  BY <1>4
<1>8. PICK a \in 1..n : \A b \in 1..n : g[a] <= g[b]
  <2> HIDE DEF g
  <2> QED BY <1>6, <1>7, LeastValue
<1>9. \A b \in 1..n : f[a] >= f[b]
  <2>1. SUFFICES ASSUME NEW b \in 1..n PROVE f[a] >= f[b]
    OBVIOUS
  <2>2. f[a] \in Nat /\ f[b] \in Nat /\ g[a] = 0 - f[a] /\ g[b] = 0 - f[b] /\ g[a] <= g[b]
    BY <1>5, <1>8
  <2> QED BY <2>2
<1>10. f[a] \in S /\ \A y \in S : f[a] >= y
  BY <1>4, <1>5, <1>9
<1>11. Max(S) \in S
  BY <1>10 DEF Max
<1>12. \E x \in S : \A y \in S : x <= y
  BY <1>2, LeastNatural
<1>13. Min(S) \in S
  BY <1>12 DEF Min
<1> QED
  BY <1>11, <1>13
-----------------------------------------------------------------------------
(* The frame of a step of one request.                                     *)

\* What the conjuncts of the invariant come to.
LEMMA InvFacts ==
  ASSUME Inv
  PROVE  /\ TypeOK /\ WorkTypeOK /\ LoopTypeOK
         /\ mail \in [Msgs -> Row] /\ loop \in [Slots -> LoopState]
         /\ call \in [Procs -> CallState] /\ faults \in Nat
         /\ WorkInv /\ FiniteMail /\ LeaseOK /\ LoopsAlone
         /\ DeliveredRead /\ NoRedelivery /\ SettledAccounted /\ PauseCancels
         /\ \A c \in Procs : CallOK(c)
         /\ \A s \in Slots : LoopOK(s)
<1>1. TypeOK
  BY DEF Inv
<1>2. faults \in Nat
  BY <1>1, EventLoopAssumption DEF TypeOK, LoopTypeOK
<1> QED
  BY <1>1, <1>2 DEF Inv, WorkInv, Good, TypeOK, LoopTypeOK

\* No loop moves and nothing is delivered.
LEMMA LoopsIdle ==
  ASSUME Inv, TypeOK', Kept, loop' = loop, delivered' = delivered
  PROVE  DeliveredRead' /\ NoRedelivery'
<1>1. MailFailed => MailFailed'
  <2>1. faults \in Nat /\ faults' \in Nat
    BY EventLoopAssumption, InvFacts DEF TypeOK, LoopTypeOK
  <2> QED BY <2>1 DEF MailFailed, Kept
<1>2. \A m \in Msgs : WasRead(m) => WasRead(m)'
  BY DEF Kept, MailKept, WasRead, Written
<1>3. DeliveredRead'
  <2>1. delivered \subseteq Msgs
    BY DEF Inv, TypeOK, LoopTypeOK
  <2> QED BY <1>1, <1>2, <2>1 DEF Inv, DeliveredRead, At
<1>4. ASSUME NEW s \in Slots, InTurn(s)
      PROVE  BatchMsgs(Batch(s))' = BatchMsgs(Batch(s))
  <2>1. \A i \in loop[s].b.intents : i \in IntentIds /\ info'[i] = info[i]
    BY InvFacts DEF LoopOK, LoopKnows, BornTo, Kept, WorkKept, LoopState
  <2> QED BY <2>1 DEF BatchMsgs, Batch
<1>5. NoRedelivery'
  <2>1. SUFFICES ASSUME NEW s \in Slots, InTurn(s)'
                 PROVE  BatchMsgs(Batch(s))' \cap delivered' = {} \/ MailFailed'
    BY DEF NoRedelivery, MailFailed
  <2>2. InTurn(s)
    BY <2>1 DEF InTurn
  <2>3. BatchMsgs(Batch(s)) \cap delivered = {} \/ MailFailed
    BY <2>2, InvFacts DEF NoRedelivery, MailFailed
  <2> QED BY <1>1, <1>4, <2>2, <2>3
<1> QED
  BY <1>3, <1>5

\* What a request was about to do to a paused turn, it still is or has done.
PauseStays(c) ==
  call[c].kind = "pause" /\ call[c].pc \in {"stopChild", "dropChild"}
    => \/ faults' # 0
       \/ /\ call'[c].kind = "pause" /\ call'[c].pc \in {"stopChild", "dropChild"}
          /\ call'[c].slot = call[c].slot /\ call'[c].op = call[c].op
       \/ active'[call[c].slot].op # call[c].op

\* A turn on a paused slot is the one that was there before.
LEMMA PauseKept ==
  ASSUME Inv, TypeOK', Kept, loop' = loop, \A s \in Slots : paused'[s] => paused[s],
         NEW c \in Procs, \A d \in Procs \ {c} : call'[d] = call[d], PauseStays(c)
  PROVE  PauseCancels'
<1>1. SUFFICES ASSUME NEW s \in Slots, paused'[s], faults' = 0, loop[s].pc = "run",
                      active'[s].op = loop[s].b.op
               PROVE  \E d \in Procs : /\ call'[d].kind = "pause"
                                       /\ call'[d].slot = s
                                       /\ call'[d].op = loop[s].b.op
                                       /\ call'[d].pc \in {"stopChild", "dropChild"}
  BY DEF PauseCancels, At, Batch
<1>2. faults = 0
  <2>1. faults \in Nat /\ faults' \in Nat /\ faults <= faults'
    BY InvFacts, EventLoopAssumption DEF TypeOK, LoopTypeOK, Kept
  <2> QED BY <1>1, <2>1
<1>3. PICK o \in Nat : o = loop[s].b.op
  BY InvFacts DEF LoopState
<1>4. o # 0 /\ Snapshot(s, o, loop[s].b.intents)
  BY <1>1, <1>3, InvFacts DEF LoopOK, LoopKnows, Holding
<1>5. active[s].op = o
  BY <1>1, <1>3, <1>4, SnapshotKept, InvFacts DEF Kept, TypeOK
<1>6. PICK d \in Procs : /\ call[d].kind = "pause" /\ call[d].slot = s /\ call[d].op = o
                         /\ call[d].pc \in {"stopChild", "dropChild"}
  BY <1>1, <1>2, <1>3, <1>5, InvFacts DEF PauseCancels, At, Batch
<1>7. CASE d # c
  BY <1>1, <1>3, <1>6, <1>7
<1>8. CASE d = c
  BY <1>1, <1>3, <1>6, <1>8 DEF PauseStays
<1> QED
  BY <1>7, <1>8

\* The leases that are left still belong to their request.
LEMMA LeaseKept ==
  ASSUME Inv, leases' \subseteq leases, NEW c \in Procs,
         \A d \in Procs \ {c} : call'[d] = call[d],
         \A l \in leases' : l.id = c => /\ call'[c].slot = call[c].slot
                                        /\ call'[c].pc \in {"write", "commit", "abort"}
  PROVE  LeaseOK'
<1>1. \A l \in leases : l.id \in Procs
  BY TeamSessionAssumption, InvFacts DEF WorkTypeOK, EnqueueLease, Procs
<1>2. LeaseOK
  BY InvFacts
<1> QED
  BY <1>1, <1>2 DEF LeaseOK

\* A step of one request, made of what it changes for itself and for others.
LEMMA CallFrame ==
  ASSUME Inv, TypeOK', WorkStep, MailKept, FiniteMail', SettledAccounted',
         loop' = loop, delivered' = delivered, refused \subseteq refused', faults <= faults',
         NEW c \in Procs, c \notin Slots \/ call[c].pc # "idle",
         \A d \in Procs \ {c} : call'[d] = call[d],
         CallOK(c)', LeaseOK', PauseCancels',
         \A s \in Slots : attach'[s] = "spawn" => attach[s] = "spawn" \/ loop[s].pc = "gone"
  PROVE  Inv'
<1>1. Kept /\ WorkTypeOK'
  BY DEF Kept, WorkStep, WorkInv, Good
<1>2. \A d \in Procs : CallOK(d)'
  BY <1>1, CallKept, InvFacts
<1>3. \A s \in Slots : LoopOK(s)'
  BY <1>1, LoopKept, InvFacts
<1>4. LoopsAlone'
  <2>1. LoopsAlone
    BY InvFacts
  <2>2. ASSUME NEW s \in Slots, loop'[s].pc \notin {"telling", "tellingEnd", "waking"}
        PROVE  call'[s].pc = "idle"
    <3>1. call[s].pc = "idle" /\ s \in Procs
      BY <2>1, <2>2 DEF LoopsAlone, Procs
    <3> QED BY <3>1
  <2> QED BY <2>1, <2>2 DEF LoopsAlone
<1>5. DeliveredRead' /\ NoRedelivery'
  BY <1>1, LoopsIdle
<1> QED
  BY <1>2, <1>3, <1>4, <1>5 DEF Inv, WorkStep, WorkInv, Good

\* A request that moves on with knowledge that was true before it moved.
LEMMA MovesOn ==
  ASSUME Inv, WorkStep, MailKept, delivered' = delivered, refused \subseteq refused',
         faults <= faults', NEW c \in Procs, NEW q \in CallState, Knows(q), call'[c] = q,
         q.pc \in Settling => \A m \in q.rows : Accounted(m) \/ Accounted(m)'
  PROVE  CallOK(c)'
<1>1. Kept /\ WorkTypeOK'
  BY DEF Kept, WorkStep, WorkInv, Good
<1>2. PICK r \in CallState : r = q
  OBVIOUS
<1>3. Knows(r)'
  BY <1>1, <1>2, KnownKept, InvFacts
<1>4. r.pc \in Settling => \A m \in r.rows : Accounted(m)'
  BY <1>1, <1>2, AccountedKept
<1>5. call'[c] = r
  BY <1>2
<1> QED
  BY <1>3, <1>4, <1>5 DEF CallOK

\* A step of one request that leaves the coordinator and the mailbox alone.
LEMMA LocalCall ==
  ASSUME Inv, TypeOK', UNCHANGED <<workVars, mail, loop, delivered>>,
         refused \subseteq refused', faults <= faults',
         NEW c \in Procs, c \notin Slots \/ call[c].pc # "idle",
         NEW q \in CallState, Knows(q), call' = [call EXCEPT ![c] = q],
         q.pc \in Settling => \A m \in q.rows : Accounted(m),
         \A l \in leases : l.id = c => /\ q.slot = call[c].slot
                                       /\ q.pc \in {"write", "commit", "abort"},
         PauseStays(c),
         \A s \in Slots : attach'[s] = "spawn" => attach[s] = "spawn" \/ loop[s].pc = "gone"
  PROVE  Inv'
<1>1. MailKept /\ FiniteMail' /\ \A n \in Msgs : WasRead(n)' => WasRead(n)
  BY SameMail, InvFacts
<1>2. WorkStep
  BY <1>1, SameWork, InvFacts
<1>3. Kept
  BY <1>1, <1>2 DEF Kept, WorkStep
<1>4. SettledAccounted'
  BY <1>1, <1>3, SettledKept, InvFacts
<1>5. call'[c] = q /\ \A d \in Procs \ {c} : call'[d] = call[d]
  BY InvFacts
<1>6. CallOK(c)'
  BY <1>1, <1>2, <1>5, MovesOn
<1>7. leases' = leases /\ paused' = paused /\ loop' = loop /\ delivered' = delivered
  BY DEF workVars, slotVars
<1>8. LeaseOK'
  <2>1. \A l \in leases' : l.id = c => /\ call'[c].slot = call[c].slot
                                       /\ call'[c].pc \in {"write", "commit", "abort"}
    BY <1>5, <1>7
  <2> QED BY <1>5, <1>7, <2>1, LeaseKept
<1>9. PauseCancels'
  BY <1>3, <1>5, <1>7, PauseKept
<1> QED
  BY <1>1, <1>2, <1>4, <1>5, <1>6, <1>7, <1>8, <1>9, CallFrame
-----------------------------------------------------------------------------
(* Moves of one request.                                                   *)

\* What a request remembers is typed and true.
LEMMA CallFields ==
  ASSUME Inv, NEW c \in Procs
  PROVE  /\ call[c] \in CallState
         /\ call[c].pc \in CallPcs /\ call[c].slot \in Slots /\ call[c].op \in Nat
         /\ call[c].intents \subseteq IntentIds /\ call[c].rows \subseteq Msgs
         /\ call[c].msg \in Msgs \cup {NoMsg} /\ call[c].from \in Slots \cup {User}
         /\ call[c].turn \in BOOLEAN /\ call[c].kind \in CallKinds
         /\ Knows(call[c])
  BY InvFacts DEF CallState, CallOK

\* The failures that occurred only become more.
LEMMA FaultFacts ==
  ASSUME Inv, NEW k, Fault(k)
  PROVE  faults' \in 0..MaxFaults /\ faults <= faults' /\ faults' # 0
<1>1. faults \in 0..MaxFaults /\ MaxFaults \in Nat
  BY EventLoopAssumption DEF Inv, TypeOK, LoopTypeOK
<1> QED
  BY <1>1 DEF Fault

LEMMA NoFault ==
  ASSUME Inv, UNCHANGED faults
  PROVE  faults' \in 0..MaxFaults /\ faults <= faults'
<1>1. faults \in 0..MaxFaults /\ MaxFaults \in Nat
  BY EventLoopAssumption DEF Inv, TypeOK, LoopTypeOK
<1> QED
  BY <1>1

\* A request keeps the types if it keeps those of what it changes.
LEMMA CallTypes ==
  ASSUME Inv, WorkTypeOK', mail' \in [Msgs -> Row], Quiet, permit' \in [Slots -> BOOLEAN],
         faults' \in 0..MaxFaults, call' \in [Procs -> CallState]
  PROVE  TypeOK'
  BY DEF Inv, TypeOK, LoopTypeOK, Quiet

\* What a request that has answered remembers.
LEMMA ReturnKnows ==
  ASSUME Inv
  PROVE  /\ [NoCall EXCEPT !.pc = "done"] \in CallState
         /\ Knows([NoCall EXCEPT !.pc = "done"])
         /\ [NoCall EXCEPT !.pc = "done"].pc = "done"
         /\ [NoCall EXCEPT !.pc = "done"].kind = "none"
<1> DEFINE q == [NoCall EXCEPT !.pc = "done"]
<1>1. (CHOOSE s \in Slots : TRUE) \in Slots
  BY ConstantsAssumption
<1>2. /\ q.pc = "done" /\ q.kind = "none" /\ q.slot \in Slots /\ q.from = User
      /\ q.msg = NoMsg /\ q.op = 0 /\ q.intents = {} /\ q.turn = FALSE /\ q.rows = {}
  BY <1>1 DEF NoCall
<1>3. q \in CallState
  BY <1>1, EventLoopAssumption DEF NoCall, CallState, CallPcs, CallKinds
<1>4. 0 <= nextOp
  BY InvFacts DEF WorkTypeOK
<1>5. Knows(q)
  <2> HIDE DEF q
  <2> QED BY <1>2, <1>4 DEF Knows, Snapshot
<1> QED
  BY <1>2, <1>3, <1>5

\* A request may move on to p with what it remembers.
MayMove(c, p) ==
  /\ call[c].pc \notin {"inbox", "observe", "settleRun"}
  /\ p \in {"stop", "break", "stopChild", "dropChild"} => call[c].op # 0
  /\ p \in {"scan", "noticeRow", "noticeFind"} => call[c].slot = Lead
  /\ p = "nextRow" => call[c].rows # {}
  /\ p = "pause" => call[c].kind = "pause"
  /\ p = "compensate" => call[c].msg # NoMsg

Moved(c, p) == [call[c] EXCEPT !.pc = p]

\* A request that only moves on keeps what it knows.
LEMMA StepKnows ==
  ASSUME Inv, NEW c \in Procs, NEW p \in CallPcs, MayMove(c, p)
  PROVE  Moved(c, p) \in CallState /\ Knows(Moved(c, p))
<1> DEFINE q == Moved(c, p)
<1>1. call[c] \in CallState /\ Knows(call[c])
  BY CallFields
<1>2. /\ q.pc = p /\ q.kind = call[c].kind /\ q.slot = call[c].slot /\ q.op = call[c].op
      /\ q.msg = call[c].msg /\ q.intents = call[c].intents /\ q.rows = call[c].rows
      /\ q \in CallState
  BY <1>1 DEF CallState, Moved
<1>3. Knows(q)
  <2> HIDE DEF q
  <2> QED BY <1>1, <1>2 DEF Knows, MayMove
<1> QED
  BY <1>2, <1>3

LEMMA StepIs ==
  ASSUME Inv, NEW c \in Procs, NEW p, Step(c, p)
  PROVE  /\ call' = [call EXCEPT ![c] = Moved(c, p)]
         /\ Moved(c, p).pc = p
         /\ Moved(c, p).slot = call[c].slot
         /\ Moved(c, p).op = call[c].op
         /\ Moved(c, p).kind = call[c].kind
         /\ Moved(c, p).rows = call[c].rows
         /\ Moved(c, p).msg = call[c].msg
         /\ call'[c] = Moved(c, p)
         /\ \A d \in Procs \ {c} : call'[d] = call[d]
<1>1. call[c] \in CallState /\ call \in [Procs -> CallState]
  BY CallFields, InvFacts
<1>2. call' = [call EXCEPT ![c].pc = p]
  BY DEF Step
<1> QED
  BY <1>1, <1>2 DEF CallState, Moved

\* The request holds no lease that it is still to use.
Leaseless(c) == \A l \in leases : l.id # c

\* A request has a lease only between acquiring and using it.
LEMMA NoLease ==
  ASSUME Inv, NEW c \in Procs, call[c].pc \notin {"write", "commit", "abort"}
  PROVE  Leaseless(c)
  BY InvFacts DEF LeaseOK, Leaseless

\* The request moves on and touches nothing that others share.
LEMMA LocalStep ==
  ASSUME Inv, UNCHANGED <<workVars, mail>>, Quiet, permit' \in [Slots -> BOOLEAN],
         faults' \in 0..MaxFaults, faults <= faults',
         NEW c \in Procs, call[c].pc # "idle", NEW p \in CallPcs \ Settling,
         Step(c, p), MayMove(c, p),
         Leaseless(c) \/ p \in {"write", "commit", "abort"},
         call[c].pc \notin {"stopChild", "dropChild"} \/ faults' # 0 \/ p = "dropChild"
  PROVE  Inv'
<1> DEFINE q == Moved(c, p)
<1>1. q \in CallState /\ Knows(q)
  BY StepKnows
<1>2. call' = [call EXCEPT ![c] = q] /\ q.pc = p /\ q.slot = call[c].slot
      /\ q.op = call[c].op /\ q.kind = call[c].kind /\ call'[c] = q
  BY StepIs
<1> HIDE DEF q
<1>3. call \in [Procs -> CallState] /\ WorkTypeOK /\ mail \in [Msgs -> Row]
  BY InvFacts
<1>4. call' \in [Procs -> CallState]
  BY <1>1, <1>2, <1>3
<1>5. WorkTypeOK'
  BY <1>3 DEF WorkTypeOK, workVars, intentVars, slotVars
<1>6. TypeOK'
  BY <1>3, <1>4, <1>5, CallTypes
<1>7. PauseStays(c)
  BY <1>2 DEF PauseStays
<1>8. \A l \in leases : l.id = c => /\ q.slot = call[c].slot
                                    /\ q.pc \in {"write", "commit", "abort"}
  BY <1>2 DEF Leaseless
<1>9. q.pc \notin Settling
  BY <1>2
<1>10. /\ UNCHANGED <<workVars, mail, loop, delivered>> /\ refused \subseteq refused'
       /\ \A s \in Slots : attach'[s] = "spawn" => attach[s] = "spawn" \/ loop[s].pc = "gone"
  BY DEF Quiet
<1> QED
  BY <1>1, <1>2, <1>6, <1>7, <1>8, <1>9, <1>10, LocalCall

\* The same with other contents.
LEMMA LocalMove ==
  ASSUME Inv, UNCHANGED <<workVars, mail>>, Quiet, permit' \in [Slots -> BOOLEAN],
         faults' \in 0..MaxFaults, faults <= faults',
         NEW c \in Procs, c \notin Slots \/ call[c].pc # "idle",
         NEW q \in CallState, Knows(q), q.pc \notin Settling, call' = [call EXCEPT ![c] = q],
         Leaseless(c),
         call[c].pc \notin {"stopChild", "dropChild"} \/ faults' # 0
           \/ active[call[c].slot].op # call[c].op
  PROVE  Inv'
<1>3. call \in [Procs -> CallState] /\ WorkTypeOK /\ mail \in [Msgs -> Row]
  BY InvFacts
<1>4. call' \in [Procs -> CallState]
  BY <1>3
<1>5. WorkTypeOK' /\ active' = active
  BY <1>3 DEF WorkTypeOK, workVars, intentVars, slotVars
<1>6. TypeOK'
  BY <1>3, <1>4, <1>5, CallTypes
<1>7. PauseStays(c)
  BY <1>5 DEF PauseStays
<1>10. /\ UNCHANGED <<workVars, mail, loop, delivered>> /\ refused \subseteq refused'
       /\ \A s \in Slots : attach'[s] = "spawn" => attach[s] = "spawn" \/ loop[s].pc = "gone"
  BY DEF Quiet
<1> QED
  BY <1>6, <1>7, <1>10, LocalCall DEF Leaseless

\* The same with the answer.
LEMMA LocalReturn ==
  ASSUME Inv, UNCHANGED <<workVars, mail>>, Quiet, permit' \in [Slots -> BOOLEAN],
         faults' \in 0..MaxFaults, faults <= faults',
         NEW c \in Procs, call[c].pc # "idle", Return(c), Leaseless(c),
         call[c].pc \notin {"stopChild", "dropChild"} \/ faults' # 0
           \/ active[call[c].slot].op # call[c].op
  PROVE  Inv'
<1> DEFINE q == [NoCall EXCEPT !.pc = "done"]
<1>1. q \in CallState /\ Knows(q) /\ q.pc = "done"
  BY ReturnKnows
<1>2. call' = [call EXCEPT ![c] = q]
  BY DEF Return
<1>3. q.pc \notin Settling
  BY <1>1 DEF Settling
<1> HIDE DEF q
<1> QED
  BY <1>1, <1>2, <1>3, LocalMove

\* The request runs one operation of the coordinator.
LEMMA WorkCall ==
  ASSUME Inv, WorkStep, mail' = mail, Quiet, permit' = permit, faults' = faults,
         NEW c \in Procs, call[c].pc # "idle",
         NEW q \in CallState, Knows(q), call' = [call EXCEPT ![c] = q],
         q.pc \in Settling => \A m \in q.rows : Accounted(m)',
         LeaseOK', PauseCancels'
  PROVE  Inv'
<1>1. MailKept /\ FiniteMail' /\ \A n \in Msgs : WasRead(n)' => WasRead(n)
  BY SameMail, InvFacts
<1>2. call \in [Procs -> CallState] /\ mail \in [Msgs -> Row] /\ permit \in [Slots -> BOOLEAN]
  BY InvFacts DEF LoopTypeOK
<1>3. faults' \in 0..MaxFaults /\ faults <= faults'
  BY NoFault
<1>4. loop' = loop /\ delivered' = delivered /\ refused \subseteq refused' /\ attach' = attach
  BY DEF Quiet
<1>5. Kept
  BY <1>1, <1>3, <1>4 DEF Kept, WorkStep
<1>6. SettledAccounted'
  BY <1>1, <1>5, SettledKept, InvFacts
<1>7. call'[c] = q /\ (\A d \in Procs \ {c} : call'[d] = call[d]) /\ call' \in [Procs -> CallState]
  BY <1>2
<1>8. CallOK(c)'
  BY <1>1, <1>3, <1>4, <1>7, MovesOn
<1>9. TypeOK'
  <2>1. WorkTypeOK'
    BY DEF WorkStep, WorkInv, Good
  <2> QED BY <1>2, <1>3, <1>7, <2>1, CallTypes
<1> QED
  BY <1>1, <1>3, <1>4, <1>6, <1>7, <1>8, <1>9, CallFrame

\* The request changes rows of the mailbox.
LEMMA MailCall ==
  ASSUME Inv, UNCHANGED workVars, mail' \in [Msgs -> Row], MailKept, FiniteMail', TypeOK',
         UNCHANGED <<loop, delivered, attach>>, refused \subseteq refused',
         faults <= faults', NEW c \in Procs, call[c].pc # "idle",
         \A d \in Procs \ {c} : call'[d] = call[d], CallOK(c)',
         \A n \in Msgs : WasRead(n)' => WasRead(n) \/ Accounted(n) \/ Accounted(n)',
         Leaseless(c) \/ (call'[c].slot = call[c].slot /\ call'[c].pc = "commit"),
         call[c].pc \notin {"stopChild", "dropChild"}
  PROVE  Inv'
<1>1. WorkStep
  BY SameWork, InvFacts
<1>2. Kept
  BY <1>1 DEF Kept, WorkStep
<1>3. SettledAccounted'
  BY <1>2, SettledKept, InvFacts
<1>4. leases' = leases /\ paused' = paused
  BY DEF workVars, slotVars
<1>5. LeaseOK'
  BY <1>4, LeaseKept DEF Leaseless
<1>6. PauseCancels'
  BY <1>2, <1>4, PauseKept DEF PauseStays
<1> QED
  BY <1>1, <1>3, <1>5, <1>6, CallFrame

\* The same when the operation takes no lease and pauses no slot.
LEMMA WorkMove ==
  ASSUME Inv, WorkStep, mail' = mail, Quiet, permit' = permit, faults' = faults,
         NEW c \in Procs, call[c].pc # "idle",
         NEW q \in CallState, Knows(q), call' = [call EXCEPT ![c] = q],
         q.pc \in Settling => \A m \in q.rows : Accounted(m)',
         leases' \subseteq leases, \A l \in leases' : l.id # c,
         \A s \in Slots : paused'[s] => paused[s], PauseStays(c)
  PROVE  Inv'
<1>1. \A d \in Procs \ {c} : call'[d] = call[d]
  BY InvFacts
<1>2. LeaseOK'
  BY <1>1, LeaseKept
<1>3. MailKept /\ WorkTypeOK' /\ faults' \in 0..MaxFaults /\ faults <= faults'
  BY SameMail, NoFault, InvFacts DEF WorkStep, WorkInv, Good
<1>4. call' \in [Procs -> CallState]
  BY InvFacts
<1>5. permit' \in [Slots -> BOOLEAN]
  BY InvFacts DEF LoopTypeOK
<1>6. TypeOK'
  BY <1>3, <1>4, <1>5, CallTypes, InvFacts
<1>7. Kept /\ loop' = loop
  BY <1>3 DEF Kept, Quiet, WorkStep
<1>8. PauseCancels'
  BY <1>1, <1>6, <1>7, PauseKept
<1> QED
  BY <1>2, <1>8, WorkCall
-----------------------------------------------------------------------------
(* The enqueue protocol keeps the invariant.                               *)

\* A notification, or none.
LEMMA PermitSame ==
  ASSUME Inv
  PROVE  /\ permit' = permit => permit' \in [Slots -> BOOLEAN]
         /\ \A s : Notify(s) => permit' \in [Slots -> BOOLEAN]
<1>1. permit \in [Slots -> BOOLEAN]
  BY InvFacts DEF LoopTypeOK
<1> QED
  BY <1>1 DEF Notify, At

LEMMA EnsureKeeps ==
  ASSUME Inv, NEW c \in Procs, ensure_member_runtime_lazy(c)
  PROVE  Inv'
<1> DEFINE q == Moved(c, "publish")
<1>1. call[c].pc = "ensure" /\ Step(c, "publish") /\ "publish" \in CallPcs
  BY DEF ensure_member_runtime_lazy, In, CallPcs
<1>2. MayMove(c, "publish")
  BY <1>1 DEF MayMove
<1>3. q \in CallState /\ Knows(q)
  BY <1>1, <1>2, StepKnows
<1>4. call' = [call EXCEPT ![c] = q] /\ q.pc = "publish"
  BY <1>1, StepIs
<1> HIDE DEF q
<1>5. /\ UNCHANGED <<workVars, mail, loop, delivered, permit, status, faults, recovered, refused>>
      /\ runtime' \in [Slots -> {"Absent", "Attaching", "Ready"}]
      /\ attach' \in [Slots -> {"none", "spawn", "commit", "publish", "notify", "republish",
                                "renotify", "done"}]
  BY InvFacts DEF ensure_member_runtime_lazy, TypeOK, LoopTypeOK
<1>6. \A s \in Slots : attach'[s] = "spawn" => attach[s] = "spawn" \/ loop[s].pc = "gone"
  BY InvFacts DEF ensure_member_runtime_lazy, Dormant, At, TypeOK
<1>7. WorkTypeOK'
  BY <1>5, InvFacts DEF WorkTypeOK, workVars, intentVars, slotVars
<1>8. TypeOK'
  BY <1>3, <1>4, <1>5, <1>7, InvFacts DEF TypeOK, LoopTypeOK
<1>9. faults <= faults' /\ refused \subseteq refused'
  BY <1>5, NoFault
<1>10. Leaseless(c) /\ PauseStays(c)
  BY <1>1, NoLease DEF PauseStays
<1>11. q.pc \notin Settling
  BY <1>4 DEF Settling
<1> QED
  BY <1>1, <1>3, <1>4, <1>5, <1>6, <1>8, <1>9, <1>10, <1>11, LocalCall DEF Leaseless

LEMMA ReadRuntimeKeeps ==
  ASSUME Inv, NEW c \in Procs, ReadRuntime(c)
  PROVE  Inv'
<1>1. /\ call[c].pc = "publish" /\ Step(c, "setStarting")
      /\ UNCHANGED <<workVars, mail, permit, faults>> /\ Quiet
      /\ "setStarting" \in CallPcs \ Settling
  BY DEF ReadRuntime, In, CallPcs, Settling
<1>2. MayMove(c, "setStarting") /\ Leaseless(c)
  BY <1>1, NoLease DEF MayMove
<1> QED
  BY <1>1, <1>2, LocalStep, NoFault, PermitSame

\* Nothing a request holds depends on a lease or a pause before it acquires.
LEMMA PublishKeeps ==
  ASSUME Inv, NEW c \in Procs, PublishConstraint(c)
  PROVE  Inv'
<1> DEFINE s == call[c].slot
           p == IF call[c].kind \in Interrupts THEN "look" ELSE "acquire"
           q == Moved(c, p)
<1>1. /\ call[c].pc \in {"publish", "setStarting"} /\ Step(c, p)
      /\ UNCHANGED <<mail, permit, faults>> /\ Quiet
      /\ p \in CallPcs /\ p \notin Settling /\ s \in Slots
  BY CallFields DEF PublishConstraint, In, CallPcs, Settling
<1>2. \E k \in {"Ready", "Starting"} : set_runtime_constraint(s, [kind |-> k, op |-> 0])
  BY DEF PublishConstraint, ConstraintOf
<1>3. WorkStep
  BY <1>1, <1>2, ConstrainStep, InvFacts
<1>4. leases' = leases /\ paused' = paused
  BY <1>2 DEF set_runtime_constraint
<1>5. MayMove(c, p) /\ Leaseless(c) /\ PauseStays(c)
  BY <1>1, NoLease DEF MayMove, PauseStays
<1>6. q \in CallState /\ Knows(q)
  BY <1>1, <1>5, StepKnows
<1>7. call' = [call EXCEPT ![c] = q] /\ q.pc = p /\ (\A d \in Procs \ {c} : call'[d] = call[d])
  BY <1>1, StepIs
<1> HIDE DEF q, p, s
<1>8. q.pc \notin Settling
  BY <1>1, <1>7
<1>9. leases' \subseteq leases /\ \A l \in leases' : l.id # c
  BY <1>4, <1>5 DEF Leaseless
<1>10. \A t \in Slots : paused'[t] => paused[t]
  BY <1>4
<1> QED
  BY <1>1, <1>3, <1>5, <1>6, <1>7, <1>8, <1>9, <1>10, WorkMove

\* The batch that owns a slot holds committed work of the slot.
LEMMA ActiveBorn ==
  ASSUME Inv, NEW s \in Slots
  PROVE  \A i \in active[s].intents : BornTo(i, s)
<1>1. WorkOwnership /\ WorkRows
  BY DEF Inv
<1>2. \A i \in active[s].intents : i \in IntentIds /\ ist[i] # "Unborn" /\ info[i].slot = s
  BY <1>1 DEF WorkOwnership, ActiveInPlace
<1>3. \A i \in active[s].intents : info[i].msg \in Msgs
  BY <1>1, <1>2, InvFacts DEF WorkRows, WorkTypeOK, WorkIntent
<1> QED
  BY <1>2, <1>3 DEF BornTo

LEMMA LookKeeps ==
  ASSUME Inv, NEW c \in Procs, LookActive(c)
  PROVE  Inv'
<1> DEFINE s == call[c].slot
           q == [call[c] EXCEPT !.pc = "acquire", !.op = active[s].op,
                                !.intents = active[s].intents, !.turn = active[s].turn]
<1>1. /\ call[c].pc = "look" /\ call' = [call EXCEPT ![c] = q]
      /\ UNCHANGED <<workVars, mail, permit, faults>> /\ Quiet
  BY DEF LookActive, In
<1>2. /\ call[c] \in CallState /\ Knows(call[c]) /\ s \in Slots
      /\ active[s] \in ActiveBatch
  BY CallFields, InvFacts DEF WorkTypeOK
<1>3. /\ q \in CallState /\ q.pc = "acquire" /\ q.slot = s /\ q.op = active[s].op
      /\ q.intents = active[s].intents /\ q.msg = call[c].msg /\ q.rows = call[c].rows
  BY <1>2 DEF CallState, ActiveBatch, CallPcs
<1>4. \A i \in active[s].intents : BornTo(i, s)
  BY <1>2, ActiveBorn
<1>5. active[s].op <= nextOp
  BY <1>2 DEF Inv, WorkRows
<1>6. Knows(q)
  <2>1. Snapshot(s, active[s].op, active[s].intents)
    BY <1>5 DEF Snapshot
  <2>2. /\ s = call[c].slot
        /\ call[c].msg # NoMsg => Addressed(call[c].msg, call[c].slot)
        /\ \A m \in call[c].rows : Written(m) /\ mail[m].to = call[c].slot
    BY <1>1, <1>2 DEF Knows
  <2> HIDE DEF q, s
  <2> QED BY <1>3, <1>4, <2>1, <2>2 DEF Knows
<1>7. q.pc \notin Settling /\ Leaseless(c)
  BY <1>1, <1>3, NoLease DEF Settling
<1> HIDE DEF q, s
<1> QED
  BY <1>1, <1>3, <1>6, <1>7, LocalMove, NoFault, PermitSame

LEMMA AcquireKeeps ==
  ASSUME Inv, NEW c \in Procs, Acquire(c)
  PROVE  Inv'
<1> DEFINE s == call[c].slot
<1>1. /\ call[c].pc = "acquire" /\ UNCHANGED <<mail, permit, faults>> /\ Quiet /\ s \in Slots
  BY CallFields DEF Acquire, In
<1>2. Leaseless(c) /\ PauseStays(c)
  BY <1>1, NoLease DEF PauseStays
<1>3. CASE /\ \E r \in Runs : acquire_enqueue(c, s, SourceOf(call[c].kind), r)
           /\ Step(c, IF call[c].kind \in Sends \cup Interrupts THEN "write" ELSE "commit")
  <2> DEFINE p == IF call[c].kind \in Sends \cup Interrupts THEN "write" ELSE "commit"
             q == Moved(c, p)
             src == SourceOf(call[c].kind)
  <2>1. PICK r \in Runs : acquire_enqueue(c, s, src, r)
    BY <1>3
  <2>2. src \in AllSources /\ c \in LeaseIds
    BY TeamSessionAssumption
       DEF SourceOf, AllSources, UserSources, ControlSources, SignalSources, Procs
  <2>3. p \in CallPcs /\ p \in {"write", "commit"} /\ MayMove(c, p)
    BY <1>1 DEF CallPcs, MayMove
  <2>4. call' = [call EXCEPT ![c] = q] /\ q.pc = p /\ q.slot = s /\ call'[c] = q
        /\ \A d \in Procs \ {c} : call'[d] = call[d]
    BY <1>3, StepIs
  <2>5. q \in CallState /\ Knows(q)
    BY <2>3, StepKnows
  <2>6. q.pc \notin Settling
    BY <2>3, <2>4 DEF Settling
  <2> HIDE DEF p, q, src, s
  <2>7. WorkStep
    BY <1>1, <2>1, <2>2, AcquireStep, InvFacts
  <2>8. /\ leases' = leases \cup {[id |-> c, slot |-> s, source |-> src, run |-> r]}
        /\ paused' = paused
    BY <2>1 DEF acquire_enqueue
  <2>9. LeaseOK'
    <3>1. LeaseOK
      BY InvFacts
    <3>2. \A l \in leases : l.id \in Procs
      BY TeamSessionAssumption, InvFacts DEF WorkTypeOK, EnqueueLease, Procs
    <3>3. ASSUME NEW l \in leases'
          PROVE  l.slot = call'[l.id].slot /\ call'[l.id].pc \in {"write", "commit", "abort"}
      <4>1. CASE l \in leases
        BY <1>2, <2>4, <3>1, <3>2, <4>1 DEF LeaseOK, Leaseless
      <4>2. CASE l = [id |-> c, slot |-> s, source |-> src, run |-> r]
        BY <2>3, <2>4, <4>2
      <4> QED BY <2>8, <4>1, <4>2
    <3>4. \A k, l \in leases' : k.id = l.id => k = l
      BY <1>2, <2>8, <3>1 DEF LeaseOK, Leaseless
    <3> QED BY <3>3, <3>4 DEF LeaseOK
  <2>10. PauseCancels'
    <3>1. WorkTypeOK' /\ MailKept /\ faults' \in 0..MaxFaults /\ faults <= faults'
      BY <1>1, <2>7, SameMail, NoFault, InvFacts DEF WorkStep, WorkInv, Good
    <3>2. call' \in [Procs -> CallState] /\ permit' \in [Slots -> BOOLEAN]
      BY <1>1, <2>4, <2>5, PermitSame, InvFacts
    <3>3. TypeOK'
      BY <1>1, <3>1, <3>2, CallTypes, InvFacts
    <3>4. Kept /\ loop' = loop
      BY <1>1, <2>7, <3>1 DEF Kept, Quiet, WorkStep
    <3> QED BY <1>2, <2>4, <2>8, <3>3, <3>4, PauseKept
  <2> QED
    BY <1>1, <2>4, <2>5, <2>6, <2>7, <2>9, <2>10, WorkCall
<1>4. CASE Return(c) /\ UNCHANGED workVars
  BY <1>1, <1>2, <1>4, LocalReturn, NoFault, PermitSame
<1> QED
  BY <1>3, <1>4 DEF Acquire

LEMMA WriteRowKeeps ==
  ASSUME Inv, NEW c \in Procs, WriteRow(c)
  PROVE  Inv'
<1>1. call[c].pc = "write" /\ UNCHANGED <<workVars, permit>> /\ Quiet
  BY DEF WriteRow, In
<1>2. CASE Fault("mailbox") /\ Step(c, "abort") /\ UNCHANGED mail
  <2>1. MayMove(c, "abort") /\ "abort" \in CallPcs \ Settling
    BY <1>1 DEF MayMove, CallPcs, Settling
  <2>2. faults' \in 0..MaxFaults /\ faults <= faults'
    BY <1>2, FaultFacts
  <2> QED
    BY <1>1, <1>2, <2>1, <2>2, LocalStep, PermitSame
<1>3. ASSUME NEW m \in Msgs, write(m, call[c].slot, User), UNCHANGED faults,
             call' = [call EXCEPT ![c] = [@ EXCEPT !.pc = "commit", !.msg = m]]
      PROVE  Inv'
  <2>1. call[c].slot \in Slots /\ call[c] \in CallState
    BY CallFields
  <2>2. /\ mail' \in [Msgs -> Row] /\ MailKept /\ FiniteMail'
        /\ Written(m)' /\ mail'[m].to = call[c].slot
        /\ \A n \in Msgs : WasRead(n)' => WasRead(n)
    BY <1>3, <2>1, WriteKept, InvFacts
  <2>3. faults' \in 0..MaxFaults /\ faults <= faults'
    BY <1>3, NoFault
  <2>4. "commit" \in CallPcs /\ MayMove(c, "commit")
    BY <1>1 DEF CallPcs, MayMove
  <2>5. PICK r \in CallState : r = Moved(c, "commit")
    BY <2>4, StepKnows
  <2>6. Knows(r) /\ r.pc = "commit" /\ r.slot = call[c].slot
    BY <2>1, <2>4, <2>5, StepKnows DEF Moved, CallState
  <2>7. /\ call'[c] = [r EXCEPT !.msg = m]
        /\ call' \in [Procs -> CallState]
        /\ \A d \in Procs \ {c} : call'[d] = call[d]
    <3>1. [r EXCEPT !.msg = m] \in CallState
      BY DEF CallState
    <3>2. [r EXCEPT !.msg = m] = [call[c] EXCEPT !.pc = "commit", !.msg = m]
      BY <2>1, <2>5 DEF Moved, CallState
    <3> QED BY <1>3, <3>1, <3>2, InvFacts
  <2>8. /\ call'[c].pc = "commit" /\ call'[c].slot = r.slot /\ call'[c].msg = m
        /\ call'[c].rows = r.rows /\ call'[c].intents = r.intents /\ call'[c].op = r.op
        /\ call'[c].kind = r.kind
    BY <2>6, <2>7 DEF CallState
  <2>9. WorkStep
    BY <1>1, <2>2, SameWork, InvFacts
  <2>10. Kept /\ TypeOK'
    <3>1. WorkTypeOK' /\ permit' \in [Slots -> BOOLEAN]
      BY <1>1, <2>9, PermitSame DEF WorkStep, WorkInv, Good
    <3>2. TypeOK'
      BY <1>1, <2>2, <2>3, <2>7, <3>1, CallTypes
    <3> QED BY <1>1, <2>2, <2>3, <2>9, <3>2 DEF Kept, WorkStep, Quiet
  <2>11. Knows(r)'
    BY <2>6, <2>9, <2>10, KnownKept, InvFacts DEF WorkStep, WorkInv, Good
  <2>12. Knows(call[c])'
    <3>1. Addressed(m, r.slot)'
      BY <2>2, <2>6 DEF Addressed
    <3> QED BY <2>6, <2>8, <2>11, <3>1 DEF Knows
  <2>13. CallOK(c)'
    BY <2>8, <2>12 DEF CallOK, Settling
  <2> QED
    BY <1>1, <2>2, <2>3, <2>6, <2>7, <2>8, <2>10, <2>13, MailCall DEF Quiet
<1> QED
  BY <1>2, <1>3 DEF WriteRow

LEMMA CommitKeeps ==
  ASSUME Inv, NEW c \in Procs, Commit(c)
  PROVE  Inv'
<1>1. call[c].pc = "commit" /\ UNCHANGED <<mail, permit, faults>> /\ Quiet
  BY DEF Commit, In
<1>2. CASE Step(c, "abort") /\ UNCHANGED workVars
  <2>1. MayMove(c, "abort") /\ "abort" \in CallPcs \ Settling
    BY <1>1 DEF MayMove, CallPcs, Settling
  <2> QED
    BY <1>1, <1>2, <2>1, LocalStep, NoFault, PermitSame
<1>3. ASSUME NEW l \in LeaseOf(c), commit_enqueue(l, call[c].msg),
             Step(c, IF call[c].kind \in Interrupts THEN "check" ELSE "notify")
      PROVE  Inv'
  <2> DEFINE p == IF call[c].kind \in Interrupts THEN "check" ELSE "notify"
             q == Moved(c, p)
  <2>1. p \in CallPcs /\ p \notin Settling /\ MayMove(c, p)
    BY <1>1 DEF CallPcs, MayMove, Settling
  <2>2. q \in CallState /\ Knows(q)
    BY <2>1, StepKnows
  <2>3. call' = [call EXCEPT ![c] = q] /\ q.pc = p
    BY <1>3, StepIs
  <2> HIDE DEF p, q
  <2>4. l \in leases /\ l.id = c /\ l.slot = call[c].slot
    BY <1>3, InvFacts DEF LeaseOf, LeaseOK
  <2>5. call[c].msg \in Msgs \cup {NoMsg} /\ (call[c].msg # NoMsg => Addressed(call[c].msg, l.slot))
    BY <2>4, CallFields DEF Knows
  <2>6. WorkStep
    BY <1>1, <1>3, <2>4, <2>5, CommitStep, InvFacts
  <2>7. leases' = leases \ {l} /\ \A s \in Slots : paused'[s] => paused[s]
    BY <1>3, InvFacts DEF commit_enqueue, WorkTypeOK
  <2>8. \A k \in leases' : k.id # c
    BY <2>4, <2>7, InvFacts DEF LeaseOK
  <2>9. leases' \subseteq leases /\ PauseStays(c) /\ q.pc \notin Settling
    BY <1>1, <2>1, <2>3, <2>7 DEF PauseStays
  <2> QED
    BY <1>1, <2>2, <2>3, <2>6, <2>7, <2>8, <2>9, WorkMove
<1> QED
  BY <1>2, <1>3 DEF Commit

LEMMA AbortKeeps ==
  ASSUME Inv, NEW c \in Procs, Abort(c)
  PROVE  Inv'
<1>1. /\ call[c].pc = "abort" /\ UNCHANGED <<mail, permit, faults>> /\ Quiet
      /\ IF call[c].msg = NoMsg THEN Return(c) ELSE Step(c, "compensate")
  BY DEF Abort, In
<1>2. PICK q \in CallState : Knows(q) /\ call' = [call EXCEPT ![c] = q] /\ q.pc \notin Settling
  <2>1. CASE Return(c)
    BY <2>1, ReturnKnows DEF Return, Settling
  <2>2. CASE call[c].msg # NoMsg /\ Step(c, "compensate")
    <3>1. MayMove(c, "compensate") /\ "compensate" \in CallPcs \ Settling
      BY <1>1, <2>2 DEF MayMove, CallPcs, Settling
    <3> QED BY <2>2, <3>1, StepKnows, StepIs
  <2> QED BY <1>1, <2>1, <2>2
<1>3. CASE LeaseOf(c) = {} /\ UNCHANGED workVars
  <2>1. Leaseless(c)
    BY <1>3 DEF Leaseless, LeaseOf
  <2> QED
    BY <1>1, <1>2, <1>3, <2>1, LocalMove, NoFault, PermitSame
<1>4. ASSUME NEW l \in LeaseOf(c), abort_enqueue(l)
      PROVE  Inv'
  <2>1. l \in leases /\ l.id = c
    BY DEF LeaseOf
  <2>2. WorkStep
    BY <1>1, <1>4, <2>1, AbortStep, InvFacts
  <2>3. leases' = leases \ {l} /\ paused' = paused
    BY <1>4 DEF abort_enqueue, slotVars
  <2>4. \A k \in leases' : k.id # c
    BY <2>1, <2>3, InvFacts DEF LeaseOK
  <2>5. /\ leases' \subseteq leases /\ PauseStays(c)
        /\ \A s \in Slots : paused'[s] => paused[s]
    BY <1>1, <2>3 DEF PauseStays
  <2> QED
    BY <1>1, <1>2, <2>2, <2>4, <2>5, WorkMove
<1> QED
  BY <1>3, <1>4 DEF Abort

LEMMA NotifySlotKeeps ==
  ASSUME Inv, NEW c \in Procs, NotifySlot(c)
  PROVE  Inv'
<1>1. /\ call[c].pc = "notify" /\ UNCHANGED <<workVars, mail, faults>> /\ Quiet
      /\ Notify(call[c].slot)
  BY DEF NotifySlot, In
<1>2. Leaseless(c)
  BY <1>1, NoLease
<1>3. CASE call[c].rows # {} /\ Step(c, "nextRow")
  <2>1. MayMove(c, "nextRow") /\ "nextRow" \in CallPcs \ Settling
    BY <1>1, <1>3 DEF MayMove, CallPcs, Settling
  <2> QED
    BY <1>1, <1>2, <1>3, <2>1, LocalStep, NoFault, PermitSame
<1>4. CASE Return(c)
  BY <1>1, <1>2, <1>4, LocalReturn, NoFault, PermitSame
<1> QED
  BY <1>3, <1>4 DEF NotifySlot

LEMMA CompensateKeeps ==
  ASSUME Inv, NEW c \in Procs, Compensate(c)
  PROVE  Inv'
<1>1. /\ call[c].pc = "compensate" /\ Return(c) /\ refused' = refused \cup {call[c].msg}
      /\ UNCHANGED <<workVars, permit, runtime, loop, status, delivered, attach, recovered>>
  BY DEF Compensate, In
<1>2. call[c].msg \in Msgs /\ Written(call[c].msg)
  BY <1>1, CallFields DEF Knows, Addressed
<1>3. /\ mail' \in [Msgs -> Row] /\ MailKept /\ FiniteMail'
      /\ faults' \in 0..MaxFaults /\ faults <= faults'
      /\ \A n \in Msgs : WasRead(n)' => WasRead(n) \/ n = call[c].msg
  <2>1. CASE mark_read_batch({call[c].msg}) /\ UNCHANGED faults
    <3>1. \A m \in {call[c].msg} : Written(m)
      BY <1>2
    <3>2. /\ mail' \in [Msgs -> Row] /\ MailKept /\ FiniteMail'
          /\ \A n \in Msgs : WasRead(n)' <=> WasRead(n) \/ n \in {call[c].msg}
      BY <2>1, <3>1, ReadKept, InvFacts
    <3> QED BY <2>1, <3>2, NoFault
  <2>2. CASE Fault("mailbox") /\ UNCHANGED mail
    BY <2>2, FaultFacts, SameMail, InvFacts
  <2> QED BY <2>1, <2>2 DEF Compensate
<1>4. \A n \in Msgs : n = call[c].msg => Accounted(n)'
  BY <1>1 DEF Accounted
<1> DEFINE q == [NoCall EXCEPT !.pc = "done"]
<1>5. q \in CallState /\ Knows(q) /\ q.pc = "done" /\ call' = [call EXCEPT ![c] = q]
  BY <1>1, ReturnKnows DEF Return
<1> HIDE DEF q
<1>6. call'[c] = q /\ (\A d \in Procs \ {c} : call'[d] = call[d]) /\ call' \in [Procs -> CallState]
  BY <1>5, InvFacts
<1>7. WorkStep /\ WorkTypeOK'
  BY <1>1, <1>3, SameWork, InvFacts DEF WorkStep, WorkInv, Good
<1>8. TypeOK'
  BY <1>1, <1>2, <1>3, <1>6, <1>7 DEF Inv, TypeOK, LoopTypeOK
<1>9. CallOK(c)'
  BY <1>1, <1>3, <1>5, <1>6, <1>7, MovesOn DEF Settling
<1>10. Leaseless(c)
  BY <1>1, NoLease
<1> QED
  BY <1>1, <1>3, <1>4, <1>6, <1>8, <1>9, <1>10, MailCall

LEMMA EnqueueStepKeeps ==
  ASSUME Inv, NEW c \in Procs, EnqueueStep(c)
  PROVE  Inv'
  BY EnsureKeeps, ReadRuntimeKeeps, PublishKeeps, LookKeeps, AcquireKeeps, WriteRowKeeps,
     CommitKeeps, AbortKeeps, CompensateKeeps, NotifySlotKeeps DEF EnqueueStep
-----------------------------------------------------------------------------
(* An interrupt keeps the invariant.                                       *)

\* The rows a request is about to settle are accounted for.
LEMMA SettlesRows ==
  ASSUME Inv, UNCHANGED <<workVars, permit>>, Quiet, NEW c \in Procs, call[c].pc \in Settling,
         faults' \in 0..MaxFaults, faults <= faults',
         mark_read_batch(call[c].rows) \/ UNCHANGED mail,
         NEW q \in CallState, Knows(q), q.pc \notin Settling, call' = [call EXCEPT ![c] = q]
  PROVE  Inv'
<1>1. /\ Knows(call[c]) /\ \A m \in call[c].rows : Accounted(m)
      /\ call[c].rows \subseteq Msgs /\ call[c].pc # "idle"
      /\ call[c].pc \notin {"stopChild", "dropChild", "write", "commit", "abort"}
  BY CallFields, InvFacts DEF CallOK, Settling
<1>2. \A m \in call[c].rows : Written(m)
  BY <1>1 DEF Knows
<1>3. /\ mail' \in [Msgs -> Row] /\ MailKept /\ FiniteMail'
      /\ \A n \in Msgs : WasRead(n)' => WasRead(n) \/ Accounted(n)
  BY <1>1, <1>2, ReadKept, SameMail, InvFacts
<1>4. call'[c] = q /\ (\A d \in Procs \ {c} : call'[d] = call[d]) /\ call' \in [Procs -> CallState]
  BY InvFacts
<1>5. WorkStep /\ WorkTypeOK'
  BY <1>3, SameWork, InvFacts DEF WorkStep, WorkInv, Good
<1>6. TypeOK'
  BY <1>3, <1>4, <1>5, CallTypes, PermitSame
<1>7. UNCHANGED <<loop, delivered, attach>> /\ refused \subseteq refused'
  BY DEF Quiet
<1>8. CallOK(c)'
  BY <1>3, <1>4, <1>5, <1>7, MovesOn
<1>9. Leaseless(c)
  BY <1>1, NoLease
<1> QED
  BY <1>1, <1>3, <1>4, <1>6, <1>7, <1>8, <1>9, MailCall

\* The batch a request holds, with the lane it never looks at.
LEMMA HeldCopy ==
  ASSUME Inv, NEW c \in Procs, call[c].op # 0, call[c].pc \notin {"inbox", "observe"}
  PROVE  \E b \in WorkBatch : /\ Copy(b) /\ b.slot = call[c].slot /\ b.op = call[c].op
                              /\ b.intents = call[c].intents
<1> DEFINE b == [slot |-> call[c].slot, op |-> call[c].op, intents |-> call[c].intents,
                 lane |-> active[call[c].slot].lane]
<1>1. /\ call[c].slot \in Slots /\ call[c].op \in Nat /\ call[c].intents \subseteq IntentIds
      /\ active[call[c].slot].lane \in Lanes
      /\ Snapshot(call[c].slot, call[c].op, call[c].intents)
  BY CallFields, InvFacts DEF WorkTypeOK, ActiveBatch, Knows
<1>2. b \in WorkBatch
  BY <1>1 DEF WorkBatch
<1>3. Copy(b)
  BY <1>1 DEF Copy, is_current_batch, Snapshot
<1> QED
  BY <1>2, <1>3

LEMMA CheckActiveKeeps ==
  ASSUME Inv, NEW c \in Procs, CheckActive(c)
  PROVE  Inv'
<1> DEFINE still == call[c].op # 0 /\ is_active_batch(Held(c), call[c].turn)
           p == IF ~still THEN Interrupted(c) ELSE IF call[c].turn THEN "stop" ELSE "break"
<1>1. /\ call[c].pc = "check" /\ UNCHANGED <<workVars, mail, permit, faults>> /\ Quiet
      /\ Step(c, p)
  BY DEF CheckActive, In
<1>2. p \in CallPcs \ Settling /\ MayMove(c, p)
  <2>1. p \in {"discard", "notify"} \/ (call[c].op # 0 /\ p \in {"stop", "break"})
    BY DEF Interrupted
  <2> HIDE DEF p
  <2> QED BY <1>1, <2>1 DEF MayMove, CallPcs, Settling
<1>3. Leaseless(c)
  BY <1>1, NoLease
<1> HIDE DEF p
<1> QED
  BY <1>1, <1>2, <1>3, LocalStep, NoFault, PermitSame

LEMMA StopTurnKeeps ==
  ASSUME Inv, NEW c \in Procs, StopTurn(c)
  PROVE  Inv'
<1>1. /\ call[c].pc = "stop" /\ UNCHANGED <<workVars, mail, permit>> /\ Quiet
      /\ Step(c, "break") \/ Return(c)
      /\ faults' \in 0..MaxFaults /\ faults <= faults'
  BY FaultFacts, NoFault DEF StopTurn, In
<1>2. "break" \in CallPcs \ Settling /\ MayMove(c, "break")
  <2>1. call[c].op # 0
    BY <1>1, CallFields DEF Knows
  <2> QED BY <1>1, <2>1 DEF MayMove, CallPcs, Settling
<1>3. Leaseless(c)
  BY <1>1, NoLease
<1> QED
  BY <1>1, <1>2, <1>3, LocalStep, LocalReturn, PermitSame

LEMMA BreakBatchKeeps ==
  ASSUME Inv, NEW c \in Procs, BreakBatch(c)
  PROVE  Inv'
<1>1. /\ call[c].pc = "break" /\ UNCHANGED <<mail, permit, faults>> /\ Quiet
      /\ call[c] \in CallState /\ Knows(call[c]) /\ call[c].op # 0
  BY CallFields DEF BreakBatch, In, Knows
<1>2. Leaseless(c) /\ PauseStays(c)
  BY <1>1, NoLease DEF PauseStays
<1>3. CASE Step(c, Interrupted(c)) /\ UNCHANGED workVars
  <2>1. Interrupted(c) \in CallPcs \ Settling /\ MayMove(c, Interrupted(c))
    BY <1>1 DEF Interrupted, MayMove, CallPcs, Settling
  <2> QED BY <1>1, <1>2, <1>3, <2>1, LocalStep, NoFault, PermitSame
<1>4. CASE /\ interrupt_batch(Held(c))
           /\ call' = [call EXCEPT ![c] = [@ EXCEPT !.pc = "settle", !.rows = BatchMsgs(Held(c))]]
  <2> DEFINE q == [call[c] EXCEPT !.pc = "settle", !.rows = BatchMsgs(Held(c))]
  <2>1. PICK b \in WorkBatch : /\ Copy(b) /\ b.slot = call[c].slot /\ b.op = call[c].op
                               /\ b.intents = call[c].intents
    BY <1>1, HeldCopy
  <2>2. interrupt_batch(b)
    BY <1>4, <2>1 DEF interrupt_batch, Held, is_current_batch, BatchMsgs
  <2>3. WorkStep
    BY <1>1, <2>1, <2>2, InterruptStepKept, InvFacts
  <2>4. leases' = leases /\ paused' = paused /\ SetState(call[c].intents, "Cancelled") /\ info' = info
    BY <2>1, <2>2 DEF interrupt_batch
  <2>5. BatchMsgs(Held(c)) = {info[i].msg : i \in call[c].intents}
    BY DEF BatchMsgs, Held
  <2>6. \A i \in call[c].intents : i \in IntentIds /\ BornTo(i, call[c].slot)
    BY <1>1 DEF Knows, CallState
  <2>7. \A m \in BatchMsgs(Held(c)) : m \in Msgs /\ Written(m) /\ mail[m].to = call[c].slot
    <3>1. SUFFICES ASSUME NEW i \in call[c].intents
                   PROVE  Addressed(info[i].msg, call[c].slot)
      BY <2>5 DEF Addressed
    <3>2. ist[i] # "Unborn" /\ info[i].msg # NoMsg /\ info[i].slot = call[c].slot
      BY <2>6, ConstantsAssumption DEF BornTo
    <3> QED BY <2>6, <3>2 DEF Inv, WorkRows
  <2>8. /\ q \in CallState /\ q.pc = "settle" /\ q.rows = BatchMsgs(Held(c))
        /\ q.slot = call[c].slot /\ q.msg = call[c].msg /\ q.op = call[c].op
        /\ q.intents = call[c].intents
    BY <1>1, <2>7 DEF CallState, CallPcs
  <2>9. \A m \in q.rows : Accounted(m)'
    <3>1. SUFFICES ASSUME NEW i \in call[c].intents
                   PROVE  Accounted(info[i].msg)'
      <4> SUFFICES ASSUME NEW m \in q.rows PROVE Accounted(m)'
        OBVIOUS
      <4>1. PICK i \in call[c].intents : m = info[i].msg
        BY <2>5, <2>8
      <4>2. Accounted(info[i].msg)'
        OBVIOUS
      <4> QED BY <2>4, <4>1, <4>2
    <3>2. ist'[i] = "Cancelled"
      BY <2>4, <2>6 DEF SetState
    <3> QED BY <2>6, <3>2 DEF Accounted, Ended
  <2>10. call' = [call EXCEPT ![c] = q]
    BY <1>4
  <2>11. Knows(q)
    <3> HIDE DEF q
    <3> QED BY <1>1, <2>7, <2>8 DEF Knows
  <2> HIDE DEF q
  <2>12. /\ \A l \in leases' : l.id # c
         /\ leases' \subseteq leases /\ \A s \in Slots : paused'[s] => paused[s]
    BY <1>2, <2>4 DEF Leaseless
  <2> QED
    BY <1>1, <1>2, <2>3, <2>8, <2>9, <2>10, <2>11, <2>12, WorkMove
<1> QED
  BY <1>3, <1>4 DEF BreakBatch

LEMMA SettleInterruptedKeeps ==
  ASSUME Inv, NEW c \in Procs, SettleInterrupted(c)
  PROVE  Inv'
<1>1. /\ call[c].pc = "settle" /\ UNCHANGED <<workVars, permit>> /\ Quiet
      /\ call[c].pc \in Settling
  BY DEF SettleInterrupted, In, Settling
<1>2. CASE /\ mark_read_batch(call[c].rows)
           /\ call' = [call EXCEPT ![c] = [@ EXCEPT !.rows = {},
                         !.pc = IF call[c].turn THEN "take" ELSE Interrupted(c)]]
           /\ UNCHANGED faults
  <2> DEFINE p == IF call[c].turn THEN "take" ELSE Interrupted(c)
             q == [call[c] EXCEPT !.rows = {}, !.pc = p]
  <2>1. p \in {"take", "discard", "notify"}
    BY DEF Interrupted
  <2>2. call[c] \in CallState /\ Knows(call[c])
    BY CallFields
  <2> HIDE DEF p
  <2>3. /\ q.pc = p /\ q.rows = {} /\ q.slot = call[c].slot /\ q.msg = call[c].msg
        /\ q.op = call[c].op /\ q.intents = call[c].intents /\ q \in CallState
    BY <2>1, <2>2 DEF CallState, CallPcs
  <2>4. call' = [call EXCEPT ![c] = q]
    BY <1>2 DEF p
  <2> HIDE DEF q
  <2>5. Knows(q) /\ q.pc \notin Settling
    BY <1>1, <2>1, <2>2, <2>3 DEF Knows, Settling
  <2> QED BY <1>1, <1>2, <2>3, <2>4, <2>5, NoFault, SettlesRows
<1>3. CASE Fault("mailbox") /\ Return(c) /\ UNCHANGED mail
  <2> DEFINE q == [NoCall EXCEPT !.pc = "done"]
  <2>1. q \in CallState /\ Knows(q) /\ q.pc = "done" /\ call' = [call EXCEPT ![c] = q]
    BY <1>3, ReturnKnows DEF Return
  <2> HIDE DEF q
  <2>2. q.pc \notin Settling
    BY <2>1 DEF Settling
  <2> QED BY <1>1, <1>3, <2>1, <2>2, FaultFacts, SettlesRows
<1> QED
  BY <1>2, <1>3 DEF SettleInterrupted

LEMMA TakeMetadataKeeps ==
  ASSUME Inv, NEW c \in Procs, TakeMetadata(c)
  PROVE  Inv'
<1> DEFINE p == Interrupted(c)
           q == Moved(c, p)
<1>1. call[c].pc = "take" /\ UNCHANGED <<mail, permit, faults>> /\ Quiet /\ Step(c, p)
  BY DEF TakeMetadata, In
<1>2. p \in CallPcs \ Settling /\ MayMove(c, p)
  BY <1>1 DEF Interrupted, MayMove, CallPcs, Settling
<1>3. Leaseless(c) /\ PauseStays(c)
  BY <1>1, NoLease DEF PauseStays
<1>4. CASE UNCHANGED workVars
  BY <1>1, <1>2, <1>3, <1>4, LocalStep, NoFault, PermitSame
<1>5. CASE take_interrupt_metadata(call[c].op)
  <2>1. WorkStep
    BY <1>1, <1>5, TakeMetadataStep, InvFacts
  <2>2. leases' = leases /\ paused' = paused
    BY <1>5 DEF take_interrupt_metadata, slotVars
  <2>3. q \in CallState /\ Knows(q) /\ call' = [call EXCEPT ![c] = q] /\ q.pc = p
    BY <1>1, <1>2, StepKnows, StepIs
  <2> HIDE DEF q, p
  <2>4. /\ leases' \subseteq leases /\ \A l \in leases' : l.id # c
        /\ \A s \in Slots : paused'[s] => paused[s]
        /\ q.pc \notin Settling
    BY <1>2, <1>3, <2>2, <2>3 DEF Leaseless
  <2> QED BY <1>1, <1>3, <2>1, <2>3, <2>4, WorkMove
<1> QED
  BY <1>4, <1>5 DEF TakeMetadata

\* The rows of discarded work are rows of the slot, and their work is cancelled.
LEMMA DiscardQueuedKeeps ==
  ASSUME Inv, NEW c \in Procs, DiscardQueued(c)
  PROVE  Inv'
<1> DEFINE s == call[c].slot
           D == Discarded(s, call[c].msg)
           R == {info[i].msg : i \in D} \ {NoMsg}
           q == [call[c] EXCEPT !.pc = "settleDiscarded", !.rows = R]
<1>1. /\ call[c].pc = "discard" /\ UNCHANGED <<mail, permit, faults>> /\ Quiet
      /\ discard_queued_except(s, call[c].msg) /\ call' = [call EXCEPT ![c] = q]
  BY DEF DiscardQueued, In
<1>2. Leaseless(c) /\ PauseStays(c)
  BY <1>1, NoLease DEF PauseStays
<1>3. call[c] \in CallState /\ Knows(call[c]) /\ s \in Slots
  BY CallFields
<1>4. WorkStep
  BY <1>1, <1>3, DiscardStep, InvFacts
<1>5. /\ SetState(D, "Cancelled") /\ info' = info /\ leases' = leases /\ paused' = paused
  BY <1>1 DEF discard_queued_except
<1>6. \A i \in D : i \in IntentIds /\ ist[i] # "Unborn" /\ info[i].slot = s
  <2>1. QueuedInPlace
    BY DEF Inv, WorkOwnership
  <2> QED BY <1>3, <2>1 DEF QueuedInPlace, Discarded, queued_ids
<1>7. \A m \in R : Addressed(m, s)
  <2>1. SUFFICES ASSUME NEW i \in D, info[i].msg # NoMsg PROVE Addressed(info[i].msg, s)
    OBVIOUS
  <2> QED BY <1>6, <2>1 DEF Inv, WorkRows
<1>8. \A m \in R : Accounted(m)'
  <2>1. SUFFICES ASSUME NEW m \in R PROVE Accounted(m)'
    OBVIOUS
  <2>2. PICK i \in D : m = info[i].msg
    OBVIOUS
  <2>3. i \in IntentIds /\ ist'[i] = "Cancelled" /\ info'[i].msg = m
    BY <1>5, <1>6, <2>2 DEF SetState
  <2> QED BY <2>3 DEF Accounted, Ended
<1>9. /\ q \in CallState /\ q.pc = "settleDiscarded" /\ q.rows = R /\ q.slot = s
      /\ q.msg = call[c].msg /\ q.op = call[c].op /\ q.intents = call[c].intents
  <2>1. R \subseteq Msgs
    BY <1>7 DEF Addressed
  <2> HIDE DEF R
  <2> QED BY <1>3, <2>1 DEF CallState, CallPcs
<1>10. Knows(q)
  <2> HIDE DEF q, R
  <2> QED BY <1>1, <1>3, <1>7, <1>9 DEF Knows, Addressed
<1> HIDE DEF q, R
<1>11. /\ leases' \subseteq leases /\ \A l \in leases' : l.id # c
       /\ \A t \in Slots : paused'[t] => paused[t]
  BY <1>2, <1>5 DEF Leaseless
<1> QED
  BY <1>1, <1>2, <1>4, <1>8, <1>9, <1>10, <1>11, WorkMove

LEMMA SettleDiscardedKeeps ==
  ASSUME Inv, NEW c \in Procs, SettleDiscarded(c)
  PROVE  Inv'
<1>1. /\ call[c].pc = "settleDiscarded" /\ UNCHANGED <<workVars, permit>> /\ Quiet
      /\ call[c].pc \in Settling
  BY DEF SettleDiscarded, In, Settling
<1>2. CASE /\ mark_read_batch(call[c].rows)
           /\ call' = [call EXCEPT ![c] = [@ EXCEPT !.pc = "notify", !.rows = {}]]
           /\ UNCHANGED faults
  <2> DEFINE q == [call[c] EXCEPT !.pc = "notify", !.rows = {}]
  <2>1. call[c] \in CallState /\ Knows(call[c])
    BY CallFields
  <2>2. /\ q.pc = "notify" /\ q.rows = {} /\ q.slot = call[c].slot /\ q.msg = call[c].msg
        /\ q.op = call[c].op /\ q.intents = call[c].intents /\ q \in CallState
    BY <2>1 DEF CallState, CallPcs
  <2>3. call' = [call EXCEPT ![c] = q]
    BY <1>2
  <2> HIDE DEF q
  <2>4. Knows(q) /\ q.pc \notin Settling
    BY <1>1, <2>1, <2>2 DEF Knows, Settling
  <2> QED BY <1>1, <1>2, <2>2, <2>3, <2>4, NoFault, SettlesRows
<1>3. CASE Fault("mailbox") /\ Return(c) /\ UNCHANGED mail
  <2> DEFINE q == [NoCall EXCEPT !.pc = "done"]
  <2>1. q \in CallState /\ Knows(q) /\ q.pc = "done" /\ call' = [call EXCEPT ![c] = q]
    BY <1>3, ReturnKnows DEF Return
  <2> HIDE DEF q
  <2>2. q.pc \notin Settling
    BY <2>1 DEF Settling
  <2> QED BY <1>1, <1>3, <2>1, <2>2, FaultFacts, SettlesRows
<1> QED
  BY <1>2, <1>3 DEF SettleDiscarded

LEMMA InterruptStepKeeps ==
  ASSUME Inv, NEW c \in Procs, InterruptStep(c)
  PROVE  Inv'
  BY CheckActiveKeeps, StopTurnKeeps, BreakBatchKeeps, SettleInterruptedKeeps,
     TakeMetadataKeeps, DiscardQueuedKeeps, SettleDiscardedKeeps DEF InterruptStep
-----------------------------------------------------------------------------
(* Cancellations keep the invariant.                                       *)

\* The rows of a cancelled run were written, each to the slot of its work.
LEMMA CancelRunKeeps ==
  ASSUME Inv, NEW c \in Procs, CancelRun(c)
  PROVE  Inv'
<1>1. PICK r \in Runs :
        /\ cancel_run(r)
        /\ call' = [call EXCEPT ![c] = [@ EXCEPT !.pc = "settleRun",
             !.rows = {info[i].msg : i \in {j \in OfRun(r) : ist[j] \in Live}} \ {NoMsg}]]
  BY DEF CancelRun
<1> DEFINE D == {j \in OfRun(r) : ist[j] \in Live}
           R == {info[i].msg : i \in D} \ {NoMsg}
           q == [call[c] EXCEPT !.pc = "settleRun", !.rows = R]
<1>2. call[c].pc = "cancelRun" /\ UNCHANGED <<mail, permit, faults>> /\ Quiet
  BY DEF CancelRun, In
<1>3. call' = [call EXCEPT ![c] = q]
  BY <1>1
<1>4. Leaseless(c) /\ PauseStays(c)
  BY <1>2, NoLease DEF PauseStays
<1>5. call[c] \in CallState /\ Knows(call[c])
  BY CallFields
<1>6. WorkStep
  BY <1>1, <1>2, CancelRunStep, InvFacts
<1>7. /\ \A i \in D : ist'[i] = "Cancelled"
      /\ info' = info /\ leases' \subseteq leases /\ paused' = paused
  BY <1>1 DEF cancel_run, OfRun
<1>8. \A i \in D : i \in IntentIds /\ ist[i] # "Unborn"
  BY DEF OfRun
<1>9. \A m \in R : m \in Msgs /\ Written(m)
  <2>1. SUFFICES ASSUME NEW i \in D, info[i].msg # NoMsg
                 PROVE  info[i].msg \in Msgs /\ Written(info[i].msg)
    OBVIOUS
  <2> QED BY <1>8, <2>1 DEF Inv, WorkRows, Addressed
<1>10. \A m \in R : Accounted(m)'
  <2>1. SUFFICES ASSUME NEW m \in R PROVE Accounted(m)'
    OBVIOUS
  <2>2. PICK i \in D : m = info[i].msg
    OBVIOUS
  <2>3. i \in IntentIds /\ ist'[i] = "Cancelled" /\ info'[i].msg = m
    BY <1>7, <1>8, <2>2
  <2> QED BY <2>3 DEF Accounted, Ended
<1>11. /\ q \in CallState /\ q.pc = "settleRun" /\ q.rows = R /\ q.slot = call[c].slot
       /\ q.msg = call[c].msg /\ q.op = call[c].op /\ q.intents = call[c].intents
  <2>1. R \subseteq Msgs
    BY <1>9
  <2> HIDE DEF R
  <2> QED BY <1>5, <2>1 DEF CallState, CallPcs
<1>12. Knows(q)
  <2> HIDE DEF q, R
  <2> QED BY <1>2, <1>5, <1>9, <1>11 DEF Knows
<1> HIDE DEF q, R
<1>13. /\ \A l \in leases' : l.id # c
       /\ \A t \in Slots : paused'[t] => paused[t]
  BY <1>4, <1>7 DEF Leaseless
<1> QED
  BY <1>2, <1>3, <1>4, <1>6, <1>7, <1>10, <1>11, <1>12, <1>13, WorkMove

LEMMA SettleRunKeeps ==
  ASSUME Inv, NEW c \in Procs, SettleRun(c)
  PROVE  Inv'
<1> DEFINE q == [NoCall EXCEPT !.pc = "done"]
<1>1. /\ call[c].pc = "settleRun" /\ UNCHANGED <<workVars, permit>> /\ Quiet
      /\ call[c].pc \in Settling
      /\ mark_read_batch(call[c].rows) \/ UNCHANGED mail
      /\ UNCHANGED faults \/ Fault("mailbox")
  BY DEF SettleRun, In, Settling
<1>2. q \in CallState /\ Knows(q) /\ q.pc = "done" /\ call' = [call EXCEPT ![c] = q]
  BY ReturnKnows DEF Return, SettleRun
<1> HIDE DEF q
<1>3. q.pc \notin Settling
  BY <1>2 DEF Settling
<1> QED
  BY <1>1, <1>2, <1>3, NoFault, FaultFacts, SettlesRows

\* Where a cancellation finds a turn it remembers whose it is.
LEMMA TargetKnows ==
  ASSUME Inv, NEW c \in Procs, call[c].pc \in {"pause", "cancelTurn"}, Target(c)
  PROVE  \E q \in CallState :
           /\ Knows(q) /\ q.pc \notin Settling /\ call' = [call EXCEPT ![c] = q]
           /\ active[call[c].slot].op # 0 =>
                /\ q.pc \in {"stopChild", "dropChild"} /\ q.kind = call[c].kind
                /\ q.slot = call[c].slot /\ q.op = active[call[c].slot].op
<1> DEFINE s == call[c].slot
           p == IF active[s].turn THEN "stopChild" ELSE "dropChild"
           q == [call[c] EXCEPT !.op = active[s].op, !.intents = active[s].intents, !.pc = p]
<1>1. CASE active[s].op = 0
  <2>1. Return(c)
    BY <1>1 DEF Target
  <2> DEFINE r == [NoCall EXCEPT !.pc = "done"]
  <2>2. r \in CallState /\ Knows(r) /\ r.pc = "done" /\ call' = [call EXCEPT ![c] = r]
    BY <2>1, ReturnKnows DEF Return
  <2> HIDE DEF r
  <2> QED BY <1>1, <2>2 DEF Settling
<1>2. CASE active[s].op # 0
  <2>1. /\ call[c] \in CallState /\ Knows(call[c]) /\ s \in Slots /\ active[s] \in ActiveBatch
    BY CallFields, InvFacts DEF WorkTypeOK
  <2>2. p \in {"stopChild", "dropChild"}
    OBVIOUS
  <2>3. call' = [call EXCEPT ![c] = q]
    BY <1>2 DEF Target
  <2> HIDE DEF p
  <2>4. /\ q \in CallState /\ q.pc = p /\ q.slot = s /\ q.op = active[s].op /\ q.kind = call[c].kind
        /\ q.intents = active[s].intents /\ q.msg = call[c].msg /\ q.rows = call[c].rows
    BY <2>1, <2>2 DEF CallState, ActiveBatch, CallPcs
  <2>5. \A i \in active[s].intents : BornTo(i, s)
    BY <2>1, ActiveBorn
  <2>6. Snapshot(s, active[s].op, active[s].intents)
    BY <2>1 DEF Snapshot, Inv, WorkRows
  <2>7. Knows(q)
    <3>1. /\ s = call[c].slot
          /\ call[c].msg # NoMsg => Addressed(call[c].msg, call[c].slot)
          /\ \A m \in call[c].rows : Written(m) /\ mail[m].to = call[c].slot
      BY <2>1 DEF Knows
    <3> HIDE DEF q, s
    <3> QED BY <1>2, <2>2, <2>4, <2>5, <2>6, <3>1 DEF Knows
  <2> HIDE DEF q
  <2> QED BY <1>2, <2>2, <2>3, <2>4, <2>7 DEF Settling
<1> QED
  BY <1>1, <1>2

\* A pause that finds a turn is going to cancel it.
LEMMA PauseSlotKeeps ==
  ASSUME Inv, NEW c \in Procs, PauseSlot(c)
  PROVE  Inv'
<1>1. /\ call[c].pc = "pause" /\ UNCHANGED <<mail, permit, faults>> /\ Quiet
      /\ pause_slot(call[c].slot) /\ Target(c) /\ call[c].kind = "pause"
  BY CallFields DEF PauseSlot, In, Knows
<1>2. PICK q \in CallState :
        /\ Knows(q) /\ q.pc \notin Settling /\ call' = [call EXCEPT ![c] = q]
        /\ active[call[c].slot].op # 0 =>
             /\ q.pc \in {"stopChild", "dropChild"} /\ q.kind = call[c].kind
             /\ q.slot = call[c].slot /\ q.op = active[call[c].slot].op
  BY <1>1, TargetKnows
<1>3. PICK s \in Slots : s = call[c].slot
  BY CallFields
<1>4. WorkStep
  BY <1>1, <1>3, PauseStep, InvFacts
<1>5. leases' = leases /\ active' = active /\ paused' = [paused EXCEPT ![s] = TRUE]
  BY <1>1, <1>3 DEF pause_slot, slotVars
<1>6. /\ call'[c] = q /\ \A d \in Procs \ {c} : call'[d] = call[d]
      /\ loop' = loop /\ faults' = faults
  BY <1>1, <1>2, InvFacts DEF Quiet
<1>7. LeaseOK'
  BY <1>1, <1>5, <1>6, LeaseKept, NoLease DEF Leaseless
<1>8. PauseCancels'
  <2>1. SUFFICES ASSUME NEW t \in Slots, paused'[t], faults = 0, loop[t].pc = "run",
                        active[t].op = loop[t].b.op
                 PROVE  \E d \in Procs : /\ call'[d].kind = "pause"
                                         /\ call'[d].slot = t
                                         /\ call'[d].op = loop[t].b.op
                                         /\ call'[d].pc \in {"stopChild", "dropChild"}
    BY <1>5, <1>6 DEF PauseCancels, At, Batch
  <2>2. loop[t].b.op # 0
    BY <2>1, InvFacts DEF LoopOK, LoopKnows, Holding
  <2>3. CASE t = s
    BY <1>1, <1>2, <1>3, <1>6, <2>1, <2>2, <2>3
  <2>4. CASE t # s
    <3>1. paused[t]
      BY <1>5, <2>1, <2>4, InvFacts DEF WorkTypeOK
    <3>2. PICK d \in Procs : /\ call[d].kind = "pause" /\ call[d].slot = t
                             /\ call[d].op = loop[t].b.op
                             /\ call[d].pc \in {"stopChild", "dropChild"}
      BY <2>1, <3>1, InvFacts DEF PauseCancels, At, Batch
    <3> QED BY <1>3, <1>6, <2>4, <3>2
  <2> QED BY <2>3, <2>4
<1> QED
  BY <1>1, <1>2, <1>4, <1>7, <1>8, WorkCall

LEMMA PickTurnKeeps ==
  ASSUME Inv, NEW c \in Procs, PickTurn(c)
  PROVE  Inv'
<1>1. /\ call[c].pc = "cancelTurn" /\ UNCHANGED <<workVars, mail, permit, faults>> /\ Quiet
      /\ Target(c)
  BY DEF PickTurn, In
<1>2. PICK q \in CallState : Knows(q) /\ q.pc \notin Settling /\ call' = [call EXCEPT ![c] = q]
  BY <1>1, TargetKnows
<1>3. Leaseless(c)
  BY <1>1, NoLease
<1> QED
  BY <1>1, <1>2, <1>3, LocalMove, NoFault, PermitSame

LEMMA StopChildKeeps ==
  ASSUME Inv, NEW c \in Procs, StopChild(c)
  PROVE  Inv'
<1>1. call[c].pc = "stopChild" /\ UNCHANGED <<workVars, mail, permit>> /\ Quiet
  BY DEF StopChild, In
<1>2. Leaseless(c)
  BY <1>1, NoLease
<1>3. "dropChild" \in CallPcs \ Settling /\ MayMove(c, "dropChild")
  <2>1. call[c].op # 0
    BY <1>1, CallFields DEF Knows
  <2> QED BY <1>1, <2>1 DEF MayMove, CallPcs, Settling
<1>4. CASE Step(c, "dropChild") /\ UNCHANGED faults
  BY <1>1, <1>2, <1>3, <1>4, LocalStep, NoFault, PermitSame
<1>5. CASE Fault("cancel") /\ Return(c)
  BY <1>1, <1>2, <1>5, LocalReturn, FaultFacts, PermitSame
<1> QED
  BY <1>4, <1>5 DEF StopChild

\* A request that goes on to write a row to the lead.
LEMMA NoticeKnows ==
  ASSUME Inv, Lead \in Slots, NEW s \in Slots, NEW k \in CallKinds, k # "pause",
         NEW p \in {"noticeRow", "publish"}
  PROVE  LET q == [NoCall EXCEPT !.pc = p, !.slot = Lead, !.from = s, !.kind = k]
         IN  q \in CallState /\ Knows(q) /\ q.pc = p
<1> DEFINE q == [NoCall EXCEPT !.pc = p, !.slot = Lead, !.from = s, !.kind = k]
<1>1. (CHOOSE t \in Slots : TRUE) \in Slots
  BY ConstantsAssumption
<1>2. /\ q.pc = p /\ q.slot = Lead /\ q.msg = NoMsg /\ q.op = 0
      /\ q.intents = {} /\ q.rows = {}
  BY DEF NoCall
<1>3. q \in CallState
  BY <1>1, EventLoopAssumption DEF NoCall, CallState, CallPcs
<1>4. 0 <= nextOp
  BY InvFacts DEF WorkTypeOK
<1>5. Knows(q)
  <2> HIDE DEF q
  <2> QED BY <1>2, <1>4 DEF Knows, Snapshot
<1> QED
  BY <1>2, <1>3, <1>5

\* Whether or not the batch still owned the slot, afterwards it does not.
LEMMA DropChildKeeps ==
  ASSUME Inv, NEW c \in Procs, DropChild(c)
  PROVE  Inv'
<1>1. /\ call[c].pc = "dropChild" /\ UNCHANGED <<mail, permit, faults>> /\ Quiet
      /\ call[c] \in CallState /\ call[c].op # 0
  BY CallFields DEF DropChild, In, Knows
<1>2. PICK s \in Slots : s = call[c].slot
  BY CallFields
<1>3. PICK q \in CallState : Knows(q) /\ q.pc \notin Settling /\ call' = [call EXCEPT ![c] = q]
  <2>1. CASE Lead \in Slots \ {s}
    <3> DEFINE r == [NoCall EXCEPT !.pc = "noticeRow", !.slot = Lead, !.from = s, !.kind = "interrupted"]
    <3>1. r \in CallState /\ Knows(r) /\ r.pc = "noticeRow"
      BY <2>1, NoticeKnows DEF CallKinds
    <3>2. call' = [call EXCEPT ![c] = r]
      BY <1>2, <2>1 DEF DropChild
    <3> HIDE DEF r
    <3> QED BY <3>1, <3>2 DEF Settling
  <2>2. CASE Lead \notin Slots \ {s}
    <3> DEFINE r == [NoCall EXCEPT !.pc = "done"]
    <3>1. r \in CallState /\ Knows(r) /\ r.pc = "done" /\ call' = [call EXCEPT ![c] = r]
      BY <1>2, <2>2, ReturnKnows DEF Return, DropChild
    <3> HIDE DEF r
    <3> QED BY <3>1 DEF Settling
  <2> QED BY <2>1, <2>2
<1>4. Leaseless(c)
  BY <1>1, NoLease
<1>5. CASE ~is_current_batch(Held(c)) /\ UNCHANGED workVars
  <2>1. active[call[c].slot].op # call[c].op
    BY <1>5 DEF is_current_batch, Held
  <2> QED BY <1>1, <1>3, <1>4, <1>5, <2>1, LocalMove, NoFault, PermitSame
<1>6. CASE cancel_batch(Held(c))
  <2>1. PICK b \in WorkBatch : /\ Copy(b) /\ b.slot = call[c].slot /\ b.op = call[c].op
                               /\ b.intents = call[c].intents
    BY <1>1, HeldCopy
  <2>2. cancel_batch(b)
    BY <1>6, <2>1 DEF cancel_batch, Held, is_current_batch, BatchMsgs
  <2>3. WorkStep
    BY <1>1, <2>1, <2>2, CancelStepKept, InvFacts
  <2>4. leases' = leases /\ paused' = paused /\ active' = [active EXCEPT ![s] = NoBatch]
    BY <1>2, <2>1, <2>2 DEF cancel_batch
  <2>5. active'[call[c].slot].op = 0
    BY <1>2, <2>4, InvFacts DEF WorkTypeOK, NoBatch
  <2>6. /\ leases' \subseteq leases /\ \A l \in leases' : l.id # c
        /\ \A t \in Slots : paused'[t] => paused[t]
        /\ PauseStays(c)
    BY <1>1, <1>4, <2>4, <2>5 DEF Leaseless, PauseStays
  <2> QED BY <1>1, <1>3, <2>3, <2>6, WorkMove
<1> QED
  BY <1>5, <1>6 DEF DropChild

LEMMA CancelStepKeeps ==
  ASSUME Inv, NEW c \in Procs, CancelStep(c)
  PROVE  Inv'
  BY CancelRunKeeps, SettleRunKeeps, PauseSlotKeeps, PickTurnKeeps, StopChildKeeps,
     DropChildKeeps DEF CancelStep
-----------------------------------------------------------------------------
(* Notices, the recovery drain and the inbox keep the invariant.           *)

\* A loop that gives notice writes to the lead, and moves on.
LEMMA NoticeRowKeeps ==
  ASSUME Inv, NEW c \in Procs, NoticeRow(c)
  PROVE  Inv'
<1>1. /\ call[c].pc = "noticeRow" /\ UNCHANGED <<workVars, permit>> /\ Quiet
      /\ call[c].slot = Lead /\ Lead \in Slots /\ call[c].from \in Slots \cup {User}
  BY CallFields DEF NoticeRow, In, Knows
<1>2. Leaseless(c)
  BY <1>1, NoLease
<1>3. CASE Fault("mailbox") /\ Return(c) /\ UNCHANGED mail
  BY <1>1, <1>2, <1>3, LocalReturn, FaultFacts, PermitSame
<1>4. ASSUME NEW m \in Msgs, write(m, Lead, call[c].from), Step(c, "noticeFind"), UNCHANGED faults
      PROVE  Inv'
  <2>1. mail' \in [Msgs -> Row] /\ MailKept /\ FiniteMail' /\ \A n \in Msgs : WasRead(n)' => WasRead(n)
    BY <1>1, <1>4, WriteKept, InvFacts
  <2>2. "noticeFind" \in CallPcs /\ MayMove(c, "noticeFind")
    BY <1>1 DEF CallPcs, MayMove
  <2>3. PICK r \in CallState : r = Moved(c, "noticeFind")
    BY <2>2, StepKnows
  <2>4. Knows(r) /\ r.pc = "noticeFind" /\ call' = [call EXCEPT ![c] = r]
    BY <1>4, <2>2, <2>3, StepKnows, StepIs
  <2>5. call'[c] = r /\ (\A d \in Procs \ {c} : call'[d] = call[d]) /\ call' \in [Procs -> CallState]
    BY <2>4, InvFacts
  <2>6. WorkStep /\ WorkTypeOK'
    BY <1>1, <2>1, SameWork, InvFacts DEF WorkStep, WorkInv, Good
  <2>7. faults' \in 0..MaxFaults /\ faults <= faults'
    BY <1>4, NoFault
  <2>8. TypeOK'
    BY <1>1, <2>1, <2>5, <2>6, <2>7, CallTypes, PermitSame
  <2>9. UNCHANGED <<loop, delivered, attach>> /\ refused \subseteq refused'
    BY <1>1 DEF Quiet
  <2>10. CallOK(c)'
    BY <2>1, <2>4, <2>5, <2>6, <2>7, <2>9, MovesOn DEF Settling
  <2> QED
    BY <1>1, <1>2, <2>1, <2>5, <2>7, <2>8, <2>9, <2>10, MailCall
<1> QED
  BY <1>3, <1>4 DEF NoticeRow

\* The newest row of the sender is a row of the lead.
LEMMA NoticeFindKeeps ==
  ASSUME Inv, NEW c \in Procs, NoticeFind(c)
  PROVE  Inv'
<1> DEFINE R == {m \in peek_unread(Lead) : mail[m].from = call[c].from}
           q == [call[c] EXCEPT !.pc = "publish", !.msg = Max(R)]
<1>1. /\ call[c].pc = "noticeFind" /\ UNCHANGED <<workVars, mail, permit>> /\ Quiet
      /\ call[c] \in CallState /\ Knows(call[c]) /\ call[c].slot = Lead
  BY CallFields DEF NoticeFind, In, Knows
<1>2. Leaseless(c)
  BY <1>1, NoLease
<1>3. CASE R # {} /\ call' = [call EXCEPT ![c] = q] /\ UNCHANGED faults
  <2>1. R \in SUBSET {m \in Msgs : Written(m)}
    BY DEF peek_unread, Written
  <2>2. Max(R) \in R
    BY <1>3, <2>1, NewestRow, InvFacts
  <2>3. Addressed(Max(R), Lead)
    BY <2>2 DEF peek_unread, Addressed, Written
  <2> HIDE DEF R
  <2>4. /\ q \in CallState /\ q.pc = "publish" /\ q.slot = Lead /\ q.msg = Max(R)
        /\ q.op = call[c].op /\ q.intents = call[c].intents /\ q.rows = call[c].rows
    BY <1>1, <2>3 DEF CallState, CallPcs, Addressed
  <2> HIDE DEF q
  <2>5. Knows(q) /\ q.pc \notin Settling
    BY <1>1, <2>3, <2>4 DEF Knows, Settling
  <2> QED
    BY <1>1, <1>2, <1>3, <2>4, <2>5, LocalMove, NoFault, PermitSame
<1>4. CASE Return(c) /\ (UNCHANGED faults \/ Fault("mailbox"))
  BY <1>1, <1>2, <1>4, LocalReturn, NoFault, FaultFacts, PermitSame
<1> QED
  BY <1>3, <1>4 DEF NoticeFind

\* The drain takes the unread rows of the lead.
LEMMA ScanUnreadKeeps ==
  ASSUME Inv, NEW c \in Procs, ScanUnread(c)
  PROVE  Inv'
<1>1. /\ call[c].pc = "scan" /\ recovered' = TRUE
      /\ UNCHANGED <<workVars, mail, runtime, loop, permit, status, delivered, attach, refused>>
      /\ call[c] \in CallState /\ Knows(call[c]) /\ call[c].slot = Lead
      /\ faults' \in 0..MaxFaults /\ faults <= faults'
  BY CallFields, NoFault, FaultFacts DEF ScanUnread, In, Knows
<1>2. PICK q \in CallState : Knows(q) /\ q.pc \notin Settling /\ call' = [call EXCEPT ![c] = q]
  <2>1. CASE Return(c)
    BY <2>1, ReturnKnows DEF Return, Settling
  <2>2. CASE /\ peek_unread(Lead) # {}
             /\ call' = [call EXCEPT ![c] = [@ EXCEPT !.pc = "nextRow", !.rows = peek_unread(Lead)]]
    <3> DEFINE R == peek_unread(Lead)
               r == [call[c] EXCEPT !.pc = "nextRow", !.rows = R]
    <3>1. \A m \in R : m \in Msgs /\ Written(m) /\ mail[m].to = Lead
      BY DEF peek_unread, Written
    <3>2. R # {} /\ call' = [call EXCEPT ![c] = r]
      BY <2>2
    <3> HIDE DEF R
    <3>3. /\ r \in CallState /\ r.pc = "nextRow" /\ r.slot = Lead /\ r.msg = call[c].msg
          /\ r.op = call[c].op /\ r.intents = call[c].intents /\ r.rows = R
      BY <1>1, <3>1 DEF CallState, CallPcs
    <3> HIDE DEF r
    <3>4. Knows(r)
      BY <1>1, <3>1, <3>2, <3>3 DEF Knows
    <3> QED BY <3>2, <3>3, <3>4 DEF Settling
  <2> QED BY <2>1, <2>2 DEF ScanUnread
<1>3. Leaseless(c) /\ PauseStays(c)
  BY <1>1, NoLease DEF PauseStays
<1>4. TypeOK'
  <2>1. WorkTypeOK'
    BY <1>1, InvFacts DEF WorkTypeOK, workVars, intentVars, slotVars
  <2>2. call' \in [Procs -> CallState]
    BY <1>2, InvFacts
  <2> QED BY <1>1, <2>1, <2>2 DEF Inv, TypeOK, LoopTypeOK
<1> QED
  BY <1>1, <1>2, <1>3, <1>4, LocalCall DEF Leaseless

LEMMA NextRowKeeps ==
  ASSUME Inv, NEW c \in Procs, NextRow(c)
  PROVE  Inv'
<1> DEFINE R == call[c].rows
           m == Min(R)
           q == [call[c] EXCEPT !.pc = "publish", !.msg = m, !.rows = R \ {m}]
<1>1. /\ call[c].pc = "nextRow" /\ UNCHANGED <<workVars, mail, permit, faults>> /\ Quiet
      /\ call[c] \in CallState /\ Knows(call[c]) /\ R # {} /\ R \subseteq Msgs
  BY CallFields DEF NextRow, In, Knows
<1>2. call' = [call EXCEPT ![c] = q]
  BY DEF NextRow
<1>3. \A n \in R : Addressed(n, call[c].slot)
  BY <1>1 DEF Knows, Addressed
<1>4. m \in R
  <2>1. R \in SUBSET {n \in Msgs : Written(n)}
    BY <1>1, <1>3 DEF Addressed
  <2> HIDE DEF R
  <2> QED BY <1>1, <2>1, NewestRow, InvFacts
<1>5. Addressed(m, call[c].slot) /\ m \in Msgs
  BY <1>1, <1>3, <1>4
<1> HIDE DEF m
<1>6. /\ q \in CallState /\ q.pc = "publish" /\ q.slot = call[c].slot /\ q.msg = m
      /\ q.op = call[c].op /\ q.intents = call[c].intents /\ q.rows = R \ {m}
  BY <1>1, <1>5 DEF CallState, CallPcs
<1> HIDE DEF q
<1>7. Knows(q) /\ q.pc \notin Settling
  BY <1>1, <1>5, <1>6 DEF Knows, Settling
<1>8. Leaseless(c)
  BY <1>1, NoLease
<1> QED
  BY <1>1, <1>2, <1>6, <1>7, <1>8, LocalMove, NoFault, PermitSame

LEMMA NoticeStepKeeps ==
  ASSUME Inv, NEW c \in Procs, NoticeStep(c)
  PROVE  Inv'
  BY NoticeRowKeeps, NoticeFindKeeps, ScanUnreadKeeps, NextRowKeeps DEF NoticeStep

LEMMA PeekInboxKeeps ==
  ASSUME Inv, NEW c \in Procs, PeekInbox(c)
  PROVE  Inv'
<1>1. /\ call[c].pc = "inbox" /\ UNCHANGED <<workVars, mail, permit>> /\ Quiet
      /\ call[c] \in CallState /\ Knows(call[c])
  BY CallFields DEF PeekInbox, In
<1>2. Leaseless(c)
  BY <1>1, NoLease
<1>3. CASE Fault("mailbox") /\ Return(c)
  BY <1>1, <1>2, <1>3, LocalReturn, FaultFacts, PermitSame
<1>4. ASSUME NEW page \in SUBSET peek_unread(call[c].slot), UNCHANGED faults,
             call' = [call EXCEPT ![c] = [@ EXCEPT !.pc = "observe", !.rows = page]]
      PROVE  Inv'
  <2> DEFINE q == [call[c] EXCEPT !.pc = "observe", !.rows = page]
  <2>1. \A m \in page : m \in Msgs /\ Written(m) /\ mail[m].to = call[c].slot
    BY DEF peek_unread, Written
  <2>2. /\ q \in CallState /\ q.pc = "observe" /\ q.slot = call[c].slot /\ q.msg = call[c].msg
        /\ q.op = call[c].op /\ q.intents = call[c].intents /\ q.rows = page
    BY <1>1, <2>1 DEF CallState, CallPcs
  <2>3. call' = [call EXCEPT ![c] = q]
    BY <1>4
  <2> HIDE DEF q
  <2>4. Knows(q) /\ q.pc \notin Settling
    BY <1>1, <2>1, <2>2 DEF Knows, Settling
  <2> QED
    BY <1>1, <1>2, <1>4, <2>2, <2>3, <2>4, LocalMove, NoFault, PermitSame
<1> QED
  BY <1>3, <1>4 DEF PeekInbox

LEMMA ObserveKeeps ==
  ASSUME Inv, NEW c \in Procs, Observe(c)
  PROVE  Inv'
<1>1. /\ call[c].pc = "observe" /\ UNCHANGED <<mail, permit, faults>> /\ Quiet /\ Return(c)
      /\ call[c].slot \in Slots /\ call[c].op \in Nat /\ call[c].rows \in SUBSET Msgs
      /\ Knows(call[c])
  BY CallFields DEF Observe, In
<1>2. Leaseless(c) /\ PauseStays(c)
  BY <1>1, NoLease DEF PauseStays
<1>3. CASE UNCHANGED workVars
  BY <1>1, <1>2, <1>3, LocalReturn, NoFault, PermitSame
<1>4. CASE observe_messages(call[c].slot, call[c].op, call[c].rows)
  <2> DEFINE q == [NoCall EXCEPT !.pc = "done"]
  <2>1. q \in CallState /\ Knows(q) /\ q.pc = "done" /\ call' = [call EXCEPT ![c] = q]
    BY <1>1, ReturnKnows DEF Return
  <2> HIDE DEF q
  <2>2. \A m \in call[c].rows : Addressed(m, call[c].slot)
    BY <1>1 DEF Knows, Addressed
  <2>3. WorkStep
    BY <1>1, <1>4, <2>2, ObserveStepKept, InvFacts
  <2>4. leases' = leases /\ paused' = paused
    BY <1>4 DEF observe_messages
  <2>5. /\ leases' \subseteq leases /\ \A l \in leases' : l.id # c
        /\ \A s \in Slots : paused'[s] => paused[s]
        /\ q.pc \notin Settling
    BY <1>2, <2>1, <2>4 DEF Leaseless, Settling
  <2> QED
    BY <1>1, <1>2, <2>1, <2>3, <2>5, WorkMove
<1> QED
  BY <1>3, <1>4 DEF Observe

LEMMA ObserveStepKeeps ==
  ASSUME Inv, NEW c \in Procs, ObserveStep(c)
  PROVE  Inv'
  BY PeekInboxKeeps, ObserveKeeps DEF ObserveStep

\* A request begins with nothing but what it asks for.
LEMMA BeginKeeps ==
  ASSUME Inv, NEW c \in Callers, Begin(c)
  PROVE  Inv'
<1>1. PICK k \in Requests, s \in Slots :
        /\ May(k, s)
        /\ call' = [call EXCEPT ![c] = [NoCall EXCEPT !.pc = Entry(k, s), !.kind = k, !.slot = s,
                                        !.op = IF k = "read" THEN active[s].op ELSE 0]]
  BY DEF Begin
<1> DEFINE p == Entry(k, s)
           op == IF k = "read" THEN active[s].op ELSE 0
           q == [NoCall EXCEPT !.pc = p, !.kind = k, !.slot = s, !.op = op]
<1>2. /\ call[c].pc = "idle" /\ UNCHANGED <<workVars, mail, permit, faults>> /\ Quiet
      /\ c \in Procs /\ c \notin Slots
  BY TeamSessionAssumption DEF Begin, In, Procs
<1>3. call' = [call EXCEPT ![c] = q]
  BY <1>1
<1>4. k \in Sends \cup Interrupts \cup Cancels \cup {"run", "recover", "read"}
  BY TeamSessionAssumption
<1>5. /\ p \in {"ensure", "publish", "scan", "cancelRun", "inbox", "pause", "cancelTurn"}
      /\ p = "scan" => k = "recover"
      /\ p = "pause" => k = "pause"
      /\ k = "read" => p = "inbox"
  BY <1>4 DEF Entry, Sends, Interrupts, Cancels
<1>6. k = "recover" => s = Lead
  BY <1>1 DEF May
<1>7. op \in Nat /\ (p # "inbox" => op = 0)
  BY <1>5, InvFacts DEF WorkTypeOK, ActiveBatch
<1> HIDE DEF p, op
<1>8. /\ q.pc = p /\ q.kind = k /\ q.slot = s /\ q.op = op /\ q.msg = NoMsg
      /\ q.intents = {} /\ q.rows = {}
  BY DEF NoCall
<1>9. q \in CallState
  BY <1>4, <1>5, <1>7, EventLoopAssumption DEF NoCall, CallState, CallPcs, CallKinds
<1>10. 0 <= nextOp
  BY InvFacts DEF WorkTypeOK
<1> HIDE DEF q
<1>11. Knows(q) /\ q.pc \notin Settling
  BY <1>5, <1>6, <1>7, <1>8, <1>10 DEF Knows, Snapshot, Settling
<1>12. Leaseless(c)
  BY <1>2, NoLease
<1> QED
  BY <1>2, <1>3, <1>9, <1>11, <1>12, LocalMove, NoFault, PermitSame

LEMMA CallStepKeeps ==
  ASSUME Inv, NEW c \in Procs, CallStep(c)
  PROVE  Inv'
  BY EnqueueStepKeeps, InterruptStepKeeps, CancelStepKeeps, NoticeStepKeeps,
     ObserveStepKeeps DEF CallStep
-----------------------------------------------------------------------------
(* The frame of a step of one event loop.                                  *)

HeldRows(s) == BatchMsgs(Batch(s))

\* A step of one loop disturbs no request and no other loop.
LEMMA LoopFrame ==
  ASSUME Inv, TypeOK', WorkStep, MailKept, FiniteMail', SettledAccounted',
         UNCHANGED <<call, attach, refused>>, leases' = leases, faults <= faults',
         delivered \subseteq delivered',
         NEW s \in Slots, loop[s].pc \notin {"gone", "telling", "tellingEnd", "waking"},
         \A t \in Slots \ {s} : loop'[t] = loop[t] /\ (paused'[t] => paused[t]),
         LoopOK(s)',
         loop'[s].pc = "run" => ~paused'[s] \/ active'[s].op # loop'[s].b.op,
         \A m \in delivered' : \/ m \in delivered
                               \/ Addressed(m, s) /\ loop'[s].pc = "ack" /\ m \in loop'[s].rows,
         loop[s].pc = "ack" => MailFailed' \/ \A m \in loop[s].rows : WasRead(m)',
         InTurn(s)' => \/ InTurn(s) /\ loop'[s].b = loop[s].b
                       \/ HeldRows(s)' \cap delivered = {}
                       \/ MailFailed'
  PROVE  Inv'
<1>1. Kept /\ WorkTypeOK'
  BY DEF Kept, WorkStep, WorkInv, Good
<1>2. \A d \in Procs : CallOK(d)'
  BY <1>1, CallKept, InvFacts
<1>3. \A t \in Slots : LoopOK(t)'
  BY <1>1, LoopKept, InvFacts
<1>4. LeaseOK'
  BY InvFacts DEF LeaseOK
<1>5. LoopsAlone'
  <2>1. call[s].pc = "idle" /\ attach[s] # "spawn"
    BY InvFacts DEF LoopsAlone
  <2> QED BY <2>1, InvFacts DEF LoopsAlone
<1>6. MailFailed => MailFailed'
  <2>1. faults \in Nat /\ faults' \in Nat
    BY EventLoopAssumption, InvFacts DEF TypeOK, LoopTypeOK
  <2> QED BY <2>1 DEF MailFailed
<1>7. DeliveredRead'
  <2>1. SUFFICES ASSUME NEW m \in delivered', ~MailFailed'
                 PROVE  WasRead(m)' \/ \E t \in Slots : loop'[t].pc = "ack" /\ m \in loop'[t].rows
    BY DEF DeliveredRead, At
  <2>2. CASE m \in delivered
    <3>1. m \in Msgs
      BY <2>2 DEF Inv, TypeOK, LoopTypeOK
    <3>2. WasRead(m) \/ \E t \in Slots : loop[t].pc = "ack" /\ m \in loop[t].rows
      BY <1>6, <2>1, <2>2, InvFacts DEF DeliveredRead, At
    <3>3. WasRead(m) => WasRead(m)'
      BY <3>1 DEF MailKept, WasRead, Written
    <3>4. ASSUME NEW t \in Slots, loop[t].pc = "ack", m \in loop[t].rows
          PROVE  WasRead(m)' \/ (loop'[t].pc = "ack" /\ m \in loop'[t].rows)
      BY <2>1, <3>4
    <3> QED BY <3>2, <3>3, <3>4
  <2>3. CASE m \notin delivered
    BY <2>3
  <2> QED BY <2>2, <2>3
<1>8. ASSUME NEW t \in Slots, loop'[t].b = loop[t].b
      PROVE  HeldRows(t)' = HeldRows(t)
  <2>1. PICK r \in LoopState : r = loop[t]
    BY InvFacts
  <2>2. \A i \in r.b.intents : info'[i] = info[i]
    BY <1>1, <2>1, InvFacts DEF LoopOK, LoopKnows, BornTo, Kept, WorkKept, LoopState
  <2> QED
    BY <1>8, <2>1, <2>2 DEF HeldRows, BatchMsgs, Batch
<1>9. NoRedelivery'
  <2>1. SUFFICES ASSUME NEW t \in Slots, InTurn(t)', ~MailFailed'
                 PROVE  HeldRows(t)' \cap delivered' = {}
    BY DEF NoRedelivery, MailFailed, HeldRows
  <2>2. ASSUME InTurn(t), loop'[t].b = loop[t].b
        PROVE  HeldRows(t)' \cap delivered = {}
    BY <1>6, <1>8, <2>1, <2>2, InvFacts DEF NoRedelivery, MailFailed, HeldRows
  <2>3. CASE t = s
    <3>1. loop'[s].pc # "ack"
      BY <2>1, <2>3 DEF InTurn
    <3> QED BY <2>1, <2>2, <2>3, <3>1
  <2>4. CASE t # s
    <3>1. InTurn(t) /\ loop'[t] = loop[t]
      BY <2>1, <2>4 DEF InTurn
    <3>2. ASSUME NEW m \in HeldRows(t)', m \in delivered' PROVE FALSE
      <4>1. m \notin delivered /\ Addressed(m, s)
        BY <2>2, <3>1, <3>2
      <4>2. m \in HeldRows(t)
        BY <1>8, <3>1, <3>2
      <4>3. PICK i \in loop[t].b.intents : m = info[i].msg
        BY <4>2 DEF HeldRows, BatchMsgs, Batch
      <4>4. BornTo(i, t) /\ i \in IntentIds
        BY <4>3, InvFacts DEF LoopOK, LoopKnows, LoopState
      <4>5. Addressed(m, t)
        BY <4>3, <4>4, ConstantsAssumption DEF BornTo, Inv, WorkRows
      <4> QED BY <2>4, <4>1, <4>5 DEF Addressed
    <3> QED BY <3>2
  <2> QED BY <2>3, <2>4
<1>10. PauseCancels'
  <2>1. SUFFICES ASSUME NEW t \in Slots, paused'[t], faults' = 0, loop'[t].pc = "run",
                        active'[t].op = loop'[t].b.op
                 PROVE  \E d \in Procs : /\ call'[d].kind = "pause"
                                         /\ call'[d].slot = t
                                         /\ call'[d].op = loop'[t].b.op
                                         /\ call'[d].pc \in {"stopChild", "dropChild"}
    BY DEF PauseCancels, At, Batch
  <2>2. t # s /\ loop'[t] = loop[t] /\ paused[t]
    BY <2>1
  <2>3. faults = 0
    <3>1. faults \in Nat /\ faults' \in Nat /\ faults <= faults'
      BY InvFacts, EventLoopAssumption DEF TypeOK, LoopTypeOK
    <3> QED BY <2>1, <3>1
  <2>4. PICK o \in Nat : o = loop[t].b.op
    BY InvFacts DEF LoopState
  <2>5. o # 0 /\ Snapshot(t, o, loop[t].b.intents)
    BY <2>1, <2>2, <2>4, InvFacts DEF LoopOK, LoopKnows, Holding
  <2>6. active[t].op = o
    BY <1>1, <2>1, <2>2, <2>4, <2>5, SnapshotKept, InvFacts DEF Kept, TypeOK
  <2> QED BY <2>1, <2>2, <2>3, <2>4, <2>6, InvFacts DEF PauseCancels, At, Batch
<1> QED
  BY <1>2, <1>3, <1>4, <1>5, <1>7, <1>9, <1>10 DEF Inv, WorkStep, WorkInv, Good

\* A loop that keeps its hands off the mailbox and moves on to q.
LEMMA LoopWork ==
  ASSUME Inv, WorkStep, mail' = mail, leases' = leases,
         UNCHANGED <<runtime, delivered, call, attach, recovered, refused>>,
         permit' \in [Slots -> BOOLEAN], status' \in [Slots -> {"Idle", "Working", "Error"}],
         faults' \in 0..MaxFaults, faults <= faults',
         NEW s \in Slots, loop[s].pc \notin {"gone", "ack", "telling", "tellingEnd", "waking"},
         NEW q \in LoopState, LoopKnows(s, q), loop' = [loop EXCEPT ![s] = q],
         q.pc \in Reading => \A m \in q.rows : Accounted(m)',
         \A t \in Slots \ {s} : paused'[t] => paused[t],
         q.pc = "run" => ~paused'[s] \/ active'[s].op # q.b.op,
         q.pc \in {"turn", "late", "drop", "run"} =>
           \/ InTurn(s) /\ q.b = loop[s].b
           \/ BatchMsgs(q.b) \cap delivered = {}
           \/ MailFailed'
  PROVE  Inv'
<1>1. MailKept /\ FiniteMail' /\ \A n \in Msgs : WasRead(n)' => WasRead(n)
  BY SameMail, InvFacts
<1>2. Kept /\ WorkTypeOK'
  BY <1>1 DEF Kept, WorkStep, WorkInv, Good
<1>3. loop'[s] = q /\ (\A t \in Slots \ {s} : loop'[t] = loop[t]) /\ loop' \in [Slots -> LoopState]
  BY InvFacts
<1>4. TypeOK'
  BY <1>2, <1>3 DEF Inv, TypeOK, LoopTypeOK
<1>5. SettledAccounted'
  BY <1>1, <1>2, SettledKept, InvFacts
<1>6. PICK r \in LoopState : r = q
  OBVIOUS
<1>7. LoopOK(s)'
  <2>1. LoopKnows(s, r)'
    BY <1>2, <1>6, LoopKnownKept, InvFacts
  <2> QED BY <1>3, <1>6, <2>1 DEF LoopOK
<1>8. InTurn(s)' => \/ InTurn(s) /\ loop'[s].b = loop[s].b
                    \/ HeldRows(s)' \cap delivered = {}
                    \/ MailFailed'
  <2>1. \A i \in r.b.intents : info'[i] = info[i]
    BY <1>2, <1>6 DEF LoopKnows, BornTo, Kept, WorkKept, LoopState
  <2>2. HeldRows(s)' = BatchMsgs(r.b)
    BY <1>3, <1>6, <2>1 DEF HeldRows, BatchMsgs, Batch
  <2> QED BY <1>3, <1>6, <2>2 DEF InTurn
<1> QED
  BY <1>1, <1>2, <1>3, <1>4, <1>5, <1>7, <1>8, LoopFrame

\* A loop that leaves the coordinator alone, too.
LEMMA LoopMove ==
  ASSUME Inv, UNCHANGED <<workVars, mail>>,
         UNCHANGED <<runtime, delivered, call, attach, recovered, refused>>,
         permit' \in [Slots -> BOOLEAN], status' \in [Slots -> {"Idle", "Working", "Error"}],
         faults' \in 0..MaxFaults, faults <= faults',
         NEW s \in Slots, loop[s].pc \notin {"gone", "ack", "telling", "tellingEnd", "waking"},
         NEW q \in LoopState, LoopKnows(s, q), loop' = [loop EXCEPT ![s] = q],
         q.pc \notin Reading,
         q.pc = "run" => ~paused[s] \/ active[s].op # q.b.op,
         q.pc \in {"turn", "late", "drop", "run"} =>
           \/ InTurn(s) /\ q.b = loop[s].b
           \/ BatchMsgs(q.b) \cap delivered = {}
           \/ MailFailed'
  PROVE  Inv'
<1>1. MailKept
  BY SameMail, InvFacts
<1>2. WorkStep
  BY <1>1, SameWork, InvFacts
<1>3. leases' = leases /\ paused' = paused /\ active' = active
  BY DEF workVars, slotVars
<1> QED
  BY <1>2, <1>3, LoopWork

\* What a loop remembers is typed and true.
LEMMA LoopFields ==
  ASSUME Inv, NEW s \in Slots
  PROVE  /\ loop[s] \in LoopState /\ LoopKnows(s, loop[s])
         /\ loop[s].pc \in Holding => loop[s].b.op # 0
         /\ permit' = permit => permit' \in [Slots -> BOOLEAN]
         /\ status' = status => status' \in [Slots -> {"Idle", "Working", "Error"}]
         /\ \A st \in {"Idle", "Working", "Error"} :
              SetStatus(s, st) => status' \in [Slots -> {"Idle", "Working", "Error"}]
  BY InvFacts DEF LoopOK, LoopKnows, SetStatus, LoopTypeOK

\* What a loop remembers when it goes on with its batch.
LEMMA GotoKnows ==
  ASSUME Inv, NEW s \in Slots, NEW p \in LoopPcs, Goto(s, p),
         p \in Holding => loop[s].b.op # 0,
         p \in {"idleRow", "wakeLead"} => Lead \in Slots
  PROVE  \E q \in LoopState : /\ LoopKnows(s, q) /\ q.pc = p /\ q.b = loop[s].b /\ q.rows = {}
                              /\ loop' = [loop EXCEPT ![s] = q]
<1> DEFINE q == [loop[s] EXCEPT !.pc = p, !.cands = {}, !.rows = {}]
<1>1. loop[s] \in LoopState /\ LoopKnows(s, loop[s])
  BY LoopFields
<1>2. q \in LoopState /\ q.pc = p /\ q.b = loop[s].b /\ q.rows = {}
  BY <1>1 DEF LoopState
<1>3. loop' = [loop EXCEPT ![s] = q]
  BY DEF Goto
<1> HIDE DEF q
<1>4. LoopKnows(s, q)
  BY <1>1, <1>2 DEF LoopKnows
<1> QED
  BY <1>2, <1>3, <1>4

\* What it remembers when it is done with it.
LEMMA LeaveKnows ==
  ASSUME Inv, NEW s \in Slots, NEW p \in LoopPcs \ Holding, Leave(s, p),
         p \in {"idleRow", "wakeLead"} => Lead \in Slots
  PROVE  \E q \in LoopState : /\ LoopKnows(s, q) /\ q.pc = p /\ q.rows = {}
                              /\ loop' = [loop EXCEPT ![s] = q]
<1> DEFINE q == [pc |-> p, b |-> NoWork(s), cands |-> {}, rows |-> {}]
<1>1. q \in LoopState /\ q.pc = p /\ q.b = NoWork(s) /\ q.rows = {}
  BY DEF LoopState, NoWork, Lanes
<1>2. loop' = [loop EXCEPT ![s] = q]
  BY DEF Leave
<1>3. 0 <= nextOp
  BY InvFacts DEF WorkTypeOK
<1> HIDE DEF q
<1>4. LoopKnows(s, q)
  BY <1>1, <1>3 DEF LoopKnows, NoWork, Snapshot
<1> QED
  BY <1>1, <1>2, <1>4

\* The batch of a loop is a copy of the active batch, or out of date.
LEMMA LoopCopy ==
  ASSUME Inv, NEW s \in Slots, loop[s].b.op # 0
  PROVE  Batch(s) \in WorkBatch /\ Copy(Batch(s)) /\ Batch(s).slot = s
<1>1. loop[s] \in LoopState /\ LoopKnows(s, loop[s])
  BY LoopFields
<1>2. loop[s].b \in WorkBatch
  BY <1>1 DEF LoopState, WorkBatch
<1> QED
  BY <1>1, <1>2 DEF LoopKnows, Copy, is_current_batch, Snapshot, Batch
-----------------------------------------------------------------------------
(* prepare_next_batch keeps the invariant.                                 *)

Loops == UNCHANGED <<call, attach, recovered, refused>>

LEMMA RestKeeps ==
  ASSUME Inv, NEW s \in Slots, Rest(s), Loops
  PROVE  Inv'
<1>1. /\ loop[s].pc = "rest" /\ Goto(s, "wait") /\ "wait" \in LoopPcs
      /\ UNCHANGED <<workVars, mail, runtime, permit, status, faults, delivered>>
  BY DEF Rest, At, LoopPcs
<1>2. PICK q \in LoopState : LoopKnows(s, q) /\ q.pc = "wait" /\ loop' = [loop EXCEPT ![s] = q]
  BY <1>1, GotoKnows DEF Holding
<1> QED
  BY <1>1, <1>2, LoopMove, LoopFields, NoFault DEF Loops, Reading

LEMMA AwakeKeeps ==
  ASSUME Inv, NEW s \in Slots, Awake(s), Loops
  PROVE  Inv'
<1>1. /\ loop[s].pc = "wait" /\ Goto(s, "prepare") /\ "prepare" \in LoopPcs
      /\ permit' = [permit EXCEPT ![s] = FALSE]
      /\ UNCHANGED <<workVars, mail, runtime, status, faults, delivered>>
  BY DEF Awake, At, LoopPcs
<1>2. PICK q \in LoopState : LoopKnows(s, q) /\ q.pc = "prepare" /\ loop' = [loop EXCEPT ![s] = q]
  BY <1>1, GotoKnows DEF Holding
<1>3. permit' \in [Slots -> BOOLEAN]
  BY <1>1, InvFacts DEF LoopTypeOK
<1> QED
  BY <1>1, <1>2, <1>3, LoopMove, LoopFields, NoFault DEF Loops, Reading

LEMMA PrepareKeeps ==
  ASSUME Inv, NEW s \in Slots, Prepare(s), Loops
  PROVE  Inv'
<1>1. /\ loop[s].pc = "prepare" /\ Goto(s, "cands") /\ "cands" \in LoopPcs
      /\ UNCHANGED <<mail, runtime, permit, status, faults, delivered>>
  BY DEF Prepare, At, LoopPcs
<1>2. PICK k \in {"Ready", "Starting"} : set_runtime_constraint(s, [kind |-> k, op |-> 0])
  BY DEF Prepare, ConstraintOf
<1>3. PICK q \in LoopState : LoopKnows(s, q) /\ q.pc = "cands" /\ loop' = [loop EXCEPT ![s] = q]
  BY <1>1, GotoKnows DEF Holding
<1>4. WorkStep
  BY <1>1, <1>2, ConstrainStep, InvFacts
<1>5. leases' = leases /\ paused' = paused
  BY <1>2 DEF set_runtime_constraint
<1> QED
  BY <1>1, <1>3, <1>4, <1>5, LoopWork, LoopFields, NoFault DEF Loops, Reading

LEMMA StaleCandidatesKeeps ==
  ASSUME Inv, NEW s \in Slots, StaleCandidates(s), Loops
  PROVE  Inv'
<1> DEFINE C == mailbox_reconcile_candidates(s)
           q == [loop[s] EXCEPT !.pc = "peek", !.cands = C]
<1>1. /\ loop[s].pc = "cands"
      /\ UNCHANGED <<workVars, mail, runtime, permit, status, faults, delivered>>
      /\ loop[s] \in LoopState /\ LoopKnows(s, loop[s])
  BY LoopFields DEF StaleCandidates, At
<1>2. loop' = [loop EXCEPT ![s] = q]
  BY InvFacts DEF StaleCandidates
<1>3. C \subseteq IntentIds
  BY InvFacts DEF mailbox_reconcile_candidates, queued_ids, WorkTypeOK
<1> HIDE DEF C
<1>4. q \in LoopState /\ q.pc = "peek" /\ q.b = loop[s].b /\ q.rows = loop[s].rows
  BY <1>1, <1>3 DEF LoopState, LoopPcs
<1> HIDE DEF q
<1>5. LoopKnows(s, q)
  BY <1>1, <1>4 DEF LoopKnows, Holding
<1> QED
  BY <1>1, <1>2, <1>4, <1>5, LoopMove, LoopFields, NoFault DEF Loops, Reading

LEMMA PeekUnreadKeeps ==
  ASSUME Inv, NEW s \in Slots, PeekUnread(s), Loops
  PROVE  Inv'
<1>1. /\ loop[s].pc = "peek"
      /\ UNCHANGED <<workVars, mail, runtime, permit, status, delivered>>
      /\ loop[s] \in LoopState /\ LoopKnows(s, loop[s])
  BY LoopFields DEF PeekUnread, At
<1>2. CASE loop' = [loop EXCEPT ![s].pc = "recon", ![s].rows = peek_unread(s)] /\ UNCHANGED faults
  <2> DEFINE R == peek_unread(s)
             q == [loop[s] EXCEPT !.pc = "recon", !.rows = R]
  <2>1. loop' = [loop EXCEPT ![s] = q]
    BY <1>2, InvFacts
  <2>2. \A m \in R : m \in Msgs /\ Addressed(m, s)
    BY DEF peek_unread, Addressed, Written
  <2> HIDE DEF R
  <2>3. q \in LoopState /\ q.pc = "recon" /\ q.b = loop[s].b /\ q.rows = R
    BY <1>1, <2>2 DEF LoopState, LoopPcs
  <2> HIDE DEF q
  <2>4. LoopKnows(s, q)
    BY <1>1, <2>2, <2>3 DEF LoopKnows, Holding
  <2> QED
    BY <1>1, <1>2, <2>1, <2>3, <2>4, LoopMove, LoopFields, NoFault DEF Loops, Reading
<1>3. CASE Fault("mailbox") /\ Leave(s, "rest")
  <2>1. PICK q \in LoopState : LoopKnows(s, q) /\ q.pc = "rest" /\ loop' = [loop EXCEPT ![s] = q]
    BY <1>3, LeaveKnows DEF LoopPcs, Holding
  <2> QED
    BY <1>1, <1>3, <2>1, LoopMove, LoopFields, FaultFacts DEF Loops, Reading
<1> QED
  BY <1>2, <1>3 DEF PeekUnread

LEMMA ReconcileKeeps ==
  ASSUME Inv, NEW s \in Slots, Reconcile(s), Loops
  PROVE  Inv'
<1>1. /\ loop[s].pc = "recon" /\ Goto(s, "next") /\ "next" \in LoopPcs
      /\ UNCHANGED <<mail, runtime, permit, status, faults, delivered>>
  BY DEF Reconcile, At, LoopPcs
<1>2. PICK r \in LoopState : r = loop[s]
  BY LoopFields
<1>3. reconcile_mailbox_snapshot(s, r.rows, r.cands)
  BY <1>2 DEF Reconcile
<1>4. PICK q \in LoopState : LoopKnows(s, q) /\ q.pc = "next" /\ loop' = [loop EXCEPT ![s] = q]
  BY <1>1, GotoKnows DEF Holding
<1>5. WorkStep
  <2>1. r.rows \in SUBSET Msgs /\ r.cands \in SUBSET IntentIds /\ \A m \in r.rows : Addressed(m, s)
    BY <1>2, LoopFields DEF LoopState, LoopKnows
  <2> QED BY <1>1, <1>3, <2>1, ReconcileStep, InvFacts
<1>6. leases' = leases /\ paused' = paused
  BY <1>3 DEF reconcile_mailbox_snapshot
<1> QED
  BY <1>1, <1>4, <1>5, <1>6, LoopWork, LoopFields, NoFault DEF Loops, Reading

\* The loop takes its copy of what it claims.
LEMMA ClaimNextKeeps ==
  ASSUME Inv, NEW s \in Slots, ClaimNext(s), Loops
  PROVE  Inv'
<1> DEFINE q == [loop[s] EXCEPT !.pc = "reread",
                                !.b = [slot |-> s, op |-> active'[s].op,
                                       intents |-> active'[s].intents, lane |-> active'[s].lane]]
<1>1. /\ loop[s].pc = "next" /\ next(s)
      /\ UNCHANGED <<mail, runtime, permit, status, faults, delivered>>
      /\ loop[s] \in LoopState /\ LoopKnows(s, loop[s])
  BY LoopFields DEF ClaimNext, At
<1>2. loop' = [loop EXCEPT ![s] = q]
  BY InvFacts DEF ClaimNext
<1>3. WorkStep /\ nextOp < active'[s].op
  BY <1>1, NextStep, InvFacts
<1>4. leases' = leases /\ paused' = paused
  BY <1>1 DEF next
<1>5. WorkTypeOK' /\ WorkOwnership' /\ WorkRows'
  BY <1>3 DEF WorkStep, WorkInv, Good
<1>6. active'[s] \in ActiveBatch /\ nextOp \in Nat
  BY <1>5, InvFacts DEF WorkTypeOK
<1>7. /\ q \in LoopState /\ q.pc = "reread" /\ q.rows = loop[s].rows /\ q.b.slot = s
      /\ q.b.op = active'[s].op /\ q.b.intents = active'[s].intents /\ q.b.lane = active'[s].lane
  BY <1>1, <1>6 DEF LoopState, ActiveBatch, LoopPcs
<1> HIDE DEF q
<1>8. loop'[s] = q /\ (\A t \in Slots \ {s} : loop'[t] = loop[t]) /\ loop' \in [Slots -> LoopState]
  BY <1>2, <1>7, InvFacts
<1>9. MailKept /\ FiniteMail' /\ \A n \in Msgs : WasRead(n)' => WasRead(n)
  BY <1>1, SameMail, InvFacts
<1>10. Kept
  BY <1>1, <1>3, <1>9, NoFault DEF Kept, WorkStep, Loops
<1>11. TypeOK'
  BY <1>1, <1>5, <1>8 DEF Inv, TypeOK, LoopTypeOK, Loops
<1>12. SettledAccounted'
  BY <1>9, <1>10, SettledKept, InvFacts
<1>13. \A i \in active'[s].intents : BornTo(i, s)'
  <2>1. \A i \in active'[s].intents : i \in IntentIds /\ ist'[i] # "Unborn" /\ info'[i].slot = s
    BY <1>5 DEF WorkOwnership, ActiveInPlace
  <2>2. \A i \in active'[s].intents : info'[i].msg \in Msgs
    BY <1>5, <2>1 DEF WorkRows, WorkTypeOK, WorkIntent
  <2> QED BY <2>1, <2>2 DEF BornTo
<1>14. LoopOK(s)'
  <2>1. active'[s].op <= nextOp' /\ active'[s].op # 0
    BY <1>3, <1>5, <1>6 DEF WorkRows, ActiveBatch
  <2>2. \A m \in loop'[s].rows : Addressed(m, s)'
    BY <1>1, <1>7, <1>8, <1>9 DEF LoopKnows, LoopState, Addressed, MailKept
  <2> QED BY <1>7, <1>8, <1>13, <2>1, <2>2 DEF LoopOK, LoopKnows, Snapshot, Reading, Holding
<1>15. ~InTurn(s)'
  BY <1>7, <1>8 DEF InTurn
<1> QED
  BY <1>1, <1>3, <1>4, <1>7, <1>8, <1>9, <1>10, <1>11, <1>12, <1>14, <1>15, NoFault, LoopFrame DEF Loops

LEMMA SettleNextKeeps ==
  ASSUME Inv, NEW s \in Slots, SettleNext(s), Loops
  PROVE  Inv'
<1>1. /\ loop[s].pc = "next"
      /\ UNCHANGED <<workVars, mail, runtime, permit, status, faults, delivered>>
      /\ loop[s] \in LoopState /\ LoopKnows(s, loop[s])
  BY LoopFields DEF SettleNext, At
<1>2. PICK S \in SUBSET queued_ids(s) : loop' = [loop EXCEPT ![s].pc = "signals", ![s].cands = S]
  BY DEF SettleNext
<1> DEFINE q == [loop[s] EXCEPT !.pc = "signals", !.cands = S]
<1>3. loop' = [loop EXCEPT ![s] = q]
  BY <1>2, InvFacts
<1>4. S \subseteq IntentIds
  BY InvFacts DEF queued_ids, WorkTypeOK
<1>5. q \in LoopState /\ q.pc = "signals" /\ q.b = loop[s].b /\ q.rows = loop[s].rows
  BY <1>1, <1>4 DEF LoopState, LoopPcs
<1> HIDE DEF q
<1>6. LoopKnows(s, q)
  BY <1>1, <1>5 DEF LoopKnows, Holding
<1> QED
  BY <1>1, <1>3, <1>5, <1>6, LoopMove, LoopFields, NoFault DEF Loops, Reading

LEMMA NothingNextKeeps ==
  ASSUME Inv, NEW s \in Slots, NothingNext(s), Loops
  PROVE  Inv'
<1>1. /\ loop[s].pc = "next" /\ Leave(s, "rest")
      /\ UNCHANGED <<workVars, mail, runtime, permit, status, faults, delivered>>
  BY DEF NothingNext, At
<1>2. PICK q \in LoopState : LoopKnows(s, q) /\ q.pc = "rest" /\ loop' = [loop EXCEPT ![s] = q]
  BY <1>1, LeaveKnows DEF LoopPcs, Holding
<1> QED
  BY <1>1, <1>2, LoopMove, LoopFields, NoFault DEF Loops, Reading

LEMMA SignalsKeeps ==
  ASSUME Inv, NEW s \in Slots, handle_signal_intents(s), Loops
  PROVE  Inv'
<1>1. /\ loop[s].pc = "signals" /\ Leave(s, "prepare")
      /\ UNCHANGED <<mail, runtime, permit, status, faults, delivered>>
      /\ complete_signals(s, loop[s].cands) \/ UNCHANGED workVars
  BY DEF handle_signal_intents, At
<1>2. PICK q \in LoopState : LoopKnows(s, q) /\ q.pc = "prepare" /\ loop' = [loop EXCEPT ![s] = q]
  BY <1>1, LeaveKnows DEF LoopPcs, Holding
<1>3. WorkStep /\ leases' = leases /\ paused' = paused
  <2>1. CASE UNCHANGED workVars
    BY <1>1, <2>1, SameWork, SameMail, InvFacts DEF workVars, slotVars
  <2>2. CASE complete_signals(s, loop[s].cands)
    <3>1. PICK S : S = loop[s].cands
      OBVIOUS
    <3> QED BY <1>1, <2>2, <3>1, SignalsStep, InvFacts DEF complete_signals
  <2> QED BY <1>1, <2>1, <2>2
<1> QED
  BY <1>1, <1>2, <1>3, LoopWork, LoopFields, NoFault DEF Loops, Reading

\* The reread finds a row that a turn acknowledged marked read, or no longer
\* unread because a mailbox call failed.
LEMMA RereadKeeps ==
  ASSUME Inv, NEW s \in Slots, Reread(s), Loops
  PROVE  Inv'
<1>1. /\ loop[s].pc = "reread"
      /\ UNCHANGED <<workVars, mail, runtime, permit, delivered>>
      /\ loop[s] \in LoopState /\ LoopKnows(s, loop[s]) /\ loop[s].b.op # 0
  BY LoopFields DEF Reread, At, Holding
<1>2. CASE RereadComplete(Batch(s)) /\ SetStatus(s, "Working") /\ Goto(s, "turn") /\ UNCHANGED faults
  <2>1. PICK q \in LoopState : /\ LoopKnows(s, q) /\ q.pc = "turn" /\ q.b = loop[s].b
                               /\ loop' = [loop EXCEPT ![s] = q]
    BY <1>1, <1>2, GotoKnows DEF LoopPcs
  <2>2. ASSUME NEW m \in BatchMsgs(q.b), m \in delivered, ~MailFailed
        PROVE  FALSE
    <3>1. m \in peek_unread(s)
      BY <1>1, <1>2, <2>1, <2>2 DEF RereadComplete, Batch, LoopKnows
    <3>2. ~WasRead(m) /\ mail[m].to = s
      BY <3>1 DEF peek_unread, WasRead
    <3>3. PICK t \in Slots : loop[t].pc = "ack" /\ m \in loop[t].rows
      BY <2>2, <3>2, InvFacts DEF DeliveredRead, At
    <3>4. t = s
      BY <3>2, <3>3, LoopFields DEF LoopKnows, Addressed
    <3> QED BY <1>1, <3>3, <3>4
  <2>3. MailFailed => MailFailed'
    BY <1>2 DEF MailFailed
  <2>4. BatchMsgs(q.b) \cap delivered = {} \/ MailFailed'
    BY <2>2, <2>3
  <2>5. status' \in [Slots -> {"Idle", "Working", "Error"}]
    BY <1>2, LoopFields
  <2> QED
    BY <1>1, <1>2, <2>1, <2>4, <2>5, LoopMove, LoopFields, NoFault DEF Loops, Reading
<1>3. CASE Goto(s, "giveback") /\ UNCHANGED status /\ (UNCHANGED faults \/ Fault("mailbox"))
  <2>1. PICK q \in LoopState : LoopKnows(s, q) /\ q.pc = "giveback" /\ loop' = [loop EXCEPT ![s] = q]
    BY <1>1, <1>3, GotoKnows DEF LoopPcs
  <2> QED
    BY <1>1, <1>3, <2>1, LoopMove, LoopFields, NoFault, FaultFacts DEF Loops, Reading
<1> QED
  BY <1>2, <1>3 DEF Reread

LEMMA GiveBackKeeps ==
  ASSUME Inv, NEW s \in Slots, GiveBack(s), Loops
  PROVE  Inv'
<1>1. /\ loop[s].pc = "giveback" /\ Leave(s, "rest") /\ loop[s].b.op # 0
      /\ UNCHANGED <<mail, runtime, permit, status, faults, delivered>>
      /\ retry_start(Batch(s)) \/ UNCHANGED workVars
  BY LoopFields DEF GiveBack, At, Holding
<1>2. PICK q \in LoopState : LoopKnows(s, q) /\ q.pc = "rest" /\ loop' = [loop EXCEPT ![s] = q]
  BY <1>1, LeaveKnows DEF LoopPcs, Holding
<1>3. WorkStep /\ leases' = leases /\ paused' = paused
  <2>1. CASE UNCHANGED workVars
    BY <1>1, <2>1, SameWork, SameMail, InvFacts DEF workVars, slotVars
  <2>2. CASE retry_start(Batch(s))
    <3>1. PICK b \in WorkBatch : b = Batch(s) /\ Copy(b)
      BY <1>1, LoopCopy
    <3> QED BY <1>1, <2>2, <3>1, RetryStep, InvFacts DEF retry_start
  <2> QED BY <1>1, <2>1, <2>2
<1> QED
  BY <1>1, <1>2, <1>3, LoopWork, LoopFields, NoFault DEF Loops, Reading
-----------------------------------------------------------------------------
(* execute_and_finalize keeps the invariant.                               *)

LEMMA TurnNotStartedKeeps ==
  ASSUME Inv, NEW s \in Slots, TurnNotStarted(s), Loops
  PROVE  Inv'
<1>1. /\ loop[s].pc = "turn" /\ Goto(s, "err") /\ Fault("start") /\ loop[s].b.op # 0
      /\ UNCHANGED <<workVars, mail, runtime, permit, status, delivered>>
  BY LoopFields DEF TurnNotStarted, At, Holding
<1>2. PICK q \in LoopState : LoopKnows(s, q) /\ q.pc = "err" /\ loop' = [loop EXCEPT ![s] = q]
  BY <1>1, GotoKnows DEF LoopPcs
<1> QED
  BY <1>1, <1>2, LoopMove, LoopFields, FaultFacts DEF Loops, Reading

\* A turn that goes on owns a slot that is not paused, or owns none.
LEMMA TurnStartedKeeps ==
  ASSUME Inv, NEW s \in Slots, TurnStarted(s), Loops
  PROVE  Inv'
<1>1. /\ loop[s].pc = "turn" /\ loop[s].b.op # 0
      /\ UNCHANGED <<mail, runtime, permit, status, faults, delivered>>
      /\ Goto(s, IF MustCancel(Batch(s)) THEN "late" ELSE "run")
  BY LoopFields DEF TurnStarted, At, Holding
<1>2. PICK p \in {"late", "run"} : Goto(s, p) /\ (p = "run" => ~MustCancel(Batch(s)))
  BY <1>1
<1>3. PICK q \in LoopState : /\ LoopKnows(s, q) /\ q.pc = p /\ q.b = loop[s].b
                             /\ loop' = [loop EXCEPT ![s] = q]
  BY <1>1, <1>2, GotoKnows DEF LoopPcs
<1>4. PICK b \in WorkBatch : b = Batch(s) /\ Copy(b) /\ b.slot = s
  BY <1>1, LoopCopy
<1>5. InTurn(s) /\ q.b = b
  BY <1>1, <1>3, <1>4 DEF InTurn, Batch
<1>6. /\ WorkStep /\ leases' = leases /\ paused' = paused
      /\ p = "run" => ~paused'[s] \/ active'[s].op # q.b.op
  <2>1. CASE ~is_current_batch(Batch(s)) /\ UNCHANGED workVars
    <3>1. leases' = leases /\ paused' = paused /\ active' = active
      BY <2>1 DEF workVars, slotVars
    <3>2. active[s].op # q.b.op
      BY <1>4, <1>5, <2>1 DEF is_current_batch
    <3> QED BY <1>1, <2>1, <3>1, <3>2, SameWork, SameMail, InvFacts
  <2>2. CASE mark_started(Batch(s))
    <3>1. mark_started(b)
      BY <1>4, <2>2
    <3>2. leases' = leases /\ paused' = paused /\ is_current_batch(b)
      BY <3>1 DEF mark_started
    <3>3. p = "run" => ~paused[s]
      BY <1>2, <1>4, <3>2 DEF MustCancel
    <3> QED BY <1>1, <1>4, <3>1, <3>2, <3>3, MarkStartedStep, InvFacts
  <2> QED BY <2>1, <2>2 DEF TurnStarted
<1> QED
  BY <1>1, <1>2, <1>3, <1>4, <1>5, <1>6, LoopWork, LoopFields, NoFault DEF Loops, Reading, Batch

\* Reading the metadata of an interrupt.
LEMMA DrainStep ==
  ASSUME Inv, NEW s \in Slots, mail' = mail, DrainMetadata(s)
  PROVE  WorkStep /\ leases' = leases /\ paused' = paused
<1>1. CASE UNCHANGED workVars
  BY <1>1, SameWork, SameMail, InvFacts DEF workVars, slotVars
<1>2. CASE take_interrupt_metadata(Batch(s).op)
  <2>1. PICK op : op = Batch(s).op
    OBVIOUS
  <2> QED BY <1>2, <2>1, TakeMetadataStep, InvFacts DEF take_interrupt_metadata, slotVars
<1> QED
  BY <1>1, <1>2 DEF DrainMetadata

LEMMA LateStartKeeps ==
  ASSUME Inv, NEW s \in Slots, LateStart(s), Loops
  PROVE  Inv'
<1>1. /\ loop[s].pc = "late" /\ loop[s].b.op # 0 /\ Goto(s, "drop") /\ DrainMetadata(s)
      /\ UNCHANGED <<mail, runtime, permit, status, faults, delivered>>
  BY LoopFields DEF LateStart, At, Holding
<1>2. PICK q \in LoopState : /\ LoopKnows(s, q) /\ q.pc = "drop" /\ q.b = loop[s].b
                             /\ loop' = [loop EXCEPT ![s] = q]
  BY <1>1, GotoKnows DEF LoopPcs
<1>3. InTurn(s)
  BY <1>1 DEF InTurn
<1>4. WorkStep /\ leases' = leases /\ paused' = paused
  BY <1>1, DrainStep
<1> QED
  BY <1>1, <1>2, <1>3, <1>4, LoopWork, LoopFields, NoFault DEF Loops, Reading

\* The batch is dropped, or was already lost.
LEMMA LateCancelKeeps ==
  ASSUME Inv, NEW s \in Slots, LateCancel(s), Loops
  PROVE  Inv'
<1>1. /\ loop[s].pc = "drop" /\ loop[s].b.op # 0 /\ Goto(s, "run")
      /\ UNCHANGED <<mail, runtime, permit, status, faults, delivered>>
  BY LoopFields DEF LateCancel, At, Holding
<1>2. PICK q \in LoopState : /\ LoopKnows(s, q) /\ q.pc = "run" /\ q.b = loop[s].b
                             /\ loop' = [loop EXCEPT ![s] = q]
  BY <1>1, GotoKnows DEF LoopPcs
<1>3. PICK b \in WorkBatch : b = Batch(s) /\ Copy(b) /\ b.slot = s
  BY <1>1, LoopCopy
<1>4. InTurn(s) /\ q.b = b
  BY <1>1, <1>2, <1>3 DEF InTurn, Batch
<1>5. /\ WorkStep /\ leases' = leases /\ paused' = paused
      /\ active'[s].op # q.b.op
  <2>1. CASE ~is_current_batch(Batch(s)) /\ UNCHANGED workVars
    <3>1. leases' = leases /\ paused' = paused /\ active' = active
      BY <2>1 DEF workVars, slotVars
    <3>2. active[s].op # q.b.op
      BY <1>3, <1>4, <2>1 DEF is_current_batch
    <3> QED BY <1>1, <2>1, <3>1, <3>2, SameWork, SameMail, InvFacts
  <2>2. CASE cancel_batch(Batch(s))
    <3>1. cancel_batch(b)
      BY <1>3, <2>2
    <3>2. leases' = leases /\ paused' = paused /\ active' = [active EXCEPT ![s] = NoBatch]
      BY <1>3, <3>1 DEF cancel_batch
    <3>3. active'[s].op = 0 /\ q.b.op # 0
      BY <1>1, <1>2, <3>2, InvFacts DEF NoBatch, WorkTypeOK
    <3> QED BY <1>1, <1>3, <3>1, <3>2, <3>3, CancelStepKept, InvFacts
  <2> QED BY <2>1, <2>2 DEF LateCancel
<1> QED
  BY <1>1, <1>2, <1>3, <1>4, <1>5, LoopWork, LoopFields, NoFault DEF Loops, Reading, Batch

LEMMA TurnEndsKeeps ==
  ASSUME Inv, NEW s \in Slots, TurnEnds(s), Loops
  PROVE  Inv'
<1>1. /\ loop[s].pc = "run" /\ loop[s].b.op # 0
      /\ UNCHANGED <<workVars, mail, runtime, permit, status, delivered>>
      /\ UNCHANGED faults \/ Fault("turn")
  BY LoopFields DEF TurnEnds, At, Holding
<1>2. PICK p \in {"won", "lost", "err"} : Goto(s, p)
  BY DEF TurnEnds
<1>3. PICK q \in LoopState : LoopKnows(s, q) /\ q.pc = p /\ loop' = [loop EXCEPT ![s] = q]
  BY <1>1, <1>2, GotoKnows DEF LoopPcs
<1> QED
  BY <1>1, <1>2, <1>3, LoopMove, LoopFields, NoFault, FaultFacts DEF Loops, Reading

LEMMA TurnErrKeeps ==
  ASSUME Inv, NEW s \in Slots, TurnErr(s), Loops
  PROVE  Inv'
<1>1. /\ loop[s].pc = "err" /\ loop[s].b.op # 0
      /\ UNCHANGED <<mail, runtime, permit, status, faults, delivered>>
      /\ UNCHANGED workVars \/ DrainMetadata(s)
  BY LoopFields DEF TurnErr, At, Holding
<1>2. PICK p \in {"finish", "failStart"} : Goto(s, p)
  BY DEF TurnErr
<1>3. PICK q \in LoopState : LoopKnows(s, q) /\ q.pc = p /\ loop' = [loop EXCEPT ![s] = q]
  BY <1>1, <1>2, GotoKnows DEF LoopPcs
<1>4. WorkStep /\ leases' = leases /\ paused' = paused
  <2>1. CASE UNCHANGED workVars
    BY <1>1, <2>1, SameWork, SameMail, InvFacts DEF workVars, slotVars
  <2> QED BY <1>1, <2>1, DrainStep
<1> QED
  BY <1>1, <1>2, <1>3, <1>4, LoopWork, LoopFields, NoFault DEF Loops, Reading

LEMMA TurnOkKeeps ==
  ASSUME Inv, NEW s \in Slots, TurnOk(s), Loops
  PROVE  Inv'
<1>1. /\ loop[s].pc \in {"won", "lost"} /\ loop[s].b.op # 0
      /\ UNCHANGED <<workVars, mail, runtime, permit, status, faults, delivered>>
  BY LoopFields DEF TurnOk, At, Holding
<1>2. PICK p \in {"finish", "complete", "failTurn"} : Goto(s, p)
  BY DEF TurnOk
<1>3. PICK q \in LoopState : LoopKnows(s, q) /\ q.pc = p /\ loop' = [loop EXCEPT ![s] = q]
  BY <1>1, <1>2, GotoKnows DEF LoopPcs
<1> QED
  BY <1>1, <1>2, <1>3, LoopMove, LoopFields, NoFault DEF Loops, Reading

\* The rows of the copy a loop holds, and what its turn has observed, are rows of
\* the slot.
LEMMA BatchRows ==
  ASSUME Inv, NEW s \in Slots
  PROVE  /\ \A m \in BatchMsgs(Batch(s)) : Addressed(m, s)
         /\ \A m \in active[s].observed : Addressed(m, s)
<1>1. ASSUME NEW m \in BatchMsgs(Batch(s))
      PROVE  Addressed(m, s)
  <2>1. PICK i \in loop[s].b.intents : m = info[i].msg
    BY DEF BatchMsgs, Batch
  <2>2. BornTo(i, s) /\ i \in IntentIds
    BY <2>1, LoopFields DEF LoopKnows, LoopState
  <2> QED BY <2>1, <2>2, ConstantsAssumption DEF BornTo, Inv, WorkRows
<1> QED
  BY <1>1 DEF Inv, WorkRows

\* What a loop is about to settle.
LEMMA GotoWithKnows ==
  ASSUME Inv, NEW s \in Slots, NEW p \in Reading, NEW R, \A m \in R : Addressed(m, s),
         GotoWith(s, p, R)
  PROVE  \E q \in LoopState : /\ LoopKnows(s, q) /\ q.pc = p /\ q.b = loop[s].b /\ q.rows = R
                              /\ loop' = [loop EXCEPT ![s] = q]
<1> DEFINE q == [loop[s] EXCEPT !.pc = p, !.cands = {}, !.rows = R]
<1>1. loop[s] \in LoopState /\ LoopKnows(s, loop[s])
  BY LoopFields
<1>2. R \subseteq Msgs /\ p \in LoopPcs /\ p \notin Holding /\ p \notin {"idleRow", "wakeLead"}
  BY DEF Addressed, Reading, LoopPcs, Holding
<1>3. q \in LoopState /\ q.pc = p /\ q.b = loop[s].b /\ q.rows = R
  BY <1>1, <1>2 DEF LoopState
<1>4. loop' = [loop EXCEPT ![s] = q]
  BY DEF GotoWith
<1> HIDE DEF q
<1>5. LoopKnows(s, q)
  BY <1>1, <1>2, <1>3 DEF LoopKnows
<1> QED
  BY <1>3, <1>4, <1>5

\* A turn that succeeded has delivered its rows; the loop is to mark them read.
LEMMA CompleteKeeps ==
  ASSUME Inv, NEW s \in Slots, Complete(s), Loops
  PROVE  Inv'
<1>1. /\ loop[s].pc = "complete" /\ loop[s].b.op # 0
      /\ UNCHANGED <<mail, runtime, permit, status, faults>>
  BY LoopFields DEF Complete, At, Holding
<1>2. CASE Goto(s, "finish") /\ UNCHANGED <<workVars, delivered>>
  <2>1. PICK q \in LoopState : LoopKnows(s, q) /\ q.pc = "finish" /\ loop' = [loop EXCEPT ![s] = q]
    BY <1>1, <1>2, GotoKnows DEF LoopPcs, Holding
  <2> QED
    BY <1>1, <1>2, <2>1, LoopMove, LoopFields, NoFault DEF Loops, Reading
<1>3. CASE /\ complete_batch_with_ack(Batch(s))
           /\ GotoWith(s, "ack", AckedMsgs(Batch(s)))
           /\ delivered' = delivered \cup AckedMsgs(Batch(s))
  <2>1. PICK b \in WorkBatch : b = Batch(s) /\ Copy(b) /\ b.slot = s
    BY <1>1, LoopCopy
  <2>2. PICK R : R = AckedMsgs(Batch(s))
    OBVIOUS
  <2>3. \A m \in R : Addressed(m, s)
    BY <2>1, <2>2, BatchRows DEF AckedMsgs
  <2>4. PICK q \in LoopState : /\ LoopKnows(s, q) /\ q.pc = "ack" /\ q.rows = R
                               /\ loop' = [loop EXCEPT ![s] = q]
    BY <1>3, <2>2, <2>3, GotoWithKnows DEF Reading
  <2>5. delivered' = delivered \cup R
    BY <1>3, <2>2
  <2>6. WorkStep
    BY <1>1, <1>3, <2>1, CompleteStep, InvFacts
  <2>7. leases' = leases /\ paused' = paused
    BY <1>3 DEF complete_batch_with_ack
  <2>8. MailKept /\ FiniteMail' /\ \A n \in Msgs : WasRead(n)' => WasRead(n)
    BY <1>1, SameMail, InvFacts
  <2>9. loop'[s] = q /\ (\A t \in Slots \ {s} : loop'[t] = loop[t]) /\ loop' \in [Slots -> LoopState]
    BY <2>4, InvFacts
  <2>10. Kept /\ WorkTypeOK'
    BY <1>1, <2>5, <2>6, <2>8, NoFault DEF Kept, WorkStep, WorkInv, Good, Loops
  <2>11. TypeOK'
    <3>1. delivered' \subseteq Msgs
      BY <2>3, <2>5 DEF Addressed, Inv, TypeOK, LoopTypeOK
    <3> QED BY <1>1, <2>9, <2>10, <3>1 DEF Inv, TypeOK, LoopTypeOK, Loops
  <2>12. SettledAccounted'
    BY <2>8, <2>10, SettledKept, InvFacts
  <2>13. LoopOK(s)'
    <3>1. LoopKnows(s, q)'
      BY <2>4, <2>10, LoopKnownKept, InvFacts
    <3>2. \A m \in q.rows : Accounted(m)'
      BY <2>4, <2>5 DEF Accounted
    <3> QED BY <2>9, <3>1, <3>2 DEF LoopOK
  <2>14. ~InTurn(s)'
    BY <2>4, <2>9 DEF InTurn
  <2> QED
    BY <1>1, <2>3, <2>4, <2>5, <2>6, <2>7, <2>8, <2>9, <2>11, <2>12, <2>13, <2>14, NoFault,
       LoopFrame DEF Loops
<1> QED
  BY <1>2, <1>3 DEF Complete

\* The rows a loop marks read are accounted for.
LEMMA MarksRead ==
  ASSUME Inv, NEW s \in Slots, loop[s].pc \in Reading, mark_message_ids_read(s),
         UNCHANGED <<workVars, runtime, permit, status, delivered>>, Loops,
         NEW q \in LoopState, LoopKnows(s, q), q.pc \in {"finish", "tellStart", "tellTurn"},
         loop' = [loop EXCEPT ![s] = q]
  PROVE  Inv'
<1>1. \A m \in loop[s].rows : Written(m) /\ Accounted(m)
  BY InvFacts DEF LoopOK, LoopKnows, Addressed
<1>2. /\ mail' \in [Msgs -> Row] /\ MailKept /\ FiniteMail'
      /\ \A n \in Msgs : WasRead(n)' => WasRead(n) \/ n \in loop[s].rows
      /\ MailFailed' \/ \A m \in loop[s].rows : WasRead(m)'
      /\ faults' \in 0..MaxFaults /\ faults <= faults'
  <2>1. CASE mark_read_batch(loop[s].rows) /\ UNCHANGED faults
    <3>1. loop[s].rows \subseteq Msgs
      BY LoopFields DEF LoopState
    <3> QED BY <1>1, <2>1, <3>1, ReadKept, NoFault, InvFacts
  <2>2. CASE Fault("mailbox") /\ UNCHANGED mail
    <3>1. faults' \in 0..MaxFaults /\ faults <= faults' /\ faults' # 0
      BY <2>2, FaultFacts
    <3>2. MailFailed'
      BY <2>2, <3>1 DEF MailFailed, Fault
    <3> QED BY <2>2, <3>1, <3>2, SameMail, InvFacts
  <2> QED BY <2>1, <2>2 DEF mark_message_ids_read
<1>3. WorkStep
  BY <1>2, SameWork, InvFacts
<1>4. Kept /\ WorkTypeOK'
  BY <1>2, <1>3 DEF Kept, WorkStep, WorkInv, Good, Loops
<1>5. leases' = leases /\ paused' = paused
  BY DEF workVars, slotVars
<1>6. loop'[s] = q /\ (\A t \in Slots \ {s} : loop'[t] = loop[t]) /\ loop' \in [Slots -> LoopState]
  BY InvFacts
<1>7. TypeOK'
  BY <1>2, <1>4, <1>6 DEF Inv, TypeOK, LoopTypeOK, Loops
<1>8. SettledAccounted'
  BY <1>1, <1>2, <1>4, SettledKept, InvFacts
<1>9. LoopOK(s)'
  <2>1. LoopKnows(s, q)'
    BY <1>4, LoopKnownKept, InvFacts
  <2> QED BY <1>6, <2>1 DEF LoopOK, Reading
<1>10. ~InTurn(s)'
  BY <1>6 DEF InTurn
<1>11. loop[s].pc \notin {"gone", "telling", "tellingEnd", "waking"}
  BY DEF Reading
<1> QED
  BY <1>2, <1>3, <1>5, <1>6, <1>7, <1>8, <1>9, <1>10, <1>11, LoopFrame DEF Loops

LEMMA AcknowledgeKeeps ==
  ASSUME Inv, NEW s \in Slots, Acknowledge(s), Loops
  PROVE  Inv'
<1>1. /\ loop[s].pc = "ack" /\ mark_message_ids_read(s) /\ Goto(s, "finish")
      /\ UNCHANGED <<workVars, runtime, permit, status, delivered>>
  BY DEF Acknowledge, At
<1>2. PICK q \in LoopState : LoopKnows(s, q) /\ q.pc = "finish" /\ loop' = [loop EXCEPT ![s] = q]
  BY <1>1, GotoKnows DEF LoopPcs, Holding
<1> QED
  BY <1>1, <1>2, MarksRead DEF Reading

LEMMA ExhaustKeeps ==
  ASSUME Inv, NEW s \in Slots, Exhaust(s), Loops
  PROVE  Inv'
<1>1. /\ loop[s].pc \in {"exhaustStart", "exhaustTurn"} /\ mark_message_ids_read(s)
      /\ UNCHANGED <<workVars, runtime, permit, status, delivered>>
  BY DEF Exhaust, At
<1>2. PICK p \in {"tellStart", "tellTurn"} : Goto(s, p)
  BY DEF Exhaust
<1>3. PICK q \in LoopState : LoopKnows(s, q) /\ q.pc = p /\ loop' = [loop EXCEPT ![s] = q]
  BY <1>2, GotoKnows DEF LoopPcs, Holding
<1> QED
  BY <1>1, <1>3, MarksRead DEF Reading

\* A failed turn ends in one of two places.
LEMMA AfterFailureKnows ==
  ASSUME Inv, NEW s \in Slots, NEW start \in BOOLEAN, AfterFailure(s, start)
  PROVE  /\ status' \in [Slots -> {"Idle", "Working", "Error"}]
         /\ \E q \in LoopState : /\ LoopKnows(s, q) /\ q.pc \in {"prepare", "finish"}
                                 /\ loop' = [loop EXCEPT ![s] = q]
<1>1. status' \in [Slots -> {"Idle", "Working", "Error"}]
  BY LoopFields DEF AfterFailure
<1>2. CASE Leave(s, "prepare")
  BY <1>1, <1>2, LeaveKnows DEF LoopPcs, Holding
<1>3. CASE Goto(s, "finish")
  BY <1>1, <1>3, GotoKnows DEF LoopPcs, Holding
<1> QED
  BY <1>2, <1>3 DEF AfterFailure

\* A row that is given up is one whose delivery failed that often.
LEMMA FailKeeps ==
  ASSUME Inv, NEW s \in Slots, Fail(s), Loops
  PROVE  Inv'
<1> DEFINE start == At(s, "failStart")
<1>1. /\ loop[s].pc \in {"failStart", "failTurn"} /\ loop[s].b.op # 0
      /\ UNCHANGED <<mail, runtime, permit, faults, delivered>>
  BY LoopFields DEF Fail, At, Holding
<1>2. start \in BOOLEAN
  BY DEF At
<1>3. CASE AfterFailure(s, start) /\ UNCHANGED workVars
  <2>1. PICK q \in LoopState : /\ LoopKnows(s, q) /\ q.pc \in {"prepare", "finish"}
                               /\ loop' = [loop EXCEPT ![s] = q]
    BY <1>2, <1>3, AfterFailureKnows
  <2>2. status' \in [Slots -> {"Idle", "Working", "Error"}]
    BY <1>2, <1>3, AfterFailureKnows
  <2> QED
    BY <1>1, <1>3, <2>1, <2>2, LoopMove, LoopFields, NoFault DEF Loops, Reading
<1>4. CASE fail_batch(Batch(s))
  <2>1. PICK b \in WorkBatch : b = Batch(s) /\ Copy(b) /\ b.slot = s
    BY <1>1, LoopCopy
  <2>2. WorkStep
    BY <1>1, <1>4, <2>1, FailStep, InvFacts
  <2>3. /\ leases' = leases /\ failures' = FailedCounts(b)
        /\ \A t \in Slots \ {s} : paused'[t] => paused[t]
    BY <1>4, <2>1, InvFacts DEF fail_batch, WorkTypeOK
  <2>4. CASE AfterFailure(s, start)
    <3>1. PICK q \in LoopState : /\ LoopKnows(s, q) /\ q.pc \in {"prepare", "finish"}
                                 /\ loop' = [loop EXCEPT ![s] = q]
      BY <1>2, <2>4, AfterFailureKnows
    <3>2. status' \in [Slots -> {"Idle", "Working", "Error"}]
      BY <1>2, <2>4, AfterFailureKnows
    <3> QED
      BY <1>1, <2>2, <2>3, <3>1, <3>2, LoopWork, LoopFields, NoFault DEF Loops, Reading
  <2>5. CASE /\ GotoWith(s, IF start THEN "exhaustStart" ELSE "exhaustTurn", Exhausted(Batch(s)))
             /\ UNCHANGED status
    <3>1. PICK R : R = Exhausted(b)
      OBVIOUS
    <3>2. \A m \in R : Addressed(m, s)
      BY <2>1, <3>1, BatchRows DEF Exhausted
    <3>3. PICK p \in {"exhaustStart", "exhaustTurn"} : GotoWith(s, p, R)
      BY <2>1, <2>5, <3>1
    <3>4. PICK q \in LoopState : /\ LoopKnows(s, q) /\ q.pc = p /\ q.rows = R
                                 /\ loop' = [loop EXCEPT ![s] = q]
      BY <3>2, <3>3, GotoWithKnows DEF Reading
    <3>5. \A m \in R : Accounted(m)'
      <4>1. SUFFICES ASSUME NEW m \in R PROVE Accounted(m)'
        OBVIOUS
      <4>2. m \in Msgs /\ failures'[s][m] >= 3
        BY <2>1, <2>3, <3>1 DEF Exhausted, MaxDeliveryFailures
      <4>3. WorkTypeOK' /\ CountsBacked'
        BY <2>2 DEF WorkStep, WorkInv, Good
      <4>4. failures'[s][m] \in 0..255 /\ failures'[s][m] <= Cardinality(Ended(m, "Failed")')
        BY <4>2, <4>3 DEF WorkTypeOK, CountsBacked
      <4>5. Cardinality(Ended(m, "Failed")') \in Nat
        BY <2>2, EndedKept DEF WorkStep, Terminal
      <4>6. Cardinality(Ended(m, "Failed")') >= 3
        BY <4>2, <4>4, <4>5
      <4> QED BY <4>6 DEF Accounted, MaxDeliveryFailures
    <3>6. \A t \in Slots \ {s} : paused'[t] => paused[t]
      BY <2>3
    <3> QED
      BY <1>1, <2>2, <2>3, <2>5, <3>4, <3>5, <3>6, LoopWork, LoopFields, NoFault DEF Loops
  <2> QED BY <1>4, <2>1, <2>4, <2>5 DEF Fail, fail_batch
<1> QED
  BY <1>3, <1>4 DEF Fail

LEMMA LoopStepKeeps ==
  ASSUME Inv, NEW s \in Slots, LoopStep(s), Loops
  PROVE  Inv'
  BY RestKeeps, AwakeKeeps, PrepareKeeps, StaleCandidatesKeeps, PeekUnreadKeeps, ReconcileKeeps,
     ClaimNextKeeps, SettleNextKeeps, NothingNextKeeps, SignalsKeeps, RereadKeeps, GiveBackKeeps,
     TurnStartedKeeps, LateStartKeeps, LateCancelKeeps, TurnEndsKeeps, TurnErrKeeps, TurnOkKeeps,
     CompleteKeeps, AcknowledgeKeeps, FailKeeps, ExhaustKeeps DEF LoopStep
-----------------------------------------------------------------------------
(* What a loop asks of the session keeps the invariant.                    *)

\* The contents of a request that has not begun.
LEMMA IdleKnows ==
  ASSUME Inv
  PROVE  NoCall \in CallState /\ Knows(NoCall) /\ NoCall.pc = "idle"
<1>1. (CHOOSE s \in Slots : TRUE) \in Slots
  BY ConstantsAssumption
<1>2. /\ NoCall.pc = "idle" /\ NoCall.slot \in Slots /\ NoCall.from = User
      /\ NoCall.msg = NoMsg /\ NoCall.op = 0 /\ NoCall.intents = {} /\ NoCall.rows = {}
  BY <1>1 DEF NoCall
<1>3. NoCall \in CallState
  BY <1>1, EventLoopAssumption DEF NoCall, CallState, CallPcs, CallKinds
<1>4. 0 <= nextOp
  BY InvFacts DEF WorkTypeOK
<1> QED
  BY <1>2, <1>3, <1>4 DEF Knows, Snapshot

\* A loop that starts a request of its own, or takes its answer.
LEMMA LoopAndCall ==
  ASSUME Inv, TypeOK', UNCHANGED <<workVars, mail, delivered, refused, faults>>,
         NEW s \in Slots, loop[s].pc # "ack", call[s].pc \in {"idle", "done"},
         NEW q \in CallState, Knows(q), q.pc \notin Settling, call' = [call EXCEPT ![s] = q],
         NEW r \in LoopState, LoopKnows(s, r), r.pc \notin Reading \cup Holding,
         loop' = [loop EXCEPT ![s] = r],
         r.pc \notin {"telling", "tellingEnd", "waking"} => q.pc = "idle",
         \A t \in Slots : attach'[t] = "spawn" => attach[t] = "spawn" /\ t # s
  PROVE  Inv'
<1>1. MailKept /\ FiniteMail' /\ \A n \in Msgs : WasRead(n)' => WasRead(n)
  BY SameMail, InvFacts
<1>2. WorkStep
  BY <1>1, SameWork, InvFacts
<1>3. Kept /\ WorkTypeOK' /\ WorkInv'
  BY <1>1, <1>2, NoFault DEF Kept, WorkStep, WorkInv, Good
<1>4. SettledAccounted'
  BY <1>1, <1>3, SettledKept, InvFacts
<1>5. /\ loop'[s] = r /\ \A t \in Slots \ {s} : loop'[t] = loop[t]
      /\ call'[s] = q /\ \A d \in Procs \ {s} : call'[d] = call[d]
      /\ s \in Procs
  BY InvFacts DEF Procs
<1>6. leases' = leases /\ paused' = paused /\ active' = active /\ info' = info
  BY DEF workVars, slotVars, intentVars
<1>7. \A d \in Procs : CallOK(d)'
  <2>1. PICK p \in CallState : p = q
    OBVIOUS
  <2>2. Knows(p)'
    BY <1>3, <2>1, KnownKept, InvFacts
  <2>3. CallOK(s)'
    BY <1>5, <2>1, <2>2 DEF CallOK
  <2> QED BY <1>3, <1>5, <2>3, CallKept, InvFacts
<1>8. \A t \in Slots : LoopOK(t)'
  <2>1. PICK p \in LoopState : p = r
    OBVIOUS
  <2>2. LoopKnows(s, p)'
    BY <1>3, <2>1, LoopKnownKept, InvFacts
  <2>3. LoopOK(s)'
    BY <1>5, <2>1, <2>2 DEF LoopOK
  <2> QED BY <1>3, <1>5, <2>3, LoopKept, InvFacts
<1>9. LeaseOK'
  <2>1. Leaseless(s)
    BY <1>5, NoLease
  <2>2. \A l \in leases : l.id \in Procs
    BY TeamSessionAssumption, InvFacts DEF WorkTypeOK, EnqueueLease, Procs
  <2> QED BY <1>5, <1>6, <2>1, <2>2, InvFacts DEF LeaseOK, Leaseless
<1>10. LoopsAlone'
  <2>1. ASSUME NEW t \in Slots
        PROVE  /\ loop'[t].pc \notin {"telling", "tellingEnd", "waking"} => call'[t].pc = "idle"
               /\ attach'[t] = "spawn" => loop'[t].pc = "gone"
    <3>1. t \in Procs
      BY DEF Procs
    <3>2. CASE t = s
      BY <1>5, <3>2
    <3>3. CASE t # s
      BY <1>5, <3>1, <3>3, InvFacts DEF LoopsAlone
    <3> QED BY <3>2, <3>3
  <2> QED BY <2>1 DEF LoopsAlone
<1>11. DeliveredRead'
  BY <1>5, InvFacts DEF DeliveredRead, At, WasRead, MailFailed
<1>12. NoRedelivery'
  <2>1. SUFFICES ASSUME NEW t \in Slots, InTurn(t)'
                 PROVE  HeldRows(t)' \cap delivered = {} \/ MailFailed
    BY DEF NoRedelivery, HeldRows, MailFailed
  <2>2. loop'[t] = loop[t]
    BY <1>5, <2>1 DEF InTurn, Holding
  <2>3. InTurn(t) /\ HeldRows(t)' = HeldRows(t)
    BY <1>6, <2>1, <2>2 DEF InTurn, HeldRows, BatchMsgs, Batch
  <2> QED BY <2>3, InvFacts DEF NoRedelivery, HeldRows, MailFailed
<1>13. PauseCancels'
  <2>1. SUFFICES ASSUME NEW t \in Slots, paused[t], faults = 0, loop'[t].pc = "run",
                        active[t].op = loop'[t].b.op
                 PROVE  \E d \in Procs : /\ call'[d].kind = "pause"
                                         /\ call'[d].slot = t
                                         /\ call'[d].op = loop'[t].b.op
                                         /\ call'[d].pc \in {"stopChild", "dropChild"}
    BY <1>6 DEF PauseCancels, At, Batch
  <2>2. loop'[t] = loop[t]
    BY <1>5, <2>1 DEF Holding
  <2>3. PICK d \in Procs : /\ call[d].kind = "pause" /\ call[d].slot = t
                           /\ call[d].op = loop[t].b.op
                           /\ call[d].pc \in {"stopChild", "dropChild"}
    BY <2>1, <2>2, InvFacts DEF PauseCancels, At, Batch
  <2> QED BY <1>5, <2>2, <2>3
<1> QED
  BY <1>1, <1>3, <1>4, <1>7, <1>8, <1>9, <1>10, <1>11, <1>12, <1>13 DEF Inv, WorkInv, Good

\* The attachment of a slot with a loop is past its start.
LEMMA LoopAttached ==
  ASSUME Inv, NEW s \in Slots, loop[s].pc # "gone", attach' = attach
  PROVE  \A t \in Slots : attach'[t] = "spawn" => attach[t] = "spawn" /\ t # s
  BY InvFacts DEF LoopsAlone

\* The types are kept when a loop and its request keep theirs.
LEMMA LoopCallTypes ==
  ASSUME Inv, UNCHANGED <<workVars, mail, runtime, permit, faults, delivered, attach, recovered, refused>>,
         status' \in [Slots -> {"Idle", "Working", "Error"}],
         call' \in [Procs -> CallState], loop' \in [Slots -> LoopState]
  PROVE  TypeOK'
<1>1. WorkTypeOK'
  BY InvFacts DEF WorkTypeOK, workVars, intentVars, slotVars
<1> QED
  BY <1>1 DEF Inv, TypeOK, LoopTypeOK

LEMMA TellLeadKeeps ==
  ASSUME Inv, NEW s \in Slots, TellLead(s)
  PROVE  Inv'
<1>1. /\ loop[s].pc \in {"tellStart", "tellTurn"}
      /\ UNCHANGED <<workVars, mail, runtime, permit, status, faults, delivered, attach, recovered, refused>>
  BY DEF TellLead, At
<1>2. call[s].pc = "idle" /\ s \in Procs
  BY <1>1, InvFacts DEF LoopsAlone, Procs
<1>3. PICK q \in CallState : Knows(q) /\ q.pc \notin Settling /\ call' = [call EXCEPT ![s] = q]
  <2>1. CASE Lead \in Slots \ {s}
    <3> DEFINE r == [NoCall EXCEPT !.pc = "noticeRow", !.slot = Lead, !.from = s, !.kind = "exhausted"]
    <3>1. r \in CallState /\ Knows(r) /\ r.pc = "noticeRow"
      BY <2>1, NoticeKnows DEF CallKinds
    <3>2. call' = [call EXCEPT ![s] = [NoCall EXCEPT !.pc = "noticeRow", !.kind = "exhausted",
                                                     !.slot = Lead, !.from = s]]
      BY <2>1 DEF TellLead, CallFrom
    <3>3. r = [NoCall EXCEPT !.pc = "noticeRow", !.kind = "exhausted", !.slot = Lead, !.from = s]
      BY DEF NoCall
    <3> HIDE DEF r
    <3> QED BY <3>1, <3>2, <3>3 DEF Settling
  <2>2. CASE Lead \notin Slots \ {s}
    <3>1. Step(s, "done")
      BY <2>2 DEF TellLead, Step
    <3>2. "done" \in CallPcs \ Settling /\ MayMove(s, "done")
      BY <1>2 DEF CallPcs, Settling, MayMove
    <3> QED BY <1>2, <3>1, <3>2, StepKnows, StepIs
  <2> QED BY <2>1, <2>2
<1>4. PICK p \in {"telling", "tellingEnd"} : Goto(s, p)
  BY DEF TellLead
<1>5. PICK r \in LoopState : LoopKnows(s, r) /\ r.pc = p /\ loop' = [loop EXCEPT ![s] = r]
  BY <1>4, GotoKnows DEF LoopPcs, Holding
<1>6. call' \in [Procs -> CallState] /\ loop' \in [Slots -> LoopState]
  BY <1>3, <1>5, InvFacts
<1>7. TypeOK'
  BY <1>1, <1>6, LoopCallTypes, LoopFields
<1>8. r.pc \notin Reading \cup Holding
  BY <1>5 DEF Reading, Holding
<1>9. \A t \in Slots : attach'[t] = "spawn" => attach[t] = "spawn" /\ t # s
  BY <1>1, LoopAttached
<1> QED
  BY <1>1, <1>2, <1>3, <1>5, <1>7, <1>8, <1>9, LoopAndCall

LEMMA ToldLeadKeeps ==
  ASSUME Inv, NEW s \in Slots, ToldLead(s)
  PROVE  Inv'
<1>1. /\ loop[s].pc \in {"telling", "tellingEnd"} /\ call[s].pc = "done"
      /\ UNCHANGED <<workVars, mail, runtime, permit, faults, delivered, attach, recovered, refused>>
      /\ call' = [call EXCEPT ![s] = NoCall] /\ AfterFailure(s, At(s, "tellingEnd"))
      /\ At(s, "tellingEnd") \in BOOLEAN
  BY DEF ToldLead, At, In
<1>2. status' \in [Slots -> {"Idle", "Working", "Error"}]
  BY <1>1, AfterFailureKnows
<1>3. PICK r \in LoopState : /\ LoopKnows(s, r) /\ r.pc \in {"prepare", "finish"}
                             /\ loop' = [loop EXCEPT ![s] = r]
  BY <1>1, AfterFailureKnows
<1>4. NoCall \in CallState /\ Knows(NoCall) /\ NoCall.pc = "idle"
  BY IdleKnows
<1>5. call' \in [Procs -> CallState] /\ loop' \in [Slots -> LoopState]
  BY <1>1, <1>3, <1>4, InvFacts
<1>6. TypeOK'
  BY <1>1, <1>2, <1>5, LoopCallTypes
<1>7. r.pc \notin Reading \cup Holding /\ NoCall.pc \notin Settling
  BY <1>3, <1>4 DEF Reading, Holding, Settling
<1>8. \A t \in Slots : attach'[t] = "spawn" => attach[t] = "spawn" /\ t # s
  BY <1>1, LoopAttached
<1> QED
  BY <1>1, <1>3, <1>4, <1>6, <1>7, <1>8, LoopAndCall

LEMMA FinishTurnKeeps ==
  ASSUME Inv, NEW s \in Slots, FinishTurn(s)
  PROVE  Inv'
<1>1. /\ loop[s].pc = "finish" /\ SetStatus(s, "Idle")
      /\ UNCHANGED <<workVars, mail, runtime, permit, faults, delivered, call, attach, recovered, refused>>
  BY DEF FinishTurn, At
<1>2. PICK q \in LoopState : /\ LoopKnows(s, q) /\ q.pc \in {"idleRow", "prepare"}
                             /\ loop' = [loop EXCEPT ![s] = q]
  <2>1. CASE Lead \in Slots /\ Leave(s, "idleRow")
    BY <2>1, LeaveKnows DEF LoopPcs, Holding
  <2>2. CASE Leave(s, "prepare")
    BY <2>2, LeaveKnows DEF LoopPcs, Holding
  <2> QED BY <2>1, <2>2 DEF FinishTurn
<1>3. status' \in [Slots -> {"Idle", "Working", "Error"}]
  BY <1>1, LoopFields
<1> QED
  BY <1>1, <1>2, <1>3, LoopMove, LoopFields, NoFault DEF Reading

LEMMA IdleRowKeeps ==
  ASSUME Inv, NEW s \in Slots, IdleRow(s)
  PROVE  Inv'
<1>1. /\ loop[s].pc = "idleRow" /\ Lead \in Slots
      /\ UNCHANGED <<workVars, runtime, permit, status, delivered, call, attach, recovered, refused>>
  BY LoopFields DEF IdleRow, At, LoopKnows
<1>2. CASE Fault("mailbox") /\ Goto(s, "prepare") /\ UNCHANGED mail
  <2>1. PICK q \in LoopState : LoopKnows(s, q) /\ q.pc = "prepare" /\ loop' = [loop EXCEPT ![s] = q]
    BY <1>2, GotoKnows DEF LoopPcs, Holding
  <2> QED
    BY <1>1, <1>2, <2>1, LoopMove, LoopFields, FaultFacts DEF Reading
<1>3. ASSUME NEW m \in Msgs, write(m, Lead, s), Goto(s, "wakeLead"), UNCHANGED faults
      PROVE  Inv'
  <2>1. PICK q \in LoopState : LoopKnows(s, q) /\ q.pc = "wakeLead" /\ loop' = [loop EXCEPT ![s] = q]
    BY <1>1, <1>3, GotoKnows DEF LoopPcs, Holding
  <2>2. mail' \in [Msgs -> Row] /\ MailKept /\ FiniteMail' /\ \A n \in Msgs : WasRead(n)' => WasRead(n)
    BY <1>1, <1>3, WriteKept, InvFacts
  <2>3. WorkStep
    BY <1>1, <2>2, SameWork, InvFacts
  <2>4. Kept /\ WorkTypeOK'
    BY <1>1, <1>3, <2>2, <2>3, NoFault DEF Kept, WorkStep, WorkInv, Good
  <2>5. loop'[s] = q /\ (\A t \in Slots \ {s} : loop'[t] = loop[t]) /\ loop' \in [Slots -> LoopState]
    BY <2>1, InvFacts
  <2>6. TypeOK'
    BY <1>1, <1>3, <2>2, <2>4, <2>5 DEF Inv, TypeOK, LoopTypeOK
  <2>7. SettledAccounted'
    BY <2>2, <2>4, SettledKept, InvFacts
  <2>8. LoopOK(s)'
    <3>1. LoopKnows(s, q)'
      BY <2>1, <2>4, LoopKnownKept, InvFacts
    <3> QED BY <2>1, <2>5, <3>1 DEF LoopOK, Reading
  <2>9. leases' = leases /\ paused' = paused /\ ~InTurn(s)'
    BY <1>1, <2>1, <2>5 DEF workVars, slotVars, InTurn
  <2> QED
    BY <1>1, <1>3, <2>1, <2>2, <2>3, <2>5, <2>6, <2>7, <2>8, <2>9, NoFault, LoopFrame
<1> QED
  BY <1>2, <1>3 DEF IdleRow

LEMMA WakeLeadKeeps ==
  ASSUME Inv, NEW s \in Slots, maybe_wake_leader_when_all_idle(s)
  PROVE  Inv'
<1>1. /\ loop[s].pc = "wakeLead" /\ Lead \in Slots
      /\ UNCHANGED <<workVars, mail, runtime, permit, status, faults, delivered, attach, recovered, refused>>
  BY LoopFields DEF maybe_wake_leader_when_all_idle, At, LoopKnows
<1>2. CASE UNCHANGED call /\ Goto(s, "prepare")
  <2>1. PICK q \in LoopState : LoopKnows(s, q) /\ q.pc = "prepare" /\ loop' = [loop EXCEPT ![s] = q]
    BY <1>2, GotoKnows DEF LoopPcs, Holding
  <2> QED
    BY <1>1, <1>2, <2>1, LoopMove, LoopFields, NoFault DEF Reading
<1>3. CASE CallFrom(s, "signal", "publish") /\ Goto(s, "waking")
  <2>1. call[s].pc = "idle" /\ s \in Procs
    BY <1>1, InvFacts DEF LoopsAlone, Procs
  <2>2. PICK q \in CallState : Knows(q) /\ q.pc \notin Settling /\ call' = [call EXCEPT ![s] = q]
    <3> DEFINE r == [NoCall EXCEPT !.pc = "publish", !.slot = Lead, !.from = s, !.kind = "signal"]
    <3>1. r \in CallState /\ Knows(r) /\ r.pc = "publish"
      BY <1>1, NoticeKnows DEF CallKinds
    <3>2. call' = [call EXCEPT ![s] = [NoCall EXCEPT !.pc = "publish", !.kind = "signal",
                                                     !.slot = Lead, !.from = s]]
      BY <1>3 DEF CallFrom
    <3>3. r = [NoCall EXCEPT !.pc = "publish", !.kind = "signal", !.slot = Lead, !.from = s]
      BY DEF NoCall
    <3> HIDE DEF r
    <3> QED BY <3>1, <3>2, <3>3 DEF Settling
  <2>3. PICK r \in LoopState : LoopKnows(s, r) /\ r.pc = "waking" /\ loop' = [loop EXCEPT ![s] = r]
    BY <1>3, GotoKnows DEF LoopPcs, Holding
  <2>4. call' \in [Procs -> CallState] /\ loop' \in [Slots -> LoopState]
    BY <2>2, <2>3, InvFacts
  <2>5. TypeOK'
    BY <1>1, <2>4, LoopCallTypes, LoopFields
  <2>6. r.pc \notin Reading \cup Holding
    BY <2>3 DEF Reading, Holding
  <2>7. \A t \in Slots : attach'[t] = "spawn" => attach[t] = "spawn" /\ t # s
    BY <1>1, LoopAttached
  <2> QED
    BY <1>1, <2>1, <2>2, <2>3, <2>5, <2>6, <2>7, LoopAndCall
<1> QED
  BY <1>2, <1>3 DEF maybe_wake_leader_when_all_idle

LEMMA LeadWokenKeeps ==
  ASSUME Inv, NEW s \in Slots, LeadWoken(s)
  PROVE  Inv'
<1>1. /\ loop[s].pc = "waking" /\ call[s].pc = "done" /\ Goto(s, "prepare")
      /\ UNCHANGED <<workVars, mail, runtime, permit, status, faults, delivered, attach, recovered, refused>>
      /\ call' = [call EXCEPT ![s] = NoCall]
  BY DEF LeadWoken, At, In
<1>2. PICK r \in LoopState : LoopKnows(s, r) /\ r.pc = "prepare" /\ loop' = [loop EXCEPT ![s] = r]
  BY <1>1, GotoKnows DEF LoopPcs, Holding
<1>3. NoCall \in CallState /\ Knows(NoCall) /\ NoCall.pc = "idle"
  BY IdleKnows
<1>4. call' \in [Procs -> CallState] /\ loop' \in [Slots -> LoopState]
  BY <1>1, <1>2, <1>3, InvFacts
<1>5. TypeOK'
  BY <1>1, <1>4, LoopCallTypes, LoopFields
<1>6. r.pc \notin Reading \cup Holding /\ NoCall.pc \notin Settling
  BY <1>2, <1>3 DEF Reading, Holding, Settling
<1>7. \A t \in Slots : attach'[t] = "spawn" => attach[t] = "spawn" /\ t # s
  BY <1>1, LoopAttached
<1> QED
  BY <1>1, <1>2, <1>3, <1>5, <1>6, <1>7, LoopAndCall

LEMMA FinalizeStepKeeps ==
  ASSUME Inv, NEW s \in Slots, FinalizeStep(s)
  PROVE  Inv'
  BY TellLeadKeeps, ToldLeadKeeps, FinishTurnKeeps, IdleRowKeeps, WakeLeadKeeps,
     LeadWokenKeeps DEF FinalizeStep
-----------------------------------------------------------------------------
(* The attachment of a member keeps the invariant.                         *)

\* A step after which every loop and every request is where it was.
LEMMA StillFrame ==
  ASSUME Inv, WorkStep, UNCHANGED <<mail, loop, call, delivered, refused, faults>>,
         leases' = leases, paused' = paused, TypeOK',
         \A t \in Slots : attach'[t] = "spawn" => attach[t] = "spawn"
  PROVE  Inv'
<1>1. MailKept /\ FiniteMail' /\ \A n \in Msgs : WasRead(n)' => WasRead(n)
  BY SameMail, InvFacts
<1>2. Kept /\ WorkTypeOK'
  BY <1>1, NoFault DEF Kept, WorkStep, WorkInv, Good
<1>3. SettledAccounted'
  BY <1>1, <1>2, SettledKept, InvFacts
<1>4. (\A d \in Procs : CallOK(d)') /\ (\A t \in Slots : LoopOK(t)')
  BY <1>2, CallKept, LoopKept, InvFacts
<1>5. LeaseOK' /\ LoopsAlone'
  BY InvFacts DEF LeaseOK, LoopsAlone
<1>6. DeliveredRead' /\ NoRedelivery'
  BY <1>2, LoopsIdle
<1>7. PICK c \in Procs : TRUE
  BY ConstantsAssumption DEF Procs
<1>8. PauseStays(c)
  BY DEF PauseStays
<1>9. PauseCancels'
  BY <1>2, <1>8, PauseKept
<1> QED
  BY <1>1, <1>3, <1>4, <1>5, <1>6, <1>9 DEF Inv, WorkStep, WorkInv, Good

AttachStates == {"none", "spawn", "commit", "publish", "notify", "republish", "renotify", "done"}

LEMMA SpawnLoopKeeps ==
  ASSUME Inv, NEW s \in Slots, SpawnLoop(s)
  PROVE  Inv'
<1> DEFINE r == [loop[s] EXCEPT !.pc = "wait"]
<1>1. /\ attach[s] = "spawn" /\ attach' = [attach EXCEPT ![s] = "commit"]
      /\ UNCHANGED <<workVars, mail, runtime, permit, status, faults, delivered, call, recovered, refused>>
      /\ loop[s] \in LoopState /\ LoopKnows(s, loop[s])
  BY LoopFields DEF SpawnLoop
<1>2. loop' = [loop EXCEPT ![s] = r]
  BY InvFacts DEF SpawnLoop
<1>3. loop[s].pc = "gone" /\ s \in Procs /\ call[s].pc = "idle"
  BY <1>1, InvFacts DEF LoopsAlone, Procs
<1>4. r \in LoopState /\ r.pc = "wait" /\ r.b = loop[s].b /\ r.rows = loop[s].rows
  BY <1>1 DEF LoopState, LoopPcs
<1> HIDE DEF r
<1>5. LoopKnows(s, r) /\ r.pc \notin Reading \cup Holding
  BY <1>1, <1>4 DEF LoopKnows, Reading, Holding
<1>6. PICK q \in CallState : q = call[s]
  BY <1>3, InvFacts
<1>7. Knows(q) /\ q.pc \notin Settling /\ call' = [call EXCEPT ![s] = q]
  BY <1>1, <1>3, <1>6, CallFields, InvFacts DEF Settling
<1>8. loop' \in [Slots -> LoopState] /\ attach' \in [Slots -> AttachStates]
  BY <1>1, <1>2, <1>4, InvFacts DEF TypeOK, AttachStates
<1>9. TypeOK'
  <2>1. WorkTypeOK'
    BY <1>1, InvFacts DEF WorkTypeOK, workVars, intentVars, slotVars
  <2> QED BY <1>1, <1>8, <2>1 DEF Inv, TypeOK, LoopTypeOK, AttachStates
<1>10. \A t \in Slots : attach'[t] = "spawn" => attach[t] = "spawn" /\ t # s
  BY <1>1, InvFacts DEF TypeOK
<1> QED
  BY <1>1, <1>2, <1>3, <1>4, <1>5, <1>6, <1>7, <1>9, <1>10, LoopAndCall

LEMMA AttachStepKeeps ==
  ASSUME Inv, NEW s \in Slots, AttachStep(s)
  PROVE  Inv'
<1>1. attach \in [Slots -> AttachStates] /\ runtime \in [Slots -> {"Absent", "Attaching", "Ready"}]
  BY DEF AttachStates, Inv, TypeOK, LoopTypeOK
<1>2. CASE SpawnLoop(s)
  BY <1>2, SpawnLoopKeeps
<1>3. CASE CommitReady(s) \/ NotifyAttached(s)
  <2>1. /\ UNCHANGED <<workVars, mail, loop, call, status, faults, delivered, recovered, refused>>
        /\ runtime' \in [Slots -> {"Absent", "Attaching", "Ready"}]
        /\ permit' \in [Slots -> BOOLEAN]
        /\ attach' \in [Slots -> AttachStates]
        /\ \A t \in Slots : attach'[t] = "spawn" => attach[t] = "spawn"
    BY <1>1, <1>3, PermitSame
       DEF CommitReady, NotifyAttached, Notify, AttachStates, AfterNotify
  <2>2. WorkStep /\ leases' = leases /\ paused' = paused
    BY <2>1, SameWork, SameMail, InvFacts DEF workVars, slotVars
  <2>3. TypeOK'
    BY <2>1, <2>2 DEF WorkStep, WorkInv, Good, Inv, TypeOK, LoopTypeOK, AttachStates
  <2> QED BY <2>1, <2>2, <2>3, StillFrame
<1>4. CASE PublishReady(s)
  <2>1. /\ UNCHANGED <<loopVars, call, recovered, refused>>
        /\ set_runtime_constraint(s, [kind |-> "Ready", op |-> 0])
        /\ attach' \in [Slots -> AttachStates]
        /\ \A t \in Slots : attach'[t] = "spawn" => attach[t] = "spawn"
    BY <1>1, <1>4 DEF PublishReady, AttachStates
  <2>2. WorkStep
    BY <2>1, ConstrainStep, InvFacts DEF loopVars
  <2>3. leases' = leases /\ paused' = paused
    BY <2>1 DEF set_runtime_constraint
  <2>4. TypeOK'
    BY <2>1, <2>2 DEF WorkStep, WorkInv, Good, Inv, TypeOK, LoopTypeOK, AttachStates, loopVars
  <2> QED BY <2>1, <2>2, <2>3, <2>4, StillFrame DEF loopVars
<1> QED
  BY <1>2, <1>3, <1>4 DEF AttachStep
-----------------------------------------------------------------------------
(* The invariant holds, and what follows from it.                          *)

LEMMA InitInv == Init => Inv
<1> SUFFICES ASSUME Init PROVE Inv
  OBVIOUS
<1> DEFINE home == CHOOSE s \in Slots : s = Lead \/ Lead \notin Slots
<1>1. /\ WorkInit(Warm) /\ LoopInit(Warm, Notified) /\ MailInit(Restored, home, User)
      /\ call = [c \in Procs |-> NoCall] /\ attach = [s \in Slots |-> "none"]
      /\ recovered = FALSE /\ refused = {}
  BY DEF Init
<1>2. home \in Slots
  BY ConstantsAssumption
<1> HIDE DEF home
<1>3. Good
  BY <1>1, TeamSessionAssumption, InitGood
<1>4. mail \in [Msgs -> Row] /\ \A m \in Msgs : mail[m].st = IF m \in Restored THEN "unread" ELSE "unwritten"
  BY <1>1, <1>2 DEF MailInit, Row
<1>5. /\ \A s \in Slots : loop[s] = [pc |-> IF s \in Warm THEN "wait" ELSE "gone",
                                     b |-> NoWork(s), cands |-> {}, rows |-> {}]
      /\ faults = 0 /\ delivered = {}
  BY <1>1 DEF LoopInit
<1>6. LoopTypeOK
  <2>1. \A s \in Slots : [pc |-> IF s \in Warm THEN "wait" ELSE "gone",
                          b |-> NoWork(s), cands |-> {}, rows |-> {}] \in LoopState
    BY DEF LoopState, LoopPcs, NoWork, Lanes
  <2> QED BY <1>1, <1>4, <2>1, EventLoopAssumption DEF LoopInit, LoopTypeOK
<1>7. (CHOOSE s \in Slots : TRUE) \in Slots
  BY ConstantsAssumption
<1>8. NoCall \in CallState
  BY <1>7, EventLoopAssumption DEF NoCall, CallState, CallPcs, CallKinds
<1>9. TypeOK
  BY <1>1, <1>3, <1>6, <1>8 DEF Good, TypeOK
<1>10. /\ \A i \in IntentIds : ist[i] = "Unborn"
       /\ \A s \in Slots : active[s] = NoBatch /\ ~paused[s]
       /\ \A s \in Slots, m \in Msgs : failures[s][m] = 0
       /\ leases = {} /\ nextOp = 0
  BY <1>1 DEF WorkInit
<1>11. WorkRows
  BY <1>10 DEF WorkRows, NoBatch
<1>12. CountsBacked
  <2>1. ASSUME NEW s \in Slots, NEW m \in Msgs
        PROVE  failures[s][m] <= Cardinality(Ended(m, "Failed"))
    <3>1. failures[s][m] = 0 /\ Cardinality(Ended(m, "Failed")) \in Nat
      BY <1>10, EndedFinite
    <3> QED BY <3>1
  <2> QED BY <2>1 DEF CountsBacked
<1>13. FiniteMail
  <2>1. {m \in Msgs : Written(m)} \subseteq Restored
    BY <1>4 DEF Written
  <2> QED BY <2>1, TeamSessionAssumption, FS_Subset DEF FiniteMail
<1>14. \A c \in Procs : CallOK(c)
  <2>1. /\ NoCall.pc = "idle" /\ NoCall.msg = NoMsg /\ NoCall.op = 0 /\ NoCall.intents = {}
        /\ NoCall.rows = {}
    BY DEF NoCall
  <2>2. \A c \in Procs : call[c] = NoCall
    BY <1>1
  <2>3. Knows(NoCall)
    BY <1>10, <2>1 DEF Knows, Snapshot
  <2> QED BY <2>1, <2>2, <2>3 DEF CallOK, Settling
<1>15. \A s \in Slots : LoopOK(s)
  <2>1. ASSUME NEW s \in Slots
        PROVE  LoopOK(s)
    <3>1. /\ loop[s].pc \in {"wait", "gone"} /\ loop[s].rows = {} /\ loop[s].b = NoWork(s)
      <4>1. loop[s] = [pc |-> IF s \in Warm THEN "wait" ELSE "gone",
                       b |-> NoWork(s), cands |-> {}, rows |-> {}]
        BY <1>5
      <4>2. loop[s].pc = IF s \in Warm THEN "wait" ELSE "gone"
        BY <4>1
      <4>3. loop[s].rows = {} /\ loop[s].b = NoWork(s)
        BY <4>1
      <4> QED BY <4>2, <4>3
    <3>2. NoWork(s).slot = s /\ NoWork(s).op = 0 /\ NoWork(s).intents = {}
      BY DEF NoWork
    <3> QED BY <1>10, <3>1, <3>2 DEF LoopOK, LoopKnows, Snapshot, Reading, Holding
  <2> QED BY <2>1
<1>16. LeaseOK /\ DeliveredRead /\ NoRedelivery
  BY <1>5, <1>10 DEF LeaseOK, DeliveredRead, NoRedelivery
<1>17. LoopsAlone
  BY <1>1 DEF LoopsAlone, NoCall, Procs
<1>18. SettledAccounted
  BY <1>4 DEF SettledAccounted, WasRead
<1>19. PauseCancels
  BY <1>10 DEF PauseCancels
<1> QED
  BY <1>3, <1>9, <1>11, <1>12, <1>13, <1>14, <1>15, <1>16, <1>17, <1>18, <1>19 DEF Inv, Good

LEMMA NextInv == Inv /\ [Next]_sessionVars => Inv'
<1> SUFFICES ASSUME Inv, [Next]_sessionVars PROVE Inv'
  OBVIOUS
<1>1. CASE UNCHANGED sessionVars
  <2>1. /\ UNCHANGED <<workVars, mail, runtime, loop, permit, status, faults, delivered>>
        /\ UNCHANGED <<call, attach, recovered, refused>>
    BY <1>1 DEF sessionVars, loopVars
  <2>2. WorkStep /\ leases' = leases /\ paused' = paused
    BY <2>1, SameWork, SameMail, InvFacts DEF workVars, slotVars
  <2>3. TypeOK'
    BY <2>1, <2>2 DEF WorkStep, WorkInv, Good, Inv, TypeOK, LoopTypeOK
  <2> QED BY <2>1, <2>2, <2>3, StillFrame
<1>2. ASSUME NEW c \in Callers, Begin(c) PROVE Inv'
  BY <1>2, BeginKeeps
<1>3. ASSUME NEW c \in Procs, CallStep(c) PROVE Inv'
  BY <1>3, CallStepKeeps
<1>4. ASSUME NEW s \in Slots, Loop(s) PROVE Inv'
  BY <1>4, LoopStepKeeps, FinalizeStepKeeps DEF Loop, Loops
<1>5. ASSUME NEW s \in Slots, StartFails(s) PROVE Inv'
  BY <1>5, TurnNotStartedKeeps DEF StartFails, Loops
<1>6. ASSUME NEW s \in Slots, AttachStep(s) PROVE Inv'
  BY <1>6, AttachStepKeeps
<1> QED
  BY <1>1, <1>2, <1>3, <1>4, <1>5, <1>6 DEF Next

(* What every request and every event loop remembers across the awaits of  *)
(* its handler is true when it acts on it, however the steps of the        *)
(* session interleave and whichever calls fail.                            *)
THEOREM Invariance == Spec => []Inv
<1>1. Init => Inv
  BY InitInv
<1>2. Inv /\ [Next]_sessionVars => Inv'
  BY NextInv
<1> QED
  BY <1>1, <1>2, PTL DEF Spec

(* Every request, loop, attachment and mailbox row stays in the states the *)
(* code gives it.                                                          *)
THEOREM TypeCorrect == Spec => []TypeOK
<1>1. Inv => TypeOK
  BY DEF Inv
<1> QED
  BY <1>1, Invariance, PTL

(* No agent turn is given a row that an earlier turn acknowledged, unless  *)
(* a mailbox call failed: prepare_next_batch rereads what it claimed.      *)
THEOREM NoRowTwice == Spec => []NoRedelivery
<1>1. Inv => NoRedelivery
  BY DEF Inv
<1> QED
  BY <1>1, Invariance, PTL

(* A row is marked read only after a turn acknowledged it, its rejection   *)
(* was reported, its work was cancelled, or its delivery failed            *)
(* MAX_MESSAGE_DELIVERY_FAILURES times.                                    *)
THEOREM NothingLostInSilence == Spec => []NoSilentLoss
<1>1. Inv => NoSilentLoss
  BY DEF Inv, SettledAccounted, Accounted, NoSilentLoss
<1> QED
  BY <1>1, Invariance, PTL

(* Once pause_slot_work answered, no turn owns the paused slot, unless its *)
(* cancellation failed.                                                    *)
THEOREM PausesHold == Spec => []PauseHolds
<1>1. Inv => PauseHolds
  <2>1. SUFFICES ASSUME Inv, NEW s \in Slots, paused[s], ~Pausing(s), faults = 0,
                        At(s, "run"), is_current_batch(Batch(s))
                 PROVE  FALSE
    BY DEF PauseHolds
  <2>2. Batch(s).slot = s
    BY <2>1, LoopFields DEF LoopKnows, Batch
  <2>3. active[s].op = Batch(s).op
    BY <2>1, <2>2 DEF is_current_batch
  <2>4. \E c \in Procs : call[c].kind = "pause" /\ call[c].slot = s
    BY <2>1, <2>3, InvFacts DEF PauseCancels
  <2> QED BY <2>1, <2>4 DEF Pausing
<1> QED
  BY <1>1, Invariance, PTL
-----------------------------------------------------------------------------
(* The session implements Delivery.  A step of the coordinator matters to  *)
(* it only if an intent is cancelled or fails.                             *)

NoneFails == \A i \in IntentIds : ist'[i] = "Failed" => ist[i] = "Failed"

NoneDies == NoneFails /\ \A i \in IntentIds : ist'[i] = "Cancelled" => ist[i] = "Cancelled"

\* What a step must be to Delivery.
Allowed ==
  \/ Promised!Next
  \/ UNCHANGED <<Box, Hand, delivered, refused, CancelledRows, ExhaustedRows, SettledRows, MailFailed>>

\* The rows of a slot stay in its box.
LEMMA BoxKept ==
  ASSUME \A m \in Msgs : /\ Written(m)' <=> Written(m)
                         /\ Written(m) => mail'[m].to = mail[m].to
  PROVE  Box' = Box
<1>1. \A s \in Slots, m \in Msgs :
        mail'[m].st # "unwritten" /\ mail'[m].to = s <=> mail[m].st # "unwritten" /\ mail[m].to = s
  BY DEF Written
<1> QED
  BY <1>1 DEF Box

\* Intents of a row that ended in some way stay the same if none ends that way.
LEMMA EndedSame ==
  ASSUME WorkKept, NEW m, NEW st \in Terminal,
         \A i \in IntentIds : ist'[i] = st => ist[i] = st
  PROVE  Ended(m, st)' = Ended(m, st)
<1>1. Ended(m, st) \subseteq Ended(m, st)'
  BY EndedKept
<1>2. Ended(m, st)' \subseteq Ended(m, st)
  BY DEF Ended, WorkKept, Terminal
<1> QED
  BY <1>1, <1>2

LEMMA ExhaustedSame ==
  ASSUME WorkKept, NoneFails
  PROVE  ExhaustedRows' = ExhaustedRows
<1>1. \A m \in Msgs : Ended(m, "Failed")' = Ended(m, "Failed")
  BY EndedSame DEF NoneFails, Terminal
<1> QED
  BY <1>1 DEF ExhaustedRows

LEMMA CancelledSame ==
  ASSUME WorkKept, NoneDies
  PROVE  CancelledRows' = CancelledRows
<1>1. \A m \in Msgs : Ended(m, "Cancelled")' = Ended(m, "Cancelled")
  BY EndedSame DEF NoneDies, Terminal
<1> QED
  BY <1>1 DEF CancelledRows

\* A loop that keeps its batch, or stays without a turn, holds the same rows.
HandKept(s) ==
  /\ loop'[s].pc \in Turning <=> loop[s].pc \in Turning
  /\ loop[s].pc \in Turning => loop'[s].b = loop[s].b

LEMMA RowsSame ==
  ASSUME Inv, WorkKept, NEW s \in Slots, loop'[s].b = loop[s].b
  PROVE  BatchMsgs(Batch(s))' = BatchMsgs(Batch(s))
<1>1. \A i \in loop[s].b.intents : i \in IntentIds /\ ist[i] # "Unborn"
  BY LoopFields DEF LoopKnows, LoopState, BornTo
<1>2. \A i \in loop[s].b.intents : info'[i] = info[i]
  BY <1>1 DEF WorkKept
<1> QED
  BY <1>2 DEF BatchMsgs, Batch

LEMMA HandSame ==
  ASSUME Inv, WorkKept, \A s \in Slots : HandKept(s)
  PROVE  Hand' = Hand
<1>1. \A s \in Slots : loop[s].pc \in Turning => BatchMsgs(Batch(s))' = BatchMsgs(Batch(s))
  BY RowsSame DEF HandKept
<1> QED
  BY <1>1 DEF Hand, HandKept

\* The rows in the hands of the turn of one slot.
LEMMA HandIs ==
  ASSUME NEW s \in Slots
  PROVE  /\ loop[s].pc \in Turning => Hand[s] = BatchMsgs(Batch(s))
         /\ loop[s].pc \notin Turning => Hand[s] = {}
  BY DEF Hand

\* The loop of s ends its turn, and no other loop moves.
LEMMA HandEmptied ==
  ASSUME Inv, WorkKept, NEW s \in Slots, loop'[s].pc \notin Turning,
         \A t \in Slots \ {s} : loop'[t] = loop[t]
  PROVE  Hand' = [Hand EXCEPT ![s] = {}]
<1>1. \A t \in Slots \ {s} : BatchMsgs(Batch(t))' = BatchMsgs(Batch(t))
  BY RowsSame
<1> QED
  BY <1>1 DEF Hand

LEMMA SentRows ==
  ASSUME NEW s \in Slots, NEW m, Addressed(m, s)
  PROVE  m \in Box[s] /\ m \in UNION {Box[t] : t \in Slots}
  BY DEF Addressed, Written, Box

\* At most a call of the mailbox failed.
LEMMA FailedKept ==
  ASSUME Inv, faults' \in 0..MaxFaults, faults <= faults'
  PROVE  MailFailed' \in BOOLEAN /\ (MailFailed => MailFailed')
<1>1. faults \in Nat /\ faults' \in Nat
  BY InvFacts, EventLoopAssumption
<1> QED
  BY <1>1 DEF MailFailed

\* Nothing that matters changes, except that a call may have failed.
LEMMA StillStep ==
  ASSUME Inv, WorkKept, NoneDies, mail' = mail, \A s \in Slots : HandKept(s),
         UNCHANGED <<delivered, refused>>, faults' \in 0..MaxFaults, faults <= faults'
  PROVE  Allowed
<1>1. Box' = Box /\ SettledRows' = SettledRows
  BY BoxKept DEF Written, SettledRows, WasRead
<1>2. Hand' = Hand /\ CancelledRows' = CancelledRows /\ ExhaustedRows' = ExhaustedRows
  BY HandSame, CancelledSame, ExhaustedSame DEF NoneDies
<1>3. CASE MailFailed' = MailFailed
  BY <1>1, <1>2, <1>3 DEF Allowed
<1>4. CASE MailFailed'
  <2>1. Promised!Falter
    BY <1>1, <1>2, <1>4 DEF Promised!Falter, Promised!outcomes, MailFailed
  <2> QED BY <2>1 DEF Allowed, Promised!Next
<1>5. MailFailed \in BOOLEAN
  BY DEF MailFailed
<1> QED
  BY <1>3, <1>4, <1>5, FailedKept

MayFail == UNCHANGED faults \/ \E k \in {"mailbox", "cancel", "start", "turn"} : Fault(k)

\* Nothing moves but what a request or a loop remembers.
LEMMA IdleStep ==
  ASSUME Inv, UNCHANGED <<workVars, mail, delivered, refused>>, \A s \in Slots : HandKept(s),
         MayFail
  PROVE  Allowed
<1>1. WorkStep
  BY SameWork, SameMail, InvFacts
<1>2. NoneDies
  BY DEF NoneDies, NoneFails, workVars, intentVars
<1>3. faults' \in 0..MaxFaults /\ faults <= faults'
  BY FaultFacts, NoFault DEF MayFail
<1> QED
  BY <1>1, <1>2, <1>3, StillStep DEF WorkStep

\* Work is cancelled: its rows are rows of some slot.
LEMMA CancelledStep ==
  ASSUME Inv, WorkStep, NoneFails, mail' = mail, \A s \in Slots : HandKept(s),
         UNCHANGED <<delivered, refused, faults>>
  PROVE  Allowed
<1>1. Box' = Box /\ SettledRows' = SettledRows /\ MailFailed' = MailFailed
  BY BoxKept DEF Written, SettledRows, WasRead, MailFailed
<1>2. Hand' = Hand /\ ExhaustedRows' = ExhaustedRows
  BY HandSame, ExhaustedSame DEF WorkStep
<1>3. CancelledRows \subseteq CancelledRows'
  <2>1. \A m \in Msgs : Ended(m, "Cancelled") \subseteq Ended(m, "Cancelled")'
    BY EndedKept DEF WorkStep, Terminal
  <2> QED BY <2>1 DEF CancelledRows
<1>4. \A m \in CancelledRows' : m \in UNION {Box[s] : s \in Slots}
  <2>1. SUFFICES ASSUME NEW m \in CancelledRows' PROVE m \in UNION {Box[s] : s \in Slots}
    OBVIOUS
  <2>2. PICK i \in IntentIds : info'[i].msg = m /\ ist'[i] = "Cancelled"
    BY DEF CancelledRows, Ended
  <2>3. m # NoMsg
    BY ConstantsAssumption DEF CancelledRows
  <2>4. WorkRows' /\ WorkTypeOK'
    BY DEF WorkStep, WorkInv, Good
  <2>5. Addressed(info[i].msg, info[i].slot)' /\ info'[i].slot \in Slots
    BY <2>2, <2>3, <2>4 DEF WorkRows, WorkTypeOK, WorkIntent
  <2>6. Addressed(m, info'[i].slot)
    BY <2>2, <2>5 DEF Addressed, Written
  <2> QED BY <2>5, <2>6, SentRows
<1>5. CASE CancelledRows' = {}
  <2>1. CancelledRows' = CancelledRows
    BY <1>3, <1>5
  <2> QED BY <1>1, <1>2, <2>1 DEF Allowed
<1>6. CASE CancelledRows' # {}
  <2>1. Promised!Cancel(CancelledRows')
    <3>1. CancelledRows' = CancelledRows \cup CancelledRows'
      BY <1>3
    <3> QED BY <1>1, <1>2, <1>4, <1>6, <3>1 DEF Promised!Cancel, Promised!Sent, MailFailed
  <2>2. CancelledRows' \in SUBSET Msgs
    BY DEF CancelledRows
  <2> QED BY <2>1, <2>2 DEF Allowed, Promised!Next
<1> QED
  BY <1>5, <1>6

\* A row is written.
LEMMA SendStep ==
  ASSUME Inv, UNCHANGED <<workVars, delivered, refused, faults>>, \A s \in Slots : HandKept(s),
         NEW m \in Msgs, NEW to \in Slots, NEW from \in Slots \cup {User}, write(m, to, from)
  PROVE  Allowed
<1>1. /\ mail[m].st = "unwritten"
      /\ mail' = [mail EXCEPT ![m] = [to |-> to, from |-> from, st |-> "unread"]]
      /\ mail \in [Msgs -> Row]
  BY InvFacts DEF write, IsNextRow
<1>2. /\ mail'[m].to = to /\ mail'[m].st = "unread"
      /\ \A n \in Msgs \ {m} : mail'[n] = mail[n]
  BY <1>1
<1>3. WorkStep
  BY WriteKept, SameWork, InvFacts
<1>4. NoneDies
  BY DEF NoneDies, NoneFails, workVars, intentVars
<1>5. Hand' = Hand /\ CancelledRows' = CancelledRows /\ ExhaustedRows' = ExhaustedRows
  BY <1>3, <1>4, HandSame, CancelledSame, ExhaustedSame DEF WorkStep, NoneDies
<1>6. SettledRows' = SettledRows /\ MailFailed' = MailFailed
  BY <1>1, <1>2 DEF SettledRows, WasRead, MailFailed
<1>7. Box' = [Box EXCEPT ![to] = @ \cup {m}]
  BY <1>1, <1>2 DEF Box
<1>8. m \notin UNION {Box[s] : s \in Slots}
  BY <1>1 DEF Box
<1>9. Promised!Send(to, m)
  BY <1>5, <1>6, <1>7, <1>8 DEF Promised!Send, Promised!Sent, Promised!outcomes, MailFailed
<1> QED
  BY <1>9 DEF Allowed, Promised!Next

\* Rows are marked read that are accounted for.
LEMMA SettleStep ==
  ASSUME Inv, UNCHANGED <<workVars, delivered, refused, faults>>, \A s \in Slots : HandKept(s),
         NEW M, \A m \in M : (\E s \in Slots : Addressed(m, s)) /\ Accounted(m),
         mark_read_batch(M)
  PROVE  Allowed
<1>1. M \in SUBSET Msgs /\ \A m \in M : Written(m)
  BY DEF Addressed
<1>2. /\ MailKept /\ mail' \in [Msgs -> Row]
      /\ \A n \in Msgs : WasRead(n)' <=> WasRead(n) \/ n \in M
  BY <1>1, ReadKept, InvFacts
<1>3. WorkStep
  BY <1>2, SameWork, InvFacts
<1>4. NoneDies
  BY DEF NoneDies, NoneFails, workVars, intentVars
<1>5. Hand' = Hand /\ CancelledRows' = CancelledRows /\ ExhaustedRows' = ExhaustedRows
  BY <1>3, <1>4, HandSame, CancelledSame, ExhaustedSame DEF WorkStep, NoneDies
<1>6. SettledRows' = SettledRows \cup M /\ MailFailed' = MailFailed
  BY <1>1, <1>2 DEF SettledRows, MailFailed
<1>7. Box' = Box
  <2>1. \A m \in Msgs : mail'[m] = IF m \in M THEN [mail[m] EXCEPT !.st = "read"] ELSE mail[m]
    BY DEF mark_read_batch
  <2>2. \A m \in Msgs : mail[m] \in Row
    BY InvFacts
  <2>3. \A m \in Msgs : mail'[m].to = mail[m].to
    BY <2>1, <2>2 DEF Row
  <2>4. \A m \in Msgs : Written(m)' <=> Written(m)
    BY <1>1, <2>1, <2>2 DEF Row, Written
  <2> QED BY <2>3, <2>4, BoxKept
<1>8. M \subseteq UNION {Box[s] : s \in Slots}
  BY SentRows
<1>9. M \subseteq delivered \cup refused \cup CancelledRows \cup ExhaustedRows
  BY <1>1 DEF Accounted, CancelledRows, ExhaustedRows
<1>10. Promised!Settle(M)
  BY <1>5, <1>6, <1>7, <1>8, <1>9 DEF Promised!Settle, Promised!Sent, Promised!outcomes, MailFailed
<1> QED
  BY <1>1, <1>10 DEF Allowed, Promised!Next
-----------------------------------------------------------------------------
(* Requests deliver as promised.                                           *)

\* Only what a request remembers changes.
LEMMA CallIdle ==
  ASSUME Inv, UNCHANGED <<workVars, mail, loop, delivered, refused>>, MayFail
  PROVE  Allowed
  BY IdleStep DEF HandKept

\* The coordinator is told something that neither cancels nor fails work.
LEMMA CallCalm ==
  ASSUME Inv, WorkStep, NoneDies, UNCHANGED <<mail, loop, delivered, refused, faults>>
  PROVE  Allowed
  BY StillStep, NoFault DEF HandKept, WorkStep

\* The coordinator is asked to drop work.
LEMMA CallCancels ==
  ASSUME Inv, WorkStep, NoneFails, UNCHANGED <<mail, loop, delivered, refused, faults>>
  PROVE  Allowed
  BY CancelledStep DEF HandKept

LEMMA PublishDelivers ==
  ASSUME Inv, NEW c \in Procs, PublishConstraint(c)
  PROVE  Allowed
<1>1. call[c].slot \in Slots /\ UNCHANGED <<mail, faults, loop, delivered, refused>>
  BY CallFields DEF PublishConstraint, Quiet
<1>2. PICK k \in {"Ready", "Starting"} : set_runtime_constraint(call[c].slot, [kind |-> k, op |-> 0])
  BY DEF PublishConstraint, ConstraintOf
<1>3. WorkStep
  BY <1>1, <1>2, ConstrainStep, InvFacts
<1>4. NoneDies
  BY <1>2 DEF set_runtime_constraint, NoneDies, NoneFails
<1> QED
  BY <1>1, <1>3, <1>4, CallCalm

LEMMA AcquireDelivers ==
  ASSUME Inv, NEW c \in Procs, Acquire(c)
  PROVE  Allowed
<1>1. call[c].slot \in Slots /\ UNCHANGED <<mail, faults, loop, delivered, refused>>
  BY CallFields DEF Acquire, Quiet
<1>2. CASE UNCHANGED workVars
  BY <1>1, <1>2, CallIdle DEF MayFail
<1>3. ASSUME NEW r \in Runs, acquire_enqueue(c, call[c].slot, SourceOf(call[c].kind), r)
      PROVE  Allowed
  <2>1. SourceOf(call[c].kind) \in AllSources /\ c \in LeaseIds
    BY TeamSessionAssumption
       DEF SourceOf, AllSources, UserSources, ControlSources, SignalSources, Procs
  <2>2. WorkStep
    BY <1>1, <1>3, <2>1, AcquireStep, InvFacts
  <2>3. NoneDies
    BY <1>3 DEF acquire_enqueue, intentVars, NoneDies, NoneFails
  <2> QED BY <1>1, <2>2, <2>3, CallCalm
<1> QED
  BY <1>2, <1>3 DEF Acquire

LEMMA WriteRowDelivers ==
  ASSUME Inv, NEW c \in Procs, WriteRow(c)
  PROVE  Allowed
<1>1. call[c].slot \in Slots /\ UNCHANGED <<workVars, loop, delivered, refused>>
  BY CallFields DEF WriteRow, Quiet
<1>2. CASE Fault("mailbox") /\ UNCHANGED mail
  BY <1>1, <1>2, CallIdle DEF MayFail
<1>3. CASE UNCHANGED faults /\ \E m \in Msgs : write(m, call[c].slot, User)
  BY <1>1, <1>3, SendStep DEF HandKept
<1> QED
  BY <1>2, <1>3 DEF WriteRow

LEMMA CommitDelivers ==
  ASSUME Inv, NEW c \in Procs, Commit(c)
  PROVE  Allowed
<1>1. UNCHANGED <<mail, faults, loop, delivered, refused>>
  BY DEF Commit, Quiet
<1>2. CASE UNCHANGED workVars
  BY <1>1, <1>2, CallIdle DEF MayFail
<1>3. ASSUME NEW l \in LeaseOf(c), commit_enqueue(l, call[c].msg)
      PROVE  Allowed
  <2>1. l \in leases /\ l.slot = call[c].slot
    BY <1>3, InvFacts DEF LeaseOf, LeaseOK
  <2>2. call[c].msg \in Msgs \cup {NoMsg} /\ (call[c].msg # NoMsg => Addressed(call[c].msg, l.slot))
    BY <2>1, CallFields DEF Knows
  <2>3. WorkStep
    BY <1>1, <1>3, <2>1, <2>2, CommitStep, InvFacts
  <2>4. NoneDies
    BY <1>3 DEF commit_enqueue, SetState, NoneDies, NoneFails
  <2> QED BY <1>1, <2>3, <2>4, CallCalm
<1> QED
  BY <1>2, <1>3 DEF Commit

LEMMA AbortDelivers ==
  ASSUME Inv, NEW c \in Procs, Abort(c)
  PROVE  Allowed
<1>1. UNCHANGED <<mail, faults, loop, delivered, refused>>
  BY DEF Abort, Quiet
<1>2. CASE UNCHANGED workVars
  BY <1>1, <1>2, CallIdle DEF MayFail
<1>3. ASSUME NEW l \in LeaseOf(c), abort_enqueue(l)
      PROVE  Allowed
  <2>1. l \in leases
    BY DEF LeaseOf
  <2>2. WorkStep
    BY <1>1, <1>3, <2>1, AbortStep, InvFacts
  <2>3. NoneDies
    BY <1>3 DEF abort_enqueue, intentVars, NoneDies, NoneFails
  <2> QED BY <1>1, <2>2, <2>3, CallCalm
<1> QED
  BY <1>2, <1>3 DEF Abort

\* The rejected row is settled, or the call to settle it failed; either way its
\* rejection is known.
LEMMA CompensateDelivers ==
  ASSUME Inv, NEW c \in Procs, Compensate(c)
  PROVE  Allowed
<1> DEFINE m == call[c].msg
<1>1. /\ UNCHANGED <<workVars, loop, delivered>>
      /\ refused' = refused \cup {m}
  BY DEF Compensate
<1>2. Addressed(m, call[c].slot) /\ call[c].slot \in Slots /\ m \in Msgs
  BY CallFields DEF Compensate, In, Knows, Addressed
<1> HIDE DEF m
<1>3. WorkKept
  <2>1. MailKept
    BY <1>2, ReadKept, SameMail, InvFacts DEF Compensate, m, Addressed
  <2> QED BY <1>1, <2>1, SameWork, InvFacts DEF WorkStep
<1>4. NoneDies
  BY <1>1 DEF NoneDies, NoneFails, workVars, intentVars
<1>5. Hand' = Hand /\ CancelledRows' = CancelledRows /\ ExhaustedRows' = ExhaustedRows
  BY <1>1, <1>3, <1>4, HandSame, CancelledSame, ExhaustedSame DEF NoneDies, HandKept
<1>6. m \in UNION {Box[s] : s \in Slots}
  BY <1>2, SentRows
<1>7. CASE mark_read_batch({m}) /\ UNCHANGED faults
  <2>1. \A n \in Msgs : mail'[n] = IF n = m THEN [mail[n] EXCEPT !.st = "read"] ELSE mail[n]
    BY <1>7 DEF mark_read_batch
  <2>2. \A n \in Msgs : mail[n] \in Row
    BY InvFacts
  <2>3. \A n \in Msgs : mail'[n].to = mail[n].to /\ (Written(n)' <=> Written(n))
    BY <1>2, <2>1, <2>2 DEF Row, Written, Addressed
  <2>4. Box' = Box
    BY <2>3, BoxKept
  <2>5. SettledRows' = SettledRows \cup {m} /\ MailFailed' = MailFailed
    BY <1>2, <1>7, <2>1, <2>2 DEF SettledRows, WasRead, MailFailed, Row
  <2>6. Promised!Report(m)
    BY <1>1, <1>5, <1>6, <2>4, <2>5 DEF Promised!Report, Promised!Sent, MailFailed
  <2> QED BY <1>2, <2>6 DEF Allowed, Promised!Next
<1>8. CASE Fault("mailbox") /\ UNCHANGED mail
  <2>1. Box' = Box /\ SettledRows' = SettledRows
    BY <1>8, BoxKept DEF Written, SettledRows, WasRead
  <2>2. MailFailed' = TRUE
    <3>1. faults' \in Nat /\ faults' # 0 /\ "mailbox" \in Faults
      BY <1>8, FaultFacts, EventLoopAssumption DEF Fault
    <3> QED BY <3>1 DEF MailFailed
  <2>3. Promised!Report(m)
    BY <1>1, <1>5, <1>6, <2>1, <2>2 DEF Promised!Report, Promised!Sent, MailFailed
  <2> QED BY <1>2, <2>3 DEF Allowed, Promised!Next
<1> QED
  BY <1>7, <1>8 DEF Compensate, m

LEMMA EnqueueStepDelivers ==
  ASSUME Inv, NEW c \in Procs, EnqueueStep(c)
  PROVE  Allowed
<1>1. ensure_member_runtime_lazy(c) \/ ReadRuntime(c) \/ LookActive(c) \/ NotifySlot(c) => Allowed
  BY CallIdle
     DEF MayFail, ensure_member_runtime_lazy, ReadRuntime, LookActive, NotifySlot, Quiet
<1> QED
  BY <1>1, PublishDelivers, AcquireDelivers, WriteRowDelivers, CommitDelivers, AbortDelivers,
     CompensateDelivers DEF EnqueueStep

\* The batch a request holds is cancelled, or was lost before.
LEMMA HeldCancelled ==
  ASSUME Inv, NEW c \in Procs, call[c].op # 0, call[c].pc \notin {"inbox", "observe"},
         interrupt_batch(Held(c)) \/ cancel_batch(Held(c)), mail' = mail
  PROVE  WorkStep /\ NoneFails
<1>1. PICK b \in WorkBatch : /\ Copy(b) /\ b.slot = call[c].slot /\ b.op = call[c].op
                             /\ b.intents = call[c].intents
  BY HeldCopy
<1>2. interrupt_batch(b) \/ cancel_batch(b)
  BY <1>1 DEF interrupt_batch, cancel_batch, Held, is_current_batch, BatchMsgs
<1>3. WorkStep
  BY <1>1, <1>2, InterruptStepKept, CancelStepKept, InvFacts
<1>4. NoneFails
  BY <1>2 DEF interrupt_batch, cancel_batch, SetState, NoneFails
<1> QED
  BY <1>3, <1>4

LEMMA BreakBatchDelivers ==
  ASSUME Inv, NEW c \in Procs, BreakBatch(c)
  PROVE  Allowed
<1>1. UNCHANGED <<mail, faults, loop, delivered, refused>>
  BY DEF BreakBatch, Quiet
<1>2. CASE UNCHANGED workVars
  BY <1>1, <1>2, CallIdle DEF MayFail
<1>3. CASE interrupt_batch(Held(c))
  <2>1. call[c].op # 0 /\ call[c].pc = "break"
    BY CallFields DEF BreakBatch, In, Knows
  <2> QED BY <1>1, <1>3, <2>1, HeldCancelled, CallCancels
<1> QED
  BY <1>2, <1>3 DEF BreakBatch

\* A request marks read what it is about to settle, or the call fails.
LEMMA SettlingDelivers ==
  ASSUME Inv, NEW c \in Procs, call[c].pc \in Settling,
         UNCHANGED <<workVars, loop, delivered, refused>>,
         \/ mark_read_batch(call[c].rows) /\ UNCHANGED faults
         \/ Fault("mailbox") /\ UNCHANGED mail
  PROVE  Allowed
<1>1. CASE Fault("mailbox") /\ UNCHANGED mail
  BY <1>1, CallIdle DEF MayFail
<1>2. CASE mark_read_batch(call[c].rows) /\ UNCHANGED faults
  <2>1. PICK M : M = call[c].rows
    OBVIOUS
  <2>2. \A m \in M : (\E s \in Slots : Addressed(m, s)) /\ Accounted(m)
    <3>1. SUFFICES ASSUME NEW m \in M PROVE (\E s \in Slots : Addressed(m, s)) /\ Accounted(m)
      OBVIOUS
    <3>2. m \in Msgs /\ Written(m)
      BY <2>1, CallFields DEF Knows
    <3>3. mail[m].to \in Slots
      BY <3>2, InvFacts DEF Row
    <3>4. Accounted(m)
      BY <2>1, InvFacts DEF CallOK
    <3> QED BY <3>2, <3>3, <3>4 DEF Addressed
  <2> QED BY <1>2, <2>1, <2>2, SettleStep DEF HandKept
<1> QED
  BY <1>1, <1>2

LEMMA TakeMetadataDelivers ==
  ASSUME Inv, NEW c \in Procs, TakeMetadata(c)
  PROVE  Allowed
<1>1. UNCHANGED <<mail, faults, loop, delivered, refused>>
  BY DEF TakeMetadata, Quiet
<1>2. CASE UNCHANGED workVars
  BY <1>1, <1>2, CallIdle DEF MayFail
<1>3. CASE take_interrupt_metadata(call[c].op)
  <2>1. WorkStep
    BY <1>1, <1>3, TakeMetadataStep, InvFacts
  <2>2. NoneDies
    BY <1>3 DEF take_interrupt_metadata, intentVars, NoneDies, NoneFails
  <2> QED BY <1>1, <2>1, <2>2, CallCalm
<1> QED
  BY <1>2, <1>3 DEF TakeMetadata

LEMMA DiscardDelivers ==
  ASSUME Inv, NEW c \in Procs, DiscardQueued(c)
  PROVE  Allowed
<1>1. /\ UNCHANGED <<mail, faults, loop, delivered, refused>>
      /\ call[c].slot \in Slots /\ discard_queued_except(call[c].slot, call[c].msg)
  BY CallFields DEF DiscardQueued, Quiet
<1>2. WorkStep
  BY <1>1, DiscardStep, InvFacts
<1>3. NoneFails
  BY <1>1 DEF discard_queued_except, SetState, NoneFails
<1> QED
  BY <1>1, <1>2, <1>3, CallCancels

LEMMA InterruptStepDelivers ==
  ASSUME Inv, NEW c \in Procs, InterruptStep(c)
  PROVE  Allowed
<1>1. CASE CheckActive(c) \/ StopTurn(c)
  BY <1>1, CallIdle DEF MayFail, CheckActive, StopTurn, Quiet
<1>2. CASE SettleInterrupted(c) \/ SettleDiscarded(c)
  BY <1>2, SettlingDelivers DEF SettleInterrupted, SettleDiscarded, Quiet, In, Settling
<1> QED
  BY <1>1, <1>2, BreakBatchDelivers, TakeMetadataDelivers, DiscardDelivers DEF InterruptStep

LEMMA CancelRunDelivers ==
  ASSUME Inv, NEW c \in Procs, CancelRun(c)
  PROVE  Allowed
<1>1. UNCHANGED <<mail, faults, loop, delivered, refused>>
  BY DEF CancelRun, Quiet
<1>2. PICK r \in Runs : cancel_run(r)
  BY DEF CancelRun
<1>3. WorkStep
  BY <1>1, <1>2, CancelRunStep, InvFacts
<1>4. NoneFails
  BY <1>2 DEF cancel_run, NoneFails
<1> QED
  BY <1>1, <1>3, <1>4, CallCancels

LEMMA PauseDelivers ==
  ASSUME Inv, NEW c \in Procs, PauseSlot(c)
  PROVE  Allowed
<1>1. /\ UNCHANGED <<mail, faults, loop, delivered, refused>>
      /\ call[c].slot \in Slots /\ pause_slot(call[c].slot)
  BY CallFields DEF PauseSlot, Quiet
<1>2. WorkStep
  BY <1>1, PauseStep, InvFacts
<1>3. NoneDies
  BY <1>1 DEF pause_slot, intentVars, NoneDies, NoneFails
<1> QED
  BY <1>1, <1>2, <1>3, CallCalm

LEMMA DropChildDelivers ==
  ASSUME Inv, NEW c \in Procs, DropChild(c)
  PROVE  Allowed
<1>1. UNCHANGED <<mail, faults, loop, delivered, refused>>
  BY DEF DropChild, Quiet
<1>2. CASE UNCHANGED workVars
  BY <1>1, <1>2, CallIdle DEF MayFail
<1>3. CASE cancel_batch(Held(c))
  <2>1. call[c].op # 0 /\ call[c].pc = "dropChild"
    BY CallFields DEF DropChild, In, Knows
  <2> QED BY <1>1, <1>3, <2>1, HeldCancelled, CallCancels
<1> QED
  BY <1>2, <1>3 DEF DropChild

LEMMA CancelStepDelivers ==
  ASSUME Inv, NEW c \in Procs, CancelStep(c)
  PROVE  Allowed
<1>1. CASE PickTurn(c) \/ StopChild(c)
  BY <1>1, CallIdle DEF MayFail, PickTurn, StopChild, Quiet
<1>2. CASE SettleRun(c)
  BY <1>2, SettlingDelivers DEF SettleRun, Quiet, In, Settling
<1> QED
  BY <1>1, <1>2, CancelRunDelivers, PauseDelivers, DropChildDelivers DEF CancelStep

LEMMA NoticeRowDelivers ==
  ASSUME Inv, NEW c \in Procs, NoticeRow(c)
  PROVE  Allowed
<1>1. UNCHANGED <<workVars, loop, delivered, refused>>
  BY DEF NoticeRow, Quiet
<1>2. CASE Fault("mailbox") /\ UNCHANGED mail
  BY <1>1, <1>2, CallIdle DEF MayFail
<1>3. CASE UNCHANGED faults /\ \E m \in Msgs : write(m, Lead, call[c].from)
  <2>1. Lead \in Slots /\ call[c].from \in Slots \cup {User}
    BY CallFields DEF NoticeRow, In, Knows
  <2> QED BY <1>1, <1>3, <2>1, SendStep DEF HandKept
<1> QED
  BY <1>2, <1>3 DEF NoticeRow

LEMMA NoticeStepDelivers ==
  ASSUME Inv, NEW c \in Procs, NoticeStep(c)
  PROVE  Allowed
<1>1. CASE NoticeFind(c) \/ ScanUnread(c) \/ NextRow(c)
  BY <1>1, CallIdle DEF MayFail, NoticeFind, ScanUnread, NextRow, Quiet
<1> QED
  BY <1>1, NoticeRowDelivers DEF NoticeStep

LEMMA ObserveStepDelivers ==
  ASSUME Inv, NEW c \in Procs, ObserveStep(c)
  PROVE  Allowed
<1>1. CASE PeekInbox(c)
  BY <1>1, CallIdle DEF MayFail, PeekInbox, Quiet
<1>2. CASE Observe(c) /\ UNCHANGED workVars
  BY <1>2, CallIdle DEF MayFail, Observe, Quiet
<1>3. CASE Observe(c) /\ observe_messages(call[c].slot, call[c].op, call[c].rows)
  <2>1. /\ call[c].slot \in Slots /\ call[c].op \in Nat /\ call[c].rows \in SUBSET Msgs
        /\ \A m \in call[c].rows : Addressed(m, call[c].slot)
        /\ UNCHANGED <<mail, faults, loop, delivered, refused>>
    BY <1>3, CallFields DEF Observe, In, Knows, Addressed, Quiet
  <2>2. WorkStep
    BY <1>3, <2>1, ObserveStepKept, InvFacts
  <2>3. NoneDies
    BY <1>3 DEF observe_messages, intentVars, NoneDies, NoneFails
  <2> QED BY <2>1, <2>2, <2>3, CallCalm
<1> QED
  BY <1>1, <1>2, <1>3 DEF ObserveStep, Observe

LEMMA CallStepDelivers ==
  ASSUME Inv, NEW c \in Procs, CallStep(c)
  PROVE  Allowed
  BY EnqueueStepDelivers, InterruptStepDelivers, CancelStepDelivers, NoticeStepDelivers,
     ObserveStepDelivers DEF CallStep

LEMMA BeginDelivers ==
  ASSUME Inv, NEW c \in Callers, Begin(c)
  PROVE  Allowed
  BY CallIdle DEF MayFail, Begin, Quiet
-----------------------------------------------------------------------------
(* Event loops deliver as promised.                                        *)

\* Only the loop of s moves.
Alone(s) == \A t \in Slots \ {s} : loop'[t] = loop[t]

LEMMA GotoIs ==
  ASSUME Inv, NEW s \in Slots, NEW p
  PROVE  /\ Goto(s, p) => loop'[s].pc = p /\ loop'[s].b = loop[s].b /\ Alone(s)
         /\ Leave(s, p) => loop'[s].pc = p /\ Alone(s)
         /\ \A R : GotoWith(s, p, R) => loop'[s].pc = p /\ Alone(s)
<1>1. loop \in [Slots -> LoopState] /\ loop[s] \in LoopState
  BY InvFacts
<1>2. \A q : loop' = [loop EXCEPT ![s] = q] => loop'[s] = q /\ Alone(s)
  BY <1>1 DEF Alone
<1>3. /\ [loop[s] EXCEPT !.pc = p, !.cands = {}, !.rows = {}].pc = p
      /\ [loop[s] EXCEPT !.pc = p, !.cands = {}, !.rows = {}].b = loop[s].b
      /\ \A R : [loop[s] EXCEPT !.pc = p, !.cands = {}, !.rows = R].pc = p
  BY <1>1 DEF LoopState
<1>4. Goto(s, p) => loop'[s].pc = p /\ loop'[s].b = loop[s].b /\ Alone(s)
  BY <1>2, <1>3 DEF Goto
<1>5. Leave(s, p) => loop'[s].pc = p /\ Alone(s)
  <2>1. [pc |-> p, b |-> NoWork(s), cands |-> {}, rows |-> {}].pc = p
    OBVIOUS
  <2> QED BY <1>2, <2>1 DEF Leave
<1>6. ASSUME NEW R, GotoWith(s, p, R) PROVE loop'[s].pc = p /\ Alone(s)
  BY <1>2, <1>3, <1>6 DEF GotoWith
<1> QED
  BY <1>4, <1>5, <1>6

\* A loop that is not in a turn before nor after a step hands out nothing.
LEMMA NoTurn ==
  ASSUME NEW s \in Slots, Alone(s), loop[s].pc \notin Turning, loop'[s].pc \notin Turning
  PROVE  \A t \in Slots : HandKept(t)
  BY DEF HandKept, Alone

\* A loop that goes on with its batch keeps what it handed out.
LEMMA SameTurn ==
  ASSUME NEW s \in Slots, Alone(s), loop[s].pc \in Turning, loop'[s].pc \in Turning,
         loop'[s].b = loop[s].b
  PROVE  \A t \in Slots : HandKept(t)
  BY DEF HandKept, Alone

\* A turn ends, and for the rows of M that was the last failure allowed.
LEMMA MissStep ==
  ASSUME Inv, NEW s \in Slots, Alone(s), loop[s].pc \in Turning, loop'[s].pc \notin Turning,
         WorkStep, NEW M \in SUBSET BatchMsgs(Batch(s)), ExhaustedRows' = ExhaustedRows \cup M,
         CancelledRows' = CancelledRows, UNCHANGED <<mail, delivered, refused, faults>>
  PROVE  Allowed
<1>1. Box' = Box /\ SettledRows' = SettledRows /\ MailFailed' = MailFailed
  BY BoxKept DEF Written, SettledRows, WasRead, MailFailed
<1>2. Hand' = [Hand EXCEPT ![s] = {}]
  BY HandEmptied DEF Alone, WorkStep
<1>3. Hand[s] = BatchMsgs(Batch(s))
  BY HandIs
<1>4. M \in SUBSET Msgs
  BY BatchRows DEF Addressed
<1>5. CASE Hand[s] = {}
  <2>1. Hand' = Hand /\ M = {}
    BY <1>2, <1>3, <1>5 DEF Hand
  <2> QED BY <1>1, <2>1 DEF Allowed
<1>6. CASE Hand[s] # {}
  <2>1. Promised!Miss(s, M)
    BY <1>1, <1>2, <1>3, <1>6 DEF Promised!Miss, MailFailed
  <2> QED BY <1>4, <2>1 DEF Allowed, Promised!Next
<1> QED
  BY <1>5, <1>6

LEMMA TurnOver ==
  ASSUME Inv, NEW s \in Slots, Alone(s), loop[s].pc \in Turning, loop'[s].pc \notin Turning,
         WorkStep, NoneDies, UNCHANGED <<mail, delivered, refused, faults>>
  PROVE  Allowed
<1>1. CancelledRows' = CancelledRows /\ ExhaustedRows' = ExhaustedRows \cup {}
  BY CancelledSame, ExhaustedSame DEF NoneDies, WorkStep
<1> QED
  BY <1>1, MissStep

\* A step of a loop that is not in a turn and tells the coordinator nothing.
LEMMA LoopIdle ==
  ASSUME Inv, NEW s \in Slots, Alone(s), loop[s].pc \notin Turning, loop'[s].pc \notin Turning,
         UNCHANGED <<workVars, mail, delivered, refused>>, MayFail
  PROVE  Allowed
  BY NoTurn, IdleStep

\* A step of a loop that is not in a turn and ends no work.
LEMMA LoopCalm ==
  ASSUME Inv, NEW s \in Slots, Alone(s), loop[s].pc \notin Turning, loop'[s].pc \notin Turning,
         WorkStep, NoneDies, UNCHANGED <<mail, delivered, refused, faults>>
  PROVE  Allowed
  BY NoTurn, NoFault, StillStep DEF WorkStep

\* Drops the work of a batch or leaves it to who owns it.
LEMMA QuietWork ==
  ASSUME Inv, UNCHANGED <<workVars, mail>>
  PROVE  WorkStep /\ NoneDies
  BY SameWork, SameMail, InvFacts DEF NoneDies, NoneFails, workVars, intentVars

LEMMA DrainCalm ==
  ASSUME Inv, NEW s \in Slots, mail' = mail, DrainMetadata(s)
  PROVE  WorkStep /\ NoneDies
<1>1. WorkStep
  BY DrainStep
<1>2. NoneDies
  BY DEF DrainMetadata, take_interrupt_metadata, workVars, intentVars, NoneDies, NoneFails
<1> QED
  BY <1>1, <1>2

\* The steps of prepare_next_batch that only look.
LEMMA LookingDelivers ==
  ASSUME Inv, NEW s \in Slots, Loops,
         \/ Rest(s) \/ Awake(s) \/ StaleCandidates(s) \/ PeekUnread(s) \/ SettleNext(s) \/ NothingNext(s)
  PROVE  Allowed
<1>1. loop[s].pc \in {"rest", "wait", "cands", "peek", "next"}
  BY DEF Rest, Awake, StaleCandidates, PeekUnread, SettleNext, NothingNext, At
<1>2. UNCHANGED <<workVars, mail, delivered, refused>> /\ MayFail
  BY DEF Rest, Awake, StaleCandidates, PeekUnread, SettleNext, NothingNext, MayFail, Loops
<1>3. loop'[s].pc \in {"wait", "prepare", "peek", "recon", "rest", "signals"} /\ Alone(s)
  <2>1. CASE Rest(s)
    BY <2>1, GotoIs DEF Rest
  <2>2. CASE Awake(s)
    BY <2>2, GotoIs DEF Awake
  <2>3. CASE StaleCandidates(s)
    BY <2>3, InvFacts DEF StaleCandidates, Alone, LoopState
  <2>4. CASE PeekUnread(s) /\ Leave(s, "rest")
    BY <2>4, GotoIs
  <2>5. CASE PeekUnread(s) /\ loop' = [loop EXCEPT ![s].pc = "recon", ![s].rows = peek_unread(s)]
    BY <2>5, InvFacts DEF Alone, LoopState
  <2>6. CASE SettleNext(s)
    <3>1. PICK S : loop' = [loop EXCEPT ![s].pc = "signals", ![s].cands = S]
      BY <2>6 DEF SettleNext
    <3> QED BY <3>1, InvFacts DEF Alone, LoopState
  <2>7. CASE NothingNext(s)
    BY <2>7, GotoIs DEF NothingNext
  <2> QED BY <2>1, <2>2, <2>3, <2>4, <2>5, <2>6, <2>7 DEF PeekUnread
<1> QED
  BY <1>1, <1>2, <1>3, LoopIdle DEF Turning

LEMMA PrepareDelivers ==
  ASSUME Inv, NEW s \in Slots, Prepare(s), Loops
  PROVE  Allowed
<1>1. /\ loop[s].pc = "prepare" /\ loop'[s].pc = "cands" /\ Alone(s)
      /\ UNCHANGED <<mail, faults, delivered, refused>>
  BY GotoIs DEF Prepare, At, Loops
<1>2. PICK k \in {"Ready", "Starting"} : set_runtime_constraint(s, [kind |-> k, op |-> 0])
  BY DEF Prepare, ConstraintOf
<1>3. WorkStep
  BY <1>1, <1>2, ConstrainStep, InvFacts
<1>4. NoneDies
  BY <1>2 DEF set_runtime_constraint, NoneDies, NoneFails
<1> QED
  BY <1>1, <1>3, <1>4, LoopCalm DEF Turning

LEMMA ReconcileDelivers ==
  ASSUME Inv, NEW s \in Slots, Reconcile(s), Loops
  PROVE  Allowed
<1>1. /\ loop[s].pc = "recon" /\ loop'[s].pc = "next" /\ Alone(s)
      /\ UNCHANGED <<mail, faults, delivered, refused>>
  BY GotoIs DEF Reconcile, At, Loops
<1>2. PICK r \in LoopState : r = loop[s]
  BY LoopFields
<1>3. reconcile_mailbox_snapshot(s, r.rows, r.cands)
  BY <1>2 DEF Reconcile
<1>4. WorkStep
  <2>1. r.rows \in SUBSET Msgs /\ r.cands \in SUBSET IntentIds /\ \A m \in r.rows : Addressed(m, s)
    BY <1>2, LoopFields DEF LoopState, LoopKnows
  <2> QED BY <1>1, <1>3, <2>1, ReconcileStep, InvFacts
<1>5. NoneDies
  <2>1. \A i \in IntentIds : ist'[i] \in {"Completed", "Queued", ist[i]}
    BY <1>3 DEF reconcile_mailbox_snapshot
  <2> QED BY <2>1 DEF NoneDies, NoneFails
<1> QED
  BY <1>1, <1>4, <1>5, LoopCalm DEF Turning

LEMMA ClaimNextDelivers ==
  ASSUME Inv, NEW s \in Slots, ClaimNext(s), Loops
  PROVE  Allowed
<1>1. /\ loop[s].pc = "next" /\ next(s)
      /\ UNCHANGED <<mail, faults, delivered, refused>>
  BY DEF ClaimNext, At, Loops
<1>2. loop'[s].pc = "reread" /\ Alone(s)
  BY InvFacts DEF ClaimNext, Alone, LoopState
<1>3. WorkStep
  BY <1>1, NextStep, InvFacts
<1>4. NoneDies
  BY <1>1 DEF next, SetState, NoneDies, NoneFails
<1> QED
  BY <1>1, <1>2, <1>3, <1>4, LoopCalm DEF Turning

LEMMA SignalsDelivers ==
  ASSUME Inv, NEW s \in Slots, handle_signal_intents(s), Loops
  PROVE  Allowed
<1>1. /\ loop[s].pc = "signals" /\ loop'[s].pc = "prepare" /\ Alone(s)
      /\ UNCHANGED <<mail, faults, delivered, refused>>
  BY GotoIs DEF handle_signal_intents, At, Loops
<1>2. WorkStep /\ NoneDies
  <2>1. CASE UNCHANGED workVars
    BY <1>1, <2>1, QuietWork
  <2>2. CASE complete_signals(s, loop[s].cands)
    <3>1. PICK S : S = loop[s].cands
      OBVIOUS
    <3>2. WorkStep
      BY <1>1, <2>2, <3>1, SignalsStep, InvFacts
    <3>3. NoneDies
      BY <2>2 DEF complete_signals, SetState, NoneDies, NoneFails
    <3> QED BY <3>2, <3>3
  <2> QED BY <2>1, <2>2 DEF handle_signal_intents
<1> QED
  BY <1>1, <1>2, LoopCalm DEF Turning

LEMMA GiveBackDelivers ==
  ASSUME Inv, NEW s \in Slots, GiveBack(s), Loops
  PROVE  Allowed
<1>1. /\ loop[s].pc = "giveback" /\ loop[s].b.op # 0 /\ loop'[s].pc = "rest" /\ Alone(s)
      /\ UNCHANGED <<mail, faults, delivered, refused>>
  BY GotoIs, LoopFields DEF GiveBack, At, Loops, Holding
<1>2. WorkStep /\ NoneDies
  <2>1. CASE UNCHANGED workVars
    BY <1>1, <2>1, QuietWork
  <2>2. CASE retry_start(Batch(s))
    <3>1. PICK b \in WorkBatch : b = Batch(s) /\ Copy(b)
      BY <1>1, LoopCopy
    <3>2. WorkStep
      BY <1>1, <2>2, <3>1, RetryStep, InvFacts
    <3>3. NoneDies
      BY <2>2 DEF retry_start, SetState, NoneDies, NoneFails
    <3> QED BY <3>2, <3>3
  <2> QED BY <2>1, <2>2 DEF GiveBack
<1> QED
  BY <1>1, <1>2, LoopCalm DEF Turning

\* The turn is handed the rows the reread found unread.
LEMMA RereadDelivers ==
  ASSUME Inv, NEW s \in Slots, Reread(s), Loops
  PROVE  Allowed
<1>1. /\ loop[s].pc = "reread"
      /\ UNCHANGED <<workVars, mail, delivered, refused>>
      /\ loop[s].b.slot = s
  BY LoopFields DEF Reread, At, Loops, LoopKnows
<1>2. CASE Goto(s, "giveback") /\ (UNCHANGED faults \/ Fault("mailbox"))
  <2>1. loop'[s].pc = "giveback" /\ Alone(s)
    BY <1>2, GotoIs
  <2> QED BY <1>1, <1>2, <2>1, LoopIdle DEF Turning, MayFail
<1>3. CASE RereadComplete(Batch(s)) /\ Goto(s, "turn") /\ UNCHANGED faults
  <2> DEFINE M == BatchMsgs(Batch(s))
  <2>1. loop'[s].pc = "turn" /\ loop'[s].b = loop[s].b /\ Alone(s)
    BY <1>3, GotoIs
  <2>2. WorkStep /\ NoneDies
    BY <1>1, QuietWork
  <2>3. CancelledRows' = CancelledRows /\ ExhaustedRows' = ExhaustedRows
    BY <2>2, CancelledSame, ExhaustedSame DEF WorkStep, NoneDies
  <2>4. Box' = Box /\ SettledRows' = SettledRows /\ MailFailed' = MailFailed
    BY <1>1, <1>3, BoxKept DEF Written, SettledRows, WasRead, MailFailed
  <2>5. /\ \A t \in Slots \ {s} : BatchMsgs(Batch(t))' = BatchMsgs(Batch(t))
        /\ M' = M
    BY <2>1, <2>2, RowsSame DEF Alone, WorkStep
  <2>6. Hand' = [Hand EXCEPT ![s] = M] /\ Hand[s] = {}
    <3>1. /\ Hand[s] = {} /\ (\A t \in Slots : Hand'[t] = IF t = s THEN M ELSE Hand[t])
      BY <1>1, <2>1, <2>5 DEF Hand, Turning, Alone
    <3> HIDE DEF M
    <3> QED BY <3>1 DEF Hand
  <2>7. M \subseteq peek_unread(s)
    BY <1>1, <1>3 DEF RereadComplete, Batch
  <2>8. M \subseteq Box[s] \ SettledRows /\ M \in SUBSET Msgs
    BY <2>7 DEF peek_unread, Box, SettledRows, WasRead
  <2>9. M \cap delivered = {} \/ MailFailed
    <3>1. Inv'
      BY RereadKeeps
    <3>2. InTurn(s)'
      BY <2>1 DEF InTurn
    <3>3. M' \cap delivered' = {} \/ MailFailed'
      BY <3>1, <3>2 DEF Inv, NoRedelivery, MailFailed
    <3> QED BY <1>1, <2>4, <2>5, <3>3
  <2> HIDE DEF M
  <2>10. CASE M = {}
    <3>1. Hand' = Hand
      BY <2>6, <2>10 DEF Hand
    <3> QED BY <1>1, <2>3, <2>4, <3>1 DEF Allowed
  <2>11. CASE M # {}
    <3>1. Promised!Take(s, M)
      BY <1>1, <2>3, <2>4, <2>6, <2>8, <2>9, <2>11
         DEF Promised!Take, Promised!outcomes, MailFailed
    <3> QED BY <2>8, <3>1 DEF Allowed, Promised!Next
  <2> QED BY <2>10, <2>11
<1> QED
  BY <1>2, <1>3 DEF Reread

LEMMA TurnStartedDelivers ==
  ASSUME Inv, NEW s \in Slots, TurnStarted(s), Loops
  PROVE  Allowed
<1>1. /\ loop[s].pc = "turn" /\ loop[s].b.op # 0 /\ loop'[s].pc \in {"late", "run"}
      /\ loop'[s].b = loop[s].b /\ Alone(s)
      /\ UNCHANGED <<mail, faults, delivered, refused>>
  BY GotoIs, LoopFields DEF TurnStarted, At, Loops, Holding
<1>2. WorkStep /\ NoneDies
  <2>1. CASE UNCHANGED workVars
    BY <1>1, <2>1, QuietWork
  <2>2. CASE mark_started(Batch(s))
    <3>1. PICK b \in WorkBatch : b = Batch(s) /\ Copy(b)
      BY <1>1, LoopCopy
    <3>2. WorkStep
      BY <1>1, <2>2, <3>1, MarkStartedStep, InvFacts
    <3>3. NoneDies
      BY <2>2 DEF mark_started, SetState, NoneDies, NoneFails
    <3> QED BY <3>2, <3>3
  <2> QED BY <2>1, <2>2 DEF TurnStarted
<1> QED
  BY <1>1, <1>2, SameTurn, NoFault, StillStep DEF Turning, WorkStep

LEMMA LateStartDelivers ==
  ASSUME Inv, NEW s \in Slots, LateStart(s), Loops
  PROVE  Allowed
<1>1. /\ loop[s].pc = "late" /\ loop'[s].pc = "drop" /\ loop'[s].b = loop[s].b /\ Alone(s)
      /\ UNCHANGED <<mail, faults, delivered, refused>> /\ DrainMetadata(s)
  BY GotoIs DEF LateStart, At, Loops
<1>2. WorkStep /\ NoneDies
  BY <1>1, DrainCalm
<1> QED
  BY <1>1, <1>2, SameTurn, NoFault, StillStep DEF Turning, WorkStep

LEMMA LateCancelDelivers ==
  ASSUME Inv, NEW s \in Slots, LateCancel(s), Loops
  PROVE  Allowed
<1>1. /\ loop[s].pc = "drop" /\ loop[s].b.op # 0 /\ loop'[s].pc = "run"
      /\ loop'[s].b = loop[s].b /\ Alone(s)
      /\ UNCHANGED <<mail, faults, delivered, refused>>
  BY GotoIs, LoopFields DEF LateCancel, At, Loops, Holding
<1>2. WorkStep /\ NoneFails
  <2>1. CASE UNCHANGED workVars
    BY <1>1, <2>1, QuietWork DEF NoneDies
  <2>2. CASE cancel_batch(Batch(s))
    <3>1. PICK b \in WorkBatch : b = Batch(s) /\ Copy(b)
      BY <1>1, LoopCopy
    <3>2. WorkStep
      BY <1>1, <2>2, <3>1, CancelStepKept, InvFacts
    <3>3. NoneFails
      BY <2>2 DEF cancel_batch, SetState, NoneFails
    <3> QED BY <3>2, <3>3
  <2> QED BY <2>1, <2>2 DEF LateCancel
<1> QED
  BY <1>1, <1>2, SameTurn, CancelledStep DEF Turning

LEMMA TurnEndsDelivers ==
  ASSUME Inv, NEW s \in Slots, TurnEnds(s) \/ TurnNotStarted(s), Loops
  PROVE  Allowed
<1>1. /\ loop[s].pc \in {"run", "turn"} /\ MayFail
      /\ UNCHANGED <<workVars, mail, delivered, refused>>
  BY DEF TurnEnds, TurnNotStarted, At, Loops, MayFail
<1>2. loop'[s].pc \in {"won", "lost", "err"} /\ loop'[s].b = loop[s].b /\ Alone(s)
  BY GotoIs DEF TurnEnds, TurnNotStarted
<1> QED
  BY <1>1, <1>2, SameTurn, IdleStep DEF Turning

LEMMA TurnErrDelivers ==
  ASSUME Inv, NEW s \in Slots, TurnErr(s), Loops
  PROVE  Allowed
<1>1. loop[s].pc = "err" /\ UNCHANGED <<mail, faults, delivered, refused>>
  BY DEF TurnErr, At, Loops
<1>2. CASE DrainMetadata(s) /\ Goto(s, "finish")
  <2>1. loop'[s].pc = "finish" /\ Alone(s)
    BY <1>2, GotoIs
  <2> QED BY <1>1, <1>2, <2>1, DrainCalm, TurnOver DEF Turning
<1>3. CASE UNCHANGED workVars /\ Goto(s, "failStart")
  <2>1. loop'[s].pc = "failStart" /\ loop'[s].b = loop[s].b /\ Alone(s)
    BY <1>3, GotoIs
  <2> QED BY <1>1, <1>3, <2>1, SameTurn, IdleStep DEF Turning, MayFail
<1> QED
  BY <1>2, <1>3 DEF TurnErr

LEMMA TurnOkDelivers ==
  ASSUME Inv, NEW s \in Slots, TurnOk(s), Loops
  PROVE  Allowed
<1>1. loop[s].pc \in {"won", "lost"} /\ UNCHANGED <<workVars, mail, faults, delivered, refused>>
  BY DEF TurnOk, At, Loops
<1>2. /\ loop'[s].pc \in {"finish", "complete", "failTurn"}
      /\ loop'[s].b = loop[s].b /\ Alone(s)
  BY GotoIs DEF TurnOk
<1>3. CASE loop'[s].pc = "finish"
  BY <1>1, <1>2, <1>3, QuietWork, TurnOver DEF Turning
<1>4. CASE loop'[s].pc # "finish"
  BY <1>1, <1>2, <1>4, SameTurn, IdleStep DEF Turning, MayFail
<1> QED
  BY <1>3, <1>4

\* The batch of a loop that still owns its slot has rows.
LEMMA OwnedRows ==
  ASSUME Inv, NEW s \in Slots, loop[s].b.op # 0, is_current_batch(Batch(s))
  PROVE  BatchMsgs(Batch(s)) # {}
<1>1. PICK b \in WorkBatch : b = Batch(s) /\ Copy(b)
  BY LoopCopy
<1>2. b.intents # {}
  BY <1>1, CurrentFacts, InvFacts DEF WorkInv
<1> QED
  BY <1>1, <1>2 DEF BatchMsgs

\* A turn that owns its batch acknowledges what it was handed and what it saw.
LEMMA CompleteDelivers ==
  ASSUME Inv, NEW s \in Slots, Complete(s), Loops
  PROVE  Allowed
<1>1. /\ loop[s].pc = "complete" /\ loop[s].b.op # 0
      /\ UNCHANGED <<mail, faults, refused>>
  BY LoopFields DEF Complete, At, Holding, Loops
<1>2. CASE Goto(s, "finish") /\ UNCHANGED <<workVars, delivered>>
  <2>1. loop'[s].pc = "finish" /\ Alone(s)
    BY <1>2, GotoIs
  <2> QED BY <1>1, <1>2, <2>1, QuietWork, TurnOver DEF Turning
<1>3. CASE /\ complete_batch_with_ack(Batch(s))
           /\ GotoWith(s, "ack", AckedMsgs(Batch(s)))
           /\ delivered' = delivered \cup AckedMsgs(Batch(s))
  <2>1. PICK b \in WorkBatch : b = Batch(s) /\ Copy(b) /\ b.slot = s
    BY <1>1, LoopCopy
  <2>2. PICK R : R = AckedMsgs(Batch(s))
    OBVIOUS
  <2>3. /\ loop'[s].pc = "ack" /\ Alone(s) /\ delivered' = delivered \cup R
    BY <1>3, <2>2, GotoIs
  <2>4. WorkStep
    BY <1>1, <1>3, <2>1, CompleteStep, InvFacts
  <2>5. NoneDies
    BY <1>3 DEF complete_batch_with_ack, SetState, NoneDies, NoneFails
  <2>6. CancelledRows' = CancelledRows /\ ExhaustedRows' = ExhaustedRows
    BY <2>4, <2>5, CancelledSame, ExhaustedSame DEF WorkStep, NoneDies
  <2>7. Box' = Box /\ SettledRows' = SettledRows /\ MailFailed' = MailFailed
    BY <1>1, BoxKept DEF Written, SettledRows, WasRead, MailFailed
  <2>8. Hand' = [Hand EXCEPT ![s] = {}] /\ Hand[s] = BatchMsgs(Batch(s))
    BY <1>1, <2>3, <2>4, HandEmptied, HandIs DEF Turning, Alone, WorkStep
  <2>9. Hand[s] # {}
    BY <1>1, <1>3, <2>8, OwnedRows DEF complete_batch_with_ack
  <2>10. Hand[s] \subseteq R /\ R \subseteq Box[s] /\ R \in SUBSET Msgs
    <3>1. \A m \in R : Addressed(m, s)
      BY <2>1, <2>2, BatchRows DEF AckedMsgs
    <3>2. Hand[s] \subseteq R
      BY <2>2, <2>8 DEF AckedMsgs
    <3> QED BY <3>1, <3>2, SentRows DEF Addressed
  <2>11. Promised!Acknowledge(s, R)
    BY <1>1, <2>3, <2>6, <2>7, <2>8, <2>9, <2>10 DEF Promised!Acknowledge, MailFailed
  <2> QED BY <2>10, <2>11 DEF Allowed, Promised!Next
<1> QED
  BY <1>2, <1>3 DEF Complete

\* The rows a loop marks read are accounted for.
LEMMA MarkingDelivers ==
  ASSUME Inv, NEW s \in Slots, Acknowledge(s) \/ Exhaust(s), Loops
  PROVE  Allowed
<1>1. /\ loop[s].pc \in Reading /\ mark_message_ids_read(s)
      /\ UNCHANGED <<workVars, delivered, refused>>
  BY DEF Acknowledge, Exhaust, At, Loops, Reading
<1>2. loop'[s].pc \in {"finish", "tellStart", "tellTurn"} /\ Alone(s)
  BY GotoIs DEF Acknowledge, Exhaust
<1>3. CASE Fault("mailbox") /\ UNCHANGED mail
  BY <1>1, <1>2, <1>3, LoopIdle DEF Turning, Reading, MayFail
<1>4. CASE mark_read_batch(loop[s].rows) /\ UNCHANGED faults
  <2>1. PICK M : M = loop[s].rows
    OBVIOUS
  <2>2. \A m \in M : (\E t \in Slots : Addressed(m, t)) /\ Accounted(m)
    BY <1>1, <2>1, InvFacts DEF LoopOK, LoopKnows
  <2>3. \A t \in Slots : HandKept(t)
    BY <1>1, <1>2, NoTurn DEF Turning, Reading
  <2> QED BY <1>1, <1>4, <2>1, <2>2, <2>3, SettleStep
<1> QED
  BY <1>1, <1>3, <1>4 DEF mark_message_ids_read

\* A failure is the last one allowed only for rows of the batch that failed.
LEMMA FailedRows ==
  ASSUME Inv, WorkStep, NEW s \in Slots, NEW b \in WorkBatch, b = Batch(s), fail_batch(b)
  PROVE  /\ CancelledRows' = CancelledRows
         /\ \E M \in SUBSET BatchMsgs(Batch(s)) : ExhaustedRows' = ExhaustedRows \cup M
<1> DEFINE M == {m \in BatchMsgs(b) : m \in ExhaustedRows'}
<1>1. SetState(b.intents, "Failed") /\ info' = info /\ b.intents \subseteq IntentIds
  BY DEF fail_batch, WorkBatch
<1>2. \A i \in IntentIds : ist'[i] = IF i \in b.intents THEN "Failed" ELSE ist[i]
  BY <1>1 DEF SetState
<1>3. CancelledRows' = CancelledRows
  <2>1. \A m \in Msgs : Ended(m, "Cancelled")' = Ended(m, "Cancelled")
    BY <1>2, EndedSame DEF WorkStep, Terminal
  <2> QED BY <2>1 DEF CancelledRows
<1>4. ASSUME NEW m \in Msgs
      PROVE  /\ m \in ExhaustedRows => m \in ExhaustedRows'
             /\ m \notin BatchMsgs(b) => (m \in ExhaustedRows' <=> m \in ExhaustedRows)
  <2>1. m \in ExhaustedRows => m \in ExhaustedRows'
    <3>1. /\ Cardinality(Ended(m, "Failed")) \in Nat /\ Cardinality(Ended(m, "Failed")') \in Nat
          /\ Cardinality(Ended(m, "Failed")) <= Cardinality(Ended(m, "Failed")')
      BY EndedFinite, EndedKept DEF WorkStep, Terminal
    <3>2. MaxDeliveryFailures \in Nat
      BY DEF MaxDeliveryFailures
    <3> QED BY <3>1, <3>2 DEF ExhaustedRows
  <2>2. ASSUME m \notin BatchMsgs(b) PROVE Ended(m, "Failed")' = Ended(m, "Failed")
    <3>1. \A i \in b.intents : info[i].msg # m
      BY <2>2 DEF BatchMsgs
    <3> QED BY <1>1, <1>2, <3>1 DEF Ended
  <2> QED BY <2>1, <2>2 DEF ExhaustedRows
<1>5. M \in SUBSET BatchMsgs(Batch(s)) /\ ExhaustedRows' = ExhaustedRows \cup M
  BY <1>4 DEF ExhaustedRows
<1> QED
  BY <1>3, <1>5

\* A turn failed, or its batch was lost before.
LEMMA FailDelivers ==
  ASSUME Inv, NEW s \in Slots, Fail(s), Loops
  PROVE  Allowed
<1>1. /\ loop[s].pc \in {"failStart", "failTurn"} /\ loop[s].b.op # 0
      /\ UNCHANGED <<mail, faults, delivered, refused>>
  BY LoopFields DEF Fail, At, Holding, Loops
<1>2. loop'[s].pc \in {"prepare", "finish", "exhaustStart", "exhaustTurn"} /\ Alone(s)
  BY GotoIs DEF Fail, AfterFailure
<1>3. CASE UNCHANGED workVars
  BY <1>1, <1>2, <1>3, QuietWork, TurnOver DEF Turning
<1>4. CASE fail_batch(Batch(s))
  <2>1. PICK b \in WorkBatch : b = Batch(s) /\ Copy(b)
    BY <1>1, LoopCopy
  <2>2. WorkStep
    BY <1>1, <1>4, <2>1, FailStep, InvFacts
  <2>3. /\ CancelledRows' = CancelledRows
        /\ \E M \in SUBSET BatchMsgs(Batch(s)) : ExhaustedRows' = ExhaustedRows \cup M
    BY <1>4, <2>1, <2>2, FailedRows
  <2> QED BY <1>1, <1>2, <2>2, <2>3, MissStep DEF Turning
<1> QED
  BY <1>3, <1>4 DEF Fail

LEMMA LoopStepDelivers ==
  ASSUME Inv, NEW s \in Slots, LoopStep(s), Loops
  PROVE  Allowed
  BY LookingDelivers, PrepareDelivers, ReconcileDelivers, ClaimNextDelivers, SignalsDelivers,
     RereadDelivers, GiveBackDelivers, TurnStartedDelivers, LateStartDelivers, LateCancelDelivers,
     TurnEndsDelivers, TurnErrDelivers, TurnOkDelivers, CompleteDelivers, MarkingDelivers,
     FailDelivers DEF LoopStep

LEMMA IdleRowDelivers ==
  ASSUME Inv, NEW s \in Slots, IdleRow(s)
  PROVE  Allowed
<1>1. /\ loop[s].pc = "idleRow" /\ Lead \in Slots
      /\ UNCHANGED <<workVars, delivered, refused>>
  BY LoopFields DEF IdleRow, At, LoopKnows
<1>2. loop'[s].pc \in {"wakeLead", "prepare"} /\ Alone(s)
  BY GotoIs DEF IdleRow
<1>3. CASE Fault("mailbox") /\ UNCHANGED mail
  BY <1>1, <1>2, <1>3, LoopIdle DEF Turning, MayFail
<1>4. ASSUME NEW m \in Msgs, write(m, Lead, s), UNCHANGED faults
      PROVE  Allowed
  <2>1. \A t \in Slots : HandKept(t)
    BY <1>1, <1>2, NoTurn DEF Turning
  <2> QED BY <1>1, <1>4, <2>1, SendStep
<1> QED
  BY <1>3, <1>4 DEF IdleRow

\* The notices of a loop are rows that their own steps send.
LEMMA FinalizeStepDelivers ==
  ASSUME Inv, NEW s \in Slots, FinalizeStep(s)
  PROVE  Allowed
<1>1. CASE TellLead(s) \/ ToldLead(s) \/ FinishTurn(s)
           \/ maybe_wake_leader_when_all_idle(s) \/ LeadWoken(s)
  <2>1. loop[s].pc \in {"tellStart", "tellTurn", "telling", "tellingEnd", "finish", "wakeLead", "waking"}
    BY <1>1 DEF TellLead, ToldLead, FinishTurn, maybe_wake_leader_when_all_idle, LeadWoken, At
  <2>2. UNCHANGED <<workVars, mail, faults, delivered, refused>>
    BY <1>1 DEF TellLead, ToldLead, FinishTurn, maybe_wake_leader_when_all_idle, LeadWoken
  <2>3. /\ loop'[s].pc \in {"telling", "tellingEnd", "prepare", "finish", "idleRow", "waking"}
        /\ Alone(s)
    BY <1>1, GotoIs DEF TellLead, ToldLead, AfterFailure, FinishTurn,
                        maybe_wake_leader_when_all_idle, LeadWoken
  <2> QED BY <2>1, <2>2, <2>3, LoopIdle DEF Turning, MayFail
<1> QED
  BY <1>1, IdleRowDelivers DEF FinalizeStep

LEMMA AttachStepDelivers ==
  ASSUME Inv, NEW s \in Slots, AttachStep(s)
  PROVE  Allowed
<1>1. CASE SpawnLoop(s)
  <2>1. loop[s].pc = "gone" /\ UNCHANGED <<workVars, mail, faults, delivered, refused>>
    BY <1>1, InvFacts DEF SpawnLoop, LoopsAlone
  <2>2. loop'[s].pc = "wait" /\ Alone(s)
    BY <1>1, InvFacts DEF SpawnLoop, Alone, LoopState
  <2> QED BY <2>1, <2>2, LoopIdle DEF Turning, MayFail
<1>2. CASE CommitReady(s) \/ NotifyAttached(s)
  BY <1>2, CallIdle DEF MayFail, CommitReady, NotifyAttached
<1>3. CASE PublishReady(s)
  <2>1. /\ UNCHANGED <<mail, loop, delivered, refused, faults>>
        /\ set_runtime_constraint(s, [kind |-> "Ready", op |-> 0])
    BY <1>3 DEF PublishReady, loopVars
  <2>2. WorkStep
    BY <2>1, ConstrainStep, InvFacts
  <2>3. NoneDies
    BY <2>1 DEF set_runtime_constraint, NoneDies, NoneFails
  <2> QED BY <2>1, <2>2, <2>3, CallCalm
<1> QED
  BY <1>1, <1>2, <1>3 DEF AttachStep

LEMMA InitDelivers == Init => Promised!Init
<1> SUFFICES ASSUME Init PROVE Promised!Init
  OBVIOUS
<1>1. /\ LoopInit(Warm, Notified) /\ WorkInit(Warm) /\ refused = {}
      /\ \E a : MailInit(Restored, a, User)
  BY DEF Init
<1>2. Box \in [Slots -> SUBSET Msgs]
  BY DEF Box
<1>3. Hand = [s \in Slots |-> {}]
  <2>1. \A s \in Slots : loop[s].pc \in {"wait", "gone"}
    <3>1. SUFFICES ASSUME NEW s \in Slots PROVE loop[s].pc \in {"wait", "gone"}
      OBVIOUS
    <3>2. loop[s] = [pc |-> IF s \in Warm THEN "wait" ELSE "gone",
                     b |-> NoWork(s), cands |-> {}, rows |-> {}]
      BY <1>1 DEF LoopInit
    <3>3. loop[s].pc = IF s \in Warm THEN "wait" ELSE "gone"
      BY <3>2
    <3> QED BY <3>3
  <2> QED BY <2>1 DEF Hand, Turning
<1>4. \A m \in Msgs, st \in Terminal : Ended(m, st) = {}
  BY <1>1 DEF WorkInit, Ended, Terminal
<1>5. CancelledRows = {} /\ ExhaustedRows = {}
  <2>1. Cardinality({}) = 0
    BY FS_EmptySet
  <2> QED BY <1>4, <2>1 DEF CancelledRows, ExhaustedRows, Terminal, MaxDeliveryFailures
<1>6. SettledRows = {}
  BY <1>1 DEF MailInit, SettledRows, WasRead
<1>7. delivered = {} /\ faults = 0
  BY <1>1 DEF LoopInit
<1> QED
  BY <1>1, <1>2, <1>3, <1>5, <1>6, <1>7 DEF Promised!Init

LEMMA NextDelivers == Inv /\ [Next]_sessionVars => [Promised!Next]_(Promised!vars)
<1> SUFFICES ASSUME Inv, [Next]_sessionVars PROVE Allowed
  BY DEF Allowed, MailFailed, Promised!vars, Promised!outcomes
<1>1. CASE UNCHANGED sessionVars
  BY <1>1, CallIdle DEF sessionVars, loopVars, MayFail
<1>2. ASSUME NEW c \in Callers, Begin(c) PROVE Allowed
  BY <1>2, BeginDelivers
<1>3. ASSUME NEW c \in Procs, CallStep(c) PROVE Allowed
  BY <1>3, CallStepDelivers
<1>4. ASSUME NEW s \in Slots, Loop(s) PROVE Allowed
  BY <1>4, LoopStepDelivers, FinalizeStepDelivers DEF Loop, Loops
<1>5. ASSUME NEW s \in Slots, StartFails(s) PROVE Allowed
  BY <1>5, TurnEndsDelivers DEF StartFails, Loops
<1>6. ASSUME NEW s \in Slots, AttachStep(s) PROVE Allowed
  BY <1>6, AttachStepDelivers
<1> QED
  BY <1>1, <1>2, <1>3, <1>4, <1>5, <1>6 DEF Next

(* The session implements Delivery: whatever its requests, loops and       *)
(* attachments do between two awaits, and whichever calls fail, a turn is  *)
(* handed unsettled rows only, a row is settled only with an outcome that  *)
(* somebody knows of, and neither is taken back.                           *)
THEOREM KeepsPromises == Spec => DeliversAsPromised
<1>1. Init => Promised!Init
  BY InitDelivers
<1>2. Inv /\ [Next]_sessionVars => [Promised!Next]_(Promised!vars)
  BY NextDelivers
<1> QED
  BY <1>1, <1>2, Invariance, PTL DEF Spec, DeliversAsPromised, Promised!Spec
=============================================================================
