----------------------------- MODULE Delivery -----------------------------
(***************************************************************************)
(* What a team promises about its messages, whatever its requests, loops   *)
(* and mailbox calls do in between.  A row stays where it was sent.  A     *)
(* turn is handed rows of its slot that are not settled, and keeps them    *)
(* until it ends.  Every row that is settled has an outcome that somebody  *)
(* knows of, and no outcome and no settlement is taken back.  TeamSession  *)
(* implements it.                                                          *)
(***************************************************************************)
CONSTANTS
  Slots,        \* members of the team
  Msgs          \* rows that may be sent

VARIABLES
  box,          \* rows sent to each slot
  hand,         \* rows in the hands of the turn of each slot
  acknowledged, \* rows a turn succeeded with
  reported,     \* rows whose rejection was reported to who sent them
  cancelled,    \* rows that stood for work somebody asked to drop
  exhausted,    \* rows that failed for the last time
  settled,      \* rows that are marked read
  unsure        \* a call failed: an acknowledged row may not have been settled

outcomes == <<acknowledged, reported, cancelled, exhausted>>

vars == <<box, hand, outcomes, settled, unsure>>

Sent == UNION {box[s] : s \in Slots}

Send(s, m) ==
  /\ m \notin Sent
  /\ box' = [box EXCEPT ![s] = @ \cup {m}]
  /\ UNCHANGED <<hand, outcomes, settled, unsure>>

\* A turn is handed rows that nobody has settled, none of them for the second
\* time after it was acknowledged, unless its settlement may have failed.
Take(s, M) ==
  /\ hand[s] = {}
  /\ M # {} /\ M \subseteq box[s] \ settled
  /\ unsure \/ M \cap acknowledged = {}
  /\ hand' = [hand EXCEPT ![s] = M]
  /\ UNCHANGED <<box, outcomes, settled, unsure>>

\* The turn succeeds: with what it was handed it acknowledges the rows it saw
\* in the inbox of its slot.
Acknowledge(s, M) ==
  /\ hand[s] # {} /\ hand[s] \subseteq M /\ M \subseteq box[s]
  /\ hand' = [hand EXCEPT ![s] = {}]
  /\ acknowledged' = acknowledged \cup M
  /\ UNCHANGED <<box, reported, cancelled, exhausted, settled, unsure>>

\* The turn ends without success, or without its batch; for the rows of M that
\* was the last failure allowed.
Miss(s, M) ==
  /\ hand[s] # {} /\ M \subseteq hand[s]
  /\ hand' = [hand EXCEPT ![s] = {}]
  /\ exhausted' = exhausted \cup M
  /\ UNCHANGED <<box, acknowledged, reported, cancelled, settled, unsure>>

\* Somebody asked to drop work that stands for these rows.
Cancel(M) ==
  /\ M # {} /\ M \subseteq Sent
  /\ cancelled' = cancelled \cup M
  /\ UNCHANGED <<box, hand, acknowledged, reported, exhausted, settled, unsure>>

\* Who sent the row is told that it was rejected; settling it may fail.
Report(m) ==
  /\ m \in Sent
  /\ reported' = reported \cup {m}
  /\ \/ settled' = settled \cup {m} /\ UNCHANGED unsure
     \/ unsure' = TRUE /\ UNCHANGED settled
  /\ UNCHANGED <<box, hand, acknowledged, cancelled, exhausted>>

Settle(M) ==
  /\ M \subseteq Sent
  /\ M \subseteq acknowledged \cup reported \cup cancelled \cup exhausted
  /\ settled' = settled \cup M
  /\ UNCHANGED <<box, hand, outcomes, unsure>>

Falter ==
  /\ unsure' = TRUE
  /\ UNCHANGED <<box, hand, outcomes, settled>>

Init ==
  /\ box \in [Slots -> SUBSET Msgs]
  /\ hand = [s \in Slots |-> {}]
  /\ acknowledged = {} /\ reported = {} /\ cancelled = {} /\ exhausted = {}
  /\ settled = {}
  /\ unsure = FALSE

Next ==
  \/ \E s \in Slots, m \in Msgs : Send(s, m)
  \/ \E s \in Slots, M \in SUBSET Msgs : Take(s, M) \/ Acknowledge(s, M) \/ Miss(s, M)
  \/ \E M \in SUBSET Msgs : Cancel(M) \/ Settle(M)
  \/ \E m \in Msgs : Report(m)
  \/ Falter

Spec == Init /\ [][Next]_vars
=============================================================================
