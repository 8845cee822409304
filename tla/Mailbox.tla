------------------------------ MODULE Mailbox ------------------------------
(***************************************************************************)
(* The durable mailbox of a team (crates/aionui-team/src/mailbox.rs over   *)
(* the sqlite repository).  Every call is one SQL statement and so one     *)
(* atomic step.  A row is a number; rows are written in order, which is    *)
(* the order peek_unread lists them in.                                    *)
(***************************************************************************)
EXTENDS Naturals

CONSTANTS
  Msgs,       \* rows that may be written
  Addresses,  \* who a row is addressed to
  Senders     \* who writes rows

VARIABLE mail \* mail[m]: addressee, sender and the `read` column of row m

Row == [to : Addresses, from : Senders, st : {"unwritten", "unread", "read"}]

\* `left` are unread rows of an earlier session, from f to a.
MailInit(left, a, f) ==
  mail = [m \in Msgs |-> [to |-> a, from |-> f,
                          st |-> IF m \in left THEN "unread" ELSE "unwritten"]]

\* The next row to be written is the least unwritten one.
IsNextRow(m) ==
  /\ mail[m].st = "unwritten"
  /\ \A n \in Msgs : n < m => mail[n].st # "unwritten"

write(m, to, from) ==
  /\ IsNextRow(m)
  /\ mail' = [mail EXCEPT ![m] = [to |-> to, from |-> from, st |-> "unread"]]

\* Mutant: rows that were read before are shown again.
PeekSent(s) == {m \in Msgs : mail[m].st # "unwritten" /\ mail[m].to = s /\ mail[m].from # s}

\* The unread rows of a slot, without what the slot sent to itself.
peek_unread(s) == {m \in Msgs : mail[m].st = "unread" /\ mail[m].to = s /\ mail[m].from # s}

\* Mutant: every row up to the newest of M is marked read.
MarkThrough(M) ==
  mail' = [m \in Msgs |-> IF mail[m].st # "unwritten" /\ \E n \in M : m <= n
                            THEN [mail[m] EXCEPT !.st = "read"] ELSE mail[m]]

mark_read_batch(M) ==
  mail' = [m \in Msgs |-> IF m \in M THEN [mail[m] EXCEPT !.st = "read"] ELSE mail[m]]

WasRead(m) == mail[m].st = "read"
=============================================================================
