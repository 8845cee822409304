----------------------------- MODULE EventLoop -----------------------------
(***************************************************************************)
(* The event loop of a slot (crates/aionui-team/src/event_loop.rs and      *)
(* TeamSession::prepare_next_batch): wait for a notification, project the  *)
(* mailbox onto the coordinator, claim a batch, reread its rows, run one   *)
(* agent turn on it and settle the outcome.  The coordinator's mutex and   *)
(* every await are step boundaries, so that requests of other tasks run in *)
(* between.  The agent turn itself is external: it may fail before it      *)
(* starts, start late, succeed or fail.                                    *)
(***************************************************************************)
EXTENDS SlotWork

CONSTANTS
  User,         \* the sender of rows that come from no slot
  Faults,       \* the kinds of failure that may happen
  MaxFaults     \* bound: how many of them

ASSUME EventLoopAssumption == User \notin Slots /\ MaxFaults \in Nat

VARIABLES
  mail,         \* the mailbox table
  runtime,      \* MemberRuntimeRegistry: is the member's runtime attached?
  loop,         \* where each event loop is, and what it holds
  permit,       \* the stored permit of each loop's Notify
  status,       \* TeammateStatus of each slot, kept by the scheduler
  faults,       \* failures so far
  delivered     \* history: rows acknowledged by a turn that succeeded

loopVars == <<mail, runtime, loop, permit, status, faults, delivered>>

INSTANCE Mailbox WITH Addresses <- Slots, Senders <- Slots \cup {User}

NoWork(s) == [slot |-> s, op |-> 0, intents |-> {}, lane |-> "Background"]

LoopPcs == {"gone", "rest", "wait", "prepare", "cands", "peek", "recon", "next",
            "signals", "reread", "giveback", "turn", "late", "drop", "run",
            "err", "won", "lost", "complete", "ack", "failStart", "failTurn",
            "exhaustStart", "exhaustTurn", "tellStart", "tellTurn", "finish",
            "idleRow", "wakeLead", "telling", "tellingEnd", "waking"}

LoopState == [pc : LoopPcs,
              b : [slot : Slots, op : Nat, intents : SUBSET IntentIds, lane : Lanes],
              cands : SUBSET IntentIds,   \* stale candidates, or signals to settle
              rows : SUBSET Msgs]         \* rows peeked, or to be marked read

At(s, pc) == loop[s].pc = pc

\* The loop moves on; what it no longer needs is forgotten.
Goto(s, pc) == loop' = [loop EXCEPT ![s] = [@ EXCEPT !.pc = pc, !.cands = {}, !.rows = {}]]

Leave(s, pc) ==
  loop' = [loop EXCEPT ![s] = [pc |-> pc, b |-> NoWork(s), cands |-> {}, rows |-> {}]]

GotoWith(s, pc, rows) ==
  loop' = [loop EXCEPT ![s] = [@ EXCEPT !.pc = pc, !.cands = {}, !.rows = rows]]

Fault(kind) == kind \in Faults /\ faults < MaxFaults /\ faults' = faults + 1

\* Mutant: only a loop that is waiting is woken, no permit is stored.
NotifyWaiting(s) == permit' = [permit EXCEPT ![s] = @ \/ At(s, "wait")]

\* EventLoopRegistry::notify: one permit is stored, for a registered loop only.
Notify(s) == permit' = [permit EXCEPT ![s] = @ \/ ~At(s, "gone")]

\* MemberRuntimeSnapshot as a runtime constraint.
ConstraintOf(s) ==
  IF runtime[s] = "Ready" \/ (runtime[s] = "Absent" /\ ~At(s, "gone"))
    THEN [kind |-> "Ready", op |-> 0] ELSE [kind |-> "Starting", op |-> 0]

Batch(s) == loop[s].b

SetStatus(s, st) == status' = [status EXCEPT ![s] = st]
-----------------------------------------------------------------------------
(* prepare_next_batch                                                      *)

\* The loop found nothing to do, or an error; it has not begun to wait yet.
Rest(s) ==
  /\ At(s, "rest")
  /\ Goto(s, "wait")
  /\ UNCHANGED <<workVars, mail, runtime, permit, status, faults, delivered>>

Awake(s) ==
  /\ At(s, "wait") /\ permit[s]
  /\ permit' = [permit EXCEPT ![s] = FALSE]
  /\ Goto(s, "prepare")
  /\ UNCHANGED <<workVars, mail, runtime, status, faults, delivered>>

Prepare(s) ==
  /\ At(s, "prepare")
  /\ set_runtime_constraint(s, ConstraintOf(s))
  /\ Goto(s, "cands")
  /\ UNCHANGED <<mail, runtime, permit, status, faults, delivered>>

StaleCandidates(s) ==
  /\ At(s, "cands")
  /\ loop' = [loop EXCEPT ![s].pc = "peek", ![s].cands = mailbox_reconcile_candidates(s)]
  /\ UNCHANGED <<workVars, mail, runtime, permit, status, faults, delivered>>

PeekUnread(s) ==
  /\ At(s, "peek")
  /\ \/ /\ loop' = [loop EXCEPT ![s].pc = "recon", ![s].rows = peek_unread(s)]
        /\ UNCHANGED faults
     \/ Fault("mailbox") /\ Leave(s, "rest")
  /\ UNCHANGED <<workVars, mail, runtime, permit, status, delivered>>

Reconcile(s) ==
  /\ At(s, "recon")
  /\ reconcile_mailbox_snapshot(s, loop[s].rows, loop[s].cands)
  /\ Goto(s, "next")
  /\ UNCHANGED <<mail, runtime, permit, status, faults, delivered>>

ClaimNext(s) ==
  /\ At(s, "next")
  /\ next(s)
  /\ loop' = [loop EXCEPT ![s].pc = "reread",
                          ![s].b = [slot |-> s, op |-> active'[s].op,
                                    intents |-> active'[s].intents, lane |-> active'[s].lane]]
  /\ UNCHANGED <<mail, runtime, permit, status, faults, delivered>>

SettleNext(s) ==
  /\ At(s, "next")
  /\ \E S \in SUBSET queued_ids(s) :
       SettleSignals(s, S) /\ loop' = [loop EXCEPT ![s].pc = "signals", ![s].cands = S]
  /\ UNCHANGED <<workVars, mail, runtime, permit, status, faults, delivered>>

\* WaitingForCompletion, Blocked or Quiescent.
NothingNext(s) ==
  /\ At(s, "next")
  /\ ~Claimable(s) \/ queued_ids(s) = {}
  /\ Leave(s, "rest")
  /\ UNCHANGED <<workVars, mail, runtime, permit, status, faults, delivered>>

handle_signal_intents(s) ==
  /\ At(s, "signals")
  /\ \/ complete_signals(s, loop[s].cands)
     \/ /\ \E i \in loop[s].cands : ist[i] # "Queued"
        /\ UNCHANGED workVars
  /\ Leave(s, "prepare")
  /\ UNCHANGED <<mail, runtime, permit, status, faults, delivered>>

\* Mutant: what was claimed is taken to be still unread.
RereadTrusting(b) == b.intents # {}

\* Every claimed id must be found among the unread rows, each row once: two
\* intents for the same row cannot both be satisfied.
RereadComplete(b) ==
  /\ BatchMsgs(b) \subseteq peek_unread(b.slot)
  /\ Cardinality(BatchMsgs(b)) = Cardinality(b.intents)

Reread(s) ==
  /\ At(s, "reread")
  /\ \/ /\ RereadComplete(Batch(s))
        /\ SetStatus(s, "Working")
        /\ Goto(s, "turn")
        /\ UNCHANGED faults
     \/ /\ \/ ~RereadComplete(Batch(s)) /\ UNCHANGED faults
           \/ Fault("mailbox")
        /\ Goto(s, "giveback")
        /\ UNCHANGED status
  /\ UNCHANGED <<workVars, mail, runtime, permit, delivered>>

\* retry_start by a stale owner changes nothing; either way the loop gives up
\* until it is notified again.
GiveBack(s) ==
  /\ At(s, "giveback")
  /\ \/ retry_start(Batch(s))
     \/ ~is_current_batch(Batch(s)) /\ UNCHANGED workVars
  /\ Leave(s, "rest")
  /\ UNCHANGED <<mail, runtime, permit, status, faults, delivered>>
-----------------------------------------------------------------------------
(* execute_and_finalize                                                    *)

\* run_agent_turn returns an error before on_started was called.
TurnNotStarted(s) ==
  /\ At(s, "turn")
  /\ Fault("start")
  /\ Goto(s, "err")
  /\ UNCHANGED <<workVars, mail, runtime, permit, status, delivered>>

\* The on_started callback.
TurnStarted(s) ==
  /\ At(s, "turn")
  /\ \/ mark_started(Batch(s))
     \/ ~is_current_batch(Batch(s)) /\ UNCHANGED workVars
  /\ Goto(s, IF MustCancel(Batch(s)) THEN "late" ELSE "run")
  /\ UNCHANGED <<mail, runtime, permit, status, faults, delivered>>

DrainMetadata(s) ==
  \/ take_interrupt_metadata(Batch(s).op)
  \/ Batch(s).op \notin interrupted /\ UNCHANGED workVars

LateStart(s) ==
  /\ At(s, "late")
  /\ DrainMetadata(s)
  /\ Goto(s, "drop")
  /\ UNCHANGED <<mail, runtime, permit, status, faults, delivered>>

\* The turn was cancelled; its batch is dropped if it still owns the slot.
LateCancel(s) ==
  /\ At(s, "drop")
  /\ \/ cancel_batch(Batch(s))
     \/ ~is_current_batch(Batch(s)) /\ UNCHANGED workVars
  /\ Goto(s, "run")
  /\ UNCHANGED <<mail, runtime, permit, status, faults, delivered>>

\* External: run_agent_turn returns.
TurnEnds(s) ==
  /\ At(s, "run")
  /\ \/ Goto(s, "won") /\ UNCHANGED faults
     \/ Fault("turn") /\ Goto(s, "lost")
     \/ Fault("turn") /\ Goto(s, "err")
  /\ UNCHANGED <<workVars, mail, runtime, permit, status, delivered>>

TurnErr(s) ==
  /\ At(s, "err")
  /\ IF AllCancelled(Batch(s))
       THEN DrainMetadata(s) /\ Goto(s, "finish")
       ELSE Goto(s, "failStart") /\ UNCHANGED workVars
  /\ UNCHANGED <<mail, runtime, permit, status, faults, delivered>>

TurnOk(s) ==
  /\ At(s, "won") \/ At(s, "lost")
  /\ Goto(s, IF AllCancelled(Batch(s)) THEN "finish"
             ELSE IF At(s, "won") THEN "complete" ELSE "failTurn")
  /\ UNCHANGED <<workVars, mail, runtime, permit, status, faults, delivered>>

Complete(s) ==
  /\ At(s, "complete")
  /\ \/ /\ complete_batch_with_ack(Batch(s))
        /\ GotoWith(s, "ack", AckedMsgs(Batch(s)))
        /\ delivered' = delivered \cup AckedMsgs(Batch(s))
     \/ /\ ~is_current_batch(Batch(s))
        /\ Goto(s, "finish")
        /\ UNCHANGED <<workVars, delivered>>
  /\ UNCHANGED <<mail, runtime, permit, status, faults>>

mark_message_ids_read(s) ==
  \/ mark_read_batch(loop[s].rows) /\ UNCHANGED faults
  \/ Fault("mailbox") /\ UNCHANGED mail

Acknowledge(s) ==
  /\ At(s, "ack")
  /\ mark_message_ids_read(s)
  /\ Goto(s, "finish")
  /\ UNCHANGED <<workVars, runtime, permit, status, delivered>>

\* A failed turn ends in status Error.  After an error of the port the loop
\* goes on draining; after a failed outcome the scheduler turn is finalized.
AfterFailure(s, start) ==
  /\ SetStatus(s, "Error")
  /\ IF start THEN Leave(s, "prepare") ELSE Goto(s, "finish")

Fail(s) ==
  LET start == At(s, "failStart") IN
  /\ At(s, "failStart") \/ At(s, "failTurn")
  /\ \/ /\ fail_batch(Batch(s))
        /\ Exhausted(Batch(s)) # {}
        /\ GotoWith(s, IF start THEN "exhaustStart" ELSE "exhaustTurn", Exhausted(Batch(s)))
        /\ UNCHANGED status
     \/ /\ fail_batch(Batch(s))
        /\ Exhausted(Batch(s)) = {}
        /\ AfterFailure(s, start)
     \/ /\ ~is_current_batch(Batch(s))
        /\ AfterFailure(s, start)
        /\ UNCHANGED workVars
  /\ UNCHANGED <<mail, runtime, permit, faults, delivered>>

\* finalize_failed_delivery, up to the notice to the lead.
Exhaust(s) ==
  /\ At(s, "exhaustStart") \/ At(s, "exhaustTurn")
  /\ mark_message_ids_read(s)
  /\ Goto(s, IF At(s, "exhaustStart") THEN "tellStart" ELSE "tellTurn")
  /\ UNCHANGED <<workVars, runtime, permit, status, delivered>>

LoopStep(s) ==
  \/ Rest(s) \/ Awake(s) \/ Prepare(s) \/ StaleCandidates(s) \/ PeekUnread(s) \/ Reconcile(s)
  \/ ClaimNext(s) \/ SettleNext(s) \/ NothingNext(s) \/ handle_signal_intents(s)
  \/ Reread(s) \/ GiveBack(s) \/ TurnStarted(s) \/ LateStart(s) \/ LateCancel(s)
  \/ TurnEnds(s) \/ TurnErr(s) \/ TurnOk(s) \/ Complete(s) \/ Acknowledge(s)
  \/ Fail(s) \/ Exhaust(s)

\* The members of `warm` are attached and their loops registered; those in
\* `notified` have not taken the notification of their attachment yet.
LoopInit(warm, notified) ==
  /\ runtime = [s \in Slots |-> IF s \in warm THEN "Ready" ELSE "Absent"]
  /\ loop = [s \in Slots |-> [pc |-> IF s \in warm THEN "wait" ELSE "gone",
                              b |-> NoWork(s), cands |-> {}, rows |-> {}]]
  /\ permit = [s \in Slots |-> s \in notified]
  /\ status = [s \in Slots |-> "Idle"]
  /\ faults = 0
  /\ delivered = {}

LoopTypeOK ==
  /\ mail \in [Msgs -> Row]
  /\ runtime \in [Slots -> {"Absent", "Attaching", "Ready"}]
  /\ loop \in [Slots -> LoopState]
  /\ permit \in [Slots -> BOOLEAN]
  /\ status \in [Slots -> {"Idle", "Working", "Error"}]
  /\ faults \in 0..MaxFaults
  /\ delivered \subseteq Msgs
=============================================================================
