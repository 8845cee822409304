--------------------------- MODULE SlotWorkCallers ---------------------------
(***************************************************************************)
(* The coordinator of SlotWork under callers that are held to nothing: a   *)
(* caller may make any call at any time, with any batch or restart gate it *)
(* was ever handed, however stale.  Whatever holds here holds for every    *)
(* interleaving of event loops, user requests and agent tool calls.        *)
(***************************************************************************)
EXTENDS SlotWork

CONSTANTS
  Sources,      \* the work sources that occur
  RuntimeOps,   \* operation ids of the member runtime registry
  Calls         \* the operations the callers of this instance make

ASSUME CallersAssumption ==
  /\ Sources \subseteq AllSources
  /\ RuntimeOps \subseteq Nat

VARIABLES
  held,         \* WorkBatch values handed out by `next`
  gates         \* RuntimeRestartGate values handed out

vars == <<workVars, held, gates>>

Init == WorkInit({}) /\ held = {} /\ gates = {}

Constraints ==
  {[kind |-> k, op |-> 0] : k \in {"Ready", "Failed", "Removing", "SessionStopped"}}
    \cup {[kind |-> "Starting", op |-> n] : n \in RuntimeOps}

Does(call) == call \in Calls

Enqueue ==
  /\ \/ \E id \in LeaseIds, s \in Slots, src \in Sources, r \in Runs \cup {NoRun} :
          acquire_enqueue(id, s, src, r)
     \/ \E l \in leases, m \in Msgs \cup {NoMsg} : commit_enqueue(l, m)
     \/ \E l \in leases : Does("abort") /\ abort_enqueue(l)
  /\ UNCHANGED <<held, gates>>

Reconcile ==
  /\ \E s \in Slots :
       \/ /\ Does("reconcile")
          /\ \E unread \in SUBSET Msgs, cands \in SUBSET mailbox_reconcile_candidates(s) :
               reconcile_mailbox_snapshot(s, unread, cands)
       \/ Does("signal") /\ \E S \in SUBSET queued_ids(s) : S # {} /\ complete_signals(s, S)
  /\ UNCHANGED <<held, gates>>

Claim ==
  \E s \in Slots :
    /\ next(s)
    /\ held' = held \cup {[slot |-> s, op |-> active'[s].op,
                           intents |-> active'[s].intents, lane |-> active'[s].lane]}
    /\ UNCHANGED gates

Own ==
  /\ \E b \in held :
       \/ Does("observe") /\ \E M \in SUBSET Msgs : observe_messages(b.slot, b.op, M)
       \/ mark_started(b)
       \/ Does("retry") /\ retry_start(b)
       \/ Does("complete") /\ complete_batch_with_ack(b)
       \/ Does("fail") /\ fail_batch(b)
       \/ Does("cancel") /\ cancel_batch(b)
       \/ Does("interrupt") /\ interrupt_batch(b)
       \/ Does("interrupt") /\ take_interrupt_metadata(b.op)
  /\ UNCHANGED <<held, gates>>

Control ==
  /\ \/ \E s \in Slots :
          \/ Does("discard") /\ \E m \in Msgs : discard_queued_except(s, m)
          \/ Does("pause") /\ pause_slot(s)
          \/ \E c \in Constraints :
               (Does("constrain") \/ c.kind = "Ready") /\ set_runtime_constraint(s, c)
          \/ Does("remove") /\ remove_slot(s)
     \/ \E g \in gates : abort_runtime_restart(g)
     \/ Does("cancel_run") /\ \E r \in Runs : cancel_run(r)
     \/ Does("stop") /\ stop
  /\ UNCHANGED <<held, gates>>

Gate ==
  \E s \in Slots, allowQueued \in BOOLEAN :
    /\ Does("restart")
    /\ begin_runtime_restart(s, allowQueued)
    /\ gates' = gates \cup {[slot |-> s, op |-> nextOp', previous |-> constraint[s]]}
    /\ UNCHANGED held

Next == Enqueue \/ Reconcile \/ Claim \/ Own \/ Control \/ Gate

Spec == Init /\ [][Next]_vars
-----------------------------------------------------------------------------
TypeOK ==
  /\ WorkTypeOK
  /\ held \subseteq WorkBatch
  /\ gates \subseteq RuntimeRestartGate

(* Only the batch that owns the slot, as it was claimed, can be finished:  *)
(* a copy in the hands of a caller either is the active batch of its slot  *)
(* (same intents, same lane) or carries another operation id.              *)
HeldCopiesAgree ==
  \A b \in held :
    is_current_batch(b) => active[b.slot].intents = b.intents /\ active[b.slot].lane = b.lane
=============================================================================
