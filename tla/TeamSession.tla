---------------------------- MODULE TeamSession ----------------------------
(***************************************************************************)
(* The requests of a team session (crates/aionui-team/src/session.rs) over *)
(* the coordinator, the mailbox and the event loops: messages of the user  *)
(* and of other agents, shutdown requests, interrupts, cancellations,      *)
(* pauses, notices to the lead, the recovery drain of a restarted session  *)
(* and the lazy attachment of a member.  Each request is a process whose   *)
(* steps are the critical sections and awaits of its handler.              *)
(***************************************************************************)
EXTENDS EventLoop

CONSTANTS
  Lead,         \* the lead's slot; outside Slots, its mailbox is not tracked
  Callers,      \* requests made of the session, beside those the loops make
  Requests,     \* the kinds of request that occur
  Warm,         \* members that are attached at the start
  Notified,     \* those of them whose attachment just ended
  Restored      \* rows a previous session left unread in the lead's mailbox

Sends      == {"user", "command", "agent", "shutdown"}
Interrupts == {"retain", "discard"}
Cancels    == {"pause", "cancelTurn"}

ASSUME TeamSessionAssumption ==
  /\ Callers \cap Slots = {}
  /\ LeaseIds = Callers \cup Slots
  /\ Requests \subseteq Sends \cup Interrupts \cup Cancels \cup {"run", "recover", "read"}
  /\ Warm \subseteq Slots
  /\ Notified \subseteq Warm
  /\ Restored \subseteq Msgs /\ IsFiniteSet(Restored)

VARIABLES
  call,         \* where each request is, and what it holds
  attach,       \* where the attachment of each member is
  recovered,    \* recovery_scan_completed
  refused       \* history: rows whose rejection was reported to who enqueued them

sessionVars == <<workVars, loopVars, call, attach, recovered, refused>>

Procs == Callers \cup Slots

\* What a kind of request enqueues.
SourceOf(kind) ==
  CASE kind = "user"      -> "UserMessage"
    [] kind = "command"   -> "UserCommand"
    [] kind = "agent"     -> "McpSendMessage"
    [] kind = "shutdown"  -> "McpShutdownRequest"
    [] kind \in {"retain", "discard"} -> "LeadIntervention"
    [] kind = "exhausted" -> "DeliveryFailureNotification"
    [] kind = "signal"    -> "IdleNotification"
    [] kind = "recover"   -> "RecoveryDrain"
    [] OTHER              -> "InterruptedNotification"

NoCall == [pc |-> "idle", kind |-> "none", slot |-> CHOOSE s \in Slots : TRUE,
           from |-> User, msg |-> NoMsg, op |-> 0, intents |-> {}, turn |-> FALSE, rows |-> {}]

In(c, pc) == call[c].pc = pc

Step(c, pc) == call' = [call EXCEPT ![c].pc = pc]

Return(c) == call' = [call EXCEPT ![c] = [NoCall EXCEPT !.pc = "done"]]

\* The WorkBatch a request got from a snapshot (its lane is never used).
Held(c) == [slot |-> call[c].slot, op |-> call[c].op, intents |-> call[c].intents,
            lane |-> "Background"]

LeaseOf(c) == {l \in leases : l.id = c}

Quiet == UNCHANGED <<runtime, loop, status, delivered, attach, recovered, refused>>
-----------------------------------------------------------------------------
(* The enqueue protocol every request goes through: attach a dormant       *)
(* member, publish the runtime constraint, acquire a lease, write the row, *)
(* commit, notify.                                                         *)

\* A member is dormant until it is attached, once; a request that finds it
\* attached or being attached goes straight on (see Begin).
Dormant(s) == At(s, "gone") /\ runtime[s] = "Absent"

ensure_member_runtime_lazy(c) ==
  LET s == call[c].slot IN
  /\ In(c, "ensure")
  /\ Step(c, "publish")
  /\ IF Dormant(s)
       THEN /\ runtime' = [runtime EXCEPT ![s] = "Attaching"]
            /\ attach' = [attach EXCEPT ![s] = "spawn"]
       ELSE UNCHANGED <<runtime, attach>>
  /\ UNCHANGED <<workVars, mail, loop, permit, status, faults, delivered, recovered, refused>>

\* publish_runtime_constraint reads the registry, then sets the constraint.  A
\* constraint that is not Ready may be out of date by then; Ready never is.
ReadRuntime(c) ==
  /\ In(c, "publish")
  /\ ConstraintOf(call[c].slot).kind = "Starting"
  /\ Step(c, "setStarting")
  /\ UNCHANGED <<workVars, mail, permit, faults>> /\ Quiet

PublishConstraint(c) ==
  LET s == call[c].slot IN
  /\ \/ In(c, "publish") /\ ConstraintOf(s).kind = "Ready" /\ set_runtime_constraint(s, ConstraintOf(s))
     \/ In(c, "setStarting") /\ set_runtime_constraint(s, [kind |-> "Starting", op |-> 0])
  /\ Step(c, IF call[c].kind \in Interrupts THEN "look" ELSE "acquire")
  /\ UNCHANGED <<mail, permit, faults>> /\ Quiet

\* active_before of an interrupt.
LookActive(c) ==
  LET s == call[c].slot IN
  /\ In(c, "look")
  /\ call' = [call EXCEPT ![c] = [@ EXCEPT !.pc = "acquire", !.op = active[s].op,
                                  !.intents = active[s].intents, !.turn = active[s].turn]]
  /\ UNCHANGED <<workVars, mail, permit, faults>> /\ Quiet

\* Every binding in use resolves to a run; which one is TeamRun's business.
Acquire(c) ==
  /\ In(c, "acquire")
  /\ \/ /\ \E r \in Runs : acquire_enqueue(c, call[c].slot, SourceOf(call[c].kind), r)
        /\ Step(c, IF call[c].kind \in Sends \cup Interrupts THEN "write" ELSE "commit")
     \/ /\ ~validate_enqueue_constraint(call[c].slot)
        /\ Return(c)
        /\ UNCHANGED workVars
  /\ UNCHANGED <<mail, permit, faults>> /\ Quiet

WriteRow(c) ==
  /\ In(c, "write")
  /\ \/ /\ \E m \in Msgs : /\ write(m, call[c].slot, User)
                           /\ call' = [call EXCEPT ![c] = [@ EXCEPT !.pc = "commit", !.msg = m]]
        /\ UNCHANGED faults
     \/ Fault("mailbox") /\ Step(c, "abort") /\ UNCHANGED mail
  /\ UNCHANGED <<workVars, permit>> /\ Quiet

Commit(c) ==
  /\ In(c, "commit")
  /\ \/ /\ \E l \in LeaseOf(c) : commit_enqueue(l, call[c].msg)
        /\ Step(c, IF call[c].kind \in Interrupts THEN "check" ELSE "notify")
     \/ /\ ~\E l \in LeaseOf(c) : CanCommit(l, call[c].msg)
        /\ Step(c, "abort")
        /\ UNCHANGED workVars
  /\ UNCHANGED <<mail, permit, faults>> /\ Quiet

Abort(c) ==
  /\ In(c, "abort")
  /\ \/ \E l \in LeaseOf(c) : abort_enqueue(l)
     \/ LeaseOf(c) = {} /\ UNCHANGED workVars
  /\ IF call[c].msg = NoMsg THEN Return(c) ELSE Step(c, "compensate")
  /\ UNCHANGED <<mail, permit, faults>> /\ Quiet

\* Mutant: the rejected row is settled but the error is dropped.
CompensateInSilence(c) ==
  /\ In(c, "compensate")
  /\ mark_read_batch({call[c].msg})
  /\ Return(c)
  /\ UNCHANGED <<workVars, permit, faults>> /\ Quiet

\* A row whose enqueue was rejected is settled, or left unread with a warning;
\* either way the error goes to the request, or to the loop that gave notice,
\* which logs it.
Compensate(c) ==
  /\ In(c, "compensate")
  /\ \/ mark_read_batch({call[c].msg}) /\ UNCHANGED faults
     \/ Fault("mailbox") /\ UNCHANGED mail
  /\ Return(c)
  /\ refused' = refused \cup {call[c].msg}
  /\ UNCHANGED <<workVars, permit, runtime, loop, status, delivered, attach, recovered>>

NotifySlot(c) ==
  /\ In(c, "notify")
  /\ Notify(call[c].slot)
  /\ IF call[c].kind = "recover" /\ call[c].rows # {}
       THEN Step(c, "nextRow") ELSE Return(c)
  /\ UNCHANGED <<workVars, mail, faults>> /\ Quiet

EnqueueStep(c) ==
  \/ ensure_member_runtime_lazy(c) \/ ReadRuntime(c) \/ PublishConstraint(c) \/ LookActive(c) \/ Acquire(c)
  \/ WriteRow(c) \/ Commit(c) \/ Abort(c) \/ Compensate(c) \/ NotifySlot(c)
-----------------------------------------------------------------------------
(* interrupt_agent_message, after its row was committed.                   *)

\* Mutant: the slot is notified only if queued work was discarded.
InterruptedUnnotified(c) == IF call[c].kind = "discard" THEN "discard" ELSE "done"

Interrupted(c) == IF call[c].kind = "discard" THEN "discard" ELSE "notify"

CheckActive(c) ==
  LET still == call[c].op # 0 /\ is_active_batch(Held(c), call[c].turn) IN
  /\ In(c, "check")
  /\ Step(c, IF ~still THEN Interrupted(c) ELSE IF call[c].turn THEN "stop" ELSE "break")
  /\ UNCHANGED <<workVars, mail, permit, faults>> /\ Quiet

\* The turn is cancelled.  If that fails while the batch is still the active
\* one, the request gives up.
StopTurn(c) ==
  /\ In(c, "stop")
  /\ \/ Step(c, "break") /\ UNCHANGED faults
     \/ /\ Fault("cancel")
        /\ IF is_active_batch(Held(c), call[c].turn) THEN Return(c) ELSE Step(c, "break")
  /\ UNCHANGED <<workVars, mail, permit>> /\ Quiet

\* Mutant: the rows are settled although the batch had ended by itself.
BreakStaleBatch(c) ==
  /\ In(c, "break")
  /\ interrupt_batch(Held(c)) \/ (~is_current_batch(Held(c)) /\ UNCHANGED workVars)
  /\ call' = [call EXCEPT ![c] = [@ EXCEPT !.pc = "settle", !.rows = BatchMsgs(Held(c))]]
  /\ UNCHANGED <<mail, permit, faults>> /\ Quiet

BreakBatch(c) ==
  /\ In(c, "break")
  /\ \/ /\ interrupt_batch(Held(c))
        /\ call' = [call EXCEPT ![c] = [@ EXCEPT !.pc = "settle", !.rows = BatchMsgs(Held(c))]]
     \/ /\ ~is_current_batch(Held(c))
        /\ Step(c, Interrupted(c))
        /\ UNCHANGED workVars
  /\ UNCHANGED <<mail, permit, faults>> /\ Quiet

\* The rows of the interrupted batch are marked read.
SettleInterrupted(c) ==
  /\ In(c, "settle")
  /\ \/ /\ mark_read_batch(call[c].rows)
        /\ call' = [call EXCEPT ![c] = [@ EXCEPT !.rows = {},
                      !.pc = IF call[c].turn THEN "take" ELSE Interrupted(c)]]
        /\ UNCHANGED faults
     \/ Fault("mailbox") /\ Return(c) /\ UNCHANGED mail
  /\ UNCHANGED <<workVars, permit>> /\ Quiet

\* Only a request that knew the turn claims its metadata.
TakeMetadata(c) ==
  /\ In(c, "take")
  /\ \/ take_interrupt_metadata(call[c].op)
     \/ call[c].op \notin interrupted /\ UNCHANGED workVars
  /\ Step(c, Interrupted(c))
  /\ UNCHANGED <<mail, permit, faults>> /\ Quiet

DiscardQueued(c) ==
  LET s == call[c].slot IN
  /\ In(c, "discard")
  /\ discard_queued_except(s, call[c].msg)
  /\ call' = [call EXCEPT ![c] = [@ EXCEPT !.pc = "settleDiscarded",
                !.rows = {info[i].msg : i \in Discarded(s, call[c].msg)} \ {NoMsg}]]
  /\ UNCHANGED <<mail, permit, faults>> /\ Quiet

SettleDiscarded(c) ==
  /\ In(c, "settleDiscarded")
  /\ \/ /\ mark_read_batch(call[c].rows)
        /\ call' = [call EXCEPT ![c] = [@ EXCEPT !.pc = "notify", !.rows = {}]]
        /\ UNCHANGED faults
     \/ call[c].rows # {} /\ Fault("mailbox") /\ Return(c) /\ UNCHANGED mail
  /\ UNCHANGED <<workVars, permit>> /\ Quiet

InterruptStep(c) ==
  \/ CheckActive(c) \/ StopTurn(c) \/ BreakBatch(c) \/ SettleInterrupted(c)
  \/ TakeMetadata(c) \/ DiscardQueued(c) \/ SettleDiscarded(c)
-----------------------------------------------------------------------------
(* cancel_run, pause_slot_work and cancel_child_turn.                      *)

\* Mutant: the rows of every run are settled.
CancelEveryRow(c) ==
  /\ In(c, "cancelRun")
  /\ \E r \in Runs :
       /\ cancel_run(r)
       /\ call' = [call EXCEPT ![c] = [@ EXCEPT !.pc = "settleRun",
            !.rows = {info[i].msg : i \in {j \in IntentIds : ist[j] \in Live}} \ {NoMsg}]]
  /\ UNCHANGED <<mail, permit, faults>> /\ Quiet

CancelRun(c) ==
  /\ In(c, "cancelRun")
  /\ \E r \in Runs :
       /\ cancel_run(r)
       /\ call' = [call EXCEPT ![c] = [@ EXCEPT !.pc = "settleRun",
            !.rows = {info[i].msg : i \in {j \in OfRun(r) : ist[j] \in Live}} \ {NoMsg}]]
  /\ UNCHANGED <<mail, permit, faults>> /\ Quiet

\* The rows are marked read; then the running turns are told to stop.
SettleRun(c) ==
  /\ In(c, "settleRun")
  /\ \/ mark_read_batch(call[c].rows) /\ UNCHANGED faults
     \/ call[c].rows # {} /\ Fault("mailbox") /\ UNCHANGED mail
  /\ Return(c)
  /\ UNCHANGED <<workVars, permit>> /\ Quiet

\* Mutant: a turn that has started is left alone.
TargetUnstarted(c) ==
  LET s == call[c].slot IN
  IF active[s].op = 0 \/ active[s].turn THEN Return(c)
  ELSE call' = [call EXCEPT ![c] = [@ EXCEPT !.op = active[s].op, !.intents = active[s].intents,
                                  !.pc = "dropChild"]]

Target(c) ==
  LET s == call[c].slot IN
  IF active[s].op = 0 THEN Return(c)
  ELSE call' = [call EXCEPT ![c] = [@ EXCEPT !.op = active[s].op, !.intents = active[s].intents,
                  !.pc = IF active[s].turn THEN "stopChild" ELSE "dropChild"]]

PauseSlot(c) ==
  /\ In(c, "pause")
  /\ pause_slot(call[c].slot)
  /\ Target(c)
  /\ UNCHANGED <<mail, permit, faults>> /\ Quiet

PickTurn(c) ==
  /\ In(c, "cancelTurn")
  /\ Target(c)
  /\ UNCHANGED <<workVars, mail, permit, faults>> /\ Quiet

StopChild(c) ==
  /\ In(c, "stopChild")
  /\ \/ Step(c, "dropChild") /\ UNCHANGED faults
     \/ Fault("cancel") /\ Return(c)
  /\ UNCHANGED <<workVars, mail, permit>> /\ Quiet

\* The batch is cancelled; the lead hears of a teammate's interruption.
DropChild(c) ==
  LET s == call[c].slot IN
  /\ In(c, "dropChild")
  /\ cancel_batch(Held(c)) \/ (~is_current_batch(Held(c)) /\ UNCHANGED workVars)
  /\ IF Lead \in Slots \ {s}
       THEN call' = [call EXCEPT ![c] = [NoCall EXCEPT !.pc = "noticeRow", !.slot = Lead,
                                         !.from = s, !.kind = "interrupted"]]
       ELSE Return(c)
  /\ UNCHANGED <<mail, permit, faults>> /\ Quiet

CancelStep(c) ==
  CancelRun(c) \/ SettleRun(c) \/ PauseSlot(c) \/ PickTurn(c) \/ StopChild(c) \/ DropChild(c)
-----------------------------------------------------------------------------
(* Notices to the lead: the row is written first, then the newest unread   *)
(* row of its sender is enqueued (wake_leader_after_recovery_message).     *)

NoticeRow(c) ==
  /\ In(c, "noticeRow")
  /\ \/ \E m \in Msgs : write(m, Lead, call[c].from) /\ Step(c, "noticeFind") /\ UNCHANGED faults
     \/ Fault("mailbox") /\ Return(c) /\ UNCHANGED mail
  /\ UNCHANGED <<workVars, permit>> /\ Quiet

NoticeFind(c) ==
  LET rows == {m \in peek_unread(Lead) : mail[m].from = call[c].from} IN
  /\ In(c, "noticeFind")
  /\ \/ /\ IF rows = {} THEN Return(c)
           ELSE call' = [call EXCEPT ![c] = [@ EXCEPT !.pc = "publish", !.msg = Max(rows)]]
        /\ UNCHANGED faults
     \/ Fault("mailbox") /\ Return(c)
  /\ UNCHANGED <<workVars, mail, permit>> /\ Quiet

\* try_start_recovery_drain: once in a session, one enqueue for each row found
\* unread.
ScanUnread(c) ==
  /\ In(c, "scan")
  /\ recovered' = TRUE
  /\ \/ /\ IF recovered \/ peek_unread(Lead) = {} THEN Return(c)
           ELSE call' = [call EXCEPT ![c] = [@ EXCEPT !.pc = "nextRow", !.rows = peek_unread(Lead)]]
        /\ UNCHANGED faults
     \/ ~recovered /\ Fault("mailbox") /\ Return(c)
  /\ UNCHANGED <<workVars, mail, runtime, loop, permit, status, delivered, attach, refused>>

NextRow(c) ==
  LET m == Min(call[c].rows) IN
  /\ In(c, "nextRow")
  /\ call' = [call EXCEPT ![c] = [@ EXCEPT !.pc = "publish", !.msg = m,
                                  !.rows = call[c].rows \ {m}]]
  /\ UNCHANGED <<workVars, mail, permit, faults>> /\ Quiet

NoticeStep(c) == NoticeRow(c) \/ NoticeFind(c) \/ ScanUnread(c) \/ NextRow(c)
-----------------------------------------------------------------------------
(* team_read_messages of the agent whose turn is running.                  *)

\* Mutant: reading the inbox marks what it shows as read.
PeekDestructively(c) ==
  /\ In(c, "inbox")
  /\ mark_read_batch(peek_unread(call[c].slot))
  /\ Return(c)
  /\ UNCHANGED <<workVars, permit, faults>> /\ Quiet

\* A page starts after a cursor and is cut at a limit, and a row whose text was
\* cut short is shown but not acknowledged.
PeekInbox(c) ==
  /\ In(c, "inbox")
  /\ \/ /\ \E page \in SUBSET peek_unread(call[c].slot) :
             call' = [call EXCEPT ![c] = [@ EXCEPT !.pc = "observe", !.rows = page]]
        /\ UNCHANGED faults
     \/ Fault("mailbox") /\ Return(c)
  /\ UNCHANGED <<workVars, mail, permit>> /\ Quiet

Observe(c) ==
  /\ In(c, "observe")
  /\ \/ observe_messages(call[c].slot, call[c].op, call[c].rows)
     \/ active[call[c].slot].op # call[c].op /\ UNCHANGED workVars
  /\ Return(c)
  /\ UNCHANGED <<mail, permit, faults>> /\ Quiet

ObserveStep(c) == PeekInbox(c) \/ Observe(c)
-----------------------------------------------------------------------------
(* What the event loop asks of the session.                                *)

\* A loop calls notify_leader_delivery_exhausted, or enqueues a settle signal,
\* and waits for it.
CallFrom(s, kind, pc) ==
  call' = [call EXCEPT ![s] = [NoCall EXCEPT !.pc = pc, !.kind = kind, !.slot = Lead,
                               !.from = s]]

TellLead(s) ==
  LET start == At(s, "tellStart") IN
  /\ At(s, "tellStart") \/ At(s, "tellTurn")
  /\ IF Lead \in Slots \ {s}
       THEN CallFrom(s, "exhausted", "noticeRow")
       ELSE call' = [call EXCEPT ![s].pc = "done"]
  /\ Goto(s, IF start THEN "tellingEnd" ELSE "telling")
  /\ UNCHANGED <<workVars, mail, runtime, permit, status, faults, delivered, attach, recovered, refused>>

ToldLead(s) ==
  /\ At(s, "telling") \/ At(s, "tellingEnd")
  /\ In(s, "done")
  /\ call' = [call EXCEPT ![s] = NoCall]
  /\ AfterFailure(s, At(s, "tellingEnd"))
  /\ UNCHANGED <<workVars, mail, runtime, permit, faults, delivered, attach, recovered, refused>>

\* finalize_turn of the scheduler: the slot is idle, its lead gets an idle row
\* and, when everybody is settled and the lead idle, a settle signal.
FinishTurn(s) ==
  /\ At(s, "finish")
  /\ SetStatus(s, "Idle")
  /\ IF Lead \in Slots \ {s} THEN Leave(s, "idleRow") ELSE Leave(s, "prepare")
  /\ UNCHANGED <<workVars, mail, runtime, permit, faults, delivered, call, attach, recovered, refused>>

IdleRow(s) ==
  /\ At(s, "idleRow")
  /\ \/ \E m \in Msgs : write(m, Lead, s) /\ Goto(s, "wakeLead") /\ UNCHANGED faults
     \/ Fault("mailbox") /\ Goto(s, "prepare") /\ UNCHANGED mail
  /\ UNCHANGED <<workVars, runtime, permit, status, delivered, call, attach, recovered, refused>>

\* Mutant: a teammate that goes idle wakes nobody.
WakeNobody(s) ==
  /\ At(s, "wakeLead")
  /\ Goto(s, "prepare")
  /\ UNCHANGED <<workVars, mail, runtime, permit, status, faults, delivered, call, attach, recovered, refused>>

maybe_wake_leader_when_all_idle(s) ==
  /\ At(s, "wakeLead")
  /\ IF status[Lead] = "Idle" /\ \A t \in Slots \ {Lead} : status[t] # "Working"
       THEN CallFrom(s, "signal", "publish") /\ Goto(s, "waking")
       ELSE UNCHANGED call /\ Goto(s, "prepare")
  /\ UNCHANGED <<workVars, mail, runtime, permit, status, faults, delivered, attach, recovered, refused>>

LeadWoken(s) ==
  /\ At(s, "waking")
  /\ In(s, "done")
  /\ call' = [call EXCEPT ![s] = NoCall]
  /\ Goto(s, "prepare")
  /\ UNCHANGED <<workVars, mail, runtime, permit, status, faults, delivered, attach, recovered, refused>>

FinalizeStep(s) ==
  \/ TellLead(s) \/ ToldLead(s) \/ FinishTurn(s) \/ IdleRow(s)
  \/ maybe_wake_leader_when_all_idle(s) \/ LeadWoken(s)
-----------------------------------------------------------------------------
(* attach_member_runtime: register the loop, commit the runtime, publish   *)
(* the constraint, notify.                                                 *)

SpawnLoop(s) ==
  /\ attach[s] = "spawn"
  /\ attach' = [attach EXCEPT ![s] = "commit"]
  /\ loop' = [loop EXCEPT ![s].pc = "wait"]
  /\ UNCHANGED <<workVars, mail, runtime, permit, status, faults, delivered, call, recovered, refused>>

CommitReady(s) ==
  /\ attach[s] = "commit"
  /\ attach' = [attach EXCEPT ![s] = "publish"]
  /\ runtime' = [runtime EXCEPT ![s] = "Ready"]
  /\ UNCHANGED <<workVars, mail, loop, permit, status, faults, delivered, call, recovered, refused>>

\* The attachment publishes and notifies, and the task that waited for it does
\* both once more.
PublishReady(s) ==
  /\ attach[s] \in {"publish", "republish"}
  /\ attach' = [attach EXCEPT ![s] = IF @ = "publish" THEN "notify" ELSE "renotify"]
  /\ set_runtime_constraint(s, [kind |-> "Ready", op |-> 0])
  /\ UNCHANGED <<loopVars, call, recovered, refused>>

AfterNotify == [notify |-> "republish", renotify |-> "done"]

\* Mutant: nobody wakes the loop of a member that was just attached.
AttachedUnnotified(s) ==
  /\ attach[s] \in {"notify", "renotify"}
  /\ attach' = [attach EXCEPT ![s] = AfterNotify[@]]
  /\ UNCHANGED <<workVars, loopVars, call, recovered, refused>>

NotifyAttached(s) ==
  /\ attach[s] \in {"notify", "renotify"}
  /\ attach' = [attach EXCEPT ![s] = AfterNotify[@]]
  /\ Notify(s)
  /\ UNCHANGED <<workVars, mail, runtime, loop, status, faults, delivered, call, recovered, refused>>

AttachStep(s) == SpawnLoop(s) \/ CommitReady(s) \/ PublishReady(s) \/ NotifyAttached(s)
-----------------------------------------------------------------------------
\* Where the handler of a kind of request starts.
Entry(kind, s) ==
  CASE kind \in {"user", "command", "agent"} \cup Interrupts /\ Dormant(s) -> "ensure"
    [] kind \in Sends \cup Interrupts -> "publish"
    [] kind = "recover"    -> "scan"
    [] kind = "run"        -> "cancelRun"
    [] kind = "read"       -> "inbox"
    [] OTHER               -> kind

\* A request may be made of a slot: the lead is never interrupted nor shut
\* down, only the lead recovers, and an agent reads its inbox in its turn.
May(kind, s) ==
  /\ kind \in Interrupts \cup {"shutdown"} => s # Lead
  /\ kind = "recover" => s = Lead
  /\ kind = "read" => At(s, "run") /\ active[s].op # 0

Begin(c) ==
  /\ In(c, "idle")
  /\ \E kind \in Requests, s \in Slots :
       /\ May(kind, s)
       /\ call' = [call EXCEPT ![c] = [NoCall EXCEPT !.pc = Entry(kind, s), !.kind = kind, !.slot = s,
                                       !.op = IF kind = "read" THEN active[s].op ELSE 0]]
  /\ UNCHANGED <<workVars, mail, permit, faults>> /\ Quiet

CallStep(c) ==
  EnqueueStep(c) \/ InterruptStep(c) \/ CancelStep(c) \/ NoticeStep(c) \/ ObserveStep(c)

Loop(s) == (LoopStep(s) /\ UNCHANGED <<call, attach, recovered, refused>>) \/ FinalizeStep(s)

StartFails(s) == TurnNotStarted(s) /\ UNCHANGED <<call, attach, recovered, refused>>

Init ==
  /\ WorkInit(Warm)
  /\ LoopInit(Warm, Notified)
  /\ MailInit(Restored, CHOOSE s \in Slots : s = Lead \/ Lead \notin Slots, User)
  /\ call = [c \in Procs |-> NoCall]
  /\ attach = [s \in Slots |-> "none"]
  /\ recovered = FALSE
  /\ refused = {}

Next ==
  \/ \E c \in Callers : Begin(c)
  \/ \E c \in Procs : CallStep(c)
  \/ \E s \in Slots : Loop(s) \/ StartFails(s) \/ AttachStep(s)

Spec == Init /\ [][Next]_sessionVars

\* Tasks that can run do run, and an agent turn ends; requests need not be
\* made and failures need not happen.
Fairness ==
  /\ \A s \in Slots : WF_sessionVars(Loop(s)) /\ WF_sessionVars(AttachStep(s))
  /\ \A c \in Procs : WF_sessionVars(CallStep(c))

FairSpec == Spec /\ Fairness
-----------------------------------------------------------------------------
CallPcs ==
  {"idle", "done", "ensure", "publish", "setStarting", "look", "acquire", "write",
   "commit", "abort", "compensate", "notify", "check", "stop", "break", "settle", "take",
   "discard", "settleDiscarded", "cancelRun", "settleRun", "pause", "cancelTurn", "stopChild",
   "dropChild", "noticeRow", "noticeFind", "scan", "nextRow", "inbox", "observe"}

CallKinds ==
  Sends \cup Interrupts \cup Cancels \cup
  {"none", "run", "recover", "read", "exhausted", "interrupted", "signal"}

CallState == [pc : CallPcs, kind : CallKinds, slot : Slots, from : Slots \cup {User},
              msg : Msgs \cup {NoMsg}, op : Nat, intents : SUBSET IntentIds,
              turn : BOOLEAN, rows : SUBSET Msgs]

TypeOK ==
  /\ WorkTypeOK
  /\ LoopTypeOK
  /\ call \in [Procs -> CallState]
  /\ attach \in [Slots -> {"none", "spawn", "commit", "publish", "notify", "republish", "renotify", "done"}]
  /\ recovered \in BOOLEAN
  /\ refused \subseteq Msgs

InTurn(s) == loop[s].pc \in {"turn", "late", "drop", "run"}

(* A row that an agent turn acknowledged is not handed to a turn again,    *)
(* whichever intents still stand for it, unless a mailbox call failed:     *)
(* the reread of prepare_next_batch catches the copy that mailbox          *)
(* reconciliation adopted while the sender was between its mailbox write   *)
(* and its commit.                                                         *)
NoRedelivery ==
  \A s \in Slots :
    InTurn(s) => \/ BatchMsgs(Batch(s)) \cap delivered = {}
                 \/ "mailbox" \in Faults /\ faults > 0

Ended(m, st) == {i \in IntentIds : info[i].msg = m /\ ist[i] = st}

(* No message is lost in silence.  A row is marked read only once an agent *)
(* turn acknowledged it, its rejection was reported, a request cancelled   *)
(* work that stood for it, or its delivery failed                          *)
(* MAX_MESSAGE_DELIVERY_FAILURES times.                                    *)
NoSilentLoss ==
  \A m \in Msgs :
    WasRead(m) /\ m \notin delivered
      => \/ m \in refused
         \/ Ended(m, "Cancelled") # {}
         \/ Cardinality(Ended(m, "Failed")) >= MaxDeliveryFailures

\* Where an event loop has handed its rows to a turn whose result is not known.
Turning == {"turn", "late", "drop", "run", "err", "won", "lost", "complete", "failStart", "failTurn"}

\* What Delivery sees of the session.
Box == [s \in Slots |-> {m \in Msgs : mail[m].st # "unwritten" /\ mail[m].to = s}]

Hand == [s \in Slots |-> IF loop[s].pc \in Turning THEN BatchMsgs(Batch(s)) ELSE {}]

CancelledRows == {m \in Msgs : Ended(m, "Cancelled") # {}}

ExhaustedRows == {m \in Msgs : Cardinality(Ended(m, "Failed")) >= MaxDeliveryFailures}

SettledRows == {m \in Msgs : WasRead(m)}

Promised == INSTANCE Delivery WITH
  box <- Box, hand <- Hand, acknowledged <- delivered, reported <- refused,
  cancelled <- CancelledRows, exhausted <- ExhaustedRows, settled <- SettledRows,
  unsure <- "mailbox" \in Faults /\ faults > 0

(* The session implements Delivery, step by step: rows stay where they     *)
(* were sent and turns keep what they were handed, a settled row is never  *)
(* handed to a turn, only a turn that holds its rows acknowledges or fails *)
(* them, and no outcome and no settlement is taken back.                   *)
DeliversAsPromised == Promised!Spec

Pausing(s) == \E c \in Procs : call[c].kind = "pause" /\ call[c].slot = s

(* Once pause_slot_work has answered, no turn owns the paused slot until   *)
(* it is resumed, wherever the pause fell between the claim, the start and *)
(* the end of a turn (unless the cancellation itself failed).              *)
PauseHolds ==
  \A s \in Slots :
    paused[s] /\ ~Pausing(s) /\ faults = 0 => ~(At(s, "run") /\ is_current_batch(Batch(s)))

(* Every row is eventually settled, or waits for the user to resume the    *)
(* paused slot: no wakeup is lost between the write, the commit, the       *)
(* attachment of the member and the loop going to sleep.                   *)
EveryRowSettles ==
  \A m \in Msgs : mail[m].st = "unread" ~> (WasRead(m) \/ paused[mail[m].to])

(* discard_queued_except: Control-lane work is exempt because "dropping a  *)
(* queued shutdown request would strand that handshake forever with no     *)
(* retry path".  A committed shutdown request that was not interrupted is  *)
(* consumed only by a turn that succeeded on it.                           *)
ShutdownSurvivesDiscard ==
  \A i \in IntentIds :
    /\ ist[i] \in {"Completed", "Failed"}
    /\ info[i].source = "McpShutdownRequest"
    /\ WasRead(info[i].msg)
    => info[i].msg \in delivered

(* finalize_failed_delivery: "the lead has to hear about it or it will     *)
(* wait on a teammate forever".                                            *)
LeadHearsOfExhaustion ==
  \A m \in Msgs :
    (mail[m].st = "unread" /\ mail[m].from \in Slots /\ paused[mail[m].from]) ~> WasRead(m)
=============================================================================
