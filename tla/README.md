# Ki-Core: a TLA+ model of work delivery and conversation turns

Ki-Core (`crates/aionui-*`) is the Rust backend of a desktop application in which
several coding agents work as a *team*: a lead and its teammates talk to each
other and to the user through a mailbox, and each of them runs one agent turn at a
time. Below the team, every agent is a *conversation* with at most one turn at a
time, and conversations can send each other messages. This project models the parts
of the backend where work can be lost, repeated, reordered or forgotten: the team
crate's slot work coordinator, its event loops, its mailbox, the session requests
that drive them and the runs they belong to; the turns of a conversation with
their cancellation, restart and deletion; and the queue of messages between
conversations. TLC checks the models on small instances; TLAPS proves every safety
property the passing runs check, of the coordinator, of the session around it, of the
runs, of the turns and of the message queue, for every value of the constants.

## 1. The system

### Components, state and operations

| Component (crate `aionui-team` unless named) | State | Operations |
|---|---|---|
| Work coordinator, `work_coordinator/` | per slot: four priority lanes of intent ids, one active batch, runtime constraint, pause and removal flags, delivery failure counts; per team: intents, enqueue leases, interrupt metadata, operation ids | `acquire_enqueue`, `commit_enqueue`, `abort_enqueue`, `reconcile_mailbox_snapshot`, `next`, `mark_started`, `retry_start`, `complete_batch_with_ack`, `fail_batch`, `cancel_batch`, `interrupt_batch`, `discard_queued_except`, `pause_slot`, `cancel_run`, `set_runtime_constraint`, restart gate, `remove_slot`, `stop` |
| Event loop, `event_loop.rs` | one task per slot: a `Notify` permit and the batch it executes | prepare, reconcile, claim, reread, execute, acknowledge, fail, finalize |
| Mailbox, `mailbox.rs` + `aionui-db` | rows with a recipient, a sender and a read flag | `write`, `peek_unread`, `mark_read_batch` |
| Session, `session.rs` | the above, the recovery flag | user and agent messages, slash commands, shutdown requests, interrupts, run cancellation, pause, cancellation of a turn, notices to the lead, recovery drain, lazy attachment |
| Scheduler, `scheduler/` | a status per slot | `set_status`, `finalize_turn`, waking the lead |
| Run manager, `team_run/` | the run on record and its status | bind an enqueue, drop an empty run, `begin_cancel`, `apply_work_summary` |
| Member runtime registry, `member_runtime.rs` | attach leases, waiters, operation ids | attach, fail, remove (*summarised as Absent, Attaching, Ready*) |
| Conversation turn runtime, `aionui-conversation` | per conversation: the claimed turn, deleting, cancelling and restarting marks, a deferred cancel | `try_claim_turn`, `release`, `mark_cancelling`, `defer_cancel`, `take_deferred_cancel`, `begin_restart`, `clear_turn_state_for_restart`, `mark_deleting` |
| Conversation service and orchestrator, `aionui-conversation` | the requests and turns in progress, the row in the database | `send_message`, `run_user_turn` with one replay, `cancel_with_cause` with its watchdog, `restart_runtime`, `delete` |
| Agent task manager, `aionui-ai-agent` | a map of slots, each a `OnceCell` for an agent | `get_task`, `get_or_build_task`, `kill`, `kill_and_wait` (*the idle scanner is not modelled*) |
| Cross-session messages, `aionui-session-message` | a bounded queue per target, a total count, sliding windows of the rate limiter | `send`, `push`, `drop_expired`, `snapshot_heads`, `remove_head`, `clear_for`, `check_and_record`, `tick_once`, `on_turn_cancelled` |
| Cron, `aionui-cron` | jobs, occurrence claims with leases | (*not modelled yet*) |
| Channels, realtime, processes, runtimes, auth, projects, files, office, MCP, extensions, assistants, sidebar, system, shell, db | mostly I/O, CRUD and configuration | not modelled, reasons in `PROJECT.json` |

### How they interact

A request (an HTTP or MCP handler) makes sure that the member is attached,
publishes the member's runtime constraint to the coordinator, acquires an enqueue
lease, writes the mailbox row, commits the lease as an *intent*, and notifies the
slot's event loop. The loop wakes, publishes the constraint again, compares the
unread rows with the intents the coordinator knows (rows without an intent are
adopted as `RecoveryDrain` work), claims a batch from the highest lane, reads its
rows again, runs the agent turn and settles the batch: complete and mark read, or
fail and count, or nothing when somebody else cancelled it meanwhile.

The coordinator is one mutex; the mailbox is a database; everything between them
is an `await`. So the state a task read may be stale when it acts on it, and the
*same row* may be represented by two intents (its sender's and an adopted one).
What keeps this correct is a small set of devices, each of which a property below
is about: operation ids on batches, the reread after the claim, notification
permits, the rule of which intents may be adopted, and compensation of rows whose
commit was rejected.

The run manager has a mutex of its own. An enqueue binds to a run while the
coordinator's lock is held; every other operation computes summaries of the runs it
touched under that lock and applies them to the manager after it was released.

A conversation's turn is claimed in the runtime state, its agent is built or found in
the task map, the prompt is sent, and the claim is released at the end. Each of these
takes a lock for one access only. A cancel request looks up the row, compares the turn id,
looks for the agent, and marks the conversation or defers the cancel, each in a step of its own; a
restart and a deletion remove the agent from the map while the old turn is still on
its way out. A message from another conversation goes the way of a user's message,
and into the queue if the target is busy; a single drainer retries the heads.

### What is hard

Interleavings of event loop, requests and attachment at every await; a batch that
is interrupted, cancelled, paused or given back while its owner waits for the
agent; a failing mailbox or cancellation call in the middle of a request; wakeups
that arrive between the loop's last look and its wait; order within a lane after
repeated give-backs; the failure counter's limit; summaries of a run that overtake
each other; a cancel that crosses with the end, the build or the replay of its turn; an
agent that is ready after its slot was removed; a queue that is cleared while the
drainer works on a copy of its head. `PROJECT.json` lists them under
"hazards", each at its line, with the properties that would catch it going wrong.

## 2. Modules

| Module | Models | Composition |
|---|---|---|
| `WorkSource` | `work_source.rs`: the lane, barrier and wake-policy of a work source | constants only |
| `SlotWork` | `coordinator.rs`, `model.rs`: the coordinator's state and one action per operation; `WorkOwnership`, `BarrierIsAlone`, `NoOvertaking`, `TerminalIsFinal`, `CancelRunIsExact` | extends `WorkSource` |
| `SlotWorkCallers` | the coordinator under callers that are held to nothing: any call, any time, with any batch or gate ever handed out | extends `SlotWork` |
| `Mailbox` | `mailbox.rs`: one action per SQL statement | — |
| `EventLoop` | `event_loop.rs` and `prepare_next_batch`: one process per slot | extends `SlotWork`, instantiates `Mailbox` |
| `TeamSession` | `session.rs` and `scheduler/state.rs`: one process per request, and the attachment of a member | extends `EventLoop`, instantiates `Delivery` (`Promised`) |
| `Delivery` | no part of the code: what the team promises about its messages, in one atomic step per outcome | — |
| `MCTeamSession` | symmetry of requests | extends `TeamSession` |
| `TeamRun` | `team_run/manager.rs`, `snapshot.rs`: the run record, and tasks that have summaries to deliver | extends `SlotWork` |
| `MCTeamRun` | symmetry of tasks and runs | extends `TeamRun` |
| `SessionMessages` | `aionui-session-message`: queue, rate limiter, requests, drainer, cancel hook, clock | — |
| `MCSessionMessages` | symmetry of targets | extends `SessionMessages` |
| `ConversationTurns` | `runtime_state.rs`, `turn_orchestrator.rs`, `task_manager.rs` and the send, cancel, restart and delete requests of `service.rs`, for one conversation | — |
| `SlotWorkSteps`, `SlotWorkProofs`, `SlotWorkOrder` | proofs about the coordinator (section 5) | extend `SlotWork`, then `SlotWorkCallers` |
| `TeamRunProofs` | proofs about runs | extends `TeamRun` and `SlotWorkSteps` |
| `TeamSessionProofs` | proofs about the session: requests, loops, mailbox and coordinator together; that the session implements `Delivery` | extends `TeamSession` and `SlotWorkSteps` |
| `SessionMessagesProofs`, `ConversationTurnsProofs` | proofs about the queue and about turns | extend the module they are named after |
| `IntegerBounds` | facts about finite sets of integers and intervals the proofs share | — |

### How state and actions correspond to the code

*Coordinator.* An intent is an id with a state (`ist`: Unborn, Queued, Starting,
Running, Completed, Failed, Cancelled) and a payload (`info`: slot, source, row,
run). A lane is a `VecDeque` in the code; here it is a *set* of ids (`queue`) with an
integer `rank` per id, so that `push_back` takes a rank above and `push_front` a rank
below all others. This keeps every order the deque can have and lets the proofs
reason about sets. Operation ids come from a counter as in the code; id 0 stands
for `active: None`. A failure count is a byte with saturating addition.

*Callers.* `SlotWorkCallers` keeps the batches and gates ever handed out in `held`
and `gates`, and lets anybody use any of them at any time. Whatever holds there
holds for every interleaving of loops, requests and tools.

*Event loop.* A program counter per slot; each step is one critical section of the
coordinator, one mailbox statement or one step of the registry. `permit` is tokio's
`Notify`: a notification of a loop that is not waiting is kept, once. The step `Rest`
separates the decision to stop draining from the wait, which is where a wakeup
could be lost. The agent turn itself is external: it succeeds, reports failure or
returns an error.

*Session.* Each request is a process with a program counter (`call`), what it holds of
a snapshot, and the rows it is going to settle. Requests the event loop makes
itself (the exhaustion notice, the settle signal) are processes named by the slot.
`delivered` and `refused` are history: rows that a turn acknowledged, and rows whose
enqueue was rejected, which whoever sent them was told (a request that answers with the
error, or the loop that gave notice to the lead).

*Runs.* `run` is the manager's record, `task[t]` what a thread inside a call has still
to tell it: a run to drop, and summaries. A summary keeps what the manager asks of its
counts: has something failed, is something running, is there any work or lease.
`overtaken` and `silent` are history: runs that changed while a summary of them was on
its way, and runs that changed without being published (a discard publishes none).

*Cross-session messages.* Clock readings are distances: `ttl` of a queued message, `age` of
an admitted one, both moved by `Tick`. `req` is the request of each message between its
awaits; `drainer` has the heads it copied (`todo`) and the one it works on (`cur`). What
the conversation service answers (delivered, busy or restarting, refused) and whether
the user has the feature switched on is arbitrary at every call. The rate limiter's clock
reading is up to `MaxLag` ticks old when the lock of its windows is taken
(`rate_limit.rs:61`, `:63`), so it may retain what a fresh reading would drop. `crossed` is history:
targets that were cleared since the drainer copied their head.

*Conversation turns.* A turn and the restart are processes with a program counter
(`proc`); one step is one access to the runtime state, the task map or the database. A
cell of the task map is Vacant, Building, Ready or Dead and outlives its removal from
the map. `doomed` are the cells a `kill_and_wait` still waits for. The agent may accept
or refuse a cancel, and a turn of a live agent may go on for ever. A cancel (`cancel`) reads
the row, which may fail, compares the turn id, gets the task, and then defers or marks and
asks the agent, in one step each. If the agent accepts and the cancel is in `Watched`
(empty if the agent is of another type than `service.rs:4453` names), a watchdog of that cancel's own starts (`watch`): its look at the claim,
its look at the mark and its kill are three steps. A restart reads the row, looks up the
task, sets its gate (`begin_restart`), and makes a cancel of its own, which reads the row again and
aborts the restart if that fails or the agent refuses. History: `asked`
(turns somebody cancelled), `late` (a mark set after its turn was over), `missed` (a
cancel deferred after the turn had looked), `torn` (cells removed before their agent
was there, which nobody will kill).

### Abstractions

Message texts, projections, broadcasts, logs and prompts are left out. Which run an
enqueue binds to is a choice, and a request to cancel or pause is not tied to the
run that is active. `Lead` may lie outside `Slots`: then the lead's own mailbox is
not tracked, as in the single-slot runs. The clearing of counts and intents that
only bounds memory is kept where it changes a decision. Left out of the session
model: an attachment that fails, removal of a member, stopping a session, runtime
restarts, the MCP refresh and the tool-transport lookup after a claim. Left out of
the conversation model: messages delivered into a running turn, turns an agent starts
by itself, continuations, shutdown, the idle scanner, and a rebuild because the
required capabilities changed. In the run only the user's cancel is `Watched`: the watchdog of a
restart's cancel, which comes after the restart's own kill, is left out. The same instance with both
watched (1.6 million states) holds too but takes several times as long; with no watchdog there are fewer
behaviours and `CancelDrains` says nothing. The proofs hold for every `Watched`.
In the message queue, the clock readings of `push`'s caller (`service.rs:252`) and of
`drop_expired` (`queue.rs:125`) are taken in the step that uses them: a message expires by
the drainer's clock alone, and `ttl` runs from the push.

## 3. Properties

* `WorkOwnership` — a live intent is in exactly one place: its own lane while Queued,
  the active batch of its slot while Starting or Running; and the batch's phase,
  lane and intents agree.
* `HeldCopiesAgree` — a batch in the hands of a caller *is* the active batch of its
  slot, or carries another operation id; so the id alone decides ownership.
* `TerminalIsFinal` — no stale owner changes a finished intent.
* `BarrierIsAlone`, `NoOvertaking` — slash commands and lead interventions are claimed
  alone; nothing but a lead intervention is claimed before older work of its lane.
* `CancelRunIsExact` — cancelling a run ends its live intents and its outstanding
  leases and nothing else; what shared a batch goes back to its lane.
* `NoRedelivery` — a row that a turn acknowledged is not handed to a turn again, unless
  a mailbox call failed.
* `NoSilentLoss` — a row is marked read only if a turn acknowledged it, its sender was
  told of an error, work that stood for it was cancelled, or it failed three times.
* `DeliversAsPromised` — the session implements `Delivery`, which knows nothing of
  intents, lanes, batches, leases, requests or notices: rows are sent, handed to turns, acknowledged,
  missed, cancelled, reported and settled. A turn is handed rows of its slot that are not
  settled and keeps them until it ends; only a turn that still holds its rows
  acknowledges or fails them; a row is settled after it has an outcome; nothing is taken back.
* `PauseHolds` — once a pause has answered, no turn owns the slot.
* `EveryRowSettles` — every unread row is eventually read, or its slot is paused.
* `RunAgreesWithWork` — once the manager was told of everything in order, a run is open on
  record exactly while it has work or an outstanding enqueue and nothing of it failed.
* `EndedRunStaysEnded` — a run that is over is not opened again while its summaries
  arrive in order.
* `HeldCopyIsHead`, `OnlySettledLeave` — the drainer removes the message it tried; a
  queued message leaves only by being tried, by expiry, by a user's stop or by the
  switch. Both except targets that were cleared after the drainer copied their head.
* `DeliveredOnce`, `CountAgrees`, `RateHolds`, `NoLostWakeup` — no message starts two turns;
  none is queued twice and the count is the number of queued messages; at no time has a sender more sends recorded
  within the last window, or to one target, than the limits say, however late the limiter was entered; the
  drainer does not wait with messages queued.
* `ClaimHasOwner` — a claimed turn is on its way to release its claim.
* `CancellingIsForActive`, `OnlyAskedStop` — a cancelling mark, a stopped turn and an
  unstored message belong to a turn that somebody asked to stop, unless a mark was set
  after its turn was over.
* `DeferredStops` — a turn to which a cancel was deferred does not send its prompt, in its
  first attempt or its replay, unless it had looked before.
* `RestartGate` — no turn is claimed from the end of the old agent to the new one.
* `NoOrphanAgent` — an agent that runs is in the task map or about to be killed, unless its
  slot was removed by a plain kill or before anybody had begun to build.
* `CancelDrains` — an accepted cancel leads to the end of its turn, unless a second cancel
  that failed took the mark away, the turn is a replay, or its agent is an orphan.

Each of these has a mutant in `PROJECT.json`: a plausible bug in a mapped definition under
which TLC finds it violated.

Some of them except a race that the code has (`crossed`, `overtaken`, `silent`, `late`, `missed`,
`torn`): without the exception they are false, as section 6 explains. A hazard that is such a
race is listed in `PROJECT.json` without a property.

## 4. Runs

| Run | Checks | Bounds, and why they are enough |
|---|---|---|
| `coordinator_lifecycle` | types, `WorkOwnership`, `HeldCopiesAgree`, `TerminalIsFinal` under every operation that ends or moves work | one slot, two intents, two operation ids, one lease at a time: a stale batch and a current one coexist, which is what staleness needs. The proofs remove the bounds |
| `coordinator_batches` | `BarrierIsAlone`, `NoOvertaking`, `CancelRunIsExact` | three intents of four sources, a run and no run, two claims: a barrier between two messages, a batch that is given back behind an intervention, a batch mixing the run with other work |
| `session_delivery` | types, `NoRedelivery`, `NoSilentLoss`, `EveryRowSettles`, `DeliversAsPromised` | two senders, three failing turns: one row can reach its limit while the other is still retried |
| `session_interrupt` | `NoSilentLoss`, `EveryRowSettles`, `DeliversAsPromised` | two requests out of message, command, interrupt with Retain or Discard, one failing start or cancellation |
| `session_cancel` | `NoRedelivery`, `NoSilentLoss`, `PauseHolds` | one row left by an earlier session, two requests out of message, run cancellation, pause, turn cancellation, inbox read, discarding interrupt; one failing cancellation or mailbox call |
| `session_notices` | `NoRedelivery`, `NoSilentLoss` | lead and teammate, two requests out of shutdown request, turn cancellation, recovery drain and inbox read, three rows (request, notice or idle row), one failing mailbox call |
| `session_settle` | `EveryRowSettles` | lead and a dormant teammate: lazy attachment, idle row, settle signal |
| `run_lifecycle` | types, `RunAgreesWithWork`, `EndedRunStaysEnded` | one slot, two runs, one lease at a time, two intents, two claims, two tasks that deliver summaries; all five bindings: a run ends while another is opened, an enqueue is aborted while another binds, an agent sends for a run that is over, a cancel crosses with the end of the work |
| `message_queue` | types and the six properties of the queue | one sender, two targets, three messages, limits of two: a full queue, an expiry and a clear during a delivery, a new head behind a stale copy; a pair limit of one, an outbound limit of two, a window of one tick and a lag of one: entries on both sides of the boundary, pruned by a fresh and by an old reading |
| `conversation_turns` | types and the seven properties of turns | two turns of which the first may be replayed, one cancel of the user, and either a restart (with a cancel of its own) or a deletion, and the watchdog of the user's cancel; four cells are enough for two attempts, a second turn and the restart, as cells nobody refers to stand for new ones: none of the reachable states lacks a cell that is asked for (checked as an invariant of that instance) |
| `shutdown_request_discarded`, `exhaustion_notice_starved` | violations, section 6 | the smallest instances that show them |

`MaxIntents` and `MaxOps` bound the model's counters. In the three liveness runs of the session no
reachable state uses them up (checked as an invariant of those instances), so that
they hide nothing there. In `session_cancel` and `session_notices` a row whose marking
failed, or a batch with two intents for one row, can be adopted or given back again
and again; there the bounds cut the repetition off.

In `ConversationTurns` `MaxRequests` allows one restart or deletion, and a request beyond
the bounds is not made. `given` and the clocks of `SessionMessages` are bounded by the
messages and by saturation, not by a guard.

The session configurations, and those of runs, messages and turns, turn the deadlock check off: when all requests were made
and answered and every loop waits, the system really has nothing to do. The
coordinator runs keep it on.

### Fairness

`FairSpec` assumes that a task that can run does run (tokio polls every ready task):
weak fairness of each event loop, of each attachment and of each request once it has
been made. The agent turn ends (it is part of the loop's fairness; the
conversation layer bounds it). Requests need not be made and faults need not
happen: `Begin` and a start that fails are not fair, and the other faults are
alternatives to an outcome that is always possible.

`ConversationTurns` assumes less (`Progress`): while the task of a turn can run, a watchdog's timer can
fire or its next step can be taken, or a kill that waits can go on, *one* of them does. This
includes that building an agent ends (one way or the other), and that a turn ends once its agent was
killed, because the relay sees the closed stream. Weak fairness of each of these tasks, which
tokio provides, implies it; as requests are bounded and no step is taken back, it is enough. Restarts,
requests, and the end of a live agent's turn, are not fair. The
watchdog does not fire while its turn is between claim and build (`Preparing`): these are
a few writes and lookups against a timer of fifteen seconds. `CancelDrains` speaks of the turn that
is claimed: a claim always ends in a state in which none is, so that this is what it says of each turn.

## 5. Proofs

Every theorem below holds for all values of the constants under the named assumptions,
which TLC evaluates in the runs.

| Module | Theorem | States |
|---|---|---|
| `SlotWorkProofs` | `TypeCorrect`, `OwnershipHolds`, `CopiesAgree` | `[]TypeOK`, `[]WorkOwnership`, `[]HeldCopiesAgree` |
| | `FinishedStaysFinished`, `CancelRunExact` | `TerminalIsFinal`, `CancelRunIsExact` |
| `SlotWorkOrder` | `BarriersAlone`, `ClaimsInOrder` | `[]BarrierIsAlone`, `[]NoOvertaking` |
| `TeamSessionProofs` | `TypeCorrect`, `NoRowTwice` | `[]TypeOK`, `[]NoRedelivery` |
| | `NothingLostInSilence`, `PausesHold` | `[]NoSilentLoss`, `[]PauseHolds` |
| | `KeepsPromises` | `DeliversAsPromised`: `TeamSession` implements `Delivery` |
| `TeamRunProofs` | `TypeCorrect`, `RunsAgree`, `EndedStaysEnded` | `[]TypeOK`, `[]RunAgreesWithWork`, `EndedRunStaysEnded` |
| `SessionMessagesProofs` | `TypeCorrect`, `CountIsExact`, `CopiesAreHeads` | `[]TypeOK`, `[]CountAgrees`, `[]HeldCopyIsHead` |
| | `AtMostOnce`, `RatesHold`, `WakeupsKept`, `LeavesSettled` | `[]DeliveredOnce`, `[]RateHolds`, `[]NoLostWakeup`, `OnlySettledLeave` |
| `ConversationTurnsProofs` | `TypeCorrect`, `ClaimsReleased`, `MarkIsForActive` | `[]TypeOK`, `[]ClaimHasOwner`, `[]CancellingIsForActive` |
| | `DeferredCancelStops`, `StopsWereAsked`, `RestartIsAlone`, `AgentsAreKnown` | `[]DeferredStops`, `[]OnlyAskedStop`, `[]RestartGate`, `[]NoOrphanAgent` |

Each module proves an inductive invariant first (`Invariance`, or `OrderInvariance`): the
initial states satisfy it and every action keeps it, one lemma per action. TLC checked
each of these invariants on an instance before it was proved.

*Coordinator.* The assumptions are `ConstantsAssumption` (slots exist, rows are naturals,
`NoMsg` and `NoRun` are no row and no run, the bounds are naturals) and
`CallersAssumption` (the sources and runtime operation ids are what the code has). The
invariant is

    Inv == TypeOK /\ WorkOwnership /\ HeldCopiesAgree /\ OpsInPast

`WorkOwnership` is not inductive by itself: `complete_batch_with_ack(b)` finishes the
intents of *b*, the caller's copy, while it clears the *slot's* batch. The two are the
same only because `is_current_batch` compares operation ids and `HeldCopiesAgree`
makes the id decide. `HeldCopiesAgree` in turn survives a new claim only because its
operation id is new: `OpsInPast` says that every id in use is at most the counter.
`SlotWorkSteps` has one lemma per operation (it restores types and ownership when
given a batch that is stale or current); `IntegerBounds` shows that a finite set of
ranks has a least and a greatest member (`push_front` needs a rank below the lane).

*Order of claims.* On top of that,

    OrderInv == UniqueRanks /\ NewRanksAreHighest /\ CommitOrder /\ BarrierIsAlone /\ NoOvertaking

`NoOvertaking` speaks of claimed and waiting work; a batch that is given back turns
the one into the other, so the order has to be kept within the batch too: `CommitOrder`
says that the work of runs is ranked in the order of its commits wherever it is, but
for lead interventions. `UniqueRanks` says that no two live intents of a *slot* share a rank;
for a lane alone it is not inductive, because a failed runtime deals the ranks of what it
keeps out anew across the lanes. `NewRanksAreHighest` lets `push_back` use the new id as
rank.

*Session.* Requests and loops work on what they read some awaits ago. With
`TeamSessionAssumption` and `EventLoopAssumption` (a lease is named after the request or loop that
holds it, no request has the name of a slot and the user is no slot; requests are of the kinds
modelled; an earlier session left finitely many rows),

    Inv == /\ TypeOK /\ WorkOwnership /\ WorkRows /\ CountsBacked /\ FiniteMail
           /\ \A c \in Procs : CallOK(c)
           /\ \A s \in Slots : LoopOK(s)
           /\ LeaseOK /\ LoopsAlone
           /\ DeliveredRead /\ NoRedelivery /\ SettledAccounted /\ PauseCancels

`CallOK` and `LoopOK` say what a process knows at each of its steps: its copy of a batch is the
active batch or stale for good (`Snapshot`), its rows are in the table and addressed to its
slot, and rows it is about to mark read are already accounted for. That last part is
what `NoSilentLoss` needs and does not say: it speaks of rows once they are marked, while
the reason to mark them was established several steps before, by another lock.
`Kept` collects what no step takes back (terminal intents, written and read rows, history,
operation ids); from it alone a process that does not move keeps what it knows
(`CallKept`, `LoopKept`), so each action owes only what it does to the process that takes it.
`DeliveredRead` carries `NoRedelivery` over the gap between an acknowledgement and its
marking: the loop is still at that step, or the marking failed. It needs `WorkRows`: a row a
batch observed is in the inbox of the batch's slot, so no other slot's loop can be handed it.
`CountsBacked` bounds the failure counter by intents that failed, of which the
counter keeps no record. `PauseCancels`: a paused slot whose turn still runs has a pause
request on its way to cancel it. Writing the invariant down showed that the history of
rejected rows was incomplete (a notice of a loop that was rejected left no trace, and the
row then looked lost), which is why `refused` is a variable of its own.

*Session implements Delivery.* The refinement mapping is at the end of `TeamSession`. The box of a
slot is its mailbox rows, its hand the rows of the batch of a loop that waits for the
outcome of a turn (`Turning`). Cancelled and exhausted rows are read off the intents that ended so.
`unsure` is that some mailbox call failed, which is when a row may be left unread
although it was acknowledged. `Allowed` says that a step is a step of `Delivery` or
leaves all of this alone, and there is one lemma per action (`...Delivers`). Most actions are
of one of a few forms, each with a lemma: nothing that `Delivery` sees changes (`StillStep`), a
row is sent, work is cancelled, rows are settled, a turn ends (`MissStep`). The
invariant is needed where a
process acts on what it read before: that a settled row has an outcome (`CallOK`,
`LoopOK`), that a loop whose batch is still current holds rows and acknowledges
rows of its own inbox (`OwnedRows`, `BatchRows`), and that no acknowledged row is handed
out again (`NoRedelivery`, in the state after the reread).

*Runs.* With `RunAssumption` (bindings and sources are what the code has),

    Inv == /\ TypeOK /\ WorkOwnership /\ CancelFirst /\ RunsAreUsed
           /\ TellsCurrent /\ WantedIsOpen /\ RunAgreesWithWork

`RunAgreesWithWork` is only about settled runs, and becomes true with the arrival of the
last summary. `TellsCurrent`: a summary on its way is what is true now, and an empty
run that is about to be dropped is still empty, unless it was overtaken.
`WantedIsOpen`: a run with live work and no failure is open on record, whatever is on
its way; it holds because operations other than an enqueue never bring work of a run
back (`NoNewWork`, a lemma per operation), and an enqueue binds to a run that is open,
inherited from live work, or new. `RunsAreUsed` makes a new run empty. With the first two
and ownership, a summary leaves the record open exactly if the run is wanted
(`SummaryApplied`), which is also why an ended run stays ended.

*Cross-session messages.* With `MessageAssumption` (finitely many targets, limits and times
positive),

    Inv == /\ TypeOK /\ CountAgrees /\ QueueInv /\ HeldInv /\ HeldCopyIsHead /\ CrossedInv
           /\ DeliveredOnce /\ GivenInv /\ RateInv /\ NoLostWakeup

A copy is the head because pushes go behind it and expiry is the drainer's own step, taken
while it holds no copy (`HeldInv`, also: one copy per target, of a pushed message); after
a clear the copied message is not queued (`CrossedInv`). A message is
delivered once because what is queued or on its way was not delivered, but for the one
the drainer is about to remove (`GivenInv`). `RateInv` relates the windows, which are pruned
lazily, per pair and by readings of any age up to `MaxLag`, to all admitted messages: pruning by an old
reading keeps too much and never drops what is recent. `retain` is the recursive function `Keep`; that
it keeps the order, the members and their multiplicity is proved by induction over the
length of the queue (`IntervalInduction`).

*Conversation turns.* With `TurnAssumption` (the restart is no turn and no cancel of a user),

    Inv == /\ TypeOK /\ ClaimHasOwner /\ CancellingIsForActive /\ DeferredStops /\ OnlyAskedStop
           /\ RestartInv /\ AskedInv /\ CellInv /\ NoOrphanAgent

`RestartInv` says what a restart has achieved at each of its steps (its mark is set, the claimed
turn is the one its cancel is about and then was asked to stop, no other turn is claimed once the state was cleared), which `RestartGate`
needs. `AskedInv` ties a cancellation in progress, a deferred cancel and a turn that lost its
claim to somebody's request. `CellInv` says that a cell somebody is about to fill is known to
the task map or to a kill, or recorded as overlooked, and has one builder; without it
nothing is known of the agent when it is ready.

*Only model-checked.* All liveness (`EveryRowSettles`, `CancelDrains`), which the prover
cannot reach. The properties of the two violation runs are false.

## 6. Where the code and its comments disagree

* `shutdown_request_discarded` — a shutdown request whose row was adopted before its
  commit sits in the Background lane, where a discarding interrupt drops it and marks
  the row read. `coordinator.rs:952` promises that control work is exempt.
* `exhaustion_notice_starved` — the lead's loop adopts the notice's row before the
  notice is committed; the batch holds two intents for one row, the reread finds one
  row for two ids and gives the batch back, on every wake. `event_loop.rs:425` says
  the lead has to hear of it.

Behaviours of the code that the properties above except, each reachable in the run that
checks the property (TLC shows a trace when the exception is taken out):

* `HeldCopyIsHead`, `OnlySettledLeave`, `crossed` — a user stops a target while the drainer sends
  the head it copied, a new message is queued, and the removal after the delivery
  (`drainer.rs:95`) takes out the new message untried. `queue.rs:149` says the head is removed
  "after a successful delivery", and `hook.rs:36` calls silent message loss the worst failure mode
  of the feature.
* `RunAgreesWithWork`, `overtaken` — the summary of the last batch of a run, computed under the
  coordinator's lock, arrives after an enqueue was bound to the run (`manager.rs:153`), and the
  record is completed with a lease outstanding, which the test `enqueue_lease_blocks_completion`
  (`team_run/tests.rs:58`) excludes. Or an abort that found its run empty drops the record
  (`manager.rs:334`) after another enqueue was bound to it and committed, although "the concurrent
  enqueue must retain its run" (`team_run/tests.rs:127`).
* `EndedRunStaysEnded`, `overtaken` — the summary of a turn that started just before its run
  was cancelled arrives after that of the cancellation (`manager.rs:176`), and the
  cancelled run is Running again with no work that could end it. Also, a summary
  without work turns Cancelled into Completed.
* `RunAgreesWithWork`, `silent` — a discard ends work of a run and publishes nothing, so the record
  is told at the next operation on the run only.
* `CancellingIsForActive`, `OnlyAskedStop`, `late` — a cancel passes the turn-id check, its turn is
  released, and the mark is set afterwards (`service.rs:4442`); nobody clears it in between, so that
  the next message is answered as accepted, is not stored, and its turn ends at once. The test at
  `service_test.rs:6972` says that a cancel for another turn does not cancel.
* `DeferredStops`, `missed` — a cancel finds no agent, the agent appears and the turn looks for
  deferred cancels, and only then the cancel is recorded (`service.rs:4426`); the turn goes on to its
  prompt, which `service.rs:4419` says the record is there to prevent.
* `NoOrphanAgent`, `torn` — a conversation is deleted while its agent is being built: the plain kill
  (`task_manager.rs:375`) drops the slot, and the agent runs on with the row gone, which
  `task_manager.rs:367` says the hook is there to prevent.
* `CancelDrains` — a second cancel that fails clears the mark of the first and so disarms
  its watchdog; a cancel that crosses with the decision to replay reaches the old agent
  only.

Two observations without a property. `session.rs:1007` says every agent turn is
run-scoped, but a row adopted by reconciliation, for example after a failed turn, is
`RecoveryDrain` work without a run (`coordinator.rs:394`). And an interrupt that saw a
claimed batch before its turn stores metadata that neither the request nor the loop takes
if the break falls before the loop's reread; `coordinator.rs:920` calls a residue a leak.

## 7. Plan

Done, in this order: coordinator, loop, mailbox, session requests and the
coordinator's proofs; then the run manager, the cross-session queue, and the turns of
a conversation with the task map, and the proofs of their safety properties, those of the
session last. Next:

1. `MemberRuntime`: attach leases, waiters, failure, removal and restart gates,
   composed with `TeamSession` in place of its three-valued summary; stopping a
   session and removing a member.
2. The idle scanner with its leases, turns that agents start by themselves, and cron
   occurrence claims.

## 8. Not modelled

`PROJECT.json` gives the reason for every component. Most of the repository's lines are
vendor protocol backends (`aionui-session`, `session_agent.rs`), CRUD services, file and
process I/O, adapters and configuration: there a model would either repeat the code or
assume what it is to check. Still missing of what could be modelled are the items 1
and 2 of the plan, the session reducer's turn life cycle, and delivery of a message
into a running turn.
