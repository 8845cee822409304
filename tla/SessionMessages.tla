--------------------------- MODULE SessionMessages ---------------------------
(***************************************************************************)
(* Messages between conversations (crates/aionui-session-message): the     *)
(* rate limiter and `send` of a request, the pending-delivery queue, the   *)
(* single drainer that retries it, and the hook that clears a target's     *)
(* backlog when its turn is cancelled.                                     *)
(*                                                                         *)
(* The queue's mutex is held for one call at a time.  The drainer works on *)
(* copies of the heads while requests, cancellations and turns of the      *)
(* targets go on.  Clock readings are kept as distances: `ttl` is the time *)
(* a message has left in the queue, `age` the time since it was recorded.  *)
(***************************************************************************)
EXTENDS Integers, Sequences, FiniteSetsExt

CONSTANTS
  Senders, Targets,               \* conversations of one user
  MaxMsgs,                        \* bound: messages that are sent
  PER_TARGET_LIMIT, GLOBAL_LIMIT, \* capacity of the queue
  TTL,                            \* ticks a message may stay queued
  WINDOW, PAIR_LIMIT, OUTBOUND_LIMIT,
  MaxLag                          \* bound: ticks from a sender's clock reading to its turn at the limiter's lock

ASSUME MessageAssumption ==
  /\ IsFiniteSet(Targets)
  /\ {MaxMsgs, MaxLag} \subseteq Nat
  /\ {PER_TARGET_LIMIT, GLOBAL_LIMIT, TTL, WINDOW, PAIR_LIMIT, OUTBOUND_LIMIT} \subseteq Nat \ {0}

VARIABLES
  queue, total,     \* QueueState: the messages queued for each target, and their count
  ttl,              \* what is left of each message's time to live
  pair, outbound,   \* Windows: the recorded sends of a pair and of a sender
  age,              \* time since the clock reading the limiter recorded for each message
  req,              \* the `send` request of each message
  permit,           \* the stored permit of the Notify
  drainer,          \* where the drainer is, the heads it has yet to try, the current one
  given,            \* history: how often each message was delivered
  crossed           \* history: targets cleared since the drainer copied their head

queueVars == <<queue, total, ttl>>
limitVars == <<pair, outbound, age>>
vars == <<queueVars, limitVars, req, permit, drainer, given, crossed>>

Msgs == 1..MaxMsgs
NoMsg == 0
Causes == {"UserRequested", "RuntimeRestart"}

Unsent == {m \in Msgs : req[m].st = "Unsent"}
To(m) == req[m].to
Queued == UNION {{queue[t][i] : i \in DOMAIN queue[t]} : t \in Targets}

\* The members of a sequence that are in S, in their order (VecDeque::retain).
Keep(s, S) ==
  LET kept[i \in 0..Len(s)] ==
        IF i = 0 THEN <<>>
        ELSE IF s[i] \in S THEN Append(kept[i - 1], s[i]) ELSE kept[i - 1]
  IN kept[Len(s)]

\* Copies of queue heads in the hands of the drainer.
Held == drainer.todo \cup ({drainer.cur} \ {NoMsg})
-----------------------------------------------------------------------------
(* DeliveryQueue: every call takes the lock once.                          *)

Full(t) == total >= GLOBAL_LIMIT \/ Len(queue[t]) >= PER_TARGET_LIMIT

\* Mutant: the deadline is set a tick too late.
PushLateDeadline(m) ==
  /\ ~Full(To(m))
  /\ queue' = [queue EXCEPT ![To(m)] = Append(@, m)]
  /\ total' = total + 1
  /\ ttl' = [ttl EXCEPT ![m] = TTL + 1]

\* Mutant: a new message is put in front.
PushFront(m) ==
  /\ ~Full(To(m))
  /\ queue' = [queue EXCEPT ![To(m)] = <<m>> \o @]
  /\ total' = total + 1
  /\ ttl' = [ttl EXCEPT ![m] = TTL]

push(m) ==
  /\ ~Full(To(m))
  /\ queue' = [queue EXCEPT ![To(m)] = Append(@, m)]
  /\ total' = total + 1
  /\ ttl' = [ttl EXCEPT ![m] = TTL]

\* Mutant: the count is not corrected.
DropExpiredUncounted ==
  /\ queue' = [t \in Targets |-> Keep(queue[t], {m \in Msgs : ttl[m] > 0})]
  /\ UNCHANGED <<total, ttl>>

drop_expired ==
  /\ queue' = [t \in Targets |-> Keep(queue[t], {m \in Msgs : ttl[m] > 0})]
  /\ total' = total - Cardinality({m \in Queued : ttl[m] = 0})
  /\ UNCHANGED ttl

snapshot_heads == {Head(queue[t]) : t \in {u \in Targets : queue[u] # <<>>}}

\* Mutant: the newest message is removed.
RemoveTail(t) ==
  IF queue[t] = <<>> THEN UNCHANGED queueVars
  ELSE /\ queue' = [queue EXCEPT ![t] = SubSeq(@, 1, Len(@) - 1)]
       /\ total' = total - 1
       /\ UNCHANGED ttl

\* Mutant: a delivered message is not removed.
RemoveNone(t) == UNCHANGED queueVars

remove_head(t) ==
  IF queue[t] = <<>> THEN UNCHANGED queueVars
  ELSE /\ queue' = [queue EXCEPT ![t] = Tail(@)]
       /\ total' = total - 1
       /\ UNCHANGED ttl

clear_for(t) ==
  /\ queue' = [queue EXCEPT ![t] = <<>>]
  /\ total' = total - Len(queue[t])
  /\ crossed' = crossed \cup {u \in {t} : \E m \in Held : To(m) = t}
  /\ UNCHANGED ttl
-----------------------------------------------------------------------------
(* RateLimiter.                                                            *)

\* Mutant: the window is a tick too short.
RetainShort(w, lag) == Keep(w, {m \in Msgs : age[m] < WINDOW + lag - 1})

Retain(w, lag) == Keep(w, {m \in Msgs : age[m] < WINDOW + lag})

Tripped(f, t, lag) == \/ Len(Retain(pair[<<f, t>>], lag)) >= PAIR_LIMIT
                      \/ Len(Retain(outbound[f], lag)) >= OUTBOUND_LIMIT

\* The clock is read before the lock is taken, and is `lag` ticks old by then.
\* A tripped check prunes the windows and records nothing.
check_and_record(f, t, new, lag) ==
  /\ pair' = [pair EXCEPT ![<<f, t>>] = Retain(@, lag) \o new]
  /\ outbound' = [outbound EXCEPT ![f] = Retain(@, lag) \o new]
-----------------------------------------------------------------------------
(* SessionMessageService::send, one request per message.                   *)

\* The rate gates come before the target is looked at.  A sender whose user
\* switched the feature off, or that belongs to a team, gets nowhere.
Admit ==
  \E f \in Senders, t \in Targets, lag \in 0..MaxLag :
    LET m == Min(Unsent) IN
    /\ Unsent # {}
    /\ ~Tripped(f, t, lag)
    /\ check_and_record(f, t, <<m>>, lag)
    /\ req' = [req EXCEPT ![m] = [from |-> f, to |-> t, st |-> "Admitted"]]
    /\ age' = [age EXCEPT ![m] = lag]
    /\ UNCHANGED <<queueVars, permit, drainer, given, crossed>>

RateLimited ==
  \E f \in Senders, t \in Targets, lag \in 0..MaxLag :
    /\ Unsent # {}
    /\ Tripped(f, t, lag)
    /\ check_and_record(f, t, <<>>, lag)
    /\ UNCHANGED <<queueVars, age, req, permit, drainer, given, crossed>>

Reply(m, st) == req' = [req EXCEPT ![m].st = st]

\* The target is the sender, is gone, joined a team or cannot be read.
RefuseTarget(m) ==
  /\ req[m].st = "Admitted"
  /\ Reply(m, "Done")
  /\ UNCHANGED <<queueVars, limitVars, permit, drainer, given, crossed>>

\* What ConversationService::send_message may answer: accepted (as a turn of its
\* own or within the running one), Busy or RuntimeRestarting, or any other error.
Outcomes == {"Delivered", "Transient", "Hard"}

Give(m, outcome) ==
  given' = [given EXCEPT ![m] = IF outcome = "Delivered" THEN @ + 1 ELSE @]

deliver_now(m) ==
  \E outcome \in Outcomes :
    /\ req[m].st = "Admitted"
    /\ To(m) # req[m].from
    /\ Give(m, outcome)
    /\ Reply(m, IF outcome = "Transient" THEN "Push" ELSE "Done")
    /\ UNCHANGED <<queueVars, limitVars, permit, drainer, crossed>>

Enqueue(m) ==
  /\ req[m].st = "Push"
  /\ \/ push(m) /\ Reply(m, "Notify")
     \/ Full(To(m)) /\ Reply(m, "Done") /\ UNCHANGED queueVars
  /\ UNCHANGED <<limitVars, permit, drainer, given, crossed>>

\* Mutant: only a drainer that already waits is woken.
NotifyWaiting(m) ==
  /\ req[m].st = "Notify"
  /\ permit' = (permit \/ drainer.pc = "Wait")
  /\ Reply(m, "Done")
  /\ UNCHANGED <<queueVars, limitVars, drainer, given, crossed>>

notify_one(m) ==
  /\ req[m].st = "Notify"
  /\ permit' = TRUE
  /\ Reply(m, "Done")
  /\ UNCHANGED <<queueVars, limitVars, drainer, given, crossed>>

Request(m) == RefuseTarget(m) \/ deliver_now(m) \/ Enqueue(m) \/ notify_one(m)
-----------------------------------------------------------------------------
(* Drainer::spawn and Drainer::tick_once.                                  *)

At(pc) == drainer.pc = pc
GoTo(pc) == drainer' = [drainer EXCEPT !.pc = pc]
DoneWith(pc) == drainer' = [drainer EXCEPT !.pc = pc, !.cur = NoMsg]

IsEmpty ==
  /\ At("Check")
  /\ GoTo(IF total = 0 THEN "Park" ELSE "Expire")
  /\ UNCHANGED <<queueVars, limitVars, req, permit, given, crossed>>

\* `notified()` is only called after the queue was looked at.
Park ==
  /\ At("Park")
  /\ GoTo("Wait")
  /\ UNCHANGED <<queueVars, limitVars, req, permit, given, crossed>>

Notified ==
  /\ At("Wait")
  /\ permit
  /\ permit' = FALSE
  /\ GoTo("Check")
  /\ UNCHANGED <<queueVars, limitVars, req, given, crossed>>

Expire ==
  /\ At("Expire")
  /\ drop_expired
  /\ GoTo("Copy")
  /\ UNCHANGED <<limitVars, req, permit, given, crossed>>

Copy ==
  /\ At("Copy")
  /\ drainer' = [drainer EXCEPT !.pc = "Items", !.todo = snapshot_heads]
  /\ crossed' = {}
  /\ UNCHANGED <<queueVars, limitVars, req, permit, given>>

\* The gate is asked before each item; the heads come in any order.
NextItem ==
  \E m \in drainer.todo, enabled \in BOOLEAN :
    /\ At("Items")
    /\ drainer' = [pc |-> IF enabled THEN "Deliver" ELSE "Disabled",
                   todo |-> drainer.todo \ {m}, cur |-> m]
    /\ UNCHANGED <<queueVars, limitVars, req, permit, given, crossed>>

ClearDisabled ==
  /\ At("Disabled")
  /\ clear_for(To(drainer.cur))
  /\ DoneWith("Items")
  /\ UNCHANGED <<limitVars, req, permit, given>>

\* The await in between leaves the queue to everybody else.
Deliver ==
  \E outcome \in Outcomes :
    /\ At("Deliver")
    /\ Give(drainer.cur, outcome)
    /\ IF outcome = "Transient" THEN DoneWith("Items") ELSE GoTo("Remove")
    /\ UNCHANGED <<queueVars, limitVars, req, permit, crossed>>

\* pop_head and drop_head.
Remove ==
  /\ At("Remove")
  /\ remove_head(To(drainer.cur))
  /\ DoneWith("Items")
  /\ UNCHANGED <<limitVars, req, permit, given, crossed>>

Sleep ==
  /\ At("Items")
  /\ drainer.todo = {}
  /\ GoTo("Check")
  /\ UNCHANGED <<queueVars, limitVars, req, permit, given, crossed>>

Drain == \/ IsEmpty \/ Park \/ Notified \/ Expire \/ Copy \/ NextItem \/ ClearDisabled
         \/ Deliver \/ Remove \/ Sleep
-----------------------------------------------------------------------------
(* The cancel hook and the clock.                                          *)

\* A turn of t was cancelled.  It may be over by now.
on_turn_cancelled(t, cause) ==
  /\ IF cause = "UserRequested" THEN clear_for(t) ELSE UNCHANGED <<queueVars, crossed>>
  /\ UNCHANGED <<limitVars, req, permit, drainer, given>>

Tick ==
  /\ ttl' = [m \in Msgs |-> IF ttl[m] > 0 THEN ttl[m] - 1 ELSE 0]
  /\ age' = [m \in Msgs |-> IF age[m] < WINDOW + MaxLag THEN age[m] + 1 ELSE WINDOW + MaxLag]
  /\ UNCHANGED <<queue, total, pair, outbound, req, permit, drainer, given, crossed>>
-----------------------------------------------------------------------------
Init ==
  /\ queue = [t \in Targets |-> <<>>]
  /\ total = 0
  /\ ttl = [m \in Msgs |-> 0]
  /\ pair = [p \in Senders \X Targets |-> <<>>]
  /\ outbound = [f \in Senders |-> <<>>]
  /\ req = [m \in Msgs |-> [from |-> NoMsg, to |-> NoMsg, st |-> "Unsent"]]
  /\ permit = FALSE
  /\ drainer = [pc |-> "Check", todo |-> {}, cur |-> NoMsg]
  /\ age = [m \in Msgs |-> WINDOW + MaxLag]
  /\ given = [m \in Msgs |-> 0]
  /\ crossed = {}

Hook == \E t \in Targets, cause \in Causes : on_turn_cancelled(t, cause)

Next == \/ Admit \/ RateLimited \/ Drain \/ Hook \/ Tick
        \/ \E m \in Msgs : Request(m)

Spec == Init /\ [][Next]_vars
-----------------------------------------------------------------------------
TypeOK ==
  /\ queue \in [Targets -> Seq(Msgs)]
  /\ ttl \in [Msgs -> 0..TTL]
  /\ pair \in [Senders \X Targets -> Seq(Msgs)]
  /\ outbound \in [Senders -> Seq(Msgs)]
  /\ req \in [Msgs -> [from : Senders \cup {NoMsg}, to : Targets \cup {NoMsg},
                      st : {"Unsent", "Admitted", "Push", "Notify", "Done"}]]
  /\ \A m \in Msgs : req[m].st # "Unsent" => req[m].from \in Senders /\ req[m].to \in Targets
  /\ permit \in BOOLEAN
  /\ drainer \in [pc : {"Check", "Park", "Wait", "Expire", "Copy", "Items", "Deliver", "Disabled", "Remove"},
                  todo : SUBSET Msgs, cur : Msgs \cup {NoMsg}]
  /\ age \in [Msgs -> 0..(WINDOW + MaxLag)]
  /\ given \in [Msgs -> Nat]
  /\ crossed \subseteq Targets

(* No message is queued twice, and the count the queue keeps is the number *)
(* of messages it holds, through every expiry, clear and removal of a head *)
(* that is no longer there: the queue neither refuses messages while it    *)
(* has room nor sends the drainer to sleep with messages in it.            *)
CountAgrees ==
  /\ \A t \in Targets : \A i, j \in DOMAIN queue[t] : queue[t][i] = queue[t][j] => i = j
  /\ total = Cardinality(Queued)

(* A copy the drainer works on is still the head of its target's queue, so *)
(* that the removal after the await takes out the message that was tried,  *)
(* unless the target was cleared since the copy was made.                  *)
HeldCopyIsHead ==
  \A m \in Held : To(m) \notin crossed => queue[To(m)] # <<>> /\ Head(queue[To(m)]) = m

(* Why a queued message may leave the queue in a step: the drainer tried   *)
(* it and it was delivered or refused for good, its time ran out, the user *)
(* stopped its target, or the feature was switched off.                    *)
MayLeave(m) ==
  \/ At("Remove") /\ drainer.cur = m
  \/ At("Expire") /\ ttl[m] = 0
  \/ At("Disabled") /\ To(drainer.cur) = To(m)
  \/ on_turn_cancelled(To(m), "UserRequested")

(* A queued message is not lost to anything else, restarts of its target   *)
(* and deliveries of other messages included, unless its target was        *)
(* cleared while the drainer held a copy of its head.                      *)
OnlySettledLeave ==
  [][\A m \in Queued : m \notin Queued' => MayLeave(m) \/ To(m) \in crossed]_vars

(* No message starts two turns of its target, although the drainer sends   *)
(* from copies and retries what was transiently refused.                   *)
DeliveredOnce == \A m \in Msgs : given[m] <= 1

(* At no time has a sender more than OUTBOUND_LIMIT sends recorded within  *)
(* the last WINDOW, or more than PAIR_LIMIT for one target, although       *)
(* windows are only pruned when the same pair sends again, by a clock      *)
(* reading that may be late, and refused targets use up slots.             *)
RateHolds ==
  LET Recent(f) == {m \in Msgs : age[m] < WINDOW /\ req[m].from = f} IN
  \A f \in Senders :
    /\ Cardinality(Recent(f)) <= OUTBOUND_LIMIT
    /\ \A t \in Targets : Cardinality({m \in Recent(f) : To(m) = t}) <= PAIR_LIMIT

(* The drainer, which waits without a timer while the queue is empty, is   *)
(* never left waiting with messages queued: a wakeup is stored or the      *)
(* request that queued the message is about to send one.                   *)
NoLostWakeup ==
  total > 0 /\ (At("Park") \/ At("Wait")) => permit \/ \E m \in Msgs : req[m].st = "Notify"
=============================================================================
