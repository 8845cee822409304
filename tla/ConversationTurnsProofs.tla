----------------------- MODULE ConversationTurnsProofs -----------------------
(***************************************************************************)
(* What holds of the turns of a conversation for any number of turns,      *)
(* cells and cancel requests.                                              *)
(***************************************************************************)
EXTENDS ConversationTurns, IntegerBounds

(* The steps of a cancellation that was found to be for the claimed turn,  *)
(* or for none any more.                                                   *)
PastMatch == {"Task", "Defer", "Mark", "Ask", "Done"}

(* The restart keeps its gate closed from begin_restart to clear_restarting, *)
(* asks a turn that is claimed to stop before it kills the runtime, and has  *)
(* nobody beside it once the turn state was cleared.                         *)
RestartSteps == {"Unsent", "Look", "Begin", "Cancel", "Kill", "Wait", "Ensure", "Slot", "Init", "Building", "Built",
                 "Release", "Abort", "Done"}

RestartInv ==
  /\ proc[Restarter].pc \in RestartSteps
  /\ proc[Restarter].pc \in {"Unsent", "Look", "Begin"} => cancel[Restarter].pc = "Idle"
  /\ proc[Restarter].pc \notin {"Unsent", "Look", "Begin", "Done"} => restarting
  /\ proc[Restarter].pc \in {"Ensure", "Slot", "Init", "Building", "Built", "Release"} => active = None
  /\ proc[Restarter].pc \in {"Kill", "Wait"} => active \in asked \cup {None}
  /\ proc[Restarter].pc = "Cancel" /\ cancel[Restarter].pc \in {"Lookup", "Match"} =>
       active \in {cancel[Restarter].turn, None}
  /\ proc[Restarter].pc = "Cancel" /\ cancel[Restarter].pc \in PastMatch => active \in asked \cup {None}

(* Whoever is in the middle of a cancellation, and the deferred cancel, are  *)
(* about a turn that was asked to stop; a turn that lost its claim before    *)
(* its message was stored was asked to stop too.                             *)
AskedInv ==
  /\ \A c \in Cancellers : cancel[c].pc \in {"Task", "Defer", "Mark", "Ask"} => cancel[c].turn \in asked
  /\ \A c \in Cancellers : cancel[c].pc \in {"Lookup", "Match"} => cancel[c].turn # None
  /\ deferred \in asked \cup {None}
  /\ \A t \in Turns : proc[t].pc = "Claimed" => active = t \/ t \in asked

(* A cell somebody is about to initialise is one the task map or a kill      *)
(* knows, or that a kill has overlooked; it has one builder.                 *)
Known(i) == i = slot \/ i \in doomed \cup torn

CellInv ==
  /\ \A p \in Procs :
       proc[p].pc \in {"Init", "Building"} =>
         /\ proc[p].cell \in Cells
         /\ cell[proc[p].cell] # "Dead" => Known(proc[p].cell)
  /\ \A p \in Procs : proc[p].pc = "Building" => cell[proc[p].cell] = "Building"
  /\ \A p, q \in Procs : /\ proc[p].pc = "Building" /\ proc[q].pc = "Building"
                         /\ proc[p].cell = proc[q].cell
                         => p = q

Inv == /\ TypeOK /\ ClaimHasOwner /\ CancellingIsForActive /\ DeferredStops /\ OnlyAskedStop
       /\ RestartInv /\ AskedInv /\ CellInv /\ NoOrphanAgent

-----------------------------------------------------------------------------
(* What the assignments to `proc` and `cancel` do.                         *)

ProcUpdate(p, pc, i, end) ==
  /\ proc' \in [Procs -> ProcState]
  /\ \A q \in Procs : q # p => proc'[q] = proc[q]
  /\ proc'[p].pc = pc /\ proc'[p].cell = i /\ proc'[p].end = end

CancelUpdate(c, pc, t) ==
  /\ cancel' \in [Cancellers -> CancelState]
  /\ \A d \in Cancellers : d # c => cancel'[d] = cancel[d]
  /\ cancel'[c].pc = pc /\ cancel'[c].turn = t

(* A step of a turn or of the restart that only moves its program counter. *)
LEMMA GoToUpdate ==
  ASSUME TypeOK, NEW p \in Procs, NEW pc \in Steps, GoTo(p, pc)
  PROVE  ProcUpdate(p, pc, proc[p].cell, proc[p].end)
  BY DEF GoTo, ProcState, TypeOK, ProcUpdate

(* A turn that ends without having sent its prompt. *)
LEMMA EndUpdate ==
  ASSUME TypeOK, NEW t \in Procs, NEW end \in {"Dropped", "Stopped"}, End(t, end)
  PROVE  ProcUpdate(t, "Release", proc[t].cell, end)
  BY DEF End, ProcState, TypeOK, ProcUpdate, Steps

(* A step that takes hold of a cell. *)
LEMMA HoldUpdate ==
  ASSUME TypeOK, NEW p \in Procs, NEW pc \in Steps, NEW i \in Cells \cup {None}, Hold(p, pc, i)
  PROVE  ProcUpdate(p, pc, i, proc[p].end)
  BY DEF Hold, ProcState, TypeOK, ProcUpdate

(* A turn that replaces its agent. *)
LEMMA EvictUpdate ==
  ASSUME TypeOK, NEW t \in Turns, Evict(t)
  PROVE  \E pc \in {"Replaying", "Evicted"} :
           /\ ProcUpdate(t, pc, slot, "")
           /\ pc = "Evicted" => At(t, "Evict")
<1>1. slot \in Cells \cup {None} /\ t \in Procs /\ At(t, "Replay") \in BOOLEAN
  BY DEF TypeOK, Procs, At
<1>2. CASE At(t, "Replay")
  BY <1>1, <1>2 DEF Evict, ProcState, TypeOK, ProcUpdate, Steps
<1>3. CASE ~At(t, "Replay")
  BY <1>1, <1>3 DEF Evict, ProcState, TypeOK, ProcUpdate, Steps
<1> QED
  BY <1>2, <1>3

(* A turn that releases its claim. *)
LEMMA ReleaseUpdate ==
  ASSUME TypeOK, NEW t \in Turns, Release(t)
  PROVE  ProcUpdate(t, "Done", None, "")
<1>1. t \in Procs /\ proc \in [Procs -> ProcState]
  BY DEF TypeOK, Procs
<1>2. [pc |-> "Done", cell |-> None, end |-> "", replayed |-> FALSE] \in ProcState
  BY DEF ProcState, Steps
<1> QED
  BY <1>1, <1>2 DEF ProcUpdate, Release

(* A cancellation that goes on keeps its turn. *)
LEMMA CancelToUpdate ==
  ASSUME TypeOK, NEW c \in Cancellers, NEW pc \in {"Match", "Task", "Defer", "Mark", "Ask"}, CancelTo(c, pc)
  PROVE  CancelUpdate(c, pc, cancel[c].turn)
  BY DEF CancelTo, CancelState, TypeOK, CancelUpdate

(* A cancellation that is over forgets its turn. *)
LEMMA CancelOverUpdate ==
  ASSUME TypeOK, NEW c \in Cancellers, NEW pc \in {"Done", "Refused"}, CancelOver(c, pc)
  PROVE  CancelUpdate(c, IF c = Restarter THEN pc ELSE "Done", None)
  BY DEF CancelOver, CancelState, TypeOK, CancelUpdate

(* A cancellation begins with the turn that is claimed. *)
LEMMA CancelBeginsUpdate ==
  ASSUME TypeOK, NEW c \in Cancellers, NEW pc \in {"Lookup", "Match"},
         cancel' = [cancel EXCEPT ![c] = [pc |-> pc, turn |-> active]]
  PROVE  CancelUpdate(c, pc, active)
  BY DEF CancelState, TypeOK, CancelUpdate

(* The cell of a new slot is one that nobody uses. *)
LEMMA MinUnused ==
  ASSUME Unused # {}
  PROVE  Min(Unused) \in Unused
<1>1. Unused \in SUBSET Nat
  BY TurnAssumption DEF Unused, Cells
<1>2. \E x \in Unused : \A y \in Unused : x <= y
  BY <1>1, LeastNatural
<1> QED
  BY <1>2 DEF Min
-----------------------------------------------------------------------------
(* Steps that do not touch the task map.                                   *)

(* What a step that leaves the task map alone does to the cells. *)
LEMMA CellFrame ==
  ASSUME TypeOK, CellInv, NoOrphanAgent, UNCHANGED tasks,
         \/ UNCHANGED proc
         \/ \E p \in Procs, pc \in Steps \ {"Init", "Building"} : \E i, end : ProcUpdate(p, pc, i, end)
  PROVE  CellInv' /\ NoOrphanAgent'
<1>1. NoOrphanAgent'
  BY DEF NoOrphanAgent, tasks
<1>2. CASE UNCHANGED proc
  BY <1>1, <1>2 DEF CellInv, Known, tasks
<1>3. ASSUME NEW p \in Procs, NEW pc \in Steps \ {"Init", "Building"}, NEW i, NEW end,
             ProcUpdate(p, pc, i, end)
      PROVE  CellInv'
  BY <1>3 DEF CellInv, Known, tasks, ProcUpdate
<1> QED
  BY <1>1, <1>2, <1>3

(* `None` is neither a turn nor a cell. *)
LEMMA NoneIsNoTurn == None \notin Turns /\ None \notin Cells
  BY DEF None, Turns, Cells

(* A step of a turn that changes nothing but the turn itself. *)
LEMMA TurnMoves ==
  ASSUME Inv, NEW t \in Turns, UNCHANGED <<claims, tasks, others>>,
         NEW pc \in Steps \ {"Claimed", "Init", "Building"}, NEW end,
         ProcUpdate(t, pc, proc[t].cell, end),
         pc \in {"Unsent", "Checked", "Done"} => active # t,
         pc \in {"Running", "Failed", "Evict", "Evicted"} => deferred # t \/ t \in missed,
         end = "Stopped" => t \in asked,
         end = "Dropped" /\ ~late => t \in asked
  PROVE  Inv'
<1> USE TurnAssumption DEF Inv
<1>1. t \in Procs /\ t # Restarter
  BY DEF Procs
<1>2. TypeOK'
  BY DEF TypeOK, claims, tasks, others, ProcUpdate
<1>3. ClaimHasOwner' /\ DeferredStops' /\ OnlyAskedStop'
  BY <1>1 DEF ProcUpdate, ClaimHasOwner, DeferredStops, OnlyAskedStop, TypeOK, claims, others, Procs
<1>4. RestartInv' /\ AskedInv' /\ CancellingIsForActive'
  BY <1>1 DEF ProcUpdate, RestartInv, AskedInv, CancellingIsForActive, claims, others, Procs
<1>5. CellInv' /\ NoOrphanAgent'
  BY <1>1, CellFrame
<1> QED
  BY <1>2, <1>3, <1>4, <1>5

(* send_message reads the conversation before it claims anything. *)
LEMMA SendStep ==
  ASSUME Inv, NEW t \in Turns, Send(t)
  PROVE  Inv'
<1>1. t \in Procs /\ proc[t].pc = "Unsent" /\ ProcUpdate(t, "Checked", proc[t].cell, proc[t].end)
  BY GoToUpdate DEF Procs, Send, Step, At, Steps, Inv
<1>2. active # t
  BY <1>1, NoneIsNoTurn DEF Inv, ClaimHasOwner
<1> QED
  BY <1>1, <1>2, TurnMoves DEF Send, Steps, Inv, OnlyAskedStop

(* A refused claim ends the turn.  A granted one finds nobody claimed, no  *)
(* restart and no deletion.                                                *)
LEMMA ClaimStep ==
  ASSUME Inv, NEW t \in Turns, try_claim_turn(t)
  PROVE  Inv'
<1> USE TurnAssumption DEF Inv
<1>1. t \in Procs /\ t # Restarter /\ proc[t].pc = "Checked" /\ active # t
  BY NoneIsNoTurn DEF Procs, try_claim_turn, At, ClaimHasOwner
<1>2. CASE ~Claimable
  <2>1. ProcUpdate(t, "Done", proc[t].cell, proc[t].end) /\ UNCHANGED <<claims, tasks, others>>
    BY <1>1, <1>2, GoToUpdate DEF try_claim_turn, Steps, claims
  <2> QED
    BY <1>1, <2>1, TurnMoves DEF Steps, OnlyAskedStop
<1>3. CASE Claimable
  <2>1. /\ active' = t /\ active = None /\ ~restarting
        /\ UNCHANGED <<deleting, cancelling, restarting, deferred, tasks, others>>
        /\ ProcUpdate(t, "Claimed", proc[t].cell, proc[t].end)
    BY <1>1, <1>3, GoToUpdate DEF try_claim_turn, Claimable, Steps
  <2>2. TypeOK'
    BY <2>1 DEF TypeOK, tasks, others, ProcUpdate
  <2>3. ClaimHasOwner' /\ DeferredStops' /\ OnlyAskedStop'
    BY <1>1, <2>1 DEF ProcUpdate, ClaimHasOwner, DeferredStops, OnlyAskedStop, others, Procs
  <2>4. CancellingIsForActive'
    BY <2>1, NoneIsNoTurn DEF CancellingIsForActive, others, TypeOK
  <2>5. RestartInv' /\ AskedInv'
    BY <1>1, <2>1, NoneIsNoTurn DEF ProcUpdate, RestartInv, AskedInv, others, Procs
  <2>6. CellInv' /\ NoOrphanAgent'
    BY <1>1, <2>1, CellFrame DEF Steps
  <2> QED
    BY <2>2, <2>3, <2>4, <2>5, <2>6
<1> QED
  BY <1>2, <1>3

(* The message is stored, or the turn ends: dropped only if it was asked to stop. *)
LEMMA PersistStep ==
  ASSUME Inv, NEW t \in Turns, Persist(t)
  PROVE  Inv'
<1> USE DEF Inv
<1>1. t \in Procs /\ proc[t].pc = "Claimed"
  BY DEF Procs, Persist, At
<1>2. CASE Cancelling /\ End(t, "Dropped")
  <2>1. ProcUpdate(t, "Release", proc[t].cell, "Dropped")
    BY <1>1, <1>2, EndUpdate
  <2>2. ~late => t \in asked
    BY <1>1, <1>2 DEF AskedInv, CancellingIsForActive, Cancelling
  <2> QED
    BY <2>1, <2>2, TurnMoves DEF Persist, Steps
<1>3. ASSUME NEW pc \in {"Release", "Slot"}, GoTo(t, pc) PROVE Inv'
  <2>1. ProcUpdate(t, pc, proc[t].cell, proc[t].end)
    BY <1>1, <1>3, GoToUpdate DEF Steps
  <2> QED
    BY <2>1, TurnMoves DEF Persist, Steps, OnlyAskedStop
<1> QED
  BY <1>2, <1>3 DEF Persist

(* A deferred cancel of this turn is taken before the prompt is sent. *)
LEMMA PromptStep ==
  ASSUME Inv, NEW t \in Turns, Prompt(t)
  PROVE  Inv'
<1> USE TurnAssumption DEF Inv
<1>1. t \in Procs /\ t # Restarter /\ proc[t].pc = "Built"
  BY DEF Procs, Prompt, At
<1>2. CASE deferred = t /\ deferred' = None /\ End(t, "Stopped")
  <2>1. ProcUpdate(t, "Release", proc[t].cell, "Stopped")
    BY <1>1, <1>2, EndUpdate
  <2>2. t \in asked
    BY <1>2, NoneIsNoTurn DEF AskedInv
  <2>3. UNCHANGED <<active, deleting, cancelling, restarting, tasks, others>>
    BY DEF Prompt
  <2>4. TypeOK'
    BY <1>2, <2>1, <2>3 DEF TypeOK, tasks, others, ProcUpdate
  <2>5. ClaimHasOwner' /\ DeferredStops' /\ OnlyAskedStop'
    BY <1>1, <1>2, <2>1, <2>2, <2>3, NoneIsNoTurn
    DEF ProcUpdate, ClaimHasOwner, DeferredStops, OnlyAskedStop, TypeOK, others, Procs
  <2>6. RestartInv' /\ AskedInv' /\ CancellingIsForActive'
    BY <1>1, <1>2, <2>1, <2>3 DEF ProcUpdate, RestartInv, AskedInv, CancellingIsForActive, others, Procs
  <2>7. CellInv' /\ NoOrphanAgent'
    BY <1>1, <2>1, <2>3, CellFrame DEF Steps
  <2> QED
    BY <2>4, <2>5, <2>6, <2>7
<1>3. ASSUME NEW pc \in {"Running", "Release"}, GoTo(t, pc), UNCHANGED deferred,
             pc = "Running" => deferred # t
      PROVE  Inv'
  <2>1. ProcUpdate(t, pc, proc[t].cell, proc[t].end) /\ UNCHANGED <<claims, tasks, others>>
    BY <1>1, <1>3, GoToUpdate DEF Steps, Prompt, claims
  <2> QED
    BY <1>3, <2>1, TurnMoves DEF Steps, OnlyAskedStop
<1> QED
  BY <1>2, <1>3 DEF Prompt, take_deferred_cancel

(* The relay saw the end of the attempt or an error. *)
LEMMA AttemptEndsStep ==
  ASSUME Inv, NEW t \in Turns, AttemptEnds(t)
  PROVE  Inv'
<1>1. t \in Procs /\ proc[t].pc = "Running"
  BY DEF Procs, AttemptEnds, At
<1>2. PICK pc \in {"Release", "Failed"} : GoTo(t, pc)
  BY DEF AttemptEnds
<1>3. ProcUpdate(t, pc, proc[t].cell, proc[t].end)
  BY <1>1, <1>2, GoToUpdate DEF Steps, Inv
<1>4. deferred # t \/ t \in missed
  BY <1>1 DEF Inv, DeferredStops
<1> QED
  BY <1>1, <1>3, <1>4, TurnMoves DEF Inv, AttemptEnds, Steps, OnlyAskedStop

(* The recovery policy: replay, give up and evict, or give up. *)
LEMMA DecideStep ==
  ASSUME Inv, NEW t \in Turns, Decide(t)
  PROVE  Inv'
<1>1. t \in Procs /\ proc[t].pc = "Failed"
  BY DEF Procs, Decide, At
<1>2. PICK pc \in {"Replay", "Evict", "Release"} : GoTo(t, pc)
  BY DEF Decide
<1>3. ProcUpdate(t, pc, proc[t].cell, proc[t].end)
  BY <1>1, <1>2, GoToUpdate DEF Steps, Inv
<1>4. deferred # t \/ t \in missed
  BY <1>1 DEF Inv, DeferredStops
<1> QED
  BY <1>1, <1>3, <1>4, TurnMoves DEF Inv, Decide, Steps, OnlyAskedStop

(* The old agent is gone: the turn builds a new one or ends. *)
LEMMA EvictedStep ==
  ASSUME Inv, NEW t \in Turns, Evicted(t)
  PROVE  Inv'
<1>1. t \in Procs
  BY DEF Procs
<1>2. PICK pc \in {"Slot", "Release"} : GoTo(t, pc)
  BY DEF Evicted, Step
<1>3. ProcUpdate(t, pc, proc[t].cell, proc[t].end)
  BY <1>1, <1>2, GoToUpdate DEF Steps, Inv
<1> QED
  BY <1>3, TurnMoves DEF Inv, Evicted, Steps, OnlyAskedStop

(* Only the turn that is claimed takes its claim away. *)
LEMMA ReleaseStep ==
  ASSUME Inv, NEW t \in Turns, Release(t)
  PROVE  Inv'
<1> USE TurnAssumption DEF Inv
<1>1. t \in Procs /\ t # Restarter /\ proc[t].pc = "Release"
  BY DEF Procs, Release, At
<1>2. /\ ProcUpdate(t, "Done", None, "")
      /\ UNCHANGED <<restarting, deferred, tasks, others>>
  BY ReleaseUpdate DEF Release, release
<1>3. \/ active = t /\ active' = None /\ deleting' = FALSE /\ cancelling' = FALSE
      \/ active # t /\ UNCHANGED <<active, deleting, cancelling>>
  BY DEF Release, release
<1>4. TypeOK'
  BY <1>2, <1>3 DEF TypeOK, tasks, others, ProcUpdate
<1>5. ClaimHasOwner' /\ DeferredStops' /\ OnlyAskedStop'
  BY <1>1, <1>2, <1>3 DEF ProcUpdate, ClaimHasOwner, DeferredStops, OnlyAskedStop, TypeOK, others, Procs
<1>6. RestartInv'
  BY <1>1, <1>2, <1>3 DEF ProcUpdate, RestartInv, others, Procs
<1>7. CancellingIsForActive'
  BY <1>2, <1>3 DEF CancellingIsForActive, others
<1>8. AskedInv'
  BY <1>1, <1>2, <1>3 DEF ProcUpdate, AskedInv, others, Procs
<1>9. CellInv' /\ NoOrphanAgent'
  BY <1>1, <1>2, CellFrame DEF Steps
<1> QED
  BY <1>4, <1>5, <1>6, <1>7, <1>8, <1>9
-----------------------------------------------------------------------------
(* Cancellations.                                                          *)

(* A user's cancel begins with the turn that is claimed. *)
LEMMA CancelTurnStep ==
  ASSUME Inv, NEW c \in Cancels, CancelTurn(c)
  PROVE  Inv'
<1> USE TurnAssumption DEF Inv
<1>1. c \in Cancellers /\ c # Restarter
  BY DEF Cancellers
<1>2. /\ CancelUpdate(c, "Match", active) /\ active # None
      /\ UNCHANGED <<claims, tasks, proc, deletion, watch, asked, late, missed, row>>
  BY <1>1, CancelBeginsUpdate DEF CancelTurn
<1>3. TypeOK'
  BY <1>2 DEF TypeOK, claims, tasks, CancelUpdate
<1>4. ClaimHasOwner' /\ DeferredStops' /\ OnlyAskedStop' /\ CancellingIsForActive'
  BY <1>2 DEF ClaimHasOwner, DeferredStops, OnlyAskedStop, CancellingIsForActive, claims
<1>5. RestartInv' /\ AskedInv'
  BY <1>1, <1>2 DEF RestartInv, AskedInv, PastMatch, CancelUpdate, claims, Cancellers
<1>6. CellInv' /\ NoOrphanAgent'
  BY <1>2, CellFrame
<1> QED
  BY <1>3, <1>4, <1>5, <1>6

(* A cancellation is for the claimed turn, which is asked to stop, or over. *)
LEMMA MatchTurnStep ==
  ASSUME Inv, NEW c \in Cancellers, MatchTurn(c)
  PROVE  Inv'
<1> USE TurnAssumption DEF Inv
<1>1. /\ cancel[c].pc = "Match" /\ cancel[c].turn # None
      /\ UNCHANGED <<claims, tasks, proc, deletion, watch, late, missed, row>>
  BY DEF MatchTurn, CancelAt, AskedInv
<1>2. CellInv' /\ NoOrphanAgent'
  BY <1>1, CellFrame
<1>3. CASE active = cancel[c].turn
  <2>1. CancelUpdate(c, "Task", active) /\ active \in Turns /\ asked' = asked \cup {active}
    BY <1>1, <1>3, CancelToUpdate DEF MatchTurn, TypeOK
  <2>2. TypeOK'
    BY <1>1, <2>1 DEF TypeOK, claims, tasks, CancelUpdate
  <2>3. ClaimHasOwner' /\ DeferredStops' /\ OnlyAskedStop' /\ CancellingIsForActive'
    BY <1>1, <2>1 DEF ClaimHasOwner, DeferredStops, OnlyAskedStop, CancellingIsForActive, claims
  <2>4. RestartInv' /\ AskedInv'
    BY <1>1, <2>1 DEF RestartInv, AskedInv, PastMatch, CancelUpdate, claims, Cancellers
  <2> QED
    BY <1>2, <2>2, <2>3, <2>4
<1>4. CASE active # cancel[c].turn
  <2>1. CancelUpdate(c, "Done", None) /\ UNCHANGED asked
    BY <1>4, CancelOverUpdate DEF MatchTurn
  <2>2. TypeOK'
    BY <1>1, <2>1 DEF TypeOK, claims, tasks, CancelUpdate
  <2>3. ClaimHasOwner' /\ DeferredStops' /\ OnlyAskedStop' /\ CancellingIsForActive'
    BY <1>1, <2>1 DEF ClaimHasOwner, DeferredStops, OnlyAskedStop, CancellingIsForActive, claims
  <2>4. RestartInv' /\ AskedInv'
    BY <1>1, <1>4, <2>1 DEF RestartInv, AskedInv, PastMatch, CancelUpdate, claims, Cancellers
  <2> QED
    BY <1>2, <2>2, <2>3, <2>4
<1> QED
  BY <1>3, <1>4

(* A cancellation looks for the agent of the turn it was asked for. *)
LEMMA GetTaskStep ==
  ASSUME Inv, NEW c \in Cancellers, GetTask(c)
  PROVE  Inv'
<1> USE TurnAssumption DEF Inv
<1>1. PICK pc \in {"Mark", "Defer"} : CancelTo(c, pc)
  BY DEF GetTask
<1>2. /\ CancelUpdate(c, pc, cancel[c].turn) /\ cancel[c].pc = "Task"
      /\ UNCHANGED <<claims, tasks, proc, deletion, watch, asked, late, missed, row>>
  BY <1>1, CancelToUpdate DEF GetTask, CancelAt
<1>3. TypeOK'
  BY <1>2 DEF TypeOK, claims, tasks, CancelUpdate
<1>4. ClaimHasOwner' /\ DeferredStops' /\ OnlyAskedStop' /\ CancellingIsForActive'
  BY <1>2 DEF ClaimHasOwner, DeferredStops, OnlyAskedStop, CancellingIsForActive, claims
<1>5. RestartInv' /\ AskedInv'
  BY <1>2 DEF RestartInv, AskedInv, PastMatch, CancelUpdate, claims, Cancellers
<1>6. CellInv' /\ NoOrphanAgent'
  BY <1>2, CellFrame
<1> QED
  BY <1>3, <1>4, <1>5, <1>6

(* A cancel that found no agent is deferred to the turn it was asked for,  *)
(* and is recorded as missed if that turn will not look for it.            *)
LEMMA DeferStep ==
  ASSUME Inv, NEW c \in Cancellers, defer_cancel(c)
  PROVE  Inv'
<1> USE TurnAssumption DEF Inv
<1> DEFINE t == cancel[c].turn
<1>1. cancel[c].pc = "Defer" /\ t \in asked /\ t \in Turns
  BY DEF defer_cancel, CancelAt, AskedInv, TypeOK
<1>2. /\ CancelUpdate(c, "Done", None) /\ deferred' = t
      /\ missed' = IF PastPrompt(t) THEN missed \cup {t} ELSE missed
      /\ UNCHANGED <<active, deleting, cancelling, restarting, tasks, proc, deletion, watch, asked, late, row>>
  BY CancelOverUpdate DEF defer_cancel
<1> HIDE DEF t
<1>3. TypeOK'
  BY <1>1, <1>2 DEF TypeOK, tasks, CancelUpdate
<1>4. ClaimHasOwner' /\ OnlyAskedStop' /\ CancellingIsForActive'
  BY <1>2 DEF ClaimHasOwner, OnlyAskedStop, CancellingIsForActive
<1>5. DeferredStops'
  BY <1>2 DEF DeferredStops, PastPrompt
<1>6. RestartInv' /\ AskedInv'
  BY <1>1, <1>2 DEF RestartInv, AskedInv, PastMatch, CancelUpdate, Cancellers
<1>7. CellInv' /\ NoOrphanAgent'
  BY <1>2, CellFrame
<1> QED
  BY <1>3, <1>4, <1>5, <1>6, <1>7

(* The mark is put on whatever turn is claimed: it is the one that was     *)
(* asked to stop, or `late` records that it is not.                        *)
LEMMA MarkStep ==
  ASSUME Inv, NEW c \in Cancellers, mark_cancelling(c)
  PROVE  Inv'
<1> USE TurnAssumption DEF Inv
<1>1. cancel[c].pc = "Mark" /\ cancel[c].turn \in asked
  BY DEF mark_cancelling, CancelAt, AskedInv
<1>2. /\ CancelUpdate(c, "Ask", cancel[c].turn) /\ cancelling' = TRUE
      /\ late' = (late \/ active # cancel[c].turn)
      /\ UNCHANGED <<active, deleting, restarting, deferred, tasks, proc, deletion, watch, asked, missed, row>>
  BY CancelToUpdate DEF mark_cancelling
<1>3. TypeOK'
  <2>1. late' \in BOOLEAN
    BY <1>2
  <2> QED
    BY <1>2, <2>1 DEF TypeOK, tasks, CancelUpdate
<1>4. ClaimHasOwner' /\ DeferredStops' /\ OnlyAskedStop' /\ CancellingIsForActive'
  BY <1>1, <1>2 DEF ClaimHasOwner, DeferredStops, OnlyAskedStop, CancellingIsForActive
<1>5. RestartInv' /\ AskedInv'
  BY <1>1, <1>2 DEF RestartInv, AskedInv, PastMatch, CancelUpdate, Cancellers
<1>6. CellInv' /\ NoOrphanAgent'
  BY <1>2, CellFrame
<1> QED
  BY <1>3, <1>4, <1>5, <1>6

(* The agent accepts the cancel, or its refusal takes the mark away. *)
LEMMA AskStep ==
  ASSUME Inv, NEW c \in Cancellers, AskAgent(c)
  PROVE  Inv'
<1> USE TurnAssumption DEF Inv
<1>1. cancel[c].pc = "Ask" /\ cancel[c].turn \in Turns
  BY DEF AskAgent, CancelAt, AskedInv, TypeOK
<1>2. /\ \E pc \in {"Done", "Refused"} : CancelUpdate(c, pc, None)
      /\ cancelling' \in BOOLEAN /\ (cancelling' => cancelling)
      /\ watch' \in [Cancellers -> WatchState]
      /\ UNCHANGED <<active, deleting, restarting, deferred, tasks, proc, deletion, asked, late, missed, row>>
  <2>1. watch' \in [Cancellers -> WatchState]
    BY <1>1 DEF AskAgent, WatchState, TypeOK
  <2>2. UNCHANGED <<active, deleting, restarting, deferred, tasks, proc, deletion, asked, late, missed, row>>
    BY DEF AskAgent
  <2>3. CASE CancelOver(c, "Done") /\ UNCHANGED cancelling
    BY <2>1, <2>2, <2>3, CancelOverUpdate DEF TypeOK
  <2>4. CASE cancelling' = FALSE /\ CancelOver(c, "Refused")
    BY <2>1, <2>2, <2>4, CancelOverUpdate
  <2> QED
    BY <2>3, <2>4 DEF AskAgent
<1>3. TypeOK'
  BY <1>1, <1>2 DEF TypeOK, tasks, CancelUpdate
<1>4. ClaimHasOwner' /\ DeferredStops' /\ OnlyAskedStop' /\ CancellingIsForActive'
  BY <1>2 DEF ClaimHasOwner, DeferredStops, OnlyAskedStop, CancellingIsForActive
<1>5. RestartInv' /\ AskedInv'
  BY <1>1, <1>2 DEF RestartInv, AskedInv, PastMatch, CancelUpdate, Cancellers
<1>6. CellInv' /\ NoOrphanAgent'
  BY <1>2, CellFrame
<1> QED
  BY <1>3, <1>4, <1>5, <1>6
-----------------------------------------------------------------------------
(* Deletion.                                                               *)

(* A step of the deletion that leaves the task map alone. *)
LEMMA DeletionFrame ==
  ASSUME Inv, UNCHANGED <<active, cancelling, restarting, deferred, tasks, proc, OtherThanDeletion>>,
         deleting' \in BOOLEAN, row' \in BOOLEAN,
         deletion' \in [pc : {"Idle", "Hook", "Row", "Clear", "Done"}, had : BOOLEAN]
  PROVE  Inv'
<1> USE DEF Inv
<1>1. TypeOK'
  BY DEF TypeOK, tasks, OtherThanDeletion
<1>2. ClaimHasOwner' /\ DeferredStops' /\ OnlyAskedStop' /\ CancellingIsForActive' /\ RestartInv' /\ AskedInv'
  BY DEF ClaimHasOwner, DeferredStops, OnlyAskedStop, CancellingIsForActive, RestartInv, AskedInv, OtherThanDeletion
<1>3. CellInv' /\ NoOrphanAgent'
  BY CellFrame
<1> QED
  BY <1>1, <1>2, <1>3

(* A deletion marks the conversation, whoever is claimed. *)
LEMMA MarkDeletingStep ==
  ASSUME Inv, mark_deleting
  PROVE  Inv'
<1>1. (active # None) \in BOOLEAN
  OBVIOUS
<1>2. deletion' \in [pc : {"Idle", "Hook", "Row", "Clear", "Done"}, had : BOOLEAN]
  BY <1>1 DEF mark_deleting
<1> QED
  BY <1>2, DeletionFrame DEF mark_deleting, Inv, TypeOK

(* A deletion goes on. *)
LEMMA DeletionToType ==
  ASSUME NEW pc \in {"Row", "Done", "Clear"}, DeletionTo(pc)
  PROVE  deletion' \in [pc : {"Idle", "Hook", "Row", "Clear", "Done"}, had : BOOLEAN]
<1> DEFINE had == pc = "Row" /\ deletion.had
<1>1. had \in BOOLEAN
  OBVIOUS
<1>2. deletion' = [pc |-> pc, had |-> had]
  BY DEF DeletionTo
<1> HIDE DEF had
<1> QED
  BY <1>1, <1>2

(* The row is deleted, or that fails. *)
LEMMA DeleteRowStep ==
  ASSUME Inv, DeleteRow
  PROVE  Inv'
<1>1. deletion' \in [pc : {"Idle", "Hook", "Row", "Clear", "Done"}, had : BOOLEAN]
  BY DeletionToType DEF DeleteRow
<1>2. row' \in BOOLEAN
  BY DEF DeleteRow, Inv, TypeOK
<1> QED
  BY <1>1, <1>2, DeletionFrame DEF DeleteRow, Inv, TypeOK, claims

(* A deletion that found no turn, or failed, takes its mark back. *)
LEMMA ClearDeletingStep ==
  ASSUME Inv, clear_deleting
  PROVE  Inv'
<1>1. deletion' \in [pc : {"Idle", "Hook", "Row", "Clear", "Done"}, had : BOOLEAN]
  BY DeletionToType DEF clear_deleting
<1> QED
  BY <1>1, DeletionFrame DEF clear_deleting, Inv, TypeOK
-----------------------------------------------------------------------------
(* The task map.                                                           *)

(* A removal of the slot leaves behind, of an agent that is not dead, a    *)
(* cell that is still being initialised, and remembers it.                 *)
LEMMA UnmapCells ==
  ASSUME TypeOK, CellInv, NoOrphanAgent, Unmap,
         NEW d, doomed' \cup torn' = doomed \cup torn \cup d,
         \A i \in Cells : i = slot /\ cell[i] \in {"Vacant", "Building"} => i \in d,
         \/ UNCHANGED proc
         \/ \E p \in Procs, pc \in Steps \ {"Init", "Building"} : \E i, end : ProcUpdate(p, pc, i, end)
  PROVE  CellInv' /\ NoOrphanAgent'
<1>1. /\ slot' = None
      /\ \A i \in Cells : cell'[i] = IF i = slot /\ cell[i] = "Ready" THEN "Dead" ELSE cell[i]
  BY DEF Unmap
<1>2. \A i \in Cells : cell[i] \in {"Vacant", "Building", "Ready", "Dead"}
  BY DEF TypeOK
<1>3. NoOrphanAgent'
  BY <1>1 DEF NoOrphanAgent
<1>4. \A i \in Cells : Known(i) /\ cell'[i] # "Dead" => Known(i)'
  BY <1>1, <1>2 DEF Known
<1>5. \A i \in Cells : /\ cell'[i] # "Dead" => cell[i] # "Dead"
                       /\ cell[i] = "Building" => cell'[i] = "Building"
  BY <1>1
<1>6. CASE UNCHANGED proc
  BY <1>3, <1>4, <1>5, <1>6 DEF CellInv
<1>7. ASSUME NEW p \in Procs, NEW pc \in Steps \ {"Init", "Building"}, NEW i, NEW end,
             ProcUpdate(p, pc, i, end)
      PROVE  CellInv'
  BY <1>4, <1>5, <1>7 DEF CellInv, ProcUpdate
<1> QED
  BY <1>3, <1>6, <1>7

(* kill_and_wait changes the slot and the cells, and keeps their types. *)
LEMMA KillAndWait ==
  ASSUME TypeOK, CellInv, NoOrphanAgent, kill_and_wait,
         \/ UNCHANGED proc
         \/ \E p \in Procs, pc \in Steps \ {"Init", "Building"} : \E i, end : ProcUpdate(p, pc, i, end)
  PROVE  /\ slot' \in Cells \cup {None}
         /\ cell' \in [Cells -> {"Vacant", "Building", "Ready", "Dead"}]
         /\ doomed' \subseteq Cells /\ torn' \subseteq Cells
         /\ CellInv' /\ NoOrphanAgent'
<1>1. /\ slot' \in Cells \cup {None}
      /\ cell' \in [Cells -> {"Vacant", "Building", "Ready", "Dead"}]
      /\ doomed' \subseteq Cells /\ torn' \subseteq Cells
  BY DEF TypeOK, kill_and_wait, Unmap
<1>2. CellInv' /\ NoOrphanAgent'
  <2> DEFINE d == {i \in {slot} \ {None} : cell[i] \in {"Vacant", "Building"}}
  <2>1. doomed' \cup torn' = doomed \cup torn \cup d
    BY DEF kill_and_wait
  <2>2. \A i \in Cells : i = slot /\ cell[i] \in {"Vacant", "Building"} => i \in d
    BY NoneIsNoTurn
  <2> HIDE DEF d
  <2> QED
    BY <2>1, <2>2, UnmapCells DEF kill_and_wait
<1> QED
  BY <1>1, <1>2

(* The hook of a deletion kills the task without waiting for its build. *)
LEMMA DeletedHookStep ==
  ASSUME Inv, on_conversation_deleted
  PROVE  Inv'
<1> USE DEF Inv
<1>1. /\ slot' \in Cells \cup {None}
      /\ cell' \in [Cells -> {"Vacant", "Building", "Ready", "Dead"}]
      /\ doomed' \subseteq Cells /\ torn' \subseteq Cells
  BY DEF TypeOK, on_conversation_deleted, kill, Unmap
<1>2. CellInv' /\ NoOrphanAgent'
  <2> DEFINE d == {i \in {slot} \ {None} : cell[i] \in {"Vacant", "Building"}}
  <2>1. doomed' \cup torn' = doomed \cup torn \cup d
    BY DEF on_conversation_deleted, kill
  <2>2. \A i \in Cells : i = slot /\ cell[i] \in {"Vacant", "Building"} => i \in d
    BY NoneIsNoTurn
  <2> HIDE DEF d
  <2> QED
    BY <2>1, <2>2, UnmapCells DEF on_conversation_deleted, kill
<1>3. deletion' \in [pc : {"Idle", "Hook", "Row", "Clear", "Done"}, had : BOOLEAN]
  BY DEF on_conversation_deleted, DeletionTo, TypeOK
<1>4. UNCHANGED <<claims, proc, OtherThanDeletion, row>>
  BY DEF on_conversation_deleted
<1>5. TypeOK'
  BY <1>1, <1>3, <1>4 DEF TypeOK, claims, OtherThanDeletion
<1>6. ClaimHasOwner' /\ DeferredStops' /\ OnlyAskedStop' /\ CancellingIsForActive' /\ RestartInv' /\ AskedInv'
  BY <1>4 DEF ClaimHasOwner, DeferredStops, OnlyAskedStop, CancellingIsForActive, RestartInv, AskedInv,
              claims, OtherThanDeletion
<1> QED
  BY <1>2, <1>5, <1>6

(* A watchdog touches nothing but its own state and, when it kills, the task map. *)
LEMMA WatchdogStep ==
  ASSUME Inv, NEW c \in Cancellers, Watchdog(c)
  PROVE  Inv'
<1> USE DEF Inv
<1>1. UNCHANGED <<claims, proc, OtherThanWatch>> /\ watch' \in [Cancellers -> WatchState]
  BY DEF Watchdog, TimerFires, LookAtMark, WatchdogKills, WatchTo, WatchOver, WatchState, TypeOK
<1>2. ClaimHasOwner' /\ DeferredStops' /\ OnlyAskedStop' /\ CancellingIsForActive' /\ RestartInv' /\ AskedInv'
  BY <1>1 DEF ClaimHasOwner, DeferredStops, OnlyAskedStop, CancellingIsForActive, RestartInv, AskedInv,
              claims, OtherThanWatch
<1>3. CASE kill_and_wait
  <2>1. TypeOK'
    BY <1>1, <1>3, KillAndWait DEF TypeOK, claims, OtherThanWatch
  <2> QED
    BY <1>1, <1>2, <1>3, <2>1, KillAndWait
<1>4. CASE UNCHANGED tasks
  <2>1. TypeOK'
    BY <1>1, <1>4 DEF TypeOK, claims, tasks, OtherThanWatch
  <2> QED
    BY <1>1, <1>2, <1>4, <2>1, CellFrame
<1> QED
  BY <1>3, <1>4 DEF Watchdog, TimerFires, LookAtMark, WatchdogKills

(* evict_acp_task_after_terminal_error removes the slot, whatever has become of it. *)
LEMMA EvictStep ==
  ASSUME Inv, NEW t \in Turns, Evict(t)
  PROVE  Inv'
<1> USE TurnAssumption DEF Inv
<1>1. t \in Procs /\ t # Restarter /\ proc[t].pc \in {"Replay", "Evict"}
  BY DEF Procs, Evict, At
<1>2. PICK pc \in {"Replaying", "Evicted"} :
        ProcUpdate(t, pc, slot, "") /\ (pc = "Evicted" => proc[t].pc = "Evict")
  BY EvictUpdate DEF At
<1>3. kill_and_wait /\ UNCHANGED <<claims, others>>
  BY DEF Evict
<1>4. TypeOK' /\ CellInv' /\ NoOrphanAgent'
  <2>1. \E p \in Procs, k \in Steps \ {"Init", "Building"} : \E i, end : ProcUpdate(p, k, i, end)
    BY <1>1, <1>2 DEF Steps
  <2>2. /\ slot' \in Cells \cup {None}
        /\ cell' \in [Cells -> {"Vacant", "Building", "Ready", "Dead"}]
        /\ doomed' \subseteq Cells /\ torn' \subseteq Cells
        /\ CellInv' /\ NoOrphanAgent'
    BY <1>3, <2>1, KillAndWait
  <2> QED
    BY <1>2, <1>3, <2>2 DEF TypeOK, claims, others, ProcUpdate
<1>5. ClaimHasOwner' /\ DeferredStops' /\ OnlyAskedStop'
  BY <1>1, <1>2, <1>3 DEF ProcUpdate, ClaimHasOwner, DeferredStops, OnlyAskedStop, TypeOK, claims, others, Procs
<1>6. RestartInv' /\ AskedInv' /\ CancellingIsForActive'
  BY <1>1, <1>2, <1>3 DEF ProcUpdate, RestartInv, AskedInv, CancellingIsForActive, claims, others, Procs
<1> QED
  BY <1>4, <1>5, <1>6

(* The end of a kill_and_wait: the agent is dead, or there was none yet. *)
LEMMA KillWhenBuiltStep ==
  ASSUME Inv, KillWhenBuilt
  PROVE  Inv'
<1> USE DEF Inv
<1>1. PICK i \in doomed :
        /\ cell[i] # "Building"
        /\ cell' = [cell EXCEPT ![i] = IF @ = "Ready" THEN "Dead" ELSE @]
        /\ doomed' = doomed \ {i}
        /\ torn' = IF cell[i] = "Vacant" THEN torn \cup {i} ELSE torn
  BY DEF KillWhenBuilt
<1>2. UNCHANGED <<claims, slot, proc, others>>
  BY DEF KillWhenBuilt
<1>3. TypeOK'
  BY <1>1, <1>2 DEF TypeOK, claims, others
<1>4. ClaimHasOwner' /\ DeferredStops' /\ OnlyAskedStop' /\ CancellingIsForActive' /\ RestartInv' /\ AskedInv'
  BY <1>2 DEF ClaimHasOwner, DeferredStops, OnlyAskedStop, CancellingIsForActive, RestartInv, AskedInv,
              claims, others
<1>5. \A j \in Cells :
        /\ cell[j] \in {"Vacant", "Building", "Ready", "Dead"}
        /\ cell'[j] = IF j = i /\ cell[j] = "Ready" THEN "Dead" ELSE cell[j]
  BY <1>1 DEF TypeOK
<1>6. \A j \in Cells : cell'[j] # "Dead" /\ Known(j) => Known(j)'
  BY <1>1, <1>2, <1>5 DEF Known
<1>7. NoOrphanAgent'
  BY <1>5, <1>6 DEF NoOrphanAgent, Known
<1>8. CellInv'
  BY <1>1, <1>2, <1>5, <1>6 DEF CellInv
<1> QED
  BY <1>3, <1>4, <1>7, <1>8
-----------------------------------------------------------------------------
(* Building an agent, for a turn or for the restart.                       *)

(* What a step of a build leaves alone, whoever builds: the builder stays  *)
(* between its claim and its release.                                      *)
LEMMA BuildFrame ==
  ASSUME Inv, NEW p \in Procs, UNCHANGED <<claims, others>>,
         proc[p].pc \in {"Slot", "Init", "Building"},
         NEW pc \in {"Init", "Building", "Built", "Release"}, NEW i, ProcUpdate(p, pc, i, proc[p].end)
  PROVE  /\ ClaimHasOwner' /\ DeferredStops' /\ OnlyAskedStop' /\ CancellingIsForActive'
         /\ RestartInv' /\ AskedInv'
<1> USE TurnAssumption DEF Inv
<1>1. ClaimHasOwner' /\ DeferredStops' /\ OnlyAskedStop' /\ CancellingIsForActive'
  BY DEF ProcUpdate, ClaimHasOwner, DeferredStops, OnlyAskedStop, CancellingIsForActive, TypeOK, claims, others, Procs
<1>2. RestartInv'
  BY DEF ProcUpdate, RestartInv, RestartSteps, claims, others, Procs
<1>3. AskedInv'
  BY DEF ProcUpdate, AskedInv, claims, others, Procs
<1> QED
  BY <1>1, <1>2, <1>3

(* The entry of the map: the slot that is there, or a cell nobody uses. *)
LEMMA GetSlotStep ==
  ASSUME Inv, NEW p \in Procs, GetSlot(p)
  PROVE  Inv'
<1> USE DEF Inv
<1>1. proc[p].pc = "Slot" /\ UNCHANGED <<claims, doomed, others>>
  BY DEF GetSlot, At
<1>2. CASE slot # None
  <2>1. Hold(p, "Init", slot) /\ UNCHANGED <<slot, cell, torn>> /\ slot \in Cells
    BY <1>2 DEF GetSlot, TypeOK
  <2>2. ProcUpdate(p, "Init", slot, proc[p].end)
    BY <2>1, HoldUpdate DEF Steps
  <2>3. TypeOK'
    BY <1>1, <2>1, <2>2 DEF TypeOK, claims, others, ProcUpdate
  <2>4. NoOrphanAgent'
    BY <1>1, <2>1 DEF NoOrphanAgent
  <2>5. CellInv'
    BY <1>1, <2>1, <2>2 DEF CellInv, Known, ProcUpdate
  <2> QED
    BY <1>1, <2>2, <2>3, <2>4, <2>5, BuildFrame
<1>3. CASE slot = None
  <2> DEFINE i == Min(Unused)
  <2>1. /\ slot' = i /\ cell' = [cell EXCEPT ![i] = "Vacant"] /\ Hold(p, "Init", i)
        /\ torn' = torn \ ({slot'} \ {slot}) /\ Unused # {}
    BY <1>3 DEF GetSlot
  <2>2. i \in Unused
    BY <2>1, MinUnused
  <2> HIDE DEF i
  <2>3. /\ i \in Cells /\ i # None /\ cell[i] \in {"Vacant", "Dead"} /\ i \notin doomed
        /\ \A q \in Procs : proc[q].cell # i
    BY <2>2, NoneIsNoTurn DEF Unused
  <2>4. ProcUpdate(p, "Init", i, proc[p].end)
    BY <2>1, <2>3, HoldUpdate DEF Steps
  <2>5. torn' = torn \ {i} /\ \A j \in Cells : cell'[j] = IF j = i THEN "Vacant" ELSE cell[j]
    BY <1>3, <2>1, <2>3 DEF TypeOK
  <2>6. TypeOK'
    BY <1>1, <2>1, <2>3, <2>4, <2>5 DEF TypeOK, claims, others, ProcUpdate
  <2>7. \A j \in Cells : j # i /\ Known(j) => Known(j)'
    BY <1>1, <1>3, <2>5, NoneIsNoTurn DEF Known
  <2>8. NoOrphanAgent'
    BY <2>5, <2>7 DEF NoOrphanAgent, Known
  <2>9. CellInv'
    BY <2>1, <2>3, <2>4, <2>5, <2>7 DEF CellInv, ProcUpdate, Known
  <2> QED
    BY <1>1, <2>4, <2>6, <2>8, <2>9, BuildFrame
<1> QED
  BY <1>2, <1>3

(* The cell is initialised by the first who finds it vacant; the others    *)
(* find the agent, or one that was killed in the meantime.                 *)
LEMMA InitCellStep ==
  ASSUME Inv, NEW p \in Procs, InitCell(p)
  PROVE  Inv'
<1> USE DEF Inv
<1> DEFINE i == proc[p].cell
<1>1. /\ proc[p].pc = "Init" /\ UNCHANGED <<claims, slot, doomed, torn, others>>
      /\ i \in Cells /\ (cell[i] # "Dead" => Known(i))
  BY DEF InitCell, At, CellInv
<1>2. CASE cell[i] = "Vacant" /\ cell' = [cell EXCEPT ![i] = "Building"] /\ GoTo(p, "Building")
  <2>1. ProcUpdate(p, "Building", i, proc[p].end)
    BY <1>2, GoToUpdate DEF Steps
  <2>2. TypeOK'
    BY <1>1, <1>2, <2>1 DEF TypeOK, claims, others, ProcUpdate
  <2>3. \A j \in Cells : cell'[j] = IF j = i THEN "Building" ELSE cell[j]
    BY <1>2 DEF TypeOK
  <2>4. NoOrphanAgent'
    BY <1>1, <2>3 DEF NoOrphanAgent
  <2>5. CellInv'
    <3> HIDE DEF i
    <3> QED
      BY <1>1, <1>2, <2>1, <2>3 DEF CellInv, Known, ProcUpdate
  <2> QED
    BY <1>1, <2>1, <2>2, <2>4, <2>5, BuildFrame
<1>3. CASE GoTo(p, "Built") /\ UNCHANGED cell
  <2>1. ProcUpdate(p, "Built", i, proc[p].end)
    BY <1>3, GoToUpdate DEF Steps
  <2>2. TypeOK'
    BY <1>1, <1>3, <2>1 DEF TypeOK, claims, others, ProcUpdate
  <2>3. CellInv' /\ NoOrphanAgent'
    BY <1>1, <1>3, <2>1, CellFrame DEF Steps, tasks
  <2> QED
    BY <1>1, <2>1, <2>2, <2>3, BuildFrame
<1> QED
  BY <1>2, <1>3 DEF InitCell

(* The cell of a build that ends is the builder's alone, and the map or a  *)
(* kill knows it.                                                          *)
LEMMA BuildEndsStep ==
  ASSUME Inv, NEW p \in Procs, BuildEnds(p)
  PROVE  Inv'
<1> USE DEF Inv
<1> DEFINE i == proc[p].cell
<1>1. /\ proc[p].pc = "Building" /\ UNCHANGED <<claims, slot, doomed, torn, others>>
      /\ i \in Cells /\ Known(i)
  BY DEF BuildEnds, At, CellInv
<1>2. ASSUME NEW st \in {"Ready", "Vacant"}, cell' = [cell EXCEPT ![i] = st],
             NEW pc \in {"Built", "Release"}, GoTo(p, pc)
      PROVE  Inv'
  <2>1. ProcUpdate(p, pc, i, proc[p].end)
    BY <1>2, GoToUpdate DEF Steps
  <2>2. TypeOK'
    BY <1>1, <1>2, <2>1 DEF TypeOK, claims, others, ProcUpdate
  <2>3. \A j \in Cells : cell'[j] = IF j = i THEN st ELSE cell[j]
    BY <1>2 DEF TypeOK
  <2>4. NoOrphanAgent'
    BY <1>1, <2>3 DEF NoOrphanAgent, Known
  <2>5. CellInv'
    BY <1>1, <2>1, <2>3 DEF CellInv, Known, ProcUpdate
  <2> QED
    BY <1>1, <2>1, <2>2, <2>4, <2>5, BuildFrame
<1> QED
  BY <1>2 DEF BuildEnds
-----------------------------------------------------------------------------
(* The restart.                                                            *)

(* A step of the restart that changes only where it is, its gate and its   *)
(* hold of a cell.                                                         *)
LEMMA RestartMoves ==
  ASSUME Inv, UNCHANGED <<active, deleting, cancelling, deferred, tasks, others>>,
         NEW pc \in RestartSteps \ {"Init", "Building"}, NEW i,
         ProcUpdate(Restarter, pc, i, proc[Restarter].end),
         restarting' \in BOOLEAN,
         pc # "Unsent", pc \notin {"Look", "Begin", "Done"} => restarting',
         pc \in {"Look", "Begin"} => cancel[Restarter].pc = "Idle",
         pc \in {"Ensure", "Slot", "Built", "Release"} => active = None,
         pc \in {"Kill", "Wait"} => active \in asked \cup {None},
         pc = "Cancel" => cancel[Restarter].pc = "Idle"
  PROVE  Inv'
<1> USE TurnAssumption DEF Inv
<1>1. Restarter \in Procs /\ Restarter \notin Turns
  BY DEF Procs
<1>2. TypeOK'
  BY DEF TypeOK, tasks, others, ProcUpdate
<1>3. ClaimHasOwner' /\ DeferredStops' /\ OnlyAskedStop' /\ CancellingIsForActive'
  BY <1>1 DEF ProcUpdate, ClaimHasOwner, DeferredStops, OnlyAskedStop, CancellingIsForActive, TypeOK, others, Procs
<1>4. RestartInv'
  BY DEF ProcUpdate, RestartInv, PastMatch, others
<1>5. AskedInv'
  BY <1>1 DEF ProcUpdate, AskedInv, others, Procs
<1>6. CellInv' /\ NoOrphanAgent'
  BY <1>1, CellFrame DEF RestartSteps, Steps
<1> QED
  BY <1>2, <1>3, <1>4, <1>5, <1>6

(* A restart is asked for. *)
LEMMA RequestRestartStep ==
  ASSUME Inv, RequestRestart
  PROVE  Inv'
<1>1. ProcUpdate(Restarter, "Look", proc[Restarter].cell, proc[Restarter].end)
  BY GoToUpdate DEF RequestRestart, Step, Procs, Steps, Inv
<1>2. proc[Restarter].pc = "Unsent" /\ UNCHANGED <<claims, tasks, others>>
  BY DEF RequestRestart, Step, At
<1> QED
  BY <1>1, <1>2, RestartMoves DEF RestartSteps, Inv, RestartInv, TypeOK, claims

(* The restart goes on only if there is a runtime. *)
LEMMA LookForTaskStep ==
  ASSUME Inv, LookForTask
  PROVE  Inv'
<1>1. PICK pc \in {"Begin", "Done"} : GoTo(Restarter, pc)
  BY DEF LookForTask
<1>2. ProcUpdate(Restarter, pc, proc[Restarter].cell, proc[Restarter].end)
  BY <1>1, GoToUpdate DEF Procs, Steps, Inv
<1>3. proc[Restarter].pc = "Look" /\ UNCHANGED <<claims, tasks, others>>
  BY DEF LookForTask, At
<1> QED
  BY <1>2, <1>3, RestartMoves DEF RestartSteps, Inv, RestartInv, TypeOK, claims

(* begin_restart closes the gate and has cancelled nothing yet. *)
LEMMA BeginRestartStep ==
  ASSUME Inv, begin_restart
  PROVE  Inv'
<1>1. PICK pc \in {"Cancel", "Done"} :
        GoTo(Restarter, pc) /\ restarting' \in BOOLEAN /\ (pc = "Cancel" => restarting')
  BY DEF begin_restart, Inv, TypeOK
<1>2. ProcUpdate(Restarter, pc, proc[Restarter].cell, proc[Restarter].end)
  BY <1>1, GoToUpdate DEF Procs, Steps, Inv
<1>3. /\ proc[Restarter].pc = "Begin"
      /\ UNCHANGED <<active, deleting, cancelling, deferred, tasks, others>>
  BY DEF begin_restart, At
<1> QED
  BY <1>1, <1>2, <1>3, RestartMoves DEF RestartSteps, Inv, RestartInv

(* The restart is to cancel the turn that is claimed, if any. *)
LEMMA RestartCancelsStep ==
  ASSUME Inv, RestartCancels
  PROVE  Inv'
<1> USE TurnAssumption DEF Inv
<1>1. /\ Restarter \in Procs /\ Restarter \in Cancellers /\ proc[Restarter].pc = "Cancel" /\ restarting
      /\ UNCHANGED <<claims, tasks, deletion, watch, asked, late, missed, row>>
  BY DEF Procs, Cancellers, RestartCancels, At, RestartInv
<1>2. CASE active # None
  <2>1. CancelUpdate(Restarter, "Lookup", active) /\ UNCHANGED proc
    BY <1>1, <1>2, CancelBeginsUpdate DEF RestartCancels
  <2>2. TypeOK'
    BY <1>1, <2>1 DEF TypeOK, claims, tasks, CancelUpdate
  <2>3. ClaimHasOwner' /\ DeferredStops' /\ OnlyAskedStop' /\ CancellingIsForActive'
    BY <1>1, <2>1 DEF ClaimHasOwner, DeferredStops, OnlyAskedStop, CancellingIsForActive, claims
  <2>4. RestartInv' /\ AskedInv'
    BY <1>1, <1>2, <2>1 DEF RestartInv, AskedInv, PastMatch, CancelUpdate, claims, Cancellers
  <2>5. CellInv' /\ NoOrphanAgent'
    BY <1>1, <2>1, CellFrame
  <2> QED
    BY <2>2, <2>3, <2>4, <2>5
<1>3. CASE active = None
  <2>1. GoTo(Restarter, "Kill") /\ UNCHANGED cancel
    BY <1>3 DEF RestartCancels
  <2>2. ProcUpdate(Restarter, "Kill", proc[Restarter].cell, proc[Restarter].end)
    BY <1>1, <2>1, GoToUpdate DEF Steps
  <2>3. /\ UNCHANGED <<active, deleting, cancelling, deferred, tasks, others>>
        /\ restarting' \in BOOLEAN /\ restarting'
    BY <1>1, <2>1 DEF claims, others, TypeOK
  <2> QED
    BY <1>3, <2>2, <2>3, RestartMoves DEF RestartSteps
<1> QED
  BY <1>2, <1>3

(* cancel_with_cause finds the conversation, or the restart is given up. *)
LEMMA RestartReadsRowStep ==
  ASSUME Inv, RestartReadsRow
  PROVE  Inv'
<1> USE TurnAssumption DEF Inv
<1>1. /\ Restarter \in Cancellers /\ cancel[Restarter].pc = "Lookup" /\ cancel[Restarter].turn # None
      /\ UNCHANGED <<claims, tasks, proc, deletion, watch, asked, late, missed, row>>
  BY DEF Cancellers, RestartReadsRow, CancelAt, AskedInv
<1>2. \/ CancelUpdate(Restarter, "Match", cancel[Restarter].turn)
      \/ CancelUpdate(Restarter, "Refused", None)
  BY <1>1, CancelToUpdate, CancelOverUpdate DEF RestartReadsRow
<1>3. TypeOK'
  BY <1>1, <1>2 DEF TypeOK, claims, tasks, CancelUpdate
<1>4. ClaimHasOwner' /\ DeferredStops' /\ OnlyAskedStop' /\ CancellingIsForActive'
  BY <1>1 DEF ClaimHasOwner, DeferredStops, OnlyAskedStop, CancellingIsForActive, claims
<1>5. RestartInv' /\ AskedInv'
  BY <1>1, <1>2 DEF RestartInv, AskedInv, PastMatch, CancelUpdate, claims, Cancellers
<1>6. CellInv' /\ NoOrphanAgent'
  BY <1>1, CellFrame
<1> QED
  BY <1>3, <1>4, <1>5, <1>6

(* The restart goes on when its cancellation is over, and gives up when it failed. *)
LEMMA RestartGoesOnStep ==
  ASSUME Inv, RestartGoesOn
  PROVE  Inv'
<1> USE TurnAssumption DEF Inv
<1>1. PICK pc \in {"Kill", "Abort"} :
        GoTo(Restarter, pc) /\ (pc = "Kill" => cancel[Restarter].pc = "Done")
  BY DEF RestartGoesOn, CancelAt
<1>2. ProcUpdate(Restarter, pc, proc[Restarter].cell, proc[Restarter].end)
  BY <1>1, GoToUpdate DEF Procs, Steps
<1>3. /\ proc[Restarter].pc = "Cancel" /\ restarting
      /\ UNCHANGED <<claims, tasks, others>>
  BY DEF RestartGoesOn, At, RestartInv
<1>4. pc = "Kill" => active \in asked \cup {None}
  BY <1>1, <1>3 DEF RestartInv, PastMatch
<1>5. /\ UNCHANGED <<active, deleting, cancelling, deferred, tasks, others>>
      /\ restarting' \in BOOLEAN /\ restarting'
  BY <1>3 DEF claims, TypeOK
<1> QED
  BY <1>2, <1>4, <1>5, RestartMoves DEF RestartSteps

(* The restart kills the runtime and waits for a build in progress. *)
LEMMA RestartKillsStep ==
  ASSUME Inv, RestartKills
  PROVE  Inv'
<1> USE TurnAssumption DEF Inv
<1>1. /\ Restarter \in Procs /\ Restarter \notin Turns /\ proc[Restarter].pc = "Kill"
      /\ kill_and_wait /\ UNCHANGED <<claims, others>>
  BY DEF Procs, RestartKills, At
<1>2. ProcUpdate(Restarter, "Wait", slot, proc[Restarter].end)
  BY <1>1, HoldUpdate DEF RestartKills, Steps, TypeOK
<1>3. TypeOK' /\ CellInv' /\ NoOrphanAgent'
  <2>1. \E p \in Procs, k \in Steps \ {"Init", "Building"} : \E i, end : ProcUpdate(p, k, i, end)
    BY <1>1, <1>2 DEF Steps
  <2>2. /\ slot' \in Cells \cup {None}
        /\ cell' \in [Cells -> {"Vacant", "Building", "Ready", "Dead"}]
        /\ doomed' \subseteq Cells /\ torn' \subseteq Cells
        /\ CellInv' /\ NoOrphanAgent'
    BY <1>1, <2>1, KillAndWait
  <2> QED
    BY <1>1, <1>2, <2>2 DEF TypeOK, claims, others, ProcUpdate
<1>4. ClaimHasOwner' /\ DeferredStops' /\ OnlyAskedStop' /\ CancellingIsForActive'
  BY <1>1, <1>2
  DEF ProcUpdate, ClaimHasOwner, DeferredStops, OnlyAskedStop, CancellingIsForActive, TypeOK, claims, others, Procs
<1>5. RestartInv' /\ AskedInv'
  BY <1>1, <1>2 DEF ProcUpdate, RestartInv, RestartSteps, AskedInv, claims, others, Procs
<1> QED
  BY <1>3, <1>4, <1>5

(* The restart takes the claim from a turn that was asked to stop, or from *)
(* nobody.                                                                 *)
LEMMA ClearTurnStateStep ==
  ASSUME Inv, clear_turn_state_for_restart
  PROVE  Inv'
<1> USE TurnAssumption DEF Inv
<1>1. /\ Restarter \in Procs /\ Restarter \notin Turns /\ proc[Restarter].pc = "Wait"
      /\ active' = None /\ cancelling' = FALSE /\ deferred' = None
      /\ UNCHANGED <<deleting, restarting, tasks, others>>
  BY DEF Procs, clear_turn_state_for_restart, At
<1>2. ProcUpdate(Restarter, "Ensure", proc[Restarter].cell, proc[Restarter].end)
  BY <1>1, GoToUpdate DEF clear_turn_state_for_restart, Steps
<1>3. TypeOK'
  BY <1>1, <1>2 DEF TypeOK, tasks, others, ProcUpdate
<1>4. ClaimHasOwner' /\ DeferredStops' /\ OnlyAskedStop' /\ CancellingIsForActive'
  BY <1>1, <1>2, NoneIsNoTurn
  DEF ProcUpdate, ClaimHasOwner, DeferredStops, OnlyAskedStop, CancellingIsForActive, others, Procs
<1>5. RestartInv'
  BY <1>1, <1>2 DEF ProcUpdate, RestartInv, RestartSteps
<1>6. AskedInv'
  BY <1>1, <1>2, NoneIsNoTurn DEF ProcUpdate, RestartInv, AskedInv, others, Procs
<1>7. CellInv' /\ NoOrphanAgent'
  BY <1>1, <1>2, CellFrame DEF Steps
<1> QED
  BY <1>3, <1>4, <1>5, <1>6, <1>7

(* ensure_runtime_agent takes the task that is there, or builds one. *)
LEMMA EnsureStep ==
  ASSUME Inv, Ensure
  PROVE  Inv'
<1> USE DEF Inv
<1>1. PICK pc \in {"Built", "Slot"} : GoTo(Restarter, pc)
  BY DEF Ensure
<1>2. ProcUpdate(Restarter, pc, proc[Restarter].cell, proc[Restarter].end)
  BY <1>1, GoToUpdate DEF Steps, Procs
<1>3. /\ UNCHANGED <<active, deleting, cancelling, deferred, tasks, others>>
      /\ restarting' \in BOOLEAN /\ restarting' /\ active = None
  BY DEF Ensure, At, claims, RestartInv, TypeOK
<1> QED
  BY <1>2, <1>3, RestartMoves DEF RestartSteps

(* The gate is opened again, on every path out of the restart. *)
LEMMA ClearRestartingStep ==
  ASSUME Inv, clear_restarting
  PROVE  Inv'
<1>1. ProcUpdate(Restarter, "Done", None, proc[Restarter].end)
  BY HoldUpdate DEF clear_restarting, Steps, Procs, Inv
<1>2. /\ UNCHANGED <<active, deleting, cancelling, deferred, tasks, others>>
      /\ restarting' \in BOOLEAN
  BY DEF clear_restarting
<1> QED
  BY <1>1, <1>2, RestartMoves DEF RestartSteps
-----------------------------------------------------------------------------
(* Every step keeps the invariant.                                         *)

(* A conversation starts without turns, agents and requests. *)
LEMMA InitInv == Init => Inv
<1> SUFFICES ASSUME Init PROVE Inv
  OBVIOUS
<1>1. TypeOK
  BY DEF Init, TypeOK, ProcState, CancelState, WatchState, Steps
<1>2. ClaimHasOwner /\ DeferredStops /\ OnlyAskedStop /\ CancellingIsForActive /\ AskedInv
  BY NoneIsNoTurn
  DEF Init, ClaimHasOwner, DeferredStops, OnlyAskedStop, CancellingIsForActive, AskedInv, Procs
<1>3. RestartInv /\ CellInv /\ NoOrphanAgent
  BY DEF Init, RestartInv, RestartSteps, CellInv, NoOrphanAgent, Procs, Cancellers
<1> QED
  BY <1>1, <1>2, <1>3 DEF Inv

(* Every step of every process keeps the invariant. *)
LEMMA NextInv == Inv /\ [Next]_vars => Inv'
<1> SUFFICES ASSUME Inv, [Next]_vars PROVE Inv'
  OBVIOUS
<1>1. ASSUME NEW p \in Procs, Build(p) PROVE Inv'
  BY <1>1, GetSlotStep, InitCellStep, BuildEndsStep DEF Build
<1>2. ASSUME NEW t \in Turns, Send(t) \/ Turn(t) \/ AttemptEnds(t) PROVE Inv'
  BY <1>1, <1>2, SendStep, ClaimStep, PersistStep, PromptStep, AttemptEndsStep, DecideStep, EvictStep,
     EvictedStep, ReleaseStep DEF Turn, Procs
<1>3. ASSUME NEW c \in Cancels, CancelTurn(c) PROVE Inv'
  BY <1>3, CancelTurnStep
<1>4. ASSUME NEW c \in Cancellers, Cancel(c) \/ Watchdog(c) PROVE Inv'
  BY <1>4, MatchTurnStep, GetTaskStep, DeferStep, MarkStep, AskStep, WatchdogStep DEF Cancel
<1>5. CASE RequestRestart \/ Restart
  BY <1>1, <1>5, RequestRestartStep, LookForTaskStep, BeginRestartStep, RestartCancelsStep, RestartReadsRowStep,
     RestartGoesOnStep, RestartKillsStep, ClearTurnStateStep, EnsureStep, ClearRestartingStep
  DEF Restart, Procs
<1>6. CASE mark_deleting \/ Delete
  BY <1>6, MarkDeletingStep, DeletedHookStep, DeleteRowStep, ClearDeletingStep DEF Delete
<1>7. CASE KillWhenBuilt
  BY <1>7, KillWhenBuiltStep
<1>8. CASE UNCHANGED vars
  <2>1. TypeOK'
    BY <1>8 DEF Inv, TypeOK, vars, claims, tasks, others
  <2>2. ClaimHasOwner' /\ DeferredStops' /\ OnlyAskedStop' /\ CancellingIsForActive' /\ RestartInv' /\ AskedInv'
    BY <1>8 DEF Inv, ClaimHasOwner, DeferredStops, OnlyAskedStop, CancellingIsForActive, RestartInv, AskedInv,
                vars, claims, others
  <2>3. CellInv' /\ NoOrphanAgent'
    BY <1>8, CellFrame DEF Inv, vars
  <2> QED
    BY <2>1, <2>2, <2>3 DEF Inv
<1> QED
  BY <1>2, <1>3, <1>4, <1>5, <1>6, <1>7, <1>8 DEF Next

(* The inductive invariant holds in every reachable state. *)
THEOREM Invariance == Spec => []Inv
  BY InitInv, NextInv, PTL DEF Spec

(* Every variable stays within its type. *)
THEOREM TypeCorrect == Spec => []TypeOK
<1>1. Inv => TypeOK
  BY DEF Inv
<1> QED
  BY <1>1, Invariance, PTL

(* try_claim_turn is always undone: whatever path a turn takes, through failed
   writes and builds, replays, restarts and deletion, the turn that is claimed
   is one that has yet to pass its release. *)
THEOREM ClaimsReleased == Spec => []ClaimHasOwner
<1>1. Inv => ClaimHasOwner
  BY DEF Inv
<1> QED
  BY <1>1, Invariance, PTL

(* mark_cancelling is only in force for a turn that somebody asked to stop, unless
   it was set after the turn it was meant for had released its claim. *)
THEOREM MarkIsForActive == Spec => []CancellingIsForActive
<1>1. Inv => CancellingIsForActive
  BY DEF Inv
<1> QED
  BY <1>1, Invariance, PTL

(* defer_cancel is not lost: a turn does not get past take_deferred_cancel with a
   cancel deferred to it, in its first attempt or in its replay, unless the
   cancel was recorded after the turn had looked. *)
THEOREM DeferredCancelStops == Spec => []DeferredStops
<1>1. Inv => DeferredStops
  BY DEF Inv
<1> QED
  BY <1>1, Invariance, PTL

(* A turn that take_deferred_cancel or the check for a cancellation stops before its
   prompt was asked to stop, whatever cancellations, restarts and claims of other
   turns went on meanwhile. *)
THEOREM StopsWereAsked == Spec => []OnlyAskedStop
<1>1. Inv => OnlyAskedStop
  BY DEF Inv
<1> QED
  BY <1>1, Invariance, PTL

(* Between clear_turn_state_for_restart and clear_restarting no turn gets a claim,
   even one that passed its first check before the restart began. *)
THEOREM RestartIsAlone == Spec => []RestartGate
<1>1. Inv => RestartGate
  BY DEF Inv, RestartInv, RestartGate, At
<1> QED
  BY <1>1, Invariance, PTL

(* No agent is forgotten: one that runs is in the task map or kill_and_wait is about
   to kill it, unless its slot was removed while it had no agent by the plain kill
   of a deletion, or by a kill_and_wait that found nobody building. *)
THEOREM AgentsAreKnown == Spec => []NoOrphanAgent
<1>1. Inv => NoOrphanAgent
  BY DEF Inv
<1> QED
  BY <1>1, Invariance, PTL
=============================================================================
