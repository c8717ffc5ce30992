---------------------------- MODULE OperatorTake ----------------------------
(***************************************************************************)
(* The advance-funds flows of one coordinator (AdvanceFundsFlow) and the   *)
(* processor that drives them (AdvanceFundsFlowProcessor), between         *)
(* Rootstock, whose events it confirms, and BitVMX, whose answers and SPV  *)
(* proofs it waits for.                                                    *)
(*                                                                         *)
(* A flow is saved whenever it moves; the processor's own state, the       *)
(* events that are confirming and the scheduled retries, is saved at the   *)
(* end of a handler that succeeded.  pc says where in a handler the        *)
(* coordinator is, so that a crash can fall between the two.               *)
(*                                                                         *)
(* What the flow remembers of a proof or a transaction (the Option fields  *)
(* of FlowContext) is left out: a step is entered only by the event that   *)
(* fills the field its entry action reads.                                 *)
(***************************************************************************)
EXTENDS Integers, Sequences, Functions

CONSTANTS
    Flow,         \* the flows, by the OperatorTakeTriggered transaction
    Selected,     \* those whose take operator is this node
    Delay,        \* btc_status_retry_blocks
    Budgets       \* bounds on what happens and on what fails: see Budget

(* takes: the operator takes; missing: the answers "missing confirmations" *)
(* of the bridge; crashes: the crashes; lossy: messages may be lost, as a  *)
(* call or a send fails, one of errors, or a crash falls in the middle of  *)
(* a handler, and logs may wait while the chain moves on; fails: the flows *)
(* an administrator may fail.                                              *)
Budget ==
    [takes : Nat, missing : Nat, errors : Nat, crashes : Nat, lossy : BOOLEAN, fails : SUBSET Flow]

ASSUME OperatorTakeAssumption ==
    /\ Selected \subseteq Flow
    /\ Delay \in Nat \ {0}
    /\ \A b \in Budgets : b \in Budget

VARIABLES
    registered,  \* Rootstock, per flow: how many of Milestones happened
    logs,        \* logs sent to the coordinator and not yet received
    asked,       \* one-shot answers BitVMX owes, as <<flow, kind>>
    told,        \* what BitVMX was told, as <<flow, what>>
    seen,        \* SPVs BitVMX emitted at least once, as <<flow, kind>>
    pc,          \* "down", "idle" or the place inside a handler
    mem,         \* the processor's flows
    disk,        \* the saved flows
    confirming,  \* events_confirming, in the order they get confirmed
    retries,     \* the RetryTracker: flow -> blocks left
    pending,     \* flows the loop of the running handler has still to serve
    saved,       \* AdvanceFundsProcessorState
    completed,   \* history: flows saved as Done
    failed,      \* history: flows saved as Failed
    replayed,    \* history: flows whose trigger a restart brought back
    left         \* what is left of the budget

network == <<registered, logs, asked, told, seen>>
history == <<completed, failed, replayed>>
vars    == <<network, pc, mem, disk, confirming, retries, pending, saved, history, left>>

-----------------------------------------------------------------------------
(* Steps, by Steps::pos. *)

WaitRskOperatorTakeTriggered             == 0
GetBitVmxCommInfo                        == 1
RequestBitVmxOperatorTakeTransactionInfo == 2
SetupBitVmxAdvanceFundsProtocol          == 3
WaitBitVmxAdvanceFundsSpv                == 4
RegisterOrWaitRskAdvanceFunds            == 5
SetVarBitVmxAdvanceFundsRegistered       == 6
RegisterOrWaitRskReimbursementKickoff    == 7
WaitBitVmxOperatorTakeSpv                == 8
RegisterOrWaitRskOperatorTake            == 9
Done                                     == 10
Failed                                   == 11

IsTerminal(s) == s \in {Done, Failed}

IsRetriableStep(s) ==
    s \in {RegisterOrWaitRskAdvanceFunds, RegisterOrWaitRskReimbursementKickoff,
           RegisterOrWaitRskOperatorTake}

(* The events of a flow in the order of the chain. *)
Milestones == <<"OperatorTakeTriggered", "AdvanceFundsRegistered",
                "ReimbursementKickoffRegistered", "PegoutRegistered">>

(* The milestone a register step brings about. *)
MilestoneOf(s) == CASE s = RegisterOrWaitRskAdvanceFunds         -> 2
                    [] s = RegisterOrWaitRskReimbursementKickoff -> 3
                    [] s = RegisterOrWaitRskOperatorTake         -> 4

Kinds   == {"comm_info", "tx_info", "setup_completed"}
Spvs    == {"advance_spv", "kickoff_spv", "take_spv"}
NoFlow  == [step |-> -1, retry |-> FALSE]
FlowRec == [step : 0..11, retry : BOOLEAN]
IsLog(l) == l \in Flow \X Range(Milestones)
Trigger(f) == <<f, "OperatorTakeTriggered">>

TypeOK ==
    /\ registered \in [Flow -> 0..4]
    /\ \A i \in DOMAIN logs : IsLog(logs[i])
    /\ asked \subseteq Flow \X Kinds
    /\ told \subseteq Flow \X {"setup", "registered"}
    /\ seen \subseteq Flow \X Spvs
    /\ pc \in {"down", "idle", "confirm", "tick", "fire", "save"} \cup Kinds
    /\ mem \in [Flow -> FlowRec \cup {NoFlow}]
    /\ disk \in [Flow -> FlowRec \cup {NoFlow}]
    /\ \A i \in DOMAIN confirming : IsLog(confirming[i])
    /\ DOMAIN retries \subseteq Flow /\ Range(retries) \subseteq 1..Delay
    /\ pending \subseteq Flow
    /\ completed \subseteq Flow /\ failed \subseteq Flow /\ replayed \subseteq Flow
    /\ left \in Budget

NoRetries == [f \in {} |-> 0]

Init ==
    /\ registered = [f \in Flow |-> 0]
    /\ logs = <<>> /\ asked = {} /\ told = {} /\ seen = {}
    /\ pc = "idle"
    /\ mem = [f \in Flow |-> NoFlow] /\ disk = mem
    /\ confirming = <<>> /\ retries = NoRetries /\ pending = {}
    /\ saved = [confirming |-> <<>>, retries |-> NoRetries]
    /\ completed = {} /\ failed = {} /\ replayed = {}
    /\ left \in Budgets

-----------------------------------------------------------------------------
(* Rootstock: the trigger, and for a flow of another operator what that    *)
(* operator registers.                                                     *)

Emit(f) ==
    /\ registered' = [registered EXCEPT ![f] = @ + 1]
    /\ logs' = Append(logs, <<f, Milestones[registered[f] + 1]>>)

RskEmits(f) ==
    /\ \/ /\ registered[f] = 0
          /\ left.takes > 0 /\ left' = [left EXCEPT !.takes = @ - 1]
       \/ /\ f \notin Selected /\ registered[f] \in 1..3 /\ (left.lossy \/ disk[f] # NoFlow)
          /\ UNCHANGED left
    /\ Emit(f)
    /\ UNCHANGED <<asked, told, seen, pc, mem, disk, confirming, retries, pending, saved,
                   history>>

-----------------------------------------------------------------------------
(* The flow. *)

IsValidTransition(s, target, selected) ==
    LET checkpoint == SetVarBitVmxAdvanceFundsRegistered
        min == IF target < checkpoint THEN WaitRskOperatorTakeTriggered ELSE checkpoint
    IN IF selected THEN s = target ELSE s \in min..target

(* cleanup_terminal_flows, which every handler starts with and every       *)
(* handler that may finish a flow ends with.                               *)
Cleaned(m) == [f \in Flow |-> IF IsTerminal(m[f].step) THEN NoFlow ELSE m[f]]

Commit(m, d, r) ==
    /\ mem' = Cleaned(m)
    /\ disk' = Cleaned(d)
    /\ retries' = [f \in {g \in DOMAIN r : ~IsTerminal(m[g].step)} |-> r[f]]

(* What is in memory no longer counts: Restart overwrites it. *)
Die ==
    /\ left.crashes > 0 /\ left' = [left EXCEPT !.crashes = @ - 1]
    /\ pc' = "down"

(* Defect: the later registrations are forgotten. *)
RegistersAdvanceOnly(f, next) == f \in Selected /\ next = RegisterOrWaitRskAdvanceFunds

(* Does the entry action of a step submit a registration?  Does it send to *)
(* BitVMX or write the completion marker?                                  *)
Registers(f, next) == f \in Selected /\ IsRetriableStep(next)

Acts(next) ==
    next \in {GetBitVmxCommInfo, RequestBitVmxOperatorTakeTransactionInfo,
              SetupBitVmxAdvanceFundsProtocol, SetVarBitVmxAdvanceFundsRegistered, Done}

(* What a successful enter_step does outside of the coordinator.  The      *)
(* contract accepts a registration once.                                   *)
EnterStep(f, next) ==
    /\ IF Registers(f, next)
       THEN registered[f] = MilestoneOf(next) - 1 /\ Emit(f)
       ELSE UNCHANGED <<registered, logs>>
    /\ asked' = asked \cup
           CASE next = GetBitVmxCommInfo                        -> {<<f, "comm_info">>}
             [] next = RequestBitVmxOperatorTakeTransactionInfo -> {<<f, "tx_info">>}
             [] next = SetupBitVmxAdvanceFundsProtocol          -> {<<f, "setup_completed">>}
             [] OTHER                                           -> {}
    /\ told' = told \cup
           CASE next = SetupBitVmxAdvanceFundsProtocol    -> {<<f, "setup">>}
             [] next = SetVarBitVmxAdvanceFundsRegistered -> {<<f, "registered">>}
             [] OTHER                                     -> {}

Record(f, next) ==
    /\ completed' = IF next = Done THEN completed \cup {f} ELSE completed
    /\ failed' = IF next = Failed THEN failed \cup {f} ELSE failed
    /\ UNCHANGED replayed

(* The flows once an entry action failed: start_step restores the flow. *)
AfterError(m, f, next) == m

(* start_step, for the flow f of the flows m, in a handler that goes on at *)
(* ok and at err.  The entry action succeeds, or finds confirmations       *)
(* missing on the native bridge, which parks the flow, or fails, which     *)
(* rolls the flow back; a transaction whose receipt timed out may be mined *)
(* all the same.  A crash falls before or after the flow is saved.  What   *)
(* the contract has accepted lacks no confirmations.                       *)
StartStep(m, f, next, ok, err) ==
    LET moved(retry) == [m EXCEPT ![f] = [step |-> next, retry |-> retry]]
        kept(retry)  == [disk EXCEPT ![f] = [step |-> next, retry |-> retry]]
    IN \/ /\ EnterStep(f, next)
          /\ Commit(moved(FALSE), kept(FALSE), retries)
          /\ Record(f, next)
          /\ pc' = ok
          /\ UNCHANGED left
       \/ /\ Registers(f, next) /\ registered[f] < MilestoneOf(next)
          /\ left.missing > 0 /\ left' = [left EXCEPT !.missing = @ - 1]
          /\ Commit(moved(TRUE), kept(TRUE),
                    [g \in DOMAIN retries \cup {f} |-> IF g = f THEN Delay ELSE retries[g]])
          /\ pc' = ok
          /\ UNCHANGED <<registered, logs, asked, told, history>>
       \/ /\ \/ /\ Registers(f, next) /\ registered[f] # MilestoneOf(next) - 1
                /\ UNCHANGED <<registered, logs, left>>
             \/ /\ Registers(f, next) \/ Acts(next)
                /\ left.lossy /\ left.errors > 0 /\ left' = [left EXCEPT !.errors = @ - 1]
                /\ \/ UNCHANGED <<registered, logs>>
                   \/ Registers(f, next) /\ registered[f] = MilestoneOf(next) - 1 /\ Emit(f)
          /\ Commit(AfterError(m, f, next), disk, retries)
          /\ pc' = err
          /\ UNCHANGED <<asked, told, history>>
       \/ /\ left.lossy
          /\ EnterStep(f, next)
          /\ Die
          /\ \/ UNCHANGED <<disk, history>>
             \/ /\ disk' = kept(FALSE)
                /\ Record(f, next)
          /\ UNCHANGED <<mem, retries>>

(* A handler that leaves the flows alone. *)
Ignore(where) ==
    /\ Commit(mem, disk, retries)
    /\ pc' = where
    /\ UNCHANGED <<told, history, left>>

-----------------------------------------------------------------------------
(* The processor: Rootstock events and blocks. *)

(* process_new_rsk_event: only a trigger starts confirming without a flow. *)
ProcessNewRskEvent ==
    /\ pc = "idle" /\ logs # <<>>
    /\ logs' = Tail(logs)
    /\ LET l == Head(logs)
           relevant == l[2] = "OperatorTakeTriggered" \/ Cleaned(mem)[l[1]] # NoFlow
       IN /\ confirming' = IF relevant THEN Append(confirming, l) ELSE confirming
          /\ Ignore(IF relevant THEN "save" ELSE "idle")
    /\ UNCHANGED <<registered, asked, seen, pending, saved>>

(* create_flow_for_operator_take_triggered inserts the flow before its     *)
(* first step.                                                             *)
CreateFlow(f) ==
    LET first == IF f \in Selected THEN GetBitVmxCommInfo ELSE RegisterOrWaitRskAdvanceFunds
    IN IF Cleaned(mem)[f] # NoFlow
       THEN Ignore("idle") /\ UNCHANGED <<registered, logs, asked>>
       ELSE StartStep([mem EXCEPT ![f] = [step |-> WaitRskOperatorTakeTriggered, retry |-> FALSE]],
                      f, first, "confirm", "idle")

(* process_confirmed_rsk_event for what a flow waits for at target. *)
Confirmed(f, target, next) ==
    IF Cleaned(mem)[f] = NoFlow
    THEN Ignore("confirm") /\ UNCHANGED <<registered, logs, asked>>
    ELSE IF IsValidTransition(mem[f].step, target, f \in Selected)
         THEN StartStep(mem, f, next, "confirm", "idle")
         ELSE Ignore("idle") /\ UNCHANGED <<registered, logs, asked>>

ConfirmEvent(f, event) ==
    CASE event = "OperatorTakeTriggered" -> CreateFlow(f)
      [] event = "AdvanceFundsRegistered" ->
             Confirmed(f, RegisterOrWaitRskAdvanceFunds, SetVarBitVmxAdvanceFundsRegistered)
      [] event = "ReimbursementKickoffRegistered" ->
             Confirmed(f, RegisterOrWaitRskReimbursementKickoff, WaitBitVmxOperatorTakeSpv)
      [] event = "PegoutRegistered" ->
             Confirmed(f, RegisterOrWaitRskOperatorTake, Done)

(* A sequence without its i-th element. *)
Without(s, i) == SubSeq(s, 1, i - 1) \o SubSeq(s, i + 1, Len(s))

(* process_new_block.  The events that have their confirmations stop       *)
(* confirming and are processed in the order of a HashMap; those of one    *)
(* flow are blocks apart, each proves what Bitcoin mined after the last.   *)
(* An error ends the handler: no tick, nothing saved.                      *)
NewBlock ==
    /\ pc = "idle"
    /\ Ignore("confirm")
    /\ pending' = {confirming[i][1] : i \in DOMAIN confirming}
    /\ UNCHANGED <<registered, logs, asked, seen, confirming, saved>>

ProcessBlockConfirmations(f) ==
    /\ pc = "confirm" /\ f \in pending
    /\ \E i \in DOMAIN confirming :
          /\ confirming[i][1] = f /\ \A j \in 1..(i - 1) : confirming[j][1] # f
          /\ confirming' = Without(confirming, i)
          /\ ConfirmEvent(f, confirming[i][2])
    /\ pending' = IF pc' = "confirm" THEN pending \ {f} ELSE {}
    /\ UNCHANGED <<seen, saved>>

NoneConfirmed ==
    /\ pc = "confirm"
    /\ pc' = "tick" /\ pending' = {}
    /\ UNCHANGED <<network, mem, disk, confirming, retries, saved, history, left>>

(* handle_retry_tick: RetryTracker::tick, and then each mature retry. *)
Tick ==
    /\ pc = "tick"
    /\ LET ready == {f \in DOMAIN retries : retries[f] = 1}
       IN /\ retries' = [f \in DOMAIN retries \ ready |-> retries[f] - 1]
          /\ pending' = ready
          /\ pc' = IF ready = {} THEN "save" ELSE "fire"
    /\ UNCHANGED <<network, mem, disk, confirming, saved, history, left>>

FireRetry(f) ==
    /\ pc = "fire" /\ f \in pending
    /\ pending' = pending \ {f}
    /\ LET on == IF pending' = {} THEN "save" ELSE "fire"
       IN IF IsRetriableStep(mem[f].step)
          THEN StartStep(mem, f, mem[f].step, on, on)
          ELSE Ignore(on) /\ UNCHANGED <<registered, logs, asked>>
    /\ UNCHANGED <<seen, confirming, saved>>

(* Defect: an event that was processed stays in the snapshot. *)
SaveKeepsConfirmed ==
    /\ pc = "save"
    /\ saved' = [confirming |-> saved.confirming \o SelectSeq(confirming,
                                   LAMBDA e : e \notin Range(saved.confirming)),
                 retries |-> retries]
    /\ pc' = "idle"
    /\ UNCHANGED <<network, mem, disk, confirming, retries, pending, history, left>>

Save ==
    /\ pc = "save"
    /\ saved' = [confirming |-> confirming, retries |-> retries]
    /\ pc' = "idle"
    /\ UNCHANGED <<network, mem, disk, confirming, retries, pending, history, left>>

-----------------------------------------------------------------------------
(* The processor: BitVMX and the administrator. *)

AwaitedBy(kind) == CASE kind = "comm_info"       -> GetBitVmxCommInfo
                     [] kind = "tx_info"         -> RequestBitVmxOperatorTakeTransactionInfo
                     [] kind = "setup_completed" -> SetupBitVmxAdvanceFundsProtocol

(* process_new_bitvmx_event: the answers.  A CommInfo names no flow, every *)
(* flow that waits for one takes it; a TransactionInfo finds its flow only *)
(* at the step that asks for it.                                           *)
Answer(f, kind) ==
    /\ pc = "idle" /\ <<f, kind>> \in asked
    /\ asked' = asked \ {<<f, kind>>}
    /\ pending' = {g \in Flow : /\ Cleaned(mem)[g] # NoFlow
                                /\ kind = "comm_info" \/ g = f
                                /\ kind = "setup_completed" \/ mem[g].step = AwaitedBy(kind)}
    /\ Ignore(IF pending' = {} THEN "save" ELSE kind)
    /\ UNCHANGED <<registered, logs, seen, confirming, saved>>

TakeAnswer(f) ==
    /\ pc \in Kinds /\ f \in pending
    /\ IF mem[f].step = AwaitedBy(pc)
       THEN StartStep(mem, f, AwaitedBy(pc) + 1, IF pending = {f} THEN "save" ELSE pc, "idle")
       ELSE Ignore("idle") /\ UNCHANGED <<registered, logs, asked>>
    /\ pending' = IF pc' = "idle" THEN {} ELSE pending \ {f}
    /\ UNCHANGED <<seen, confirming, saved>>

(* BitVMX emits an SPV when its transaction confirms and again at every    *)
(* confirmation: external.  The advance is broadcast after the set-up, the *)
(* kickoff once BitVMX knows of the registration, the take after both.     *)
EmitsSpv(f, kind) ==
    /\ CASE kind = "advance_spv" -> <<f, "setup">> \in told /\ <<f, "setup_completed">> \notin asked
         [] kind = "kickoff_spv" -> IF f \in Selected THEN <<f, "registered">> \in told
                                                      ELSE registered[f] >= 2
         [] kind = "take_spv"    -> <<f, "kickoff_spv">> \in seen
    /\ seen' = seen \cup {<<f, kind>>}

ConsumedBy(kind) == CASE kind = "advance_spv" -> WaitBitVmxAdvanceFundsSpv
                      [] kind = "kickoff_spv" -> SetVarBitVmxAdvanceFundsRegistered
                      [] kind = "take_spv"    -> WaitBitVmxOperatorTakeSpv

(* process_new_bitvmx_event: an SPV, which a flow that is past it absorbs. *)
Spv(f, kind) ==
    LET step == Cleaned(mem)[f].step
        target == ConsumedBy(kind)
        exact == f \in Selected \/ kind = "advance_spv"
    IN /\ pc = "idle"
       /\ EmitsSpv(f, kind)
       /\ IF step = NoFlow.step \/ step > target
          THEN Ignore("save") /\ UNCHANGED <<registered, logs, asked>>
          ELSE IF IsValidTransition(step, target, exact)
               THEN StartStep(mem, f, target + 1, "save", "idle")
               ELSE Ignore("idle") /\ UNCHANGED <<registered, logs, asked>>
       /\ UNCHANGED <<confirming, pending, saved>>

(* process_user_request: fail_flow, which cancels the retry. *)
FailFlow(f) ==
    /\ f \in left.fails /\ pc = "idle"
    /\ IF Cleaned(mem)[f] # NoFlow
       THEN StartStep(mem, f, Failed, "save", "idle")
       ELSE Ignore("save") /\ UNCHANGED <<registered, logs, asked>>
    /\ UNCHANGED <<seen, confirming, pending, saved>>

-----------------------------------------------------------------------------
(* Crashes.  A message taken off its queue is gone. *)

Crash ==
    /\ pc # "down" /\ (left.lossy \/ pc \in {"idle", "confirm", "tick", "fire"})
    /\ Die
    /\ UNCHANGED <<network, mem, disk, confirming, retries, pending, saved, history>>

RestartWith(events, entries) ==
    /\ pc = "down" /\ pc' = "idle"
    /\ mem' = disk
    /\ confirming' = events
    /\ retries' = entries
    /\ pending' = {}
    /\ replayed' = replayed \cup {f \in Flow : disk[f] # NoFlow /\ Trigger(f) \in Range(saved.confirming)}
    /\ UNCHANGED <<network, disk, saved, completed, failed, left>>

(* Defect: the events that were confirming are not restored. *)
RestartUnconfirmed == RestartWith(<<>>, saved.retries)

(* Defect: the retries are not restored. *)
RestartUnscheduled == RestartWith(saved.confirming, NoRetries)

(* AdvanceFundsFlowProcessor::new with rearm_pending_retries. *)
Restart ==
    LET rearmed == {f \in Flow : disk[f].retry} \ DOMAIN saved.retries
    IN RestartWith(saved.confirming,
                   [f \in rearmed \cup DOMAIN saved.retries |->
                       IF f \in rearmed THEN Delay ELSE saved.retries[f]])

-----------------------------------------------------------------------------
Next ==
    \/ \E f \in Flow :
          \/ RskEmits(f) \/ ProcessBlockConfirmations(f) \/ FireRetry(f)
          \/ TakeAnswer(f) \/ FailFlow(f)
          \/ \E kind \in Kinds : Answer(f, kind)
          \/ \E kind \in Spvs : Spv(f, kind)
    \/ ProcessNewRskEvent \/ NewBlock \/ NoneConfirmed \/ Tick \/ Save
    \/ Crash \/ Restart

(* What goes on inside a handler, and the restart of the coordinator. *)
HandlerStep ==
    \/ NoneConfirmed \/ Tick \/ Save \/ Restart
    \/ \E f \in Flow : FireRetry(f) \/ TakeAnswer(f)

(* A handler runs to its end, the loop polls every channel in each round,  *)
(* the chain goes on and BitVMX answers and re-emits.  An event, an answer *)
(* or an SPV that has an effect is used up, so that no flow can starve     *)
(* another.  Nothing is assumed of failures.                               *)
Fairness ==
    /\ WF_vars(HandlerStep) /\ SF_vars(ProcessNewRskEvent) /\ SF_vars(NewBlock)
    /\ \A f \in Flow : WF_vars(RskEmits(f))
    /\ SF_vars(\E f \in Flow : ProcessBlockConfirmations(f))
    /\ SF_vars(\E f \in Flow, kind \in Kinds : Answer(f, kind))
    /\ SF_vars((\E f \in Flow, kind \in Spvs : Spv(f, kind)) /\ <<mem, seen>>' # <<mem, seen>>)

Spec == Init /\ [][Next]_vars /\ Fairness

-----------------------------------------------------------------------------
(* A flow that is Done is never taken up again: no event left in           *)
(* events_confirming, restored ones included, makes                        *)
(* create_flow_for_operator_take_triggered run the operator take twice.    *)
(* The exception is a trigger that a crash between the save of the flow    *)
(* and the save of the processor brought back: it is refused while the     *)
(* flow runs, but if no save follows until the flow is Done and a crash    *)
(* comes then, it is taken for a new one.                                  *)
DoneStaysDone ==
    \A f \in completed \ replayed : disk[f] = NoFlow \/ disk[f].step = Done

(* Outside of start_step a flow in memory is the flow in the store, apart  *)
(* from one whose creation failed: a failed entry action is rolled back,   *)
(* so a restart resumes what the running coordinator was doing.            *)
MemoryIsSaved ==
    pc # "down" => \A f \in Flow : \/ Cleaned(mem)[f] = Cleaned(disk)[f]
                                  \/ mem[f].step = WaitRskOperatorTakeTriggered

(* A flow is never ahead of Rootstock: one past a register step, or at it  *)
(* with no retry pending if it is ours to register, has that registration  *)
(* on the chain, whatever failed, timed out or crashed on the way.         *)
FlowBehindChain ==
    \A f \in Flow :
        /\ f \in completed => registered[f] = 4
        /\ disk[f].step \in SetVarBitVmxAdvanceFundsRegistered..RegisterOrWaitRskOperatorTake
               => registered[f] >= 2
        /\ f \in Selected /\ IsRetriableStep(disk[f].step) /\ ~disk[f].retry
               => registered[f] >= MilestoneOf(disk[f].step)

(* A parked registration has its retry: one that is neither scheduled nor  *)
(* about to run would never be submitted (schedule_retry,                  *)
(* handle_retry_tick, rearm_pending_retries).  Nothing is lost in these    *)
(* behaviours: a retry that fails with another error is logged and dropped. *)
ParkedIsScheduled ==
    pc # "down" /\ ~left.lossy => \A f \in Flow : mem[f].retry => f \in DOMAIN retries \cup pending

(* A saved flow only moves forward until it is deleted: neither a retry,   *)
(* nor a late or repeated event, nor a rollback saves an earlier step.     *)
SavedStepAdvances ==
    [][\A f \in Flow : disk'[f].step >= disk[f].step \/ f \in completed' \cup failed']_vars

(* Unless a message is lost, every operator take that is triggered on      *)
(* Rootstock gets to its end, the flow Done or failed by the               *)
(* administrator.                                                          *)
Finishes == \A f \in Flow : registered[f] >= 1 /\ ~left.lossy ~> f \in completed \cup failed

=============================================================================
