------------------------------- MODULE Pegout -------------------------------
(***************************************************************************)
(* The peg-out flows of one coordinator (PegoutFlow) and the processor     *)
(* that drives them (PegoutFlowProcessor).  A confirmed PegoutRequested    *)
(* starts a flow; BitVMX sets the user take up; the committee signs it     *)
(* (BtcSignature); the member dispatches it, waits for Bitcoin and         *)
(* registers the peg-out.  If the signatures are late, the advance-funds   *)
(* timeout triggers an operator take instead.                              *)
(*                                                                         *)
(* A flow is saved when it has moved, the processor's own state at the end *)
(* of a handler that succeeded.  A step that fails is not rolled back: the *)
(* flow in memory is then ahead of the saved one.                          *)
(*                                                                         *)
(* Events are counted in received blocks: age is that of the last          *)
(* milestone, and the ones before it have all their confirmations.  The    *)
(* local FORCE_ADVANCE test flag is left out.                              *)
(***************************************************************************)
EXTENDS Integers, Sequences, SequencesExt, BtcSignature

CONSTANTS
    Peg,          \* the peg-outs this node is a committee member for
    Required,     \* required_confirmations
    Delay,        \* btc_status_retry_blocks
    Timeout,      \* advance_funds_timeout_secs, in blocks
    Budgets       \* bounds on what happens and on what fails: see Budget

Stages == <<"timeouts", "signatures", "dispatch", "status", "registers", "confirm", "save">>

(* missing: the answers "missing confirmations"; reorgs: reorganisations   *)
(* that remove an event; crashes: the crashes; lossy: messages may be      *)
(* lost, because a call or a send fails, one of errors, or a crash falls   *)
(* in the middle of a handler; fails: the peg-outs an administrator may    *)
(* fail; torn, a history: those with a crash between the dispatch of the   *)
(* user take and the save of the flow.                                     *)
Budget ==
    [missing : Nat, errors : Nat, reorgs : Nat, crashes : Nat, lossy : BOOLEAN,
     fails : SUBSET Peg, torn : SUBSET Peg]

ASSUME PegoutAssumption ==
    /\ {Required, Delay, Timeout} \subseteq Nat \ {0}
    /\ \A b \in Budgets : b \in Budget

VARIABLES
    phase,      \* Rootstock, per peg-out: how many of Milestones happened
    age,        \* blocks received since the last one
    logs,       \* logs sent to the coordinator and not yet received
    submitted,  \* nonces and signatures this member added, as <<peg, what>>
    triggered,  \* peg-outs this member called trigger_operator_take for
    asked,      \* answers BitVMX owes, as <<peg, kind>>
    told,       \* what BitVMX was told, as <<peg, what>>
    pc,         \* "down", "panicked", "idle" or the place inside a handler
    pending,    \* peg-outs the loop of the running handler has still to serve
    mem,        \* the processor's flows, by step
    disk,       \* the saved flows
    proc,       \* the processor's own state
    saved,      \* PegoutProcessorState
    over,       \* history: peg-outs whose flow was saved as Done or Failed
    left        \* what is left of the budget

rsk    == <<phase, age, logs, submitted, triggered>>
bitvmx == <<asked, told>>
vars   == <<rsk, bitvmx, pc, pending, mem, disk, proc, saved, over, left>>

-----------------------------------------------------------------------------
NoFlow         == -1
GetCommInfo    == 1
Prepare        == 2
WaitSignatures == 3
Dispatch       == 4
Confirm        == 5
RequestSpv     == 6
Register       == 7
TriggerTake    == 8
Done           == 9
Failed         == 10

IsTerminal(s) == s \in {Done, Failed}

(* Defect: a flow that submitted its registration is not fast-forwarded. *)
FastForwardsBelowRegister(s) == s \in Dispatch..RequestSpv

(* allows_fast_forward_to_pegout_registered, and the flows that know their *)
(* user_take_txid.                                                         *)
FastForwards(s) == s \in Dispatch..Register
KnowsTxid(s)    == s \in WaitSignatures..Failed

Milestones == <<"requested", "nonces", "signatures", "registered">>
Kinds      == {"comm_info", "accepted", "status", "spv"}
Never      == -1

(* The milestones of p that have their confirmations. *)
Deep(p) == {Milestones[k] : k \in {j \in 1..phase[p] : j < phase[p] \/ age[p] = Required}}

ProcState ==
    [sub        : [Peg -> SubFlow],               \* signature_flows
     confirming : SUBSET (Peg \X Range(Milestones)), \* events_confirming
     polls      : [Peg -> 0..Delay],              \* tx_status_scheduler, 0 if not in it
     retries    : [Peg -> 0..Delay],              \* register_pegout_retry_scheduler
     timeouts   : [Peg -> Never..Timeout],        \* advance_funds_timeout_scheduler
     waiting    : SUBSET Peg,                     \* flows_pending_timeout
     view       : Views]                          \* blockchain_view

NoProcState ==
    [sub |-> [p \in Peg |-> NoSub], confirming |-> {},
     polls |-> [p \in Peg |-> 0], retries |-> [p \in Peg |-> 0],
     timeouts |-> [p \in Peg |-> Never], waiting |-> {}, view |-> "empty"]

TypeOK ==
    /\ phase \in [Peg -> 0..4] /\ age \in [Peg -> 0..Required]
    /\ \A i \in DOMAIN logs : logs[i] \in Peg \X Range(Milestones) \X BOOLEAN
    /\ submitted \subseteq Peg \X {"nonce", "signature"} /\ triggered \subseteq Peg
    /\ asked \subseteq Peg \X Kinds
    /\ told \subseteq Peg \X {"setup", "dispatched", "completed"}
    /\ pc \in Range(Stages) \cup {"down", "panicked", "idle", "comm_info"}
    /\ pending \subseteq Peg
    /\ mem \in [Peg -> {NoFlow} \cup GetCommInfo..Failed]
    /\ disk \in [Peg -> {NoFlow} \cup GetCommInfo..Failed]
    /\ proc \in ProcState /\ saved \in ProcState
    /\ over \subseteq Peg
    /\ left \in Budget

Init ==
    /\ phase = [p \in Peg |-> 0] /\ age = phase
    /\ logs = <<>> /\ submitted = {} /\ triggered = {}
    /\ asked = {} /\ told = {}
    /\ pc = "idle" /\ pending = {}
    /\ mem = [p \in Peg |-> NoFlow] /\ disk = mem
    /\ proc = NoProcState /\ saved = NoProcState
    /\ over = {}
    /\ left \in Budgets

-----------------------------------------------------------------------------
(* Rootstock. *)

Emit(p) ==
    /\ phase' = [phase EXCEPT ![p] = @ + 1]
    /\ age' = [age EXCEPT ![p] = 0]
    /\ logs' = Append(logs, <<p, Milestones[phase[p] + 1], FALSE>>)

(* The next milestone, brought about by the user or by the committee, once *)
(* this member has done its part and the last one is deep.                 *)
RskEmits(p) ==
    /\ phase[p] < 4
    /\ phase[p] > 0 => age[p] = Required
    /\ phase[p] = 1 => <<p, "nonce">> \in submitted
    /\ phase[p] = 2 => <<p, "signature">> \in submitted
    /\ Emit(p)
    /\ UNCHANGED <<submitted, triggered, bitvmx, pc, pending, mem, disk, proc, saved, over, left>>

(* A reorganisation takes the last milestone back before it is deep. *)
Reorg(p) ==
    /\ phase[p] > 0 /\ age[p] < Required
    /\ left.reorgs > 0 /\ left' = [left EXCEPT !.reorgs = @ - 1]
    /\ phase' = [phase EXCEPT ![p] = @ - 1]
    /\ age' = [age EXCEPT ![p] = IF phase[p] = 1 THEN 0 ELSE Required]
    /\ logs' = Append(logs, <<p, Milestones[phase[p]], TRUE>>)
    /\ UNCHANGED <<submitted, triggered, bitvmx, pc, pending, mem, disk, proc, saved, over>>

-----------------------------------------------------------------------------
(* The flow. *)

(* cleanup_terminal_flows.  Every handler starts with it; it is taken at   *)
(* the end of the one before, where its work becomes due.                  *)
Without(m, gone) == [p \in Peg |-> IF p \in gone THEN NoFlow ELSE m[p]]

Forget(pr, gone) ==
    [pr EXCEPT !.sub      = [p \in Peg |-> IF p \in gone THEN NoSub ELSE @[p]],
               !.polls    = [p \in Peg |-> IF p \in gone THEN 0 ELSE @[p]],
               !.retries  = [p \in Peg |-> IF p \in gone THEN 0 ELSE @[p]],
               !.timeouts = [p \in Peg |-> IF p \in gone THEN Never ELSE @[p]],
               !.waiting  = @ \ gone]

(* The flows in memory and in the store and the processor's state when a   *)
(* handler goes on at where.  Inside the loops of process_new_block a      *)
(* terminal flow stays until the events are confirmed.                     *)
Commit(m, d, pr, where) ==
    /\ pc' = where
    /\ IF where \in {"idle", "save", "confirm"}
       THEN LET gone == {p \in Peg : IsTerminal(m[p])}
            IN /\ mem' = Without(m, gone) /\ disk' = Without(d, gone)
               /\ proc' = Forget(pr, gone)
       ELSE mem' = m /\ disk' = d /\ proc' = pr

Goes(pr, where) ==
    /\ Commit(mem, disk, pr, where)
    /\ UNCHANGED left

Fails == left.lossy /\ left.errors > 0 /\ left' = [left EXCEPT !.errors = @ - 1]

(* What is in memory no longer counts: Restart overwrites it. *)
DieTearing(pegs) ==
    /\ left.crashes > 0 /\ left' = [left EXCEPT !.crashes = @ - 1, !.torn = @ \cup pegs]
    /\ pc' = "down"
    /\ UNCHANGED <<mem, proc>>

Die == DieTearing({})

(* What a successful entry action of start_step tells BitVMX, and what     *)
(* BitVMX answers: it sets a program up once, and reports on a transaction *)
(* it dispatched.                                                          *)
EnterStep(p, next, owed) ==
    /\ asked' = owed \cup
           CASE next = GetCommInfo -> {<<p, "comm_info">>}
             [] next = Prepare     -> IF <<p, "setup">> \in told THEN {} ELSE {<<p, "accepted">>}
             [] next = Dispatch    -> {<<p, "status">>}
             [] next = RequestSpv  -> {<<p, "spv">>}
             [] OTHER              -> {}
    /\ told' = told \cup
           CASE next = Prepare  -> {<<p, "setup">>}
             [] next = Dispatch -> {<<p, "dispatched">>}
             [] OTHER           -> {}

(* Where a handler goes on, and the processor's state there. *)
At(where, pr) == [pc |-> where, proc |-> pr]

(* start_step for every step that only talks to BitVMX, which owes the     *)
(* answers owed.  Dispatch nests the completion of its own step, so the    *)
(* flow is first saved at Confirm.  A failure leaves the flow in memory at *)
(* the step it did not enter, apart from a new flow, which is dropped.     *)
StartStep(p, next, owed, ok, err) ==
    LET reached == IF next = Dispatch THEN Confirm ELSE next
        entered == IF mem[p] = NoFlow THEN mem ELSE [mem EXCEPT ![p] = next]
    IN \/ /\ EnterStep(p, next, owed)
          /\ Commit([mem EXCEPT ![p] = reached], [disk EXCEPT ![p] = reached], ok.proc, ok.pc)
          /\ UNCHANGED left
       \/ /\ asked' = owed
          /\ Fails
          /\ Commit(entered, disk, err.proc, err.pc)
          /\ UNCHANGED told
       \/ /\ left.lossy
          /\ EnterStep(p, next, owed)
          /\ DieTearing(IF next = Dispatch THEN {p} ELSE {})
          /\ UNCHANGED disk

(* start_step for RegisterPegout, which is saved before its entry action:  *)
(* the contract takes the registration, the native bridge lacks            *)
(* confirmations, the peg-out is registered already, or the call fails.    *)
(* Each case goes on at its own place.                                     *)
RegisterPegout(p, ok, lacking, prLacking, already, err) ==
    LET m == [mem EXCEPT ![p] = Register]
        d == [disk EXCEPT ![p] = Register]
    IN \/ /\ phase[p] = 3 /\ Emit(p)
          /\ Commit(m, d, proc, ok)
          /\ UNCHANGED left
       \/ /\ left.missing > 0 /\ left' = [left EXCEPT !.missing = @ - 1]
          /\ Commit(m, d, prLacking, lacking)
          /\ UNCHANGED <<phase, age, logs>>
       \/ /\ phase[p] = 4
          /\ Commit(m, d, proc, already)
          /\ UNCHANGED <<phase, age, logs, left>>
       \/ /\ Fails
          /\ Commit(m, d, proc, err)
          /\ UNCHANGED <<phase, age, logs>>
       \/ /\ left.lossy
          /\ phase[p] = 3 /\ Emit(p)
          /\ Die /\ disk' = d

-----------------------------------------------------------------------------
(* process_new_rsk_event. *)

(* Defect: the view is not cleared with the last event. *)
StopConfirmingKeepsView(pr, e) == [pr EXCEPT !.confirming = @ \ {e}]

(* stop_confirming_event. *)
StopConfirming(pr, e) ==
    [pr EXCEPT !.confirming = @ \ {e}, !.view = IF pr.confirming \ {e} = {} THEN "empty" ELSE @]

ProcessNewRskEvent ==
    /\ pc = "idle" /\ logs # <<>>
    /\ logs' = Tail(logs)
    /\ LET p == Head(logs)[1]
           event == Head(logs)[2]
           removed == Head(logs)[3]
           sub == proc.sub[p]
       IN IF event \in {"nonces", "signatures"}
          THEN IF sub = NoSub THEN Goes(proc, "save")
               ELSE IF TakesEvent(sub, event)
                    THEN Goes([proc EXCEPT !.sub[p] = DelegateRskEvent(sub, event, removed)], "save")
                    ELSE Goes(proc, "idle")
          ELSE IF removed THEN Goes(StopConfirming(proc, <<p, event>>), "save")
               ELSE Goes([proc EXCEPT !.confirming = @ \cup {<<p, event>>}], "save")
    /\ UNCHANGED <<phase, age, submitted, triggered, bitvmx, pending, saved, over>>

-----------------------------------------------------------------------------
(* process_new_block, one loop after the other.  An error ends the handler *)
(* where it is: nothing is saved and the views it had not come to miss the *)
(* block.                                                                  *)

Abandon(pr, subs) ==
    [pr EXCEPT !.sub = [p \in Peg |-> IF p \in subs THEN [@[p] EXCEPT !.view = Missed(@)] ELSE @[p]],
               !.view = Missed(@)]

Signing(pr) == {p \in Peg : pr.sub[p] # NoSub}

(* tick of TickScheduler and the time that passes with a block. *)
Elapse(t) == [p \in Peg |-> IF t[p] > 0 THEN t[p] - 1 ELSE t[p]]

(* schedule_pending_timeouts: the blocks left until each timeout expires.  *)
TimeLeft(pr) ==
    LET scheduled == {p \in pr.waiting : mem[p] = WaitSignatures}
    IN [p \in Peg |-> IF p \in scheduled THEN Timeout ELSE Elapse(pr.timeouts)[p]]

(* TimeBasedScheduler::check_expired. *)
Expired(rest) == {p \in Peg : rest[p] = 0}

(* handle_advance_funds_timeout_expired up to its loop.  The scheduler     *)
(* holds the time at which a timeout expires, so those of the snapshot run *)
(* too.  A log lags behind the blocks by less than its confirmations, a    *)
(* removal comes with the reorganisation: EventConfirmation is about the   *)
(* others.                                                                 *)
NewBlock ==
    /\ pc = "idle"
    /\ \A i \in DOMAIN logs : ~logs[i][3] /\ age[logs[i][1]] + 1 < Required
    /\ age' = [p \in Peg |-> IF phase[p] > 0 /\ age[p] < Required THEN age[p] + 1 ELSE age[p]]
    /\ LET rest == TimeLeft(proc)
       IN /\ proc' = [proc EXCEPT !.waiting = {},
                         !.timeouts = [p \in Peg |-> IF p \in Expired(rest) THEN Never ELSE rest[p]]]
          /\ pending' = Expired(rest)
    /\ saved' = [saved EXCEPT !.timeouts = Elapse(@)]
    /\ pc' = "timeouts"
    /\ UNCHANGED <<phase, logs, submitted, triggered, bitvmx, mem, disk, over, left>>

(* Defect: the step of the flow is not checked. *)
TriggerOperatorTakeAnyStep(p) ==
    /\ pc = "timeouts" /\ p \in pending
    /\ pending' = pending \ {p}
    /\ triggered' = triggered \cup {p}
    /\ Commit([mem EXCEPT ![p] = Done], [disk EXCEPT ![p] = Done], [proc EXCEPT !.sub[p] = NoSub], pc)
    /\ over' = over \cup {p}
    /\ UNCHANGED <<phase, age, logs, submitted, bitvmx, saved, left>>

(* trigger_operator_take_for_flow.  Whatever the contract says, and it     *)
(* refuses when another member was first, the flow is Done; between the    *)
(* call and Done the flow is saved only if the contract refused.           *)
TriggerOperatorTake(p) ==
    /\ pc = "timeouts" /\ p \in pending
    /\ IF mem[p] = NoFlow
       THEN /\ Goes(Abandon(proc, Signing(proc)), "idle")
            /\ pending' = {}
            /\ UNCHANGED <<triggered, over>>
       ELSE /\ pending' = pending \ {p}
            /\ IF mem[p] # WaitSignatures
               THEN Goes(proc, "timeouts") /\ UNCHANGED <<triggered, over>>
               ELSE /\ triggered' = triggered \cup {p}
                    /\ \/ /\ Commit([mem EXCEPT ![p] = Done], [disk EXCEPT ![p] = Done],
                                    [proc EXCEPT !.sub[p] = NoSub], "timeouts")
                          /\ over' = over \cup {p}
                          /\ UNCHANGED left
                       \/ /\ left.lossy
                          /\ Die
                          /\ disk' \in {disk, [disk EXCEPT ![p] = TriggerTake]}
                          /\ UNCHANGED over
    /\ UNCHANGED <<phase, age, logs, submitted, bitvmx, saved>>

(* process_unhandled_confirmed_sig_flow_events, its first loop.  The       *)
(* contract takes one signature of a member.                               *)
DelegateBlockTo(p) ==
    /\ pc = "signatures" /\ p \in pending
    /\ LET sub == proc.sub[p]
           rest == pending \ {p}
           signature == <<p, "signature">>
       IN IF sub.view = "gap"
          THEN /\ pc' = "panicked" /\ pending' = {}
               /\ UNCHANGED <<submitted, mem, disk, proc, left>>
          ELSE \/ /\ ~SendsSignature(sub, Deep(p))
                  /\ Goes([proc EXCEPT !.sub[p] = DelegateBlock(sub, Deep(p))], "signatures")
                  /\ pending' = rest
                  /\ UNCHANGED submitted
               \/ /\ SendsSignature(sub, Deep(p)) /\ signature \notin submitted
                  /\ submitted' = submitted \cup {signature}
                  /\ \/ /\ Goes([proc EXCEPT !.sub[p] = Signed(sub)], "signatures")
                        /\ pending' = rest
                     \/ /\ left.lossy
                        /\ Die
                        /\ UNCHANGED <<disk, pending>>
               \/ /\ SendsSignature(sub, Deep(p))
                  /\ IF signature \in submitted THEN UNCHANGED left ELSE Fails
                  /\ Commit(mem, disk, Abandon([proc EXCEPT !.sub[p] = Unsigned(sub)], rest), "idle")
                  /\ pending' = {}
                  /\ UNCHANGED submitted
    /\ UNCHANGED <<phase, age, logs, triggered, bitvmx, saved, over>>

(* Its second loop: the signed user takes are dispatched. *)
DispatchUserTake(p) ==
    /\ pc = "dispatch" /\ proc.sub[p].done
    /\ LET removed == [proc EXCEPT !.sub[p] = NoSub]
       IN IF mem[p] = WaitSignatures
          THEN StartStep(p, Dispatch, asked, At("dispatch", [removed EXCEPT !.timeouts[p] = Never]),
                         At("idle", Abandon(removed, {})))
          ELSE Goes(removed, "dispatch") /\ UNCHANGED bitvmx
    /\ UNCHANGED <<rsk, pending, saved, over>>

(* handle_transaction_status_tick. *)
RequestTransactionStatus(p) ==
    /\ pc = "status" /\ p \in pending
    /\ \/ /\ mem[p] # Confirm
          /\ Goes(proc, "status") /\ pending' = pending \ {p}
          /\ UNCHANGED asked
       \/ /\ mem[p] = Confirm
          /\ Goes(proc, "status") /\ pending' = pending \ {p}
          /\ asked' = asked \cup {<<p, "status">>}
       \/ /\ mem[p] = Confirm /\ Fails
          /\ Commit(mem, disk, Abandon(proc, {}), "idle") /\ pending' = {}
          /\ UNCHANGED asked
    /\ UNCHANGED <<rsk, told, saved, over>>

(* handle_register_pegout_retry_tick, which goes on after any error. *)
RetryRegister(p) ==
    /\ pc = "registers" /\ p \in pending
    /\ pending' = pending \ {p}
    /\ IF mem[p] = Register
       THEN RegisterPegout(p, pc, pc, [proc EXCEPT !.retries[p] = Delay], pc, pc)
       ELSE Goes(proc, pc) /\ UNCHANGED <<phase, age, logs>>
    /\ UNCHANGED <<submitted, triggered, bitvmx, saved, over>>

(* process_block_confirmations: what is confirmed stops confirming and is  *)
(* processed, in any order.                                                *)
Ripe == {e \in proc.confirming : e[2] \in Deep(e[1])}

(* create_flow_for_pegout_requested. *)
CreateFlow(p) ==
    LET pr == StopConfirming(proc, <<p, "requested">>)
    IN /\ IF mem[p] # NoFlow
          THEN Goes(pr, "idle") /\ UNCHANGED bitvmx
          ELSE StartStep(p, GetCommInfo, asked, At("confirm", pr), At("idle", pr))
       /\ UNCHANGED over

(* handle_pegout_registered.  BitVMX is told before the flow moves; a      *)
(* completion marker that cannot be written leaves a flow that is Done in  *)
(* memory, and so gets deleted.                                            *)
HandlePegoutRegistered(p) ==
    LET pr == StopConfirming(proc, <<p, "registered">>)
        done == [mem EXCEPT ![p] = Done]
        completed == told \cup {<<p, "completed">>}
    IN \/ /\ ~KnowsTxid(mem[p])
          /\ Goes(pr, "confirm") /\ UNCHANGED <<told, over>>
       \/ /\ KnowsTxid(mem[p]) /\ ~FastForwards(mem[p])
          /\ Goes(pr, "idle") /\ UNCHANGED <<told, over>>
       \/ /\ FastForwards(mem[p])
          /\ told' = completed /\ over' = over \cup {p}
          /\ \/ /\ Commit(done, [disk EXCEPT ![p] = Done], pr, "confirm")
                /\ UNCHANGED left
             \/ /\ Commit(done, disk, pr, "idle")
                /\ Fails
       \/ /\ FastForwards(mem[p])
          /\ Commit(mem, disk, pr, "idle") /\ Fails
          /\ UNCHANGED <<told, over>>
       \/ /\ FastForwards(mem[p]) /\ left.lossy
          /\ told' = completed
          /\ Die
          /\ UNCHANGED <<disk, over>>

ProcessConfirmedRskEvent(p) ==
    /\ pc = "confirm"
    /\ \/ <<p, "requested">> \in Ripe /\ CreateFlow(p)
       \/ <<p, "registered">> \in Ripe /\ HandlePegoutRegistered(p) /\ UNCHANGED asked
    /\ UNCHANGED <<rsk, pending, saved>>

(* From one loop to the next.  The schedulers tick when their loop starts, *)
(* the view takes the block if any event is confirming.                    *)
LoopOver ==
    CASE pc = "dispatch" -> \A p \in Peg : ~proc.sub[p].done
      [] pc = "confirm"  -> Ripe = {}
      [] OTHER           -> pending = {}

NextLoop(i) ==
    /\ pc = Stages[i] /\ LoopOver
    /\ LET next == Stages[i + 1]
       IN /\ pc' = IF next = "confirm" /\ proc.confirming # {} /\ proc.view = "gap"
                   THEN "panicked" ELSE next
          /\ pending' = CASE next = "signatures" -> Signing(proc)
                          [] next = "status"     -> {p \in Peg : proc.polls[p] = 1}
                          [] next = "registers"  -> {p \in Peg : proc.retries[p] = 1}
                          [] OTHER               -> {}
          /\ proc' = CASE next = "status"    -> [proc EXCEPT !.polls = Elapse(@)]
                       [] next = "registers" -> [proc EXCEPT !.retries = Elapse(@)]
                       [] next = "confirm"   -> [proc EXCEPT !.view =
                                                    IF proc.confirming # {} THEN "ok" ELSE Missed(@)]
                       [] OTHER -> proc
    /\ UNCHANGED <<rsk, bitvmx, mem, disk, saved, over, left>>

(* persist_processor_state. *)
Save ==
    /\ pc = "save"
    /\ Goes(proc, "idle")
    /\ saved' = [proc EXCEPT !.view = "empty", !.sub = [p \in Peg |-> RestoredSub(@[p])]]
    /\ UNCHANGED <<rsk, bitvmx, pending, over>>

-----------------------------------------------------------------------------
(* process_new_bitvmx_event. *)

(* A CommInfo names no flow, every flow that waits for one takes it. *)
AnswerCommInfo(p) ==
    /\ pc = "idle" /\ <<p, "comm_info">> \in asked
    /\ asked' = asked \ {<<p, "comm_info">>}
    /\ pending' = {q \in Peg : mem[q] = GetCommInfo}
    /\ pc' = "comm_info"
    /\ UNCHANGED <<rsk, told, mem, disk, proc, saved, over, left>>

TakeCommInfo(p) ==
    /\ pc = "comm_info" /\ p \in pending
    /\ StartStep(p, Prepare, asked, At("comm_info", proc), At("idle", proc))
    /\ pending' = IF pc' = "idle" THEN {} ELSE pending \ {p}
    /\ UNCHANGED <<rsk, saved, over>>

CommInfoTaken ==
    /\ pc = "comm_info" /\ pending = {}
    /\ pc' = "save"
    /\ UNCHANGED <<rsk, bitvmx, pending, mem, disk, proc, saved, over, left>>

(* "pegout_accepted": the flow is saved, then the nonce is sent, then the  *)
(* timeout is asked for.                                                   *)
AnswerAccepted(p) ==
    /\ pc = "idle" /\ <<p, "accepted">> \in asked
    /\ asked' = asked \ {<<p, "accepted">>}
    /\ LET m == [mem EXCEPT ![p] = WaitSignatures]
           d == [disk EXCEPT ![p] = WaitSignatures]
           nonce == submitted \cup {<<p, "nonce">>}
       IN \/ /\ mem[p] # Prepare
             /\ Goes(proc, "idle") /\ UNCHANGED submitted
          \/ /\ mem[p] = Prepare /\ <<p, "nonce">> \notin submitted
             /\ submitted' = nonce
             /\ Commit(m, d, [proc EXCEPT !.sub[p] = Started, !.waiting = @ \cup {p}], "save")
             /\ UNCHANGED left
          \/ /\ mem[p] = Prepare
             /\ IF <<p, "nonce">> \in submitted THEN UNCHANGED left ELSE Fails
             /\ Commit(m, d, proc, "idle")
             /\ UNCHANGED submitted
          \/ /\ mem[p] = Prepare /\ left.lossy
             /\ submitted' = nonce
             /\ Die /\ disk' = d
    /\ UNCHANGED <<phase, age, logs, triggered, told, pending, saved, over>>

(* handle_transaction_status_received. *)
AnswerStatus(p) ==
    /\ pc = "idle" /\ <<p, "status">> \in asked
    /\ LET rest == asked \ {<<p, "status">>}
       IN \/ /\ mem[p] # Confirm
             /\ Goes(proc, IF mem[p] = NoFlow THEN "save" ELSE "idle") /\ asked' = rest /\ UNCHANGED told
          \/ /\ mem[p] = Confirm
             /\ left.missing > 0 /\ left' = [left EXCEPT !.missing = @ - 1]
             /\ Commit(mem, disk, [proc EXCEPT !.polls[p] = Delay], "save")
             /\ asked' = rest /\ UNCHANGED told
          \/ /\ mem[p] = Confirm
             /\ StartStep(p, RequestSpv, rest, At("save", [proc EXCEPT !.polls[p] = 0]), At("idle", proc))
    /\ UNCHANGED <<rsk, pending, saved, over>>

AnswerSpv(p) ==
    /\ pc = "idle" /\ <<p, "spv">> \in asked
    /\ asked' = asked \ {<<p, "spv">>}
    /\ IF mem[p] = RequestSpv
       THEN RegisterPegout(p, "save", "save", [proc EXCEPT !.retries[p] = Delay], "idle", "idle")
       ELSE Goes(proc, "idle") /\ UNCHANGED <<phase, age, logs>>
    /\ UNCHANGED <<submitted, triggered, told, pending, saved, over>>

(* process_user_request: fail_flow. *)
FailFlow(p) ==
    /\ p \in left.fails /\ pc = "idle" /\ mem[p] # NoFlow
    /\ Commit([mem EXCEPT ![p] = Failed], [disk EXCEPT ![p] = Failed], proc, "save")
    /\ over' = over \cup {p}
    /\ UNCHANGED <<rsk, bitvmx, pending, saved, left>>

-----------------------------------------------------------------------------
(* A message taken off its queue is gone. *)
Crash ==
    /\ pc \notin {"down", "panicked"} /\ (left.lossy \/ pc \notin {"comm_info", "save"})
    /\ Die
    /\ UNCHANGED <<rsk, bitvmx, pending, disk, saved, over>>

(* Defect: the test for a scheduled timeout is the wrong way round, and    *)
(* what was pending is dropped.                                            *)
ReconstructedInverted(pr) ==
    [pr EXCEPT !.waiting = {p \in Peg : disk[p] = WaitSignatures /\ pr.timeouts[p] # Never}]

(* reconstruct_runtime_state_from_flows, and the query of                  *)
(* redrive_pending_bitvmx_request that a step waits for.                   *)
Reconstructed(pr) ==
    [pr EXCEPT
        !.waiting = @ \cup {p \in Peg : disk[p] = WaitSignatures /\ pr.timeouts[p] = Never},
        !.polls   = [p \in Peg |-> IF disk[p] = Confirm /\ @[p] = 0 THEN Delay ELSE @[p]],
        !.retries = [p \in Peg |-> IF disk[p] = Register /\ @[p] = 0 THEN Delay ELSE @[p]]]

Redriven(p) ==
    CASE disk[p] = GetCommInfo -> {<<p, "comm_info">>}
      [] disk[p] = Prepare     -> {<<p, "accepted">>}
      [] disk[p] = RequestSpv  -> {<<p, "spv">>}
      [] OTHER                 -> {}

(* restore_or_new. *)
Restart ==
    /\ pc \in {"down", "panicked"}
    /\ Commit(disk, disk, Reconstructed(saved), "idle")
    /\ asked' = asked \cup UNION {Redriven(p) : p \in Peg}
    /\ pending' = {}
    /\ UNCHANGED <<rsk, told, saved, over, left>>

-----------------------------------------------------------------------------
Answer(p) == AnswerCommInfo(p) \/ AnswerAccepted(p) \/ AnswerStatus(p) \/ AnswerSpv(p)

(* What goes on inside a handler, and the restart of the coordinator. *)
HandlerStep ==
    \/ \E i \in 1..Len(Stages) - 1 : NextLoop(i)
    \/ \E p \in Peg :
          \/ TriggerOperatorTake(p) \/ DelegateBlockTo(p) \/ DispatchUserTake(p)
          \/ RequestTransactionStatus(p) \/ RetryRegister(p) \/ ProcessConfirmedRskEvent(p)
          \/ TakeCommInfo(p)
    \/ CommInfoTaken \/ Save \/ Restart

Next ==
    \/ \E p \in Peg : RskEmits(p) \/ Reorg(p) \/ Answer(p) \/ FailFlow(p)
    \/ ProcessNewRskEvent \/ NewBlock \/ HandlerStep \/ Crash

(* A handler runs to its end, the loop polls every channel in each round,  *)
(* the chain goes on and BitVMX answers.  Other members need not sign, but *)
(* a user take they all signed gets registered.                            *)
Fairness ==
    /\ WF_vars(HandlerStep) /\ SF_vars(ProcessNewRskEvent) /\ SF_vars(NewBlock)
    /\ \A p \in Peg : SF_vars(Answer(p)) /\ WF_vars(phase[p] = 3 /\ RskEmits(p))

Spec == Init /\ [][Next]_vars /\ Fairness

-----------------------------------------------------------------------------
(* A peg-out has one outcome: the member never both dispatches the user    *)
(* take and calls trigger_operator_take, however the timeout races the     *)
(* signatures, an error or a restart, unless the coordinator stops between *)
(* the dispatch and the save of the flow.                                  *)
OneOutcome == \A p \in triggered : <<p, "dispatched">> \in told => p \in left.torn

(* A flow that waits for signatures has a timeout, scheduled or about to   *)
(* be: without one it would wait for absent members for ever               *)
(* (schedule_pending_timeouts, reconstruct_runtime_state_from_flows).      *)
WaitHasTimeout ==
    pc \notin {"down", "panicked"} /\ ~left.lossy =>
        \A p \in Peg : mem[p] = WaitSignatures =>
            \/ proc.timeouts[p] # Never \/ p \in proc.waiting
            \/ pc = "timeouts" /\ p \in pending

(* As long as nothing is lost, no view is given a block after it missed    *)
(* one: the assertion of validate_consecutive_block does not end the       *)
(* process, whatever is reorganised or restarted.                          *)
ViewsKeepUp == left.lossy \/ pc # "panicked"

(* No view is given a block after it missed one: the assertion of          *)
(* validate_consecutive_block never ends the process.                      *)
NoPanic == pc # "panicked"

(* Unless a message is lost, every confirmed request gets to its end:      *)
(* registered, handed to an operator take, or failed by the administrator. *)
Finishes == \A p \in Peg : "requested" \in Deep(p) /\ ~left.lossy ~> p \in over

=============================================================================
