------------------------------- MODULE Pegin --------------------------------
(***************************************************************************)
(* The peg-in flows of one coordinator (PeginFlow) and the processor that  *)
(* drives them (PeginFlowProcessor).  BitVMX reports a request transaction *)
(* on Bitcoin; the member has it requested on Rootstock, sets the accept   *)
(* transaction up, registers its operator take (a prover), signs it with   *)
(* the committee (BtcSignature), dispatches it and has it accepted.        *)
(*                                                                         *)
(* Rootstock events overtake the flow: PeginRequested, AllOperatorTake-    *)
(* TxidsAdded and PeginAccepted are buffered until the flow is ready.      *)
(* requestPegin is retried by Bitcoin block, acceptPegin by flow.  As in   *)
(* Pegout a flow is saved when it has moved, the processor's state at the  *)
(* end of a handler that succeeded, and a failed step is not rolled back.  *)
(*                                                                         *)
(* age counts the blocks since the last milestone of a peg-in; the ones    *)
(* before it have all their confirmations.                                 *)
(***************************************************************************)
EXTENDS Integers, Sequences, SequencesExt, BtcSignature

CONSTANTS
    Peg,       \* the peg-ins this node is a committee member for
    NoPeg,     \* not one of them
    BlockOf,   \* the Bitcoin block of each request transaction
    Required,  \* required_confirmations
    Delay,     \* btc_status_retry_blocks
    Budgets    \* what may happen in a behaviour, see Budget

Stages == <<"signatures", "dispatch", "status", "requests", "accepts", "confirm", "save">>
Blocks == Range(BlockOf)

(* Where a crash may fall: in the loop of the coordinator, in a loop of a  *)
(* handler, or inside a step, once it took effect elsewhere.               *)
Points == Range(Stages) \cup {"idle", "comm_info", "entered"}

Budget ==
    [pegs    : SUBSET Peg,  \* the peg-ins that take place
     upto    : 0..5,        \* how far Rootstock takes them, in milestones
     provers : SUBSET Peg,  \* those in whose committee the member is an operator
     fails   : SUBSET Peg,  \* those an administrator may fail
     reports : Nat,         \* repeated reports of a request transaction
     missing : Nat,         \* answers "missing confirmations"
     errors  : Nat,         \* failed contract calls and BitVMX sends
     reorgs  : Nat,         \* reorganisations that remove an event
     crashes : Nat,
     points  : SUBSET Points]

ASSUME PeginAssumption ==
    /\ NoPeg \notin Peg /\ BlockOf \in [Peg -> Blocks]
    /\ {Required, Delay} \subseteq Nat \ {0}
    /\ \A b \in Budgets : b \in Budget

VARIABLES
    phase,      \* Rootstock, per peg-in: how many of Milestones happened
    age,        \* blocks received since the last one
    logs,       \* logs sent to the coordinator and not yet received
    submitted,  \* what this member registered on Rootstock, as <<peg, what>>
    asked,      \* answers BitVMX owes, as <<peg, kind>>
    told,       \* what BitVMX was told, as <<peg, what>>
    pc,         \* "down", "panicked", "idle" or the place inside a handler
    pending,    \* peg-ins the loop of the running handler has still to serve
    mem,        \* the processor's flows, by step
    disk,       \* the saved flows
    proc,       \* the processor's own state
    saved,      \* PeginProcessorState
    over,       \* history: peg-ins whose flow ended
    dropped,    \* history: peg-ins whose AllOperatorTakeTxidsAdded was ignored
    faulty,     \* history: a call failed
    lost,       \* history: a crash lost a message or what a handler had done
    left        \* what is left of the budget

rsk     == <<phase, age, logs>>
bitvmx  == <<asked, told>>
history == <<over, dropped>>
status  == <<faulty, lost>>
vars    == <<rsk, submitted, bitvmx, pc, pending, mem, disk, proc, saved, history, status, left>>

-----------------------------------------------------------------------------
NoFlow        == 0
RequestProof  == 1   \* RequestPeginSpvProof, without the proof
RetryRequest  == 2   \* RequestPeginSpvProof, with it
WaitRequested == 3
GetCommInfo   == 4
Prepare       == 5
TakeInfo      == 6
WonInfo       == 7
AddTakeHash   == 8
WaitTakeTxids == 9
WaitSigned    == 10
Dispatch      == 11
Confirm       == 12
AcceptProof   == 13
Accept        == 14
Done          == 15
Failed        == 16

IsTerminal(s) == s \in {Done, Failed}

(* Defect: a flow that submitted its acceptance is not fast-forwarded. *)
FastForwardsBelowAccept(s) == s \in Dispatch..AcceptProof

(* allows_fast_forward_to_pegin_accepted, and the flows that have          *)
(* pegin_requested and bitvmx_pegin_accepted in their context.             *)
FastForwards(s)    == s \in Dispatch..Accept
HasRequested(s)    == s \in GetCommInfo..Failed
KnowsAcceptTxid(s) == s \in TakeInfo..Failed

Milestones == <<"requested", "take_txids", "nonces", "signatures", "accepted">>
Kinds == {"found", "request_spv", "comm_info", "accepted", "take_info", "won_info", "status",
          "accept_spv"}

(* The milestones of p that have their confirmations. *)
Deep(p) == {Milestones[k] : k \in {j \in 1..phase[p] : j < phase[p] \/ age[p] = Required}}

ProcState ==
    [sub        : [Peg -> SubFlow],                  \* signature_flows
     confirming : SUBSET (Peg \X Range(Milestones)), \* events_confirming
     polls      : [Peg -> 0..Delay],                 \* tx_status_scheduler, 0 if not in it
     tracker    : SUBSET Peg,                        \* pegin_request_tracker
     queued     : [Blocks -> Peg \cup {NoPeg}],      \* unconfirmed_pegin_requests
     requests   : [Blocks -> 0..Delay],              \* pegin_retry_scheduler
     accepts    : [Peg -> 0..Delay],                 \* accept_pegin_retry_scheduler
     buffered   : SUBSET (Peg \X Range(Milestones)), \* the three pending_ maps
     view       : Views]                             \* blockchain_view

NoProcState ==
    [sub |-> [p \in Peg |-> NoSub], confirming |-> {}, polls |-> [p \in Peg |-> 0],
     tracker |-> {}, queued |-> [b \in Blocks |-> NoPeg], requests |-> [b \in Blocks |-> 0],
     accepts |-> [p \in Peg |-> 0], buffered |-> {}, view |-> "empty"]

TypeOK ==
    /\ phase \in [Peg -> 0..5] /\ age \in [Peg -> 0..Required]
    /\ \A i \in DOMAIN logs : logs[i] \in Peg \X Range(Milestones) \X BOOLEAN
    /\ submitted \subseteq Peg \X {"take_hash", "nonce", "signature"}
    /\ asked \subseteq Peg \X Kinds
    /\ told \subseteq Peg \X {"setup", "dispatched", "completed"}
    /\ pc \in Range(Stages) \cup {"down", "panicked", "idle", "comm_info"}
    /\ pending \subseteq Peg
    /\ mem \in [Peg -> NoFlow..Failed] /\ disk \in [Peg -> NoFlow..Failed]
    /\ proc \in ProcState /\ saved \in ProcState
    /\ over \subseteq Peg /\ dropped \subseteq Peg
    /\ {faulty, lost} \subseteq BOOLEAN /\ left \in Budget

Init ==
    /\ phase = [p \in Peg |-> 0] /\ age = phase
    /\ logs = <<>> /\ submitted = {}
    /\ pc = "idle" /\ pending = {}
    /\ mem = [p \in Peg |-> NoFlow] /\ disk = mem
    /\ proc = NoProcState /\ saved = NoProcState
    /\ over = {} /\ dropped = {}
    /\ faulty = FALSE /\ lost = FALSE /\ left \in Budgets
    /\ asked = left.pegs \X {"found"} /\ told = {}

(* calc_op_role: the member is an operator of the committee. *)
Prover(p) == p \in left.provers

-----------------------------------------------------------------------------
(* Rootstock. *)

Emit(p) ==
    /\ phase' = [phase EXCEPT ![p] = @ + 1]
    /\ age' = [age EXCEPT ![p] = 0]
    /\ logs' = Append(logs, <<p, Milestones[phase[p] + 1], FALSE>>)

(* The next milestone, brought about by the committee once this member has *)
(* done its part and the last one is deep.  Another member may request and *)
(* accept the peg-in.  The operator takes are complete without a verifier. *)
(* What happens while a handler runs is seen by none of its steps, so that *)
(* Rootstock may as well wait for it to end.                               *)
RskEmits(p) ==
    /\ pc = "idle" /\ p \in left.pegs /\ phase[p] < left.upto
    /\ phase[p] > 0 => age[p] = Required
    /\ phase[p] = 1 /\ Prover(p) => <<p, "take_hash">> \in submitted
    /\ phase[p] = 2 => <<p, "nonce">> \in submitted
    /\ phase[p] = 3 => <<p, "signature">> \in submitted
    /\ Emit(p)
    /\ UNCHANGED <<submitted, bitvmx, pc, pending, mem, disk, proc, saved, history, status, left>>

(* A reorganisation takes the last milestone back before it is deep. *)
Reorg(p) ==
    /\ pc = "idle" /\ phase[p] > 0 /\ age[p] < Required
    /\ left.reorgs > 0 /\ left' = [left EXCEPT !.reorgs = @ - 1]
    /\ phase' = [phase EXCEPT ![p] = @ - 1]
    /\ age' = [age EXCEPT ![p] = IF phase[p] = 1 THEN 0 ELSE Required]
    /\ logs' = Append(logs, <<p, Milestones[phase[p]], TRUE>>)
    /\ UNCHANGED <<submitted, bitvmx, pc, pending, mem, disk, proc, saved, history, status>>

-----------------------------------------------------------------------------
(* The flow. *)

(* cleanup_terminal_flow_state: a queued retry is found by the transaction *)
(* it holds; of the buffered events only PeginRequested is forgotten.      *)
Forget(pr, gone) ==
    LET kept(b) == pr.queued[b] \notin gone
    IN [pr EXCEPT !.sub      = [p \in Peg |-> IF p \in gone THEN NoSub ELSE @[p]],
                  !.polls    = [p \in Peg |-> IF p \in gone THEN 0 ELSE @[p]],
                  !.accepts  = [p \in Peg |-> IF p \in gone THEN 0 ELSE @[p]],
                  !.tracker  = @ \ gone,
                  !.buffered = @ \ (gone \X {"requested"}),
                  !.queued   = [b \in Blocks |-> IF kept(b) THEN @[b] ELSE NoPeg],
                  !.requests = [b \in Blocks |-> IF kept(b) THEN @[b] ELSE 0]]

(* cleanup_terminal_flows, which follows every step that ends a flow. *)
Without(m, gone) == [p \in Peg |-> IF p \in gone THEN NoFlow ELSE m[p]]

(* The flows in memory and in the store and the processor's state when a   *)
(* handler goes on at where.                                               *)
Commit(m, d, pr, where) ==
    LET gone == {p \in Peg : IsTerminal(m[p])}
    IN /\ pc' = where
       /\ mem' = Without(m, gone) /\ disk' = Without(d, gone)
       /\ proc' = Forget(pr, gone)

Goes(pr, where) ==
    /\ Commit(mem, disk, pr, where)
    /\ UNCHANGED <<status, left>>

Lacks == left.missing > 0 /\ left' = [left EXCEPT !.missing = @ - 1] /\ UNCHANGED status
Fails == left.errors > 0 /\ left' = [left EXCEPT !.errors = @ - 1] /\ faulty' = TRUE /\ UNCHANGED lost

(* What is in memory no longer counts: Restart overwrites it. *)
Die(point) ==
    /\ point \in left.points
    /\ left.crashes > 0 /\ left' = [left EXCEPT !.crashes = @ - 1]
    /\ lost' = (lost \/ point # "idle")
    /\ UNCHANGED faulty
    /\ pc' = "down"
    /\ UNCHANGED <<mem, proc>>

(* process_step_data: the step after s. *)
NextStep(p, s) ==
    CASE s = WaitRequested -> GetCommInfo
      [] s = GetCommInfo   -> Prepare
      [] s = Prepare       -> IF Prover(p) THEN TakeInfo ELSE WaitTakeTxids
      [] s = TakeInfo      -> WonInfo
      [] s = WonInfo       -> AddTakeHash
      [] s = AddTakeHash   -> WaitTakeTxids
      [] s = WaitTakeTxids -> WaitSigned
      [] s = WaitSigned    -> Dispatch
      [] s = Dispatch      -> Confirm
      [] s = Confirm       -> AcceptProof
      [] s = AcceptProof   -> Accept

(* What the entry action of a step tells BitVMX, and what BitVMX answers:  *)
(* it sets a program up once, and reports on a transaction it dispatched.  *)
Owes(p, next) ==
    CASE next = RequestProof -> {<<p, "request_spv">>}
      [] next = GetCommInfo  -> {<<p, "comm_info">>}
      [] next = Prepare      -> IF <<p, "setup">> \in told THEN {} ELSE {<<p, "accepted">>}
      [] next = TakeInfo     -> {<<p, "take_info">>}
      [] next = WonInfo      -> {<<p, "won_info">>}
      [] next = Dispatch     -> {<<p, "status">>}
      [] next = AcceptProof  -> {<<p, "accept_spv">>}

EnterStep(p, next, owed) ==
    /\ asked' = owed \cup Owes(p, next)
    /\ told' = told \cup
           CASE next = Prepare  -> {<<p, "setup">>}
             [] next = Dispatch -> {<<p, "dispatched">>}
             [] OTHER           -> {}

(* Where a handler goes on, and the processor's state there. *)
At(where, pr) == [pc |-> where, proc |-> pr]

(* start_step for a step that only talks to BitVMX, which owes the answers *)
(* owed, of a flow that is saved at from.  Dispatch nests the completion   *)
(* of its own step.  A failure leaves the flow in memory at the step it    *)
(* did not enter, apart from a new flow, which is dropped.                 *)
StartStep(p, from, next, owed, ok, err) ==
    LET reached == IF next = Dispatch THEN NextStep(p, Dispatch) ELSE next
        entered == IF from = NoFlow THEN NoFlow ELSE next
        before  == [disk EXCEPT ![p] = from]
    IN \/ /\ EnterStep(p, next, owed)
          /\ Commit([mem EXCEPT ![p] = reached], [disk EXCEPT ![p] = reached], ok.proc, ok.pc)
          /\ UNCHANGED <<status, left>>
       \/ /\ asked' = owed
          /\ Fails
          /\ Commit([mem EXCEPT ![p] = entered], before, err.proc, err.pc)
          /\ UNCHANGED told
       \/ /\ EnterStep(p, next, owed)
          /\ Die("entered")
          /\ disk' = before

(* A contract call that takes effect once, whoever makes it. *)
Call(p, k) == IF phase[p] = k THEN Emit(p) ELSE UNCHANGED rsk

-----------------------------------------------------------------------------
(* What follows an event once it is confirmed and the flow is ready.       *)

(* A buffered event is taken out of its map and replayed. *)
Unbuffered(pr, e) == [pr EXCEPT !.buffered = @ \ {e}]

(* create_flow_for_pegin_requested, for a flow that is saved at            *)
(* WaitPeginRequested.                                                     *)
PeginRequested(p, owed, pr, ok, err) ==
    StartStep(p, WaitRequested, NextStep(p, WaitRequested), owed, At(ok, pr), err)

(* handle_all_operator_take_tx_hashes_added, with the flows m and d.  The  *)
(* subflow is kept though the flow may not be at the step that it ends.    *)
TakeTxidsAdded(p, m, d, pr, ok, err) ==
    LET nonce   == <<p, "nonce">>
        started == [pr EXCEPT !.sub[p] = Started]
        signing == [m EXCEPT ![p] = NextStep(p, WaitTakeTxids)]
        held    == [d EXCEPT ![p] = WaitSigned]
    IN IF ~KnowsAcceptTxid(m[p])
       THEN /\ Commit(m, d, IF HasRequested(m[p])
                            THEN [pr EXCEPT !.buffered = @ \cup {<<p, "take_txids">>}] ELSE pr, ok)
            /\ dropped' = IF HasRequested(m[p]) \/ p \in over THEN dropped ELSE dropped \cup {p}
            /\ UNCHANGED <<submitted, status, left>>
       ELSE /\ UNCHANGED dropped
            /\ \/ /\ pr.sub[p] # NoSub
                  /\ Commit(m, d, pr, ok)
                  /\ UNCHANGED <<submitted, status, left>>
               \/ /\ pr.sub[p] = NoSub /\ nonce \notin submitted
                  /\ submitted' = submitted \cup {nonce}
                  /\ \/ /\ IF m[p] = WaitTakeTxids THEN Commit(signing, held, started, ok)
                           ELSE Commit(m, d, started, err)
                        /\ UNCHANGED <<status, left>>
                     \/ /\ Die("entered")
                        /\ disk' \in {d} \cup (IF m[p] = WaitTakeTxids THEN {held} ELSE {})
               \/ /\ pr.sub[p] = NoSub
                  /\ IF nonce \in submitted THEN UNCHANGED <<status, left>> ELSE Fails
                  /\ Commit(m, d, pr, err)
                  /\ UNCHANGED submitted

(* send_pegin_accepted_to_bitvmx and write_completion_marker. *)
Completion(p) == {<<p, "completed">>}

(* handle_pegin_accepted.  The flow is Done in memory before BitVMX is     *)
(* told and the completion marker is written: if that fails, it is deleted *)
(* all the same.                                                           *)
PeginAccepted(p, pr, ok, err) ==
    LET done == [mem EXCEPT ![p] = Done]
        completed == told \cup Completion(p)
    IN \/ /\ ~KnowsAcceptTxid(mem[p])
          /\ Goes(err.proc, err.pc) /\ UNCHANGED <<told, over>>
       \/ /\ KnowsAcceptTxid(mem[p]) /\ ~FastForwards(mem[p])
          /\ Goes([pr EXCEPT !.buffered = @ \cup {<<p, "accepted">>}], ok)
          /\ UNCHANGED <<told, over>>
       \/ /\ FastForwards(mem[p])
          /\ told' = completed /\ over' = over \cup {p}
          /\ Commit(done, [disk EXCEPT ![p] = Done], pr, ok)
          /\ UNCHANGED <<status, left>>
       \/ /\ FastForwards(mem[p])
          /\ told' \in {told, completed} /\ over' = over \cup {p}
          /\ Commit(done, disk, err.proc, err.pc)
          /\ Fails
       \/ /\ FastForwards(mem[p])
          /\ told' = completed
          /\ Die("entered")
          /\ UNCHANGED <<disk, over>>

-----------------------------------------------------------------------------
(* process_new_rsk_event. *)

(* Defect: the view is not cleared with the last event. *)
StopConfirmingKeepsView(pr, e) == [pr EXCEPT !.confirming = @ \ {e}]

(* stop_confirming_event. *)
StopConfirming(pr, e) ==
    [pr EXCEPT !.confirming = @ \ {e}, !.view = IF pr.confirming \ {e} = {} THEN "empty" ELSE @]

ProcessNewRskEvent ==
    /\ pc = "idle" /\ logs # <<>>
    /\ logs' = Tail(logs)
    /\ LET p == Head(logs)[1]
           event == Head(logs)[2]
           removed == Head(logs)[3]
           sub == proc.sub[p]
       IN IF event \in {"nonces", "signatures"}
          THEN IF sub = NoSub THEN Goes(proc, "save")
               ELSE IF TakesEvent(sub, event)
                    THEN Goes([proc EXCEPT !.sub[p] = DelegateRskEvent(sub, event, removed)], "save")
                    ELSE Goes(proc, "idle")
          ELSE IF removed THEN Goes(StopConfirming(proc, <<p, event>>), "save")
               ELSE Goes([proc EXCEPT !.confirming = @ \cup {<<p, event>>}], "save")
    /\ UNCHANGED <<phase, age, submitted, bitvmx, pending, saved, history>>

-----------------------------------------------------------------------------
(* process_new_block, one loop after the other.  An error ends the handler *)
(* where it is: nothing is saved and the views it had not come to miss the *)
(* block.                                                                  *)

Abandon(pr, subs) ==
    [pr EXCEPT !.sub = [p \in Peg |-> IF p \in subs THEN [@[p] EXCEPT !.view = Missed(@)] ELSE @[p]],
               !.view = Missed(@)]

Signing(pr) == {p \in Peg : pr.sub[p] # NoSub}

(* A log may lag behind the blocks, a removal comes with the               *)
(* reorganisation: EventConfirmation is about the others.                  *)
NewBlock ==
    /\ pc = "idle"
    /\ \A i \in DOMAIN logs : ~logs[i][3]
    /\ age' = [p \in Peg |-> IF phase[p] > 0 /\ age[p] < Required THEN age[p] + 1 ELSE age[p]]
    /\ pc' = Head(Stages) /\ pending' = Signing(proc)
    /\ UNCHANGED <<phase, logs, submitted, bitvmx, mem, disk, proc, saved, history, status, left>>

(* process_unhandled_confirmed_sig_flow_events, its first loop.  The       *)
(* contract takes one signature of a member.                               *)
DelegateBlockTo(p) ==
    /\ pc = "signatures" /\ p \in pending
    /\ LET sub == proc.sub[p]
           rest == pending \ {p}
           signature == <<p, "signature">>
       IN IF sub.view = "gap"
          THEN /\ pc' = "panicked" /\ pending' = {}
               /\ UNCHANGED <<submitted, mem, disk, proc, status, left>>
          ELSE \/ /\ ~SendsSignature(sub, Deep(p))
                  /\ Goes([proc EXCEPT !.sub[p] = DelegateBlock(sub, Deep(p))], "signatures")
                  /\ pending' = rest
                  /\ UNCHANGED submitted
               \/ /\ SendsSignature(sub, Deep(p)) /\ signature \notin submitted
                  /\ submitted' = submitted \cup {signature}
                  /\ \/ /\ Goes([proc EXCEPT !.sub[p] = Signed(sub)], "signatures")
                        /\ pending' = rest
                     \/ /\ Die("entered")
                        /\ UNCHANGED <<disk, pending>>
               \/ /\ SendsSignature(sub, Deep(p))
                  /\ IF signature \in submitted THEN UNCHANGED <<status, left>> ELSE Fails
                  /\ Commit(mem, disk, Abandon([proc EXCEPT !.sub[p] = Unsigned(sub)], rest), "idle")
                  /\ pending' = {}
                  /\ UNCHANGED submitted
    /\ UNCHANGED <<rsk, bitvmx, saved, history>>

(* Its second loop: a signed accept transaction is dispatched.  A buffered *)
(* PeginAccepted would be replayed next: DispatchComesFirst, there is none. *)
DispatchAcceptPegin(p) ==
    /\ pc = "dispatch" /\ proc.sub[p].done
    /\ LET removed == [proc EXCEPT !.sub[p] = NoSub]
       IN IF mem[p] = WaitSigned
          THEN StartStep(p, WaitSigned, NextStep(p, WaitSigned), asked, At("dispatch", removed),
                         At("idle", Abandon(removed, {})))
          ELSE Goes(removed, "dispatch") /\ UNCHANGED bitvmx
    /\ UNCHANGED <<rsk, submitted, pending, saved, history>>

(* handle_transaction_status_tick. *)
RequestTransactionStatus(p) ==
    /\ pc = "status" /\ p \in pending
    /\ \/ /\ mem[p] # Confirm
          /\ Goes(proc, "status") /\ pending' = pending \ {p}
          /\ UNCHANGED asked
       \/ /\ mem[p] = Confirm
          /\ Goes(proc, "status") /\ pending' = pending \ {p}
          /\ asked' = asked \cup {<<p, "status">>}
       \/ /\ mem[p] = Confirm /\ Fails
          /\ Commit(mem, disk, Abandon(proc, {}), "idle") /\ pending' = {}
          /\ UNCHANGED asked
    /\ UNCHANGED <<rsk, submitted, told, saved, history>>

(* schedule_request_pegin_retry: the queue is keyed by the block of the    *)
(* proof, a second peg-in of the same block takes the place of the first.  *)
ScheduleRequest(pr, p) == [pr EXCEPT !.queued[BlockOf[p]] = p, !.requests[BlockOf[p]] = Delay]

(* The completion of RequestPeginSpvProof, retried or not: the proof is    *)
(* saved, the contract takes the request or has it already, the native     *)
(* bridge lacks confirmations, or the call fails.  A buffered              *)
(* PeginRequested is replayed; if that fails the handler stops.            *)
RequestPegin(p, owed, pr, retried) ==
    LET at(f, s)  == [f EXCEPT ![p] = s]
        event     == <<p, "requested">>
        untracked == [pr EXCEPT !.tracker = @ \ {p}]
        replayed  == Unbuffered(untracked, event)
        ok        == IF retried THEN "requests" ELSE "save"
        stop      == At("idle", IF retried THEN Abandon(replayed, {}) ELSE replayed)
        err       == IF retried THEN At("requests", untracked) ELSE At("idle", pr)
    IN \/ /\ Call(p, 0)
          /\ IF event \in pr.buffered
             THEN PeginRequested(p, owed, replayed, ok, stop)
             ELSE /\ Commit(at(mem, WaitRequested), at(disk, WaitRequested), untracked, ok)
                  /\ asked' = owed /\ UNCHANGED <<told, status, left>>
       \/ /\ Lacks
          /\ Commit(at(mem, RetryRequest), at(disk, RetryRequest), ScheduleRequest(pr, p), ok)
          /\ asked' = owed /\ UNCHANGED <<rsk, told>>
       \/ /\ Fails
          /\ Commit(at(mem, RetryRequest), at(disk, RetryRequest), err.proc, err.pc)
          /\ asked' = owed /\ UNCHANGED <<rsk, told>>
       \/ /\ Call(p, 0) /\ Die("entered")
          /\ disk' \in {at(disk, RetryRequest), at(disk, WaitRequested)}
          /\ asked' = owed /\ UNCHANGED told

(* handle_pegin_retry_tick, its first loop: any error but the lack of      *)
(* confirmations is the end of the retries.                                *)
RetryRequestPegin(p) ==
    /\ pc = "requests" /\ p \in pending
    /\ LET pr == [proc EXCEPT !.queued[BlockOf[p]] = NoPeg]
       IN IF mem[p] = RetryRequest
          THEN RequestPegin(p, asked, pr, TRUE)
          ELSE Goes(pr, "requests") /\ UNCHANGED <<rsk, bitvmx>>
    /\ pending' = IF pc' = "idle" THEN {} ELSE pending \ {p}
    /\ UNCHANGED <<submitted, saved, history>>

(* start_step for AcceptPegin, which is saved before its entry action: the *)
(* contract takes the acceptance or has it already, the native bridge      *)
(* lacks confirmations, or the call fails.                                 *)
AcceptPegin(p, ok, err) ==
    LET m == [mem EXCEPT ![p] = Accept]
        d == [disk EXCEPT ![p] = Accept]
    IN \/ /\ Call(p, 4)
          /\ Commit(m, d, proc, ok)
          /\ UNCHANGED <<status, left>>
       \/ /\ Lacks
          /\ Commit(m, d, [proc EXCEPT !.accepts[p] = Delay], ok)
          /\ UNCHANGED rsk
       \/ /\ Fails
          /\ Commit(m, d, proc, err)
          /\ UNCHANGED rsk
       \/ /\ Call(p, 4) /\ Die("entered")
          /\ disk' = d

(* Its second loop. *)
RetryAcceptPegin(p) ==
    /\ pc = "accepts" /\ p \in pending
    /\ pending' = pending \ {p}
    /\ IF mem[p] = Accept THEN AcceptPegin(p, pc, pc)
       ELSE Goes(proc, pc) /\ UNCHANGED rsk
    /\ UNCHANGED <<submitted, bitvmx, saved, history>>

(* process_block_confirmations: what is confirmed stops confirming and is  *)
(* processed, in any order.                                                *)
Ripe == {e \in proc.confirming : e[2] \in Deep(e[1])}

ProcessConfirmedRskEvent(p) ==
    /\ pc = "confirm"
    /\ \/ LET e == <<p, "requested">>
              pr == StopConfirming(proc, e)
          IN /\ e \in Ripe
             /\ IF mem[p] = WaitRequested THEN PeginRequested(p, asked, pr, "confirm", At("idle", pr))
                ELSE Goes([pr EXCEPT !.buffered = @ \cup {e}], "confirm") /\ UNCHANGED bitvmx
             /\ UNCHANGED <<submitted, history>>
       \/ LET e == <<p, "take_txids">>
          IN /\ e \in Ripe
             /\ TakeTxidsAdded(p, mem, disk, StopConfirming(proc, e), "confirm", "idle")
             /\ UNCHANGED <<bitvmx, over>>
       \/ LET e == <<p, "accepted">>
              pr == StopConfirming(proc, e)
          IN /\ e \in Ripe
             /\ PeginAccepted(p, pr, "confirm", At("idle", pr))
             /\ UNCHANGED <<submitted, asked, dropped>>
    /\ UNCHANGED <<rsk, pending, saved>>

(* From one loop to the next.  The schedulers tick when their loop starts, *)
(* the view takes the block if any event is confirming.                    *)
Elapse(t) == [k \in DOMAIN t |-> IF t[k] > 0 THEN t[k] - 1 ELSE 0]

LoopOver ==
    CASE pc = "dispatch" -> \A p \in Peg : ~proc.sub[p].done
      [] pc = "confirm"  -> Ripe = {}
      [] OTHER           -> pending = {}

NextLoop(i) ==
    /\ pc = Stages[i] /\ LoopOver
    /\ LET next == Stages[i + 1]
           due(t) == {k \in DOMAIN t : t[k] = 1}
       IN /\ pc' = IF next = "confirm" /\ proc.confirming # {} /\ proc.view = "gap"
                   THEN "panicked" ELSE next
          /\ pending' = CASE next = "status"   -> due(proc.polls)
                          [] next = "requests" -> {proc.queued[b] : b \in due(proc.requests)} \ {NoPeg}
                          [] next = "accepts"  -> due(proc.accepts)
                          [] OTHER             -> {}
          /\ proc' = CASE next = "status"   -> [proc EXCEPT !.polls = Elapse(@)]
                       [] next = "requests" -> [proc EXCEPT !.requests = Elapse(@)]
                       [] next = "accepts"  -> [proc EXCEPT !.accepts = Elapse(@)]
                       [] next = "confirm"  -> [proc EXCEPT !.view =
                                                   IF proc.confirming # {} THEN "ok" ELSE Missed(@)]
                       [] OTHER -> proc
    /\ UNCHANGED <<rsk, submitted, bitvmx, mem, disk, saved, history, status, left>>

(* snapshot_processor_state and apply_processor_state: views start anew. *)
Snapshot(pr) == [pr EXCEPT !.view = "empty", !.sub = [p \in Peg |-> RestoredSub(@[p])]]

(* persist_processor_state. *)
Save ==
    /\ pc = "save"
    /\ Goes(proc, "idle")
    /\ saved' = Snapshot(proc)
    /\ UNCHANGED <<rsk, submitted, bitvmx, pending, history>>

-----------------------------------------------------------------------------
(* process_new_bitvmx_event. *)

(* handle_pegin_transaction_found. *)
AnswerFound(p) ==
    /\ pc = "idle" /\ <<p, "found">> \in asked
    /\ LET owed == asked \ {<<p, "found">>}
           tracked == [proc EXCEPT !.tracker = @ \cup {p}]
       IN IF p \in proc.tracker \/ mem[p] # NoFlow
          THEN Goes(proc, "save") /\ asked' = owed /\ UNCHANGED told
          ELSE StartStep(p, NoFlow, RequestProof, owed, At("save", tracked), At("idle", proc))
    /\ UNCHANGED <<rsk, submitted, pending, saved, history>>

(* BitVMX reports a request transaction again. *)
ReportAgain(p) ==
    /\ pc = "idle" /\ p \in left.pegs /\ <<p, "found">> \notin asked
    /\ left.reports > 0 /\ left' = [left EXCEPT !.reports = @ - 1]
    /\ asked' = asked \cup {<<p, "found">>}
    /\ UNCHANGED <<rsk, submitted, told, pc, pending, mem, disk, proc, saved, history, status>>

(* A CommInfo names no flow, every flow that waits for one takes it. *)
AnswerCommInfo(p) ==
    /\ pc = "idle" /\ <<p, "comm_info">> \in asked
    /\ asked' = asked \ {<<p, "comm_info">>}
    /\ pending' = {q \in Peg : mem[q] = GetCommInfo}
    /\ pc' = "comm_info"
    /\ UNCHANGED <<rsk, submitted, told, mem, disk, proc, saved, history, status, left>>

TakeCommInfo(p) ==
    /\ pc = "comm_info" /\ p \in pending
    /\ StartStep(p, disk[p], NextStep(p, GetCommInfo), asked, At("comm_info", proc), At("idle", proc))
    /\ pending' = IF pc' = "idle" THEN {} ELSE pending \ {p}
    /\ UNCHANGED <<rsk, submitted, saved, history>>

CommInfoTaken ==
    /\ pc = "comm_info" /\ pending = {}
    /\ pc' = "save"
    /\ UNCHANGED <<rsk, submitted, bitvmx, pending, mem, disk, proc, saved, history, status, left>>

(* SPVProof of the request transaction, which may be empty. *)
AnswerRequestSpv(p) ==
    /\ pc = "idle" /\ <<p, "request_spv">> \in asked
    /\ LET owed == asked \ {<<p, "request_spv">>}
       IN \/ IF p \in proc.tracker /\ mem[p] \in {RequestProof, RetryRequest}
             THEN RequestPegin(p, owed, proc, FALSE)
             ELSE Goes(proc, "save") /\ asked' = owed /\ UNCHANGED <<rsk, told>>
          \/ /\ Fails /\ Commit(mem, disk, proc, "idle")
             /\ asked' = owed /\ UNCHANGED <<rsk, told>>
    /\ UNCHANGED <<submitted, pending, saved, history>>

(* Defect: a verifier does not look for the event it buffered. *)
AnswerAcceptedForgets(p) ==
    /\ pc = "idle" /\ <<p, "accepted">> \in asked
    /\ LET owed == asked \ {<<p, "accepted">>}
       IN IF mem[p] = Prepare /\ Prover(p)
          THEN StartStep(p, disk[p], NextStep(p, Prepare), owed, At("save", proc), At("idle", proc))
          ELSE /\ asked' = owed
               /\ IF mem[p] = Prepare
                  THEN /\ Commit([mem EXCEPT ![p] = WaitTakeTxids], [disk EXCEPT ![p] = WaitTakeTxids],
                                 proc, "save")
                       /\ UNCHANGED <<status, left>>
                  ELSE Goes(proc, "idle")
               /\ UNCHANGED told
    /\ UNCHANGED <<rsk, submitted, pending, saved, history>>

(* Defect: a verifier does not wait for the operator takes. *)
AnswerAcceptedSigns(p) ==
    /\ pc = "idle" /\ <<p, "accepted">> \in asked
    /\ asked' = asked \ {<<p, "accepted">>}
    /\ TakeTxidsAdded(p, [mem EXCEPT ![p] = WaitTakeTxids], [disk EXCEPT ![p] = WaitTakeTxids], proc,
                      "save", "idle")
    /\ UNCHANGED <<rsk, told, pending, saved, over>>

(* Variable "pegin_accepted": a prover goes on to its operator take, a     *)
(* verifier waits for those of the others, which may have been there       *)
(* before.                                                                 *)
AnswerAccepted(p) ==
    /\ pc = "idle" /\ <<p, "accepted">> \in asked
    /\ LET owed == asked \ {<<p, "accepted">>}
           m == [mem EXCEPT ![p] = NextStep(p, Prepare)]
           d == [disk EXCEPT ![p] = NextStep(p, Prepare)]
           event == <<p, "take_txids">>
       IN IF mem[p] = Prepare /\ Prover(p)
          THEN /\ StartStep(p, disk[p], NextStep(p, Prepare), owed, At("save", proc), At("idle", proc))
               /\ UNCHANGED <<submitted, dropped>>
          ELSE /\ asked' = owed /\ UNCHANGED told
               /\ IF mem[p] = Prepare /\ event \in proc.buffered
                  THEN TakeTxidsAdded(p, m, d, Unbuffered(proc, event), "save", "idle")
                  ELSE /\ IF mem[p] = Prepare THEN Commit(m, d, proc, "save")
                          ELSE Commit(mem, disk, proc, "idle")
                       /\ UNCHANGED <<submitted, dropped, status, left>>
    /\ UNCHANGED <<rsk, pending, saved, over>>

(* TransactionInfo of the operator take and of the operator won. *)
AnswerTakeInfo(p) ==
    /\ pc = "idle" /\ <<p, "take_info">> \in asked
    /\ LET owed == asked \ {<<p, "take_info">>}
       IN IF mem[p] = TakeInfo
          THEN StartStep(p, disk[p], NextStep(p, TakeInfo), owed, At("save", proc), At("idle", proc))
          ELSE Goes(proc, "save") /\ asked' = owed /\ UNCHANGED told
    /\ UNCHANGED <<rsk, submitted, pending, saved, history>>

AnswerWonInfo(p) ==
    /\ pc = "idle" /\ <<p, "won_info">> \in asked
    /\ asked' = asked \ {<<p, "won_info">>}
    /\ LET hash == submitted \cup {<<p, "take_hash">>}
           after == NextStep(p, AddTakeHash)
       IN IF mem[p] # WonInfo
          THEN Goes(proc, "save") /\ UNCHANGED submitted
          ELSE \/ /\ submitted' = hash
                  /\ Commit([mem EXCEPT ![p] = after], [disk EXCEPT ![p] = after], proc, "save")
                  /\ UNCHANGED <<status, left>>
               \/ /\ Fails
                  /\ Commit([mem EXCEPT ![p] = NextStep(p, WonInfo)], disk, proc, "idle")
                  /\ UNCHANGED submitted
               \/ /\ submitted' = hash
                  /\ Die("entered") /\ UNCHANGED disk
    /\ UNCHANGED <<rsk, told, pending, saved, history>>

(* handle_transaction_status_received. *)
AnswerStatus(p) ==
    /\ pc = "idle" /\ <<p, "status">> \in asked
    /\ LET owed == asked \ {<<p, "status">>}
       IN \/ /\ mem[p] # Confirm
             /\ Goes(proc, IF HasRequested(mem[p]) THEN "idle" ELSE "save")
             /\ asked' = owed /\ UNCHANGED told
          \/ /\ mem[p] = Confirm /\ Lacks
             /\ Commit(mem, disk, [proc EXCEPT !.polls[p] = Delay], "save")
             /\ asked' = owed /\ UNCHANGED told
          \/ /\ mem[p] = Confirm
             /\ StartStep(p, Confirm, NextStep(p, Confirm), owed, At("save", [proc EXCEPT !.polls[p] = 0]),
                          At("idle", proc))
    /\ UNCHANGED <<rsk, submitted, pending, saved, history>>

(* handle_spv_proof_for_accept_pegin. *)
AnswerAcceptSpv(p) ==
    /\ pc = "idle" /\ <<p, "accept_spv">> \in asked
    /\ asked' = asked \ {<<p, "accept_spv">>}
    /\ IF mem[p] = AcceptProof THEN AcceptPegin(p, "save", "idle")
       ELSE Goes(proc, IF KnowsAcceptTxid(mem[p]) THEN "idle" ELSE "save") /\ UNCHANGED rsk
    /\ UNCHANGED <<submitted, told, pending, saved, history>>

(* process_user_request: fail_flow. *)
FailFlow(p) ==
    /\ p \in left.fails /\ pc = "idle" /\ mem[p] # NoFlow
    /\ Commit([mem EXCEPT ![p] = Failed], [disk EXCEPT ![p] = Failed], proc, "save")
    /\ over' = over \cup {p}
    /\ UNCHANGED <<rsk, submitted, bitvmx, pending, saved, dropped, status, left>>

-----------------------------------------------------------------------------
(* A message taken off its queue is gone. *)
Crash ==
    /\ pc \notin {"down", "panicked"} /\ Die(pc)
    /\ UNCHANGED <<rsk, submitted, bitvmx, pending, disk, saved, history>>

(* Defect: a flow that has its proof is tracked, not queued. *)
ReconstructedTracksOnly(pr) ==
    [pr EXCEPT !.tracker = @ \cup {p \in Peg : disk[p] \in {RequestProof, RetryRequest}}]

(* reconstruct_runtime_state_from_flows.  Of two peg-ins of a block that   *)
(* is not queued, the one that is visited first gets its place.            *)
Reconstructed(pr) ==
    LET waiting(b) == {p \in Peg : disk[p] = RetryRequest /\ BlockOf[p] = b}
    IN [pr EXCEPT
        !.tracker  = @ \cup {p \in Peg : disk[p] \in {RequestProof, RetryRequest}},
        !.queued   = [b \in Blocks |-> IF @[b] = NoPeg /\ waiting(b) # {}
                                       THEN CHOOSE p \in waiting(b) : TRUE ELSE @[b]],
        !.requests = [b \in Blocks |-> IF waiting(b) # {} /\ @[b] = 0 THEN Delay ELSE @[b]],
        !.polls    = [p \in Peg |-> IF disk[p] = Confirm /\ @[p] = 0 THEN Delay ELSE @[p]],
        !.accepts  = [p \in Peg |-> IF disk[p] = Accept /\ @[p] = 0 THEN Delay ELSE @[p]]]

(* new: flows and snapshot are loaded; nothing is asked of BitVMX again. *)
Restart ==
    /\ pc \in {"down", "panicked"}
    /\ Commit(disk, disk, Reconstructed(saved), "idle")
    /\ pending' = {}
    /\ UNCHANGED <<rsk, submitted, bitvmx, saved, history, status, left>>

-----------------------------------------------------------------------------
Answer(p) ==
    \/ AnswerFound(p) \/ AnswerRequestSpv(p) \/ AnswerCommInfo(p) \/ AnswerAccepted(p)
    \/ AnswerTakeInfo(p) \/ AnswerWonInfo(p) \/ AnswerStatus(p) \/ AnswerAcceptSpv(p)

(* What goes on inside a handler, and the restart of the coordinator. *)
HandlerStep ==
    \/ \E i \in 1..Len(Stages) - 1 : NextLoop(i)
    \/ \E p \in Peg :
          \/ DelegateBlockTo(p) \/ DispatchAcceptPegin(p) 
          \/ RequestTransactionStatus(p) \/ RetryRequestPegin(p) \/ RetryAcceptPegin(p)
          \/ ProcessConfirmedRskEvent(p) \/ TakeCommInfo(p)
    \/ CommInfoTaken \/ Save \/ Restart

Next ==
    \/ \E p \in Peg : RskEmits(p) \/ Reorg(p) \/ ReportAgain(p) \/ Answer(p) \/ FailFlow(p)
    \/ ProcessNewRskEvent \/ NewBlock \/ HandlerStep \/ Crash

(* A handler runs to its end, the loop polls every channel in each round,  *)
(* the chain goes on, BitVMX answers and the committee does its part.  A   *)
(* request that a reorganisation took back is mined again.                 *)
Outside(p) == Answer(p) \/ ((phase[p] > 0 \/ disk[p] >= WaitRequested) /\ RskEmits(p))

Fairness ==
    /\ WF_vars(HandlerStep) /\ SF_vars(NewBlock)
    /\ SF_vars(ProcessNewRskEvent \/ \E p \in Peg : Outside(p))

Spec == Init /\ [][Next]_vars /\ Fairness

-----------------------------------------------------------------------------
Running == pc \notin {"down", "panicked"}

(* The member signs nothing before every operator take of the peg-in is    *)
(* registered and confirmed: its nonce follows a deep                      *)
(* AllOperatorTakeTxidsAdded, buffered or not, across reorganisations and  *)
(* restarts (handle_all_operator_take_tx_hashes_added).                    *)
NonceAfterTakeTxids == \A p \in Peg : <<p, "nonce">> \in submitted => "take_txids" \in Deep(p)

(* An event that overtook its flow is replayed by the step that makes the  *)
(* flow ready for it: nothing that the flow waits for is left in the       *)
(* buffers of the processor, as long as no call fails and no crash loses   *)
(* what a handler did (replay_pending_pegin_requested and the like).       *)
BufferedIsReplayed ==
    ~faulty /\ ~lost => \A p \in Peg :
        /\ <<p, "requested">> \in proc.buffered => mem[p] \in NoFlow..RetryRequest
        /\ <<p, "take_txids">> \in proc.buffered => mem[p] \in {NoFlow} \cup (GetCommInfo..Prepare)
        /\ <<p, "accepted">> \in proc.buffered => ~FastForwards(mem[p])

(* A member that has signed dispatches the accept transaction before the   *)
(* acceptance of the others is confirmed, however late the logs are: no    *)
(* PeginAccepted is buffered when the signing ends, whatever was buffered  *)
(* for a flow that cannot sign (process_unhandled_confirmed_sig_flow_-     *)
(* events).                                                                *)
DispatchComesFirst == \A p \in Peg : proc.sub[p].done => <<p, "accepted">> \notin proc.buffered

(* A flow that holds its proof and was turned away by the native bridge is *)
(* retried, also after a restart, unless another peg-in of the same        *)
(* Bitcoin block took its place in the queue (schedule_request_pegin_retry,*)
(* reconstruct_runtime_state_from_flows).                                  *)
Displaced(p) ==
    /\ mem[p] = RetryRequest
    /\ \E q \in Peg \ {p} : BlockOf[q] = BlockOf[p] /\ (mem[q] # NoFlow \/ q \in over)

RequestIsRetried ==
    Running /\ ~faulty => \A p \in Peg : mem[p] = RetryRequest =>
        LET b == BlockOf[p]
        IN \/ proc.queued[b] = p /\ proc.requests[b] > 0
           \/ pc = "requests" /\ p \in pending
           \/ Displaced(p)

(* Every peg-in that is taken up gets to its end, if no call fails and no  *)
(* message is lost, unless it was displaced or the node came too late.     *)
Finishes ==
    \A p \in Peg : disk[p] # NoFlow /\ left.upto = 5 ~> p \in over \cup dropped \/ faulty \/ lost \/ Displaced(p)

=============================================================================
