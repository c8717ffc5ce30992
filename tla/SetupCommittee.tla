--------------------------- MODULE SetupCommittee ---------------------------
(***************************************************************************)
(* The committee set-up flows of one member (SetupCommitteeFlow) and the   *)
(* processor that drives them (SetupCommitteeProcessor), inside the loop   *)
(* of the coordinator, which saves the global context.  A flow begins with *)
(* a request of the user, asks BitVMX for keys and funds, applies to a     *)
(* stream, and when the member is selected deposits its data, sets the     *)
(* dispute protocols up with BitVMX and deposits the aggregated key.       *)
(*                                                                         *)
(* A step is entered in memory, then its entry action runs, then the flow  *)
(* is saved: a transient error leaves it ahead of what is saved.  Answers  *)
(* that do not complete a step, and the events that confirm, are kept in   *)
(* memory only.                                                            *)
(***************************************************************************)
EXTENDS Integers, FiniteSets, DisputeSetup

CONSTANTS
    Flow,       \* requests of the user, each with its own flow id
    Stream,
    Committee,
    None,       \* no flow and no committee
    OfFlow,     \* the stream each flow applies to
    Of,         \* the stream of each committee
    Roles,      \* the roles the members of a committee may have; member 0 is this one
    Budgets     \* what may happen in a behaviour, see Budget

NoFlow            == 0
ValidateBalances  == 1
GetMyCommInfo     == 2
GetMyTakeKey      == 3
SignMyTakeKey     == 4
GetMyDisputeKey   == 5
SignMyDisputeKey  == 6
GetMyCommKey      == 7
SignMyCommKey     == 8
FundMyBitVmx      == 9
ApplyToStream     == 10
DepositP2PData    == 11
SetupTakeKey      == 12
SetupDisputeKey   == 13
SetupPairwiseKeys == 14
SetupDisputeCore  == 15
RequestVars       == 16
SetupChannels     == 17
SetupPenalization == 18
DepositKey        == 19
Done              == 20
Failed            == 21

IsTerminal(s) == s \in {Done, Failed}
KeySteps      == GetMyTakeKey..SignMyCommKey

(* The steps whose entry action sends requests and only logs when that     *)
(* fails, and the ones that call a contract.                               *)
LoggedSends == {ValidateBalances, GetMyCommInfo} \cup KeySteps \cup SetupTakeKey..SetupPairwiseKeys
Calls       == {ApplyToStream, DepositP2PData, DepositKey}

Budget ==
    [flows   : SUBSET Flow,  \* the requests of the user
     admin   : SUBSET Flow,  \* the flows an administrator may fail
     roles   : Roles,
     faults  : Nat,          \* failed calls, sends and answers
     reorgs  : Nat,          \* events that are removed and mined again
     crashes : Nat]

ASSUME SetupAssumption ==
    /\ None \notin Flow \cup Committee
    /\ OfFlow \in [Flow -> Stream] /\ Of \in [Committee -> Stream]
    /\ \A r \in Roles : r \in [DOMAIN r -> ParticipantRole] /\ 0 \in DOMAIN r /\ DOMAIN r \subseteq Nat
    /\ \A b \in Budgets : b \in Budget

VARIABLES
    left,       \* what is left of the budget
    requested,  \* requests the user made
    applied,    \* CommitteeRegistry: streams this member is registered for
    formed,     \* committees that are pending, with TRUE if this member is in them
    deposits,   \* <<committee, what>> this member deposited
    logs,       \* events sent to the coordinator and not yet received
    emitted,    \* events that were mined
    asked,      \* BitVMX: what it was asked, as <<flow, request>>
    answered,   \* what it answered
    pc,         \* "idle", "panicked" or the place inside a handler
    stage,      \* messages of the loop of the coordinator handled since it saved the context
    cur,        \* the flow the running handler has entered a step of
    todo,       \* confirmed events process_new_block has still to process
    mem,        \* the flows of the processor
    disk,       \* the saved flows
    confirming, \* events_confirming
    keys,       \* my_keys, by the flow that got them
    mine,       \* my_committees
    saved,      \* the saved global context
    used,       \* history: the keys each application was made with, and its funds sent to
    ended,      \* history: how each flow ended
    overtaken,  \* history: flows that were to get keys, or to fund them, when another set them
    faulty,     \* history: flows that met a failure, or an administrator
    lost        \* history: a crash lost what a handler had done or received

registry == <<applied, formed, deposits>>
rsk      == <<registry, logs, emitted>>
bitvmx   == <<asked, answered>>
context  == <<keys, mine>>
history  == <<used, ended, overtaken, faulty, lost>>
vars     == <<left, requested, rsk, bitvmx, pc, stage, cur, todo, mem, disk, confirming, context, saved, history>>

Event == Committee \X {"pending", "data", "ready"}

-----------------------------------------------------------------------------
(* Requests and their answers. *)

(* request_bitvmx_balance, _comm_info, _pub_key and the like. *)
OneRequest(s) == {<<"answer", s>>}

(* Defect: only the member's own core is set up. *)
RequestsOwnCore(s) ==
    CASE s = SetupPairwiseKeys -> PairwiseKeys(left.roles, 0)
      [] s = SetupDisputeCore  -> {<<"core", 0>>}
      [] s = RequestVars       -> CoreVars(left.roles, 0)
      [] s = SetupChannels     -> Channels(left.roles, 0)
      [] s = SetupPenalization -> Penalization
      [] s \in Calls \cup {Done} -> {}
      [] OTHER                 -> OneRequest(s)

(* What the entry action of a step asks of BitVMX. *)
Requests(s) ==
    CASE s = SetupPairwiseKeys -> PairwiseKeys(left.roles, 0)
      [] s = SetupDisputeCore  -> DisputeCores(left.roles)
      [] s = RequestVars       -> CoreVars(left.roles, 0)
      [] s = SetupChannels     -> Channels(left.roles, 0)
      [] s = SetupPenalization -> Penalization
      [] s \in Calls \cup {Done} -> {}
      [] OTHER                 -> OneRequest(s)

(* The StepData a step takes, and the one that the answer to a request     *)
(* becomes.                                                                *)
StepData(s) ==
    CASE s = ValidateBalances  -> "BitVmxFundingBalance"
      [] s = GetMyCommInfo     -> "CommInfo"
      [] s \in {GetMyTakeKey, GetMyDisputeKey, GetMyCommKey, SetupTakeKey, SetupDisputeKey} -> "PublicKey"
      [] s \in {SignMyTakeKey, SignMyDisputeKey, SignMyCommKey} -> "SignedMessage"
      [] s = FundMyBitVmx      -> "FundsSent"
      [] s = SetupPairwiseKeys -> "PairwiseAggregatedKey"
      [] s = RequestVars       -> "DisputeCoreVariable"
      [] s \in {SetupDisputeCore, SetupChannels, SetupPenalization} -> "SetupCompleted"
      [] OTHER                 -> "event"

StepOf(r) == CASE r[1] = "pair"    -> SetupPairwiseKeys
               [] r[1] = "core"    -> SetupDisputeCore
               [] r[1] = "var"     -> RequestVars
               [] r[1] = "channel" -> SetupChannels
               [] r[1] = "penalization" -> SetupPenalization
               [] OTHER            -> r[2]

FlowState ==
    [step   : NoFlow..Failed,
     reqs   : SUBSET UNION {Requests(s) : s \in ValidateBalances..DepositKey},
     got    : SUBSET UNION {Requests(s) : s \in ValidateBalances..DepositKey},
     funded : Flow \cup {None},       \* whose dispute key the funds went to
     com    : Committee \cup {None}]  \* committee_pending_ev

NoState == [step |-> NoFlow, reqs |-> {}, got |-> {}, funded |-> None, com |-> None]

TypeOK ==
    /\ left \in Budget /\ requested \subseteq left.flows
    /\ applied \subseteq Stream /\ formed \subseteq Committee \X BOOLEAN
    /\ deposits \subseteq Committee \X {"data", "key"}
    /\ logs \subseteq Event /\ emitted \subseteq Event /\ confirming \subseteq Event /\ todo \subseteq confirming
    /\ answered \subseteq asked
    /\ pc \in {"idle", "block", "entered", "panicked"} /\ stage \in 0..4
    /\ cur \in Flow \cup {None}
    /\ mem \in [Flow -> FlowState] /\ disk \in [Flow -> FlowState]
    /\ keys \in Flow \cup {None} /\ mine \subseteq Committee
    /\ used \subseteq [flow : Flow, key : Flow, funded : Flow] /\ ended \in [Flow -> {NoFlow, Done, Failed}]
    /\ overtaken \subseteq Flow /\ faulty \subseteq Flow /\ lost \in BOOLEAN

Init ==
    /\ left \in Budgets /\ requested = {}
    /\ applied = {} /\ formed = {} /\ deposits = {} /\ logs = {} /\ emitted = {}
    /\ asked = {} /\ answered = {}
    /\ pc = "idle" /\ stage = 0 /\ cur = None /\ todo = {}
    /\ mem = [f \in Flow |-> NoState] /\ disk = mem
    /\ confirming = {} /\ keys = None /\ mine = {} /\ saved = <<None, {}>>
    /\ used = {} /\ ended = [f \in Flow |-> NoFlow] /\ overtaken = {} /\ faulty = {} /\ lost = FALSE

-----------------------------------------------------------------------------
(* The steps of a flow. *)

(* cleanup_terminal_flows, which every handler begins with. *)
Cleaned(flows) == [f \in Flow |-> IF IsTerminal(mem[f].step) THEN NoState ELSE flows[f]]

(* Where the flow goes on when a step is complete. *)
NextStep(s) == IF s = GetMyCommInfo /\ keys # None THEN FundMyBitVmx ELSE s + 1

(* A deposit that the registry has already. *)
Repeated(c, next) ==
    \/ next = DepositP2PData /\ <<c, "data">> \in deposits
    \/ next = DepositKey /\ <<c, "key">> \in deposits

(* What may become of a completed step and the entry into the next one.    *)
(* late is an application that failed with NoRevertError although it was   *)
(* mined.  DepositCommunicationDataInvoke and DepositAggregatedKeysInvoke  *)
(* turn every error into UnhandledContractError, which is fatal: for a     *)
(* deposit that was mined (minedFatal), and for one that is there already. *)
Outcomes(c, s, next) ==
    (IF Repeated(c, next) THEN {"repeated"} ELSE {"ok"}) \cup
    IF left.faults = 0 THEN {}
    ELSE (IF next \in LoggedSends THEN {"unsent"} ELSE {"fatal"})
         \cup (IF s \in {NoFlow, ValidateBalances, DepositP2PData} THEN {"fatal"} ELSE {})
         \cup (IF next = ApplyToStream THEN {"late"} ELSE {})
         \cup (IF next \in {DepositP2PData, DepositKey} THEN {"minedFatal"} ELSE {})
         \cup (IF next \in {ApplyToStream, ValidateBalances} THEN {"transient"} ELSE {})

Fault(f, out) ==
    /\ faulty' = IF out \in {"ok", "repeated"} THEN faulty ELSE faulty \cup {f}
    /\ left' = IF out \in {"ok", "repeated"} THEN left ELSE [left EXCEPT !.faults = @ - 1]

(* get_my_dispute_key and get_my_take_key: the global ones come first. *)
MyKey(f) == IF keys = None THEN f ELSE keys

NoKeys(fl, next) == next = ApplyToStream /\ keys = None /\ <<"answer", GetMyDisputeKey>> \notin fl.got

(* Defect: the funds go to the key this flow would get for itself. *)
FundingKeyOwn(f) == f

(* fund_protocol sends the funds to the dispute key. *)
FundingKey(f) == MyKey(f)

(* apply_to_stream.  A member that is registered already is told so, which *)
(* counts as success.                                                      *)
Apply(f, fl, mined, ok) ==
    /\ applied' = IF mined THEN applied \cup {OfFlow[f]} ELSE applied
    /\ used' = IF mined THEN used \cup {[flow |-> f, key |-> MyKey(f), funded |-> fl.funded]} ELSE used
    /\ keys' = IF ok THEN MyKey(f) ELSE keys
    /\ overtaken' = overtaken \cup
           {g \in Flow \ {f} : ok /\ keys = None /\ mem[g].step \in GetMyTakeKey..FundMyBitVmx}

(* deposit_communication_data, and deposit_aggregated_key. *)
Deposit(c, what, mined) == deposits' = IF mined THEN deposits \cup {<<c, what>>} ELSE deposits

(* What entering a step does to the registry. *)
Call(f, fl, next, out) ==
    LET mined == out \in {"ok", "late", "minedFatal"}
    IN /\ CASE next = ApplyToStream  -> Apply(f, fl, mined, out = "ok") /\ UNCHANGED deposits
            [] next = DepositP2PData -> Deposit(fl.com, "data", mined) /\ UNCHANGED <<applied, used, keys, overtaken>>
            [] next = DepositKey     -> Deposit(fl.com, "key", mined) /\ UNCHANGED <<applied, used, keys, overtaken>>
            [] OTHER                 -> UNCHANGED <<applied, deposits, used, keys, overtaken>>
       /\ UNCHANGED formed

(* After a handler, or after an event of process_new_block. *)
Handled == pc' = IF stage' = 4 THEN "block" ELSE "idle"

(* start_step.  A transient error is logged, a fatal one fails the flow. *)
StartStep(flows, f, fl, next, out) ==
    /\ mem' = [flows EXCEPT ![f] =
                  [fl EXCEPT !.step = IF out \in {"fatal", "minedFatal", "repeated"} THEN Failed ELSE next,
                             !.reqs = IF out \in {"ok", "unsent"} THEN @ \cup Requests(next) ELSE @,
                             !.funded = IF next = FundMyBitVmx THEN FundingKey(f) ELSE @]]
    /\ asked' = IF out = "ok" THEN asked \cup ({f} \X Requests(next)) ELSE asked
    /\ Call(f, fl, next, out)
    /\ Fault(f, out)
    /\ IF out \in {"transient", "late"}
       THEN Handled /\ UNCHANGED cur
       ELSE pc' = "entered" /\ cur' = f

(* A step for the member's keys while another flow has set them: panic!.   *)
Panics(next) == next \in KeySteps /\ keys # None

Panic ==
    /\ pc' = "panicked"
    /\ UNCHANGED <<left, registry, asked, cur, mem, context, used, overtaken, faulty>>

Fail(flows, f) ==
    /\ mem' = [flows EXCEPT ![f].step = Failed]
    /\ pc' = "entered" /\ cur' = f
    /\ UNCHANGED <<registry, asked, context, used, overtaken>>

(* close_pub_key_req and the like: an answer is taken for the request of   *)
(* the step, whichever it is to.                                           *)
GotSingle(fl) == Requests(fl.step)

(* process_pairwise_key_response, process_dispute_core_variable and the    *)
(* like.                                                                   *)
GotOneOf(fl, r) == {r} \cap Requests(fl.step)

Got(fl, r) == fl.got \cup IF fl.step >= SetupPairwiseKeys THEN GotOneOf(fl, r) ELSE GotSingle(fl)

(* complete_step.  Of several answers, a step waits for all. *)
CompleteStep(flows, f, r) ==
    LET fl   == flows[f]
        got  == Got(fl, r)
        next == NextStep(fl.step)
    IN IF StepData(StepOf(r)) # StepData(fl.step) \/ NoKeys(fl, next)
       THEN Fail(flows, f) /\ UNCHANGED <<left, faulty>>
       ELSE IF Requests(fl.step) \subseteq got
       THEN IF Panics(next)
            THEN Panic
            ELSE \E out \in Outcomes(fl.com, fl.step, next) :
                     StartStep(flows, f, [fl EXCEPT !.got = got], next, out) /\ UNCHANGED mine
       ELSE \/ /\ mem' = [flows EXCEPT ![f].got = got]
               /\ Handled /\ UNCHANGED <<left, registry, asked, cur, context, used, overtaken, faulty>>
            \/ /\ left.faults > 0 /\ fl.step = SetupPairwiseKeys
               /\ Fault(f, "fatal") /\ Fail(flows, f)

-----------------------------------------------------------------------------
(* The handlers of the processor. *)

(* The loop of the coordinator takes at most one message of each channel,  *)
(* in order, before it saves the global context.                           *)
Receive(channel) ==
    /\ pc = "idle" /\ stage < channel /\ stage' = channel
    /\ disk' = Cleaned(disk)
    /\ UNCHANGED saved

Ignored == mem' = Cleaned(mem) /\ pc' = "idle" /\ UNCHANGED <<left, registry, asked, cur, context, used, overtaken, faulty>>

ProcessUserRequest(f) ==
    /\ Receive(1) /\ f \in left.flows \ requested /\ requested' = requested \cup {f}
    /\ \E out \in Outcomes(None, NoFlow, ValidateBalances) :
           StartStep(Cleaned(mem), f, NoState, ValidateBalances, out)
    /\ UNCHANGED <<logs, emitted, answered, todo, confirming, mine, ended, lost>>

(* fail_flow. *)
AdminFail(f) ==
    /\ pc = "idle" /\ stage < 1 /\ stage' = 1
    /\ f \in left.admin /\ left' = [left EXCEPT !.admin = @ \ {f}]
    /\ mem[f].step \in ValidateBalances..DepositKey
    /\ mem' = [Cleaned(mem) EXCEPT ![f] = NoState] /\ disk' = [Cleaned(disk) EXCEPT ![f] = NoState]
    /\ ended' = [ended EXCEPT ![f] = Failed] /\ faulty' = faulty \cup {f}
    /\ UNCHANGED <<requested, rsk, bitvmx, pc, cur, todo, confirming, context, saved, used, overtaken, lost>>

(* is_waiting_for_bitvmx_request and is_waiting_for_dispute_core_variable. *)
Waits(fl, r) == r \in fl.reqs /\ (r[1] = "var" => fl.step = RequestVars)

ProcessNewBitvmxEvent(f, r) ==
    /\ Receive(2) /\ <<f, r>> \in asked \ answered
    /\ answered' = answered \cup {<<f, r>>}
    /\ LET flows == Cleaned(mem)
       IN IF Waits(flows[f], r) THEN CompleteStep(flows, f, r) ELSE Ignored
    /\ UNCHANGED <<requested, logs, emitted, todo, confirming, ended, lost>>

(* The answers that leave the flow as it is: AggregatedPubkeyNotReady,     *)
(* WalletError and WalletNotReady.                                         *)
Refuse(f, r) ==
    /\ Receive(2) /\ <<f, r>> \in asked \ answered /\ asked' = asked \ {<<f, r>>}
    /\ StepOf(r) \in {ValidateBalances, FundMyBitVmx} \cup SetupTakeKey..SetupPairwiseKeys
    /\ left.faults > 0 /\ Fault(f, "refused")
    /\ mem' = Cleaned(mem)
    /\ UNCHANGED <<requested, rsk, answered, pc, cur, todo, confirming, context, used, ended, overtaken, lost>>

(* process_new_rsk_event, for an event that is added and one that is       *)
(* removed.                                                                *)
ProcessNewRskEvent(e) ==
    /\ Receive(3) /\ e \in logs /\ logs' = logs \ {e}
    /\ confirming' = confirming \cup {e} /\ mem' = Cleaned(mem)
    /\ UNCHANGED <<left, requested, registry, emitted, bitvmx, pc, cur, todo, context, history>>

RemoveEvent(e) ==
    /\ left.reorgs > 0 /\ left' = [left EXCEPT !.reorgs = @ - 1]
    /\ Receive(3) /\ e \in confirming /\ logs' = logs \cup {e}
    /\ confirming' = confirming \ {e} /\ mem' = Cleaned(mem)
    /\ UNCHANGED <<requested, registry, emitted, bitvmx, pc, cur, todo, context, history>>

(* process_new_block.  deep are the events this block confirms. *)
ProcessNewBlock(deep) ==
    /\ Receive(4) /\ pc' = "block" /\ todo' = deep
    /\ deep = {} => \E f \in Flow : IsTerminal(mem[f].step)
    /\ mem' = Cleaned(mem)
    /\ UNCHANGED <<left, requested, rsk, bitvmx, cur, confirming, context, history>>

EndBlock ==
    /\ pc = "block" /\ todo = {}
    /\ pc' = "idle" /\ mem' = Cleaned(mem) /\ disk' = Cleaned(disk)
    /\ UNCHANGED <<left, requested, rsk, bitvmx, stage, cur, todo, confirming, context, saved, history>>

(* Defect: NewCommitteeReady is matched with the wrong step. *)
FlowsForEarly(c, what) ==
    CASE what = "pending" -> {f \in Flow : mem[f].step = ApplyToStream /\ OfFlow[f] = Of[c]}
      [] OTHER            -> {f \in Flow : mem[f].step = DepositP2PData /\ mem[f].com = c /\ c \in mine}

(* get_flow_for_stream_id and get_flow_for_committee_pending. *)
FlowsFor(c, what) ==
    CASE what = "pending" -> {f \in Flow : mem[f].step = ApplyToStream /\ OfFlow[f] = Of[c]}
      [] what = "data"    -> {f \in Flow : mem[f].step = DepositP2PData /\ mem[f].com = c /\ c \in mine}
      [] what = "ready"   -> {f \in Flow : mem[f].step = DepositKey /\ mem[f].com = c /\ c \in mine}

BuildCommitteeData(fl, c) == [fl EXCEPT !.com = c]

(* im_selected_to_new_committee. *)
ImSelected(c) == <<c, TRUE>> \in formed

(* Defect: the membership is not recorded. *)
CompletePendingUnrecorded(f, c) ==
    /\ IF ImSelected(c)
       THEN \E out \in Outcomes(c, ApplyToStream, DepositP2PData) :
                StartStep(mem, f, BuildCommitteeData(mem[f], c), DepositP2PData, out)
       ELSE \E out \in Outcomes(None, ApplyToStream, Done) : StartStep(mem, f, mem[f], Done, out)
    /\ UNCHANGED mine

(* complete_step for an event.  The membership is recorded before the      *)
(* committee's data is read, and stays when that fails.                    *)
CompletePending(f, c) ==
    IF c \in mine
    THEN Fail(mem, f) /\ UNCHANGED <<left, faulty>>
    ELSE IF ImSelected(c)
    THEN /\ mine' = mine \cup {c}
         /\ \E out \in Outcomes(c, ApplyToStream, DepositP2PData) :
                StartStep(mem, f, BuildCommitteeData(mem[f], c), DepositP2PData, out)
    ELSE /\ \E out \in Outcomes(None, ApplyToStream, Done) : StartStep(mem, f, mem[f], Done, out)
         /\ UNCHANGED mine

CompleteEvent(f, next) ==
    /\ \E out \in Outcomes(mem[f].com, mem[f].step, next) : StartStep(mem, f, mem[f], next, out)
    /\ UNCHANGED mine

(* process_confirmed_rsk_event, after stop_confirming_event. *)
ConfirmEvent(e) ==
    /\ pc = "block" /\ e \in todo
    /\ todo' = todo \ {e} /\ confirming' = confirming \ {e}
    /\ UNCHANGED <<requested, logs, emitted, answered, stage, disk, saved, ended, lost>>
    /\ LET flows == FlowsFor(e[1], e[2])
       IN IF flows = {} \/ (e[2] # "pending" /\ Cardinality(flows) > 1)
          THEN UNCHANGED <<left, registry, asked, pc, cur, mem, context, used, overtaken, faulty>>
          ELSE \E f \in flows :
                   CASE e[2] = "pending" -> CompletePending(f, e[1])
                     [] e[2] = "data"    -> CompleteEvent(f, SetupTakeKey)
                     [] e[2] = "ready"   -> CompleteEvent(f, Done)

(* persist_state, at the end of start_step or in fail. *)
Persist ==
    /\ pc = "entered" /\ cur' = None
    /\ disk' = [disk EXCEPT ![cur] = mem[cur]]
    /\ ended' = IF IsTerminal(mem[cur].step) THEN [ended EXCEPT ![cur] = mem[cur].step] ELSE ended
    /\ UNCHANGED stage /\ Handled
    /\ UNCHANGED <<left, requested, rsk, bitvmx, todo, mem, confirming, context, saved, used, overtaken, faulty, lost>>

(* The end of a round of the loop of the coordinator: save_context. *)
SaveContext ==
    /\ pc = "idle" /\ stage > 0 /\ stage' = 0
    /\ saved' = context
    /\ UNCHANGED <<left, requested, rsk, bitvmx, pc, cur, todo, mem, disk, confirming, context, history>>

(* A crash and the start after it (restore_flows, from_saved_state). *)
Crash ==
    /\ pc # "panicked" /\ left.crashes > 0 /\ left' = [left EXCEPT !.crashes = @ - 1]
    /\ lost' = (lost \/ pc # "idle" \/ confirming # {} \/ mem # disk \/ context # saved)
    /\ pc' = "idle" /\ stage' = 0 /\ cur' = None /\ todo' = {}
    /\ mem' = disk /\ confirming' = {} /\ keys' = saved[1] /\ mine' = saved[2]
    /\ UNCHANGED <<requested, rsk, bitvmx, disk, saved, used, ended, overtaken, faulty>>

-----------------------------------------------------------------------------
(* The registry (external). *)

(* A committee is formed from the members that applied to its stream. *)
FormCommittee(c, selected) ==
    /\ c \notin {x[1] : x \in formed}
    /\ Of[c] \in applied \/ (~selected /\ \E f \in Flow : mem[f].step = ApplyToStream /\ OfFlow[f] = Of[c])
    /\ formed' = formed \cup {<<c, selected>>}
    /\ applied' = IF selected THEN applied \ {Of[c]} ELSE applied
    /\ emitted' = emitted \cup {<<c, "pending">>} /\ logs' = logs \cup {<<c, "pending">>}
    /\ UNCHANGED <<left, requested, deposits, bitvmx, pc, stage, cur, todo, mem, disk, confirming, context, saved, history>>

(* Every member of the committee deposited what is due. *)
AllDeposited(c, what) ==
    LET e == <<c, IF what = "data" THEN "data" ELSE "ready">>
    IN /\ <<c, what>> \in deposits /\ e \notin emitted
       /\ emitted' = emitted \cup {e} /\ logs' = logs \cup {e}
       /\ UNCHANGED <<left, requested, registry, bitvmx, pc, stage, cur, todo, mem, disk, confirming, context, saved, history>>

-----------------------------------------------------------------------------
BitvmxAnswers == \E a \in asked \ answered : ProcessNewBitvmxEvent(a[1], a[2])
ReceiveEvent  == \E e \in logs : ProcessNewRskEvent(e)
NewBlock      == \E deep \in SUBSET confirming : ProcessNewBlock(deep)
Confirmed     == \E e \in todo : ConfirmEvent(e)
Registry      == \/ \E c \in Committee, selected \in BOOLEAN : FormCommittee(c, selected)
                 \/ \E d \in deposits : AllDeposited(d[1], d[2])

(* What happens sooner or later. *)
Progress == BitvmxAnswers \/ ReceiveEvent \/ NewBlock \/ Confirmed \/ EndBlock \/ Persist \/ SaveContext \/ Registry

Next ==
    \/ Progress
    \/ \E f \in Flow : ProcessUserRequest(f) \/ AdminFail(f)
    \/ \E a \in asked \ answered : Refuse(a[1], a[2])
    \/ \E e \in confirming : RemoveEvent(e)
    \/ Crash

(* The coordinator and BitVMX keep running, Rootstock keeps mining and the *)
(* other members deposit: as long as anything of Progress can happen,      *)
(* something of it does.  Each of its steps happens only so often, so each *)
(* that stays possible happens.                                            *)
Spec == Init /\ [][Next]_vars /\ WF_vars(Progress)

-----------------------------------------------------------------------------
(* Each committee is set up by one flow, although several may wait for the *)
(* stream when it is formed (im_selected_to_new_committee), and the        *)
(* membership of a flow that got past it is in my_committees.              *)
OneFlowPerCommittee ==
    /\ \A f, g \in Flow : mem[f].com # None /\ mem[f].com = mem[g].com => f = g
    /\ ~lost => \A f \in Flow : mem[f].com # None => mem[f].com \in mine

(* The funding output a flow names when it applies pays the dispute key it *)
(* applies with (fund_protocol, build_funding_utxo), unless another flow   *)
(* set the member's keys in between.                                       *)
FundedKey == \A u \in used : u.key = u.funded \/ u.flow \in overtaken \/ lost

(* "once a member is selected, public keys should be the same": all the    *)
(* applications are made with the keys of one flow, unless a call that     *)
(* seemed to fail was mined, or a crash came before save_context.          *)
OneKey == \A u, v \in used : u.key = v.key \/ {u.flow, v.flow} \cap faulty # {} \/ lost

(* A member has one set of keys: the funded one, in every application.     *)
KeysAgree == FundedKey /\ OneKey

(* The panic! in start_step of a key step that finds my_keys set is        *)
(* reached only by a flow that another one overtook.                       *)
PanicsOvertaken == pc = "panicked" => overtaken # {}

(* A flow deposits the aggregated key only when BitVMX answered for every  *)
(* pair with an operator, every dispute core, both directions of every     *)
(* channel this member is in, and the penalizations.                       *)
AllSetUp ==
    \A f \in Flow :
        LET answer(r) == <<f, r>> \in answered
            Members   == DOMAIN left.roles
            prover(i) == left.roles[i] = "Prover"
        IN mem[f].step = DepositKey =>
               /\ answer(<<"answer", SetupTakeKey>>) /\ answer(<<"answer", SetupDisputeKey>>)
               /\ answer(<<"penalization">>)
               /\ \A i \in Members : answer(<<"core", i>>)
               /\ \A i \in Members \ {0} : prover(0) \/ prover(i) => answer(PairKey(0, i))
               /\ \A i \in Members \ {0} : /\ prover(0) => answer(<<"channel", 0, i>>)
                                          /\ prover(i) => answer(<<"channel", i, 0>>)

(* A flow counts a request as answered only when BitVMX answered it,       *)
(* although the step, and not the answer, says which request it is for.    *)
OwnAnswers == \A f \in Flow : ({f} \X mem[f].got) \subseteq answered

(* A flow fails only after a failed call, send or answer, or by an         *)
(* administrator: not for an answer to an earlier step, an event that a    *)
(* reorganization brings back, or a deposit repeated after a crash.        *)
FailsForAReason == \A f \in Flow : ended[f] = Failed => f \in faulty

(* A requested flow ends, unless something failed, was lost or overtook    *)
(* it, or it waits for a committee of its stream.                          *)
Finishes ==
    \A f \in Flow :
        (f \in requested) ~>
            \/ ended[f] = Done
            \/ f \in faulty \/ lost \/ pc = "panicked"
            \/ mem[f].step = ApplyToStream /\ \A c \in Committee : Of[c] = OfFlow[f] => c \in {x[1] : x \in formed}

=============================================================================
