------------------------ MODULE SetupCommittee_steps ------------------------
(***************************************************************************)
(* The inductive invariant of the committee set-up, what each action does  *)
(* to the flows, and that the actions keep the types.                      *)
(***************************************************************************)
EXTENDS SetupCommittee, TLAPS

-----------------------------------------------------------------------------
(* The inductive invariant. *)

Types ==
    /\ TypeOK
    /\ asked \subseteq Flow \X UNION {Requests(s) : s \in ValidateBalances..DepositKey}
    /\ saved \in (Flow \cup {None}) \X SUBSET Committee
    /\ pc = "entered" => cur \in Flow
    /\ pc = "block" => stage = 4
    /\ pc = "idle" \/ stage < 4 => todo = {}

(* What holds of a flow in memory and of a saved one.  Its requests belong *)
(* to the steps it reached, what is not answered belongs to its step, what *)
(* it got was answered, and it got past a step with all of its answers.    *)
FlowOK(f, fl) ==
    /\ \A r \in fl.reqs : StepOf(r) <= fl.step
    /\ \A r \in fl.reqs : <<f, r>> \in asked \ answered /\ ~IsTerminal(fl.step) => StepOf(r) = fl.step
    /\ {f} \X fl.got \subseteq answered
    /\ fl.step \in SetupTakeKey..DepositKey => \A s \in SetupTakeKey..(fl.step - 1) : Requests(s) \subseteq fl.got
    /\ fl.step \in SignMyDisputeKey..FundMyBitVmx =>
           <<"answer", GetMyDisputeKey>> \in fl.got \/ (fl.step = FundMyBitVmx /\ saved[1] # None)
    /\ fl.step = FundMyBitVmx => fl.funded \in Flow
    /\ fl.step = Failed => f \in faulty
    /\ fl.step # NoFlow => f \in requested
    /\ fl.com = None => fl.step \notin DepositP2PData..DepositKey
    /\ <<fl.com, "key">> \in deposits => <<f, <<"penalization">>>> \in answered

(* An event of a committee that waits to be processed was not before. *)
Waiting(c) == <<c, "pending">> \notin emitted \/ <<c, "pending">> \in logs \cup confirming

ComInv ==
    /\ \A c \in Committee : Waiting(c) =>
           /\ c \notin mine /\ c \notin saved[2]
           /\ \A f \in Flow : mem[f].com # c /\ disk[f].com # c
           /\ \A what \in {"data", "key"} : <<c, what>> \notin deposits
    /\ \A f, g \in Flow : mem[f].com # None /\ mem[f].com \in {mem[g].com, disk[g].com} => f = g
    /\ \A f, g \in Flow : disk[f].com # None /\ disk[f].com = disk[g].com => f = g
    /\ OneFlowPerCommittee
    /\ logs \cup confirming \subseteq emitted
    /\ logs \cap confirming = {}
    /\ \A c \in Committee : <<c, "pending">> \in emitted <=> \E b \in BOOLEAN : <<c, b>> \in formed

(* What is saved lags behind by a step that is being entered, or by one    *)
(* that met a transient error.                                             *)
SaveInv ==
    /\ pc = "panicked" \/ \A f \in Flow :
           \/ disk[f].step = mem[f].step
           \/ pc = "entered" /\ cur = f
           \/ mem[f].step = ApplyToStream /\ disk[f].step = FundMyBitVmx
           \/ mem[f].step = ValidateBalances /\ disk[f].step = NoFlow
    /\ saved[1] # None => keys = saved[1]
    /\ stage < 2 => keys = saved[1]

KeysInv ==
    /\ \A f \in Flow : (mem[f].step \in KeySteps \/ disk[f].step \in KeySteps) /\ keys # None => f \in overtaken
    /\ lost \/ \A f \in Flow : mem[f].step = FundMyBitVmx => mem[f].funded = MyKey(f) \/ f \in overtaken
    /\ lost \/ \A u \in used : u.flow \in faulty \/ (keys # None /\ u.key = keys)
    /\ FundedKey
    /\ PanicsOvertaken

FlowsOK == \A f \in Flow : FlowOK(f, mem[f]) /\ FlowOK(f, disk[f])

Inv ==
    /\ Types /\ FlowsOK
    /\ ComInv /\ SaveInv /\ KeysInv
    /\ FailsForAReason

-----------------------------------------------------------------------------
(* Requests. *)

(* A request tells the step that it is of. *)
LEMMA RequestsOfStep ==
    ASSUME NEW s \in ValidateBalances..Done, NEW r \in Requests(s)
    PROVE  StepOf(r) = s
  <1> USE DEF ValidateBalances, Done, SetupPairwiseKeys, SetupDisputeCore, RequestVars, SetupChannels, SetupPenalization
  <1>1. CASE s = SetupPairwiseKeys
    <2>1. r[1] = "pair"
      BY <1>1 DEF Requests, PairwiseKeys, PairKey
    <2> QED
      BY <1>1, <2>1 DEF StepOf
  <1>2. CASE s = SetupDisputeCore
    <2>1. r[1] = "core"
      BY <1>2 DEF Requests, DisputeCores
    <2> QED
      BY <1>2, <2>1 DEF StepOf
  <1>3. CASE s = RequestVars
    <2>1. r[1] = "var"
      BY <1>3 DEF Requests, CoreVars
    <2> QED
      BY <1>3, <2>1 DEF StepOf
  <1>4. CASE s = SetupChannels
    <2>1. r[1] = "channel"
      BY <1>4 DEF Requests, Channels
    <2> QED
      BY <1>4, <2>1 DEF StepOf
  <1>5. CASE s = SetupPenalization
    <2>1. r[1] = "penalization"
      BY <1>5 DEF Requests, Penalization
    <2> QED
      BY <1>5, <2>1 DEF StepOf
  <1>6. CASE s \notin SetupPairwiseKeys..SetupPenalization
    <2>1. r = <<"answer", s>>
      BY <1>6 DEF Requests, OneRequest
    <2> QED
      BY <2>1 DEF StepOf
  <1> QED
    BY <1>1, <1>2, <1>3, <1>4, <1>5, <1>6

-----------------------------------------------------------------------------
(* The steps of a flow, one by one. *)

(* An answer that does not fit. *)
Mismatch(flows, f, r) ==
    /\ StepData(StepOf(r)) # StepData(flows[f].step) \/ NoKeys(flows[f], NextStep(flows[f].step))
    /\ Fail(flows, f) /\ UNCHANGED <<left, faulty>>

(* The last answer of a step. *)
Completes(flows, f, r) ==
    LET next == NextStep(flows[f].step)
    IN /\ Requests(flows[f].step) \subseteq Got(flows[f], r)
       /\ ~Panics(next) /\ ~NoKeys(flows[f], next) /\ UNCHANGED mine
       /\ \E out \in Outcomes(flows[f].com, flows[f].step, next) :
             StartStep(flows, f, [flows[f] EXCEPT !.got = Got(flows[f], r)], next, out)

(* Another answer of a step. *)
Gets(flows, f, r) ==
    /\ mem' = [flows EXCEPT ![f].got = Got(flows[f], r)]
    /\ ~(Requests(flows[f].step) \subseteq Got(flows[f], r))
    /\ Handled /\ UNCHANGED <<left, registry, asked, cur, context, used, overtaken, faulty>>

FailsPair(flows, f) == left.faults > 0 /\ Fault(f, "fatal") /\ Fail(flows, f)

(* complete_step either finds an answer of another step, panics, enters    *)
(* the next step, waits for more answers, or fails the flow.               *)
LEMMA CompleteStepCases ==
    ASSUME NEW flows, NEW f, NEW r, CompleteStep(flows, f, r)
    PROVE  \/ Mismatch(flows, f, r)
           \/ Panics(NextStep(flows[f].step)) /\ Panic
           \/ Completes(flows, f, r)
           \/ Gets(flows, f, r)
           \/ FailsPair(flows, f)
  <1> DEFINE fl   == flows[f]
             next == NextStep(fl.step)
  <1>1. CASE StepData(StepOf(r)) # StepData(fl.step) \/ NoKeys(fl, next)
    BY <1>1 DEF CompleteStep, Mismatch
  <1>2. CASE ~(StepData(StepOf(r)) # StepData(fl.step) \/ NoKeys(fl, next))
    <2>1. CASE ~(Requests(fl.step) \subseteq Got(fl, r))
      BY <1>2, <2>1 DEF CompleteStep, Gets, FailsPair
    <2>2. CASE Requests(fl.step) \subseteq Got(fl, r)
      BY <1>2, <2>2 DEF CompleteStep, Completes
    <2> QED
      BY <2>1, <2>2
  <1> QED
    BY <1>1, <1>2

(* What a confirmed event does. *)
Selects(f, c) ==
    /\ c \notin mine /\ ImSelected(c) /\ mine' = mine \cup {c}
    /\ \E out \in Outcomes(c, ApplyToStream, DepositP2PData) :
          StartStep(mem, f, BuildCommitteeData(mem[f], c), DepositP2PData, out)

Rejects(f, c) ==
    /\ c \notin mine /\ UNCHANGED mine
    /\ \E out \in Outcomes(None, ApplyToStream, Done) : StartStep(mem, f, mem[f], Done, out)

(* A confirmed contract event changes nothing of the flows, or moves one   *)
(* flow that waits for it.                                                 *)
LEMMA ConfirmCases ==
    ASSUME NEW e \in Event, ConfirmEvent(e)
    PROVE  \/ UNCHANGED <<left, registry, asked, pc, cur, mem, context, used, overtaken, faulty>>
           \/ \E f \in Flow :
                 \/ /\ e[2] = "pending" /\ mem[f].step = ApplyToStream
                    /\ \/ e[1] \in mine /\ Fail(mem, f) /\ UNCHANGED <<left, faulty>>
                       \/ Selects(f, e[1])
                       \/ Rejects(f, e[1])
                 \/ mem[f].step = DepositP2PData /\ mem[f].com = e[1] /\ CompleteEvent(f, SetupTakeKey)
                 \/ mem[f].step = DepositKey /\ mem[f].com = e[1] /\ CompleteEvent(f, Done)
  <1>1. e[2] \in {"pending", "data", "ready"}
    BY DEF Event
  <1> SUFFICES ASSUME ~UNCHANGED <<left, registry, asked, pc, cur, mem, context, used, overtaken, faulty>>
               PROVE  \E f \in Flow :
                 \/ /\ e[2] = "pending" /\ mem[f].step = ApplyToStream
                    /\ \/ e[1] \in mine /\ Fail(mem, f) /\ UNCHANGED <<left, faulty>>
                       \/ Selects(f, e[1])
                       \/ Rejects(f, e[1])
                 \/ mem[f].step = DepositP2PData /\ mem[f].com = e[1] /\ CompleteEvent(f, SetupTakeKey)
                 \/ mem[f].step = DepositKey /\ mem[f].com = e[1] /\ CompleteEvent(f, Done)
    OBVIOUS
  <1>2. PICK f \in FlowsFor(e[1], e[2]) :
            CASE e[2] = "pending" -> CompletePending(f, e[1])
              [] e[2] = "data"    -> CompleteEvent(f, SetupTakeKey)
              [] e[2] = "ready"   -> CompleteEvent(f, Done)
    BY Zenon DEF ConfirmEvent
  <1>3. CASE e[2] = "pending"
    <2>1. f \in Flow /\ mem[f].step = ApplyToStream
      BY <1>3 DEF FlowsFor
    <2>2. CompletePending(f, e[1])
      BY <1>2, <1>3
    <2>3. \/ e[1] \in mine /\ Fail(mem, f) /\ UNCHANGED <<left, faulty>>
          \/ Selects(f, e[1])
          \/ Rejects(f, e[1])
      BY <2>2 DEF CompletePending, Selects, Rejects
    <2> QED
      BY <1>3, <2>1, <2>3
  <1>4. CASE e[2] = "data"
    BY <1>2, <1>4 DEF FlowsFor
  <1>5. CASE e[2] = "ready"
    BY <1>2, <1>5 DEF FlowsFor
  <1> QED
    BY <1>1, <1>3, <1>4, <1>5

(* No step changes the roles, and so what is asked. *)
LEMMA RolesKept ==
    ASSUME Types, [Next]_vars
    PROVE  /\ left'.roles = left.roles
           /\ \A s : Requests(s)' = Requests(s)
           /\ FlowState' = FlowState
  <1>1. left \in Budget
    BY DEF Types, TypeOK
  <1>2. ASSUME NEW f, NEW out, Fault(f, out) PROVE left'.roles = left.roles
    BY <1>1, <1>2 DEF Fault, Budget
  <1>3. ASSUME NEW flows, NEW f, NEW fl, NEW next, NEW out, StartStep(flows, f, fl, next, out)
        PROVE  left'.roles = left.roles
    BY <1>2, <1>3 DEF StartStep
  <1>4. ASSUME NEW flows, NEW f, NEW r, CompleteStep(flows, f, r) PROVE left'.roles = left.roles
    <2>1. CASE Mismatch(flows, f, r)
      BY <2>1 DEF Mismatch
    <2>2. CASE Panic
      BY <2>2 DEF Panic
    <2>3. CASE Completes(flows, f, r)
      BY <1>3, <2>3 DEF Completes
    <2>4. CASE Gets(flows, f, r)
      BY <2>4 DEF Gets
    <2>5. CASE FailsPair(flows, f)
      BY <1>2, <2>5 DEF FailsPair
    <2> QED
      BY <1>4, <2>1, <2>2, <2>3, <2>4, <2>5, CompleteStepCases
  <1>5. ASSUME NEW f, NEW r, ProcessNewBitvmxEvent(f, r) PROVE left'.roles = left.roles
    BY <1>4, <1>5 DEF ProcessNewBitvmxEvent, Ignored
  <1>6. ASSUME NEW e \in Event, ConfirmEvent(e) PROVE left'.roles = left.roles
    <2>1. ASSUME NEW f, NEW c, Selects(f, c) \/ Rejects(f, c) PROVE left'.roles = left.roles
      BY <1>3, <2>1 DEF Selects, Rejects
    <2>2. ASSUME NEW f, NEW next, CompleteEvent(f, next) PROVE left'.roles = left.roles
      BY <1>3, <2>2 DEF CompleteEvent
    <2> QED
      BY <1>6, <2>1, <2>2, ConfirmCases
  <1>7. ASSUME NEW f \in Flow, ProcessUserRequest(f) PROVE left'.roles = left.roles
    BY <1>3, <1>7 DEF ProcessUserRequest
  <1>8. ASSUME NEW f \in Flow, AdminFail(f) PROVE left'.roles = left.roles
    BY <1>1, <1>8 DEF AdminFail, Budget
  <1>9. ASSUME NEW f, NEW r, Refuse(f, r) PROVE left'.roles = left.roles
    BY <1>2, <1>9 DEF Refuse
  <1>10. ASSUME NEW e, RemoveEvent(e) PROVE left'.roles = left.roles
    BY <1>1, <1>10 DEF RemoveEvent, Budget
  <1>11. ASSUME Crash PROVE left'.roles = left.roles
    BY <1>1, <1>11 DEF Crash, Budget
  <1>12. ASSUME Progress PROVE left'.roles = left.roles
    <2>1. CASE ReceiveEvent
      BY <2>1 DEF ReceiveEvent, ProcessNewRskEvent
    <2>2. CASE NewBlock
      BY <2>2 DEF NewBlock, ProcessNewBlock
    <2>3. CASE EndBlock \/ Persist \/ SaveContext
      BY <2>3 DEF EndBlock, Persist, SaveContext
    <2>4. CASE Registry
      BY Zenon, <2>4 DEF Registry, FormCommittee, AllDeposited
    <2>5. CASE Confirmed
      <3>1. todo \subseteq Event
        BY DEF Types, TypeOK
      <3> QED
        BY <1>6, <2>5, <3>1 DEF Confirmed
    <2> QED
      BY <1>5, <1>12, <2>1, <2>2, <2>3, <2>4, <2>5 DEF Progress, BitvmxAnswers
  <1>13. left'.roles = left.roles
    BY <1>7, <1>8, <1>9, <1>10, <1>11, <1>12 DEF Next, vars
  <1>14. \A s : Requests(s)' = Requests(s)
    BY <1>13 DEF Requests
  <1> QED
    BY Zenon, <1>13, <1>14 DEF FlowState

-----------------------------------------------------------------------------
(* What the actions do to the flows. *)

Flows == [Flow -> FlowState]

(* The flows other than f stay, or are cleaned up. *)
Others(f) ==
    \A g \in Flow \ {f} :
        \/ mem'[g] = mem[g] /\ disk'[g] = disk[g]
        \/ IsTerminal(mem[g].step) /\ mem'[g] = NoState /\ disk'[g] = NoState

KeepsDisk(f) == disk'[f] = disk[f] \/ (IsTerminal(mem[f].step) /\ disk'[f] = NoState)

(* The handler began with cleanup_terminal_flows, or goes on. *)
From(flows) ==
    \/ flows = mem /\ disk' = disk
    \/ flows = Cleaned(mem) /\ disk' = Cleaned(disk)

(* A flow that enters a step. *)
Entered(f, fl, next, out) ==
    [fl EXCEPT !.step = IF out \in {"fatal", "minedFatal", "repeated"} THEN Failed ELSE next,
               !.reqs = IF out \in {"ok", "unsent"} THEN @ \cup Requests(next) ELSE @,
               !.funded = IF next = FundMyBitVmx THEN FundingKey(f) ELSE @]

Begin(f, fl, next, out) ==
    /\ Others(f) /\ KeepsDisk(f)
    /\ mem'[f] = Entered(f, fl, next, out)
    /\ asked' = IF out = "ok" THEN asked \cup ({f} \X Requests(next)) ELSE asked
    /\ Call(f, fl, next, out)
    /\ Fault(f, out)
    /\ IF out \in {"transient", "late"}
       THEN pc' \in {"idle", "block"} /\ UNCHANGED cur
       ELSE pc' = "entered" /\ cur' = f
    /\ UNCHANGED <<saved, ended, lost>>

(* A flow that fails, before its state is saved. *)
Fails(f) ==
    /\ Others(f) /\ KeepsDisk(f)
    /\ mem'[f] = [mem[f] EXCEPT !.step = Failed]
    /\ pc' = "entered" /\ cur' = f
    /\ UNCHANGED <<registry, asked, keys, mine, used, overtaken, saved, ended, lost>>

(* A flow that was never started is a flow state. *)
LEMMA NoStateType == NoState \in FlowState
    BY DEF NoState, FlowState, NoFlow, Failed

(* The sweep of terminal flows that opens each handler, on memory and on   *)
(* disk.                                                                   *)
LEMMA CleanedFacts ==
    ASSUME Types
    PROVE  /\ Cleaned(mem) \in Flows /\ Cleaned(disk) \in Flows /\ mem \in Flows /\ disk \in Flows
           /\ \A g \in Flow : /\ Cleaned(mem)[g] = IF IsTerminal(mem[g].step) THEN NoState ELSE mem[g]
                              /\ Cleaned(disk)[g] = IF IsTerminal(mem[g].step) THEN NoState ELSE disk[g]
    BY NoStateType DEF Cleaned, Types, TypeOK, Flows

(* What a handler leaves to the other flows. *)
LEMMA FromFacts ==
    ASSUME Types, NEW flows, From(flows)
    PROVE  /\ flows \in Flows /\ disk' \in Flows
           /\ \A f : (\A g \in Flow \ {f} : mem'[g] = flows[g]) => Others(f)
           /\ \A f \in Flow : KeepsDisk(f)
           /\ \A f \in Flow : flows[f] = mem[f] \/ flows[f] = NoState
    BY CleanedFacts DEF From, Others, KeepsDisk

(* What entering a step leaves in the flow, for each outcome of the step's *)
(* calls.                                                                  *)
LEMMA EnteredType ==
    ASSUME Types, NEW f \in Flow, NEW fl \in FlowState, NEW next \in ValidateBalances..Done, NEW out
    PROVE  LET g == Entered(f, fl, next, out)
           IN /\ g \in FlowState
              /\ g.step = IF out \in {"fatal", "minedFatal", "repeated"} THEN Failed ELSE next
              /\ g.reqs = IF out \in {"ok", "unsent"} THEN fl.reqs \cup Requests(next) ELSE fl.reqs
              /\ g.got = fl.got /\ g.com = fl.com
              /\ g.funded = IF next = FundMyBitVmx THEN MyKey(f) ELSE fl.funded
  <1> DEFINE All == UNION {Requests(s) : s \in ValidateBalances..DepositKey}
  <1>1. Requests(next) \subseteq All
    <2>1. Requests(Done) = {}
      BY DEF Requests, Done, Calls, SetupPairwiseKeys, SetupDisputeCore, RequestVars, SetupChannels, SetupPenalization
    <2>2. next = Done \/ next \in ValidateBalances..DepositKey
      BY DEF Done, DepositKey, ValidateBalances
    <2> QED
      BY <2>1, <2>2
  <1>2. FundingKey(f) = MyKey(f) /\ MyKey(f) \in Flow \cup {None}
    BY DEF FundingKey, MyKey, Types, TypeOK
  <1>3. next \in NoFlow..Failed /\ Failed \in NoFlow..Failed
    BY DEF ValidateBalances, Done, NoFlow, Failed
  <1>4. /\ fl \in [step : NoFlow..Failed, reqs : SUBSET All, got : SUBSET All,
                   funded : Flow \cup {None}, com : Committee \cup {None}]
        /\ FlowState = [step : NoFlow..Failed, reqs : SUBSET All, got : SUBSET All,
                        funded : Flow \cup {None}, com : Committee \cup {None}]
    BY DEF FlowState
  <1> HIDE DEF All
  <1> QED
    BY Zenon, <1>1, <1>2, <1>3, <1>4 DEF Entered

(* start_step, seen from the flow and from the others. *)
LEMMA StartIsBegin ==
    ASSUME Types, NEW flows, From(flows), NEW f \in Flow, NEW fl \in FlowState,
           NEW next \in ValidateBalances..Done, NEW out,
           StartStep(flows, f, fl, next, out), UNCHANGED <<saved, ended, lost>>
    PROVE  Begin(f, fl, next, out) /\ mem' \in Flows /\ disk' \in Flows
  <1>1. mem' = [flows EXCEPT ![f] = Entered(f, fl, next, out)]
    BY DEF StartStep, Entered
  <1>2. flows \in [Flow -> FlowState] /\ disk' \in Flows
    BY FromFacts DEF Flows
  <1>3. Entered(f, fl, next, out) \in FlowState
    BY Zenon, EnteredType
  <1>4. /\ mem' \in Flows /\ mem'[f] = Entered(f, fl, next, out)
        /\ \A g \in Flow \ {f} : mem'[g] = flows[g]
    BY <1>1, <1>2, <1>3 DEF Flows
  <1>5. Others(f) /\ KeepsDisk(f)
    BY <1>4, FromFacts
  <1>6. out \in {"transient", "late"} => pc' \in {"idle", "block"} /\ UNCHANGED cur
    BY DEF StartStep, Handled
  <1> QED
    BY <1>2, <1>4, <1>5, <1>6 DEF Begin, StartStep

(* failed_flow, run by a handler, touches the one flow only. *)
LEMMA FailIsFails ==
    ASSUME Types, NEW flows, From(flows), NEW f \in Flow, flows[f] = mem[f],
           Fail(flows, f), UNCHANGED <<saved, ended, lost>>
    PROVE  Fails(f) /\ mem' \in Flows /\ disk' \in Flows
  <1>1. mem' = [flows EXCEPT ![f].step = Failed]
    BY DEF Fail
  <1>2. flows \in [Flow -> FlowState] /\ disk' \in Flows
    BY FromFacts DEF Flows
  <1>3. [mem[f] EXCEPT !.step = Failed] \in FlowState
    BY DEF Types, TypeOK, FlowState, Failed, NoFlow
  <1>4. /\ mem' \in Flows /\ mem'[f] = [mem[f] EXCEPT !.step = Failed]
        /\ \A g \in Flow \ {f} : mem'[g] = flows[g]
    BY <1>1, <1>2, <1>3 DEF Flows
  <1>5. Others(f) /\ KeepsDisk(f)
    BY <1>4, FromFacts
  <1> QED
    BY <1>2, <1>4, <1>5 DEF Fails, Fail, context

(* No flow moves. *)
Quiet ==
    /\ Others(None) /\ mem' \in Flows /\ disk' \in Flows
    /\ UNCHANGED <<keys, mine, used, overtaken, deposits, ended, lost, requested, cur>>
    /\ faulty \subseteq faulty' /\ answered \subseteq answered' /\ answered' \subseteq asked'
    /\ applied' \subseteq applied
    /\ asked' \subseteq asked /\ asked' \ answered' \subseteq asked \ answered
    /\ pc' = pc \/ (pc \in {"idle", "block"} /\ pc' \in {"idle", "block"})
    /\ (saved' = saved /\ stage <= stage') \/ saved' = <<keys, mine>>

(* An answer that a flow waits for. *)
Answers(f, r) ==
    /\ <<f, r>> \in asked \ answered /\ answered' = answered \cup {<<f, r>>}
    /\ r \in mem[f].reqs /\ ~IsTerminal(mem[f].step)
    /\ pc = "idle" /\ stage < 2 /\ stage' = 2
    /\ UNCHANGED <<requested, logs, emitted, confirming, saved, ended, lost>>

(* The sweep alone touches no flow that is still running. *)
LEMMA CleaningIsQuiet ==
    ASSUME Types, From(mem') PROVE Others(None) /\ mem' \in Flows /\ disk' \in Flows
  <1>1. mem' \in Flows /\ disk' \in Flows
    BY FromFacts
  <1> QED
    BY <1>1, FromFacts

(* What a BitVMX answer may do: nothing, fail its flow, panic, complete    *)
(* the step or be recorded.                                                *)
LEMMA BitvmxCases ==
    ASSUME Types, NEW f \in Flow, NEW r, ProcessNewBitvmxEvent(f, r)
    PROVE  \/ Quiet
           \/ /\ Answers(f, r)
              /\ \/ /\ StepData(StepOf(r)) # StepData(mem[f].step) \/ NoKeys(mem[f], NextStep(mem[f].step))
                    /\ Fails(f) /\ UNCHANGED faulty /\ mem' \in Flows /\ disk' \in Flows
                 \/ /\ Panics(NextStep(mem[f].step)) /\ Panic /\ disk' = Cleaned(disk)
                 \/ /\ Completes(Cleaned(mem), f, r) /\ disk' = Cleaned(disk)
                 \/ /\ Gets(Cleaned(mem), f, r) /\ disk' = Cleaned(disk)
                 \/ /\ Fails(f) /\ faulty' = faulty \cup {f} /\ mem' \in Flows /\ disk' \in Flows
  <1> DEFINE flows == Cleaned(mem)
  <1>1. disk' = Cleaned(disk) /\ From(flows)
    BY Zenon DEF ProcessNewBitvmxEvent, Receive, From
  <1>2. /\ <<f, r>> \in asked \ answered /\ answered' = answered \cup {<<f, r>>}
        /\ pc = "idle" /\ stage < 2 /\ stage' = 2 /\ UNCHANGED saved
        /\ UNCHANGED <<requested, logs, emitted, todo, confirming, ended, lost>>
    BY DEF ProcessNewBitvmxEvent, Receive
  <1>3. answered \subseteq asked
    BY DEF Types, TypeOK
  <1>4. CASE ~Waits(flows[f], r)
    <2>1. Ignored
      BY <1>4 DEF ProcessNewBitvmxEvent
    <2>2. /\ mem' = flows /\ pc' = "idle"
          /\ UNCHANGED <<applied, deposits, asked, cur, keys, mine, used, overtaken, faulty>>
      BY <2>1 DEF Ignored, registry, context
    <2>3. Others(None) /\ mem' \in Flows /\ disk' \in Flows
      BY <1>1, <2>2, CleaningIsQuiet
    <2>4. stage <= stage'
      BY <1>2 DEF Types, TypeOK
    <2> HIDE DEF flows
    <2> QED
      BY Zenon, <1>2, <1>3, <2>2, <2>3, <2>4 DEF Quiet
  <1>5. CASE Waits(flows[f], r)
    <2>1. flows[f] = mem[f] /\ ~IsTerminal(mem[f].step) /\ r \in mem[f].reqs
      BY <1>5, CleanedFacts DEF Waits, NoState
    <2>2. Answers(f, r)
      BY <1>2, <2>1 DEF Answers
    <2>3. CompleteStep(flows, f, r)
      BY <1>5 DEF ProcessNewBitvmxEvent
    <2> HIDE DEF flows
    <2>4. CASE Mismatch(flows, f, r)
      <3>1. Fails(f) /\ mem' \in Flows /\ disk' \in Flows
        BY <1>1, <1>2, <2>1, <2>4, FailIsFails DEF Mismatch
      <3> QED
        BY Zenon, <2>1, <2>2, <2>4, <3>1 DEF Mismatch
    <2>5. CASE FailsPair(flows, f)
      <3>1. Fails(f) /\ mem' \in Flows /\ disk' \in Flows
        BY Zenon, <1>1, <1>2, <2>1, <2>5, FailIsFails DEF FailsPair
      <3> QED
        BY <2>2, <2>5, <3>1 DEF FailsPair, Fault
    <2> QED
      BY Zenon, <1>1, <2>1, <2>2, <2>3, <2>4, <2>5, CompleteStepCases DEF flows
  <1> QED
    BY Zenon, <1>4, <1>5

(* A flow that waits for an answer is at a step between the first and the  *)
(* last one.                                                               *)
LEMMA AnswersFacts ==
    ASSUME Types, FlowsOK, NEW f \in Flow, NEW r, Answers(f, r)
    PROVE  /\ mem[f].step \in ValidateBalances..DepositKey
           /\ NextStep(mem[f].step) \in ValidateBalances..Done
           /\ StepOf(r) = mem[f].step /\ r \in Requests(mem[f].step)
           /\ [mem[f] EXCEPT !.got = Got(mem[f], r)] \in FlowState
  <1>1. PICK s \in ValidateBalances..DepositKey : r \in Requests(s)
    BY DEF Types, TypeOK, FlowState, Answers
  <1>2. StepOf(r) = s
    BY <1>1, RequestsOfStep DEF ValidateBalances, DepositKey, Done
  <1>3. StepOf(r) = mem[f].step
    BY Zenon DEF FlowsOK, FlowOK, Answers
  <1>4. NextStep(s) \in ValidateBalances..Done
    BY DEF NextStep, ValidateBalances, DepositKey, Done, FundMyBitVmx, GetMyCommInfo
  <1>5. Got(mem[f], r) \subseteq mem[f].got \cup Requests(s)
    BY <1>2, <1>3 DEF Got, GotSingle, GotOneOf
  <1>6. [mem[f] EXCEPT !.got = Got(mem[f], r)] \in FlowState
    BY <1>1, <1>5 DEF Types, TypeOK, FlowState
  <1> QED
    BY <1>1, <1>2, <1>3, <1>4, <1>6

(* The last answer of a step, and another one, seen from the flow. *)
LEMMA CompletesFacts ==
    ASSUME Types, FlowsOK, NEW f \in Flow, NEW r, Answers(f, r),
           Completes(Cleaned(mem), f, r), disk' = Cleaned(disk)
    PROVE  LET fl   == [mem[f] EXCEPT !.got = Got(mem[f], r)]
               next == NextStep(mem[f].step)
           IN /\ \E out \in Outcomes(mem[f].com, mem[f].step, next) : Begin(f, fl, next, out)
              /\ mem' \in Flows /\ disk' \in Flows
              /\ Requests(mem[f].step) \subseteq Got(mem[f], r)
              /\ ~Panics(next) /\ ~NoKeys(mem[f], next) /\ UNCHANGED mine
  <1> DEFINE flows == Cleaned(mem)
             fl    == [mem[f] EXCEPT !.got = Got(mem[f], r)]
             next  == NextStep(mem[f].step)
  <1>1. From(flows)
    BY DEF From
  <1>2. flows[f] = mem[f]
    BY CleanedFacts DEF Answers
  <1>3. fl \in FlowState /\ next \in ValidateBalances..Done
    BY AnswersFacts
  <1>4. PICK out \in Outcomes(mem[f].com, mem[f].step, next) : StartStep(flows, f, fl, next, out)
    BY <1>2 DEF Completes
  <1>5. UNCHANGED <<saved, ended, lost>>
    BY DEF Answers
  <1>6. Begin(f, fl, next, out) /\ mem' \in Flows /\ disk' \in Flows
    <2> HIDE DEF flows, fl, next
    <2> QED
      BY <1>1, <1>3, <1>4, <1>5, StartIsBegin
  <1>7. /\ Requests(mem[f].step) \subseteq Got(mem[f], r)
        /\ ~Panics(next) /\ ~NoKeys(mem[f], next) /\ UNCHANGED mine
    BY <1>2 DEF Completes
  <1> QED
    BY <1>4, <1>6, <1>7

(* An answer that does not complete its step is recorded, and changes      *)
(* nothing else.                                                           *)
LEMMA GetsFacts ==
    ASSUME Types, FlowsOK, NEW f \in Flow, NEW r, Answers(f, r),
           Gets(Cleaned(mem), f, r), disk' = Cleaned(disk)
    PROVE  /\ Others(f) /\ disk'[f] = disk[f] /\ mem' \in Flows /\ disk' \in Flows
           /\ mem'[f] = [mem[f] EXCEPT !.got = Got(mem[f], r)]
           /\ pc' \in {"idle", "block"}
           /\ UNCHANGED <<left, applied, formed, deposits, asked, cur, keys, mine, used, overtaken, faulty>>
  <1> DEFINE flows == Cleaned(mem)
             fl    == [mem[f] EXCEPT !.got = Got(mem[f], r)]
  <1>1. From(flows)
    BY DEF From
  <1>2. flows[f] = mem[f] /\ disk'[f] = disk[f] /\ flows \in [Flow -> FlowState] /\ disk' \in Flows
    BY CleanedFacts DEF Answers, Flows
  <1>3. fl \in FlowState
    BY AnswersFacts
  <1>4. mem' = [flows EXCEPT ![f] = fl]
    BY <1>2 DEF Gets
  <1> HIDE DEF flows, fl
  <1>5. mem' \in Flows /\ mem'[f] = fl /\ \A g \in Flow \ {f} : mem'[g] = flows[g]
    BY <1>2, <1>3, <1>4 DEF Flows
  <1>6. Others(f)
    BY <1>1, <1>5, FromFacts
  <1>7. /\ pc' \in {"idle", "block"}
        /\ UNCHANGED <<left, applied, formed, deposits, asked, cur, keys, mine, used, overtaken, faulty>>
    BY DEF Gets, Handled, registry, context
  <1> QED
    BY <1>2, <1>5, <1>6, <1>7 DEF fl

(* The answer that leads to a step, and the others, are the flow's own. *)
LEMMA GotFacts ==
    ASSUME Types, FlowsOK, NEW f \in Flow, NEW r, Answers(f, r)
    PROVE  /\ mem[f].got \subseteq Got(mem[f], r)
           /\ Got(mem[f], r) \subseteq mem[f].got \cup {r}
           /\ {f} \X Got(mem[f], r) \subseteq answered'
  <1>1. r \in Requests(mem[f].step) /\ mem[f].step \in ValidateBalances..DepositKey /\ StepOf(r) = mem[f].step
    BY Zenon, AnswersFacts
  <1>2. mem[f].step < SetupPairwiseKeys => Requests(mem[f].step) \subseteq {r}
    <2> SUFFICES ASSUME mem[f].step < SetupPairwiseKeys PROVE Requests(mem[f].step) \subseteq {r}
      OBVIOUS
    <2>1. Requests(mem[f].step) = {} \/ Requests(mem[f].step) = OneRequest(mem[f].step)
      BY <1>1 DEF Requests, ValidateBalances, DepositKey, Done, SetupPairwiseKeys, SetupDisputeCore,
                  RequestVars, SetupChannels, SetupPenalization
    <2> QED
      BY <1>1, <2>1 DEF OneRequest
  <1>3. Got(mem[f], r) \subseteq mem[f].got \cup {r} /\ mem[f].got \subseteq Got(mem[f], r)
    BY <1>1, <1>2 DEF Got, GotSingle, GotOneOf, ValidateBalances, DepositKey, SetupPairwiseKeys
  <1>4. {f} \X mem[f].got \subseteq answered
    BY Zenon DEF FlowsOK, FlowOK
  <1> QED
    BY <1>3, <1>4 DEF Answers

(* A new flow, and a flow that a confirmed event moves. *)
Requested(f) ==
    /\ f \notin requested /\ requested' = requested \cup {f}
    /\ pc = "idle" /\ stage < 1 /\ stage' = 1
    /\ UNCHANGED <<logs, emitted, answered, todo, confirming, mine>>
    /\ mem' \in Flows /\ disk' \in Flows
    /\ \E out \in Outcomes(None, NoFlow, ValidateBalances) : Begin(f, NoState, ValidateBalances, out)

Confirms(e) ==
    /\ e \in confirming /\ confirming' = confirming \ {e} /\ pc = "block"
    /\ UNCHANGED <<requested, logs, emitted, answered, stage, saved, ended, lost>>

Joins(f, c) ==
    /\ mem[f].step = ApplyToStream /\ c \notin mine /\ mine' = mine \cup {c}
    /\ \E out \in Outcomes(c, ApplyToStream, DepositP2PData) :
          Begin(f, [mem[f] EXCEPT !.com = c], DepositP2PData, out)

Advances(f, step, next) ==
    /\ mem[f].step = step /\ UNCHANGED mine
    /\ \E c \in {mem[f].com, None} : \E out \in Outcomes(c, step, next) : Begin(f, mem[f], next, out)

(* A user's request starts one flow. *)
LEMMA RequestedCase ==
    ASSUME Types, NEW f \in Flow, ProcessUserRequest(f)
    PROVE  Requested(f)
  <1>1. From(Cleaned(mem))
    BY Zenon DEF ProcessUserRequest, Receive, From
  <1>2. PICK out \in Outcomes(None, NoFlow, ValidateBalances) :
            StartStep(Cleaned(mem), f, NoState, ValidateBalances, out)
    BY DEF ProcessUserRequest
  <1>3. ValidateBalances \in ValidateBalances..Done
    BY DEF ValidateBalances, Done
  <1>4. Begin(f, NoState, ValidateBalances, out) /\ mem' \in Flows /\ disk' \in Flows
    BY Zenon, <1>1, <1>2, <1>3, NoStateType, StartIsBegin DEF ProcessUserRequest, Receive
  <1> QED
    BY Zenon, <1>4 DEF Requested, ProcessUserRequest, Receive

(* A confirmed event fails, joins or advances one flow, or leaves them all *)
(* alone.                                                                  *)
LEMMA ConfirmMoves ==
    ASSUME Types, NEW e \in Event, ConfirmEvent(e)
    PROVE  /\ Confirms(e)
           /\ \/ Quiet
              \/ /\ mem' \in Flows /\ disk' \in Flows
                 /\ \E f \in Flow :
                       \/ e[2] = "pending" /\ e[1] \in mine /\ Fails(f) /\ UNCHANGED faulty
                       \/ e[2] = "pending" /\ Joins(f, e[1])
                       \/ Advances(f, ApplyToStream, Done)
                       \/ Advances(f, DepositP2PData, SetupTakeKey)
                       \/ Advances(f, DepositKey, Done)
  <1>1. Confirms(e)
    BY DEF ConfirmEvent, Confirms, Types, TypeOK
  <1>2. From(mem) /\ disk' = disk
    BY DEF ConfirmEvent, From
  <1>3. UNCHANGED <<saved, ended, lost>>
    BY DEF ConfirmEvent
  <1>4. CASE UNCHANGED <<left, registry, asked, pc, cur, mem, context, used, overtaken, faulty>>
    <2>1. Others(None) /\ mem' \in Flows /\ disk' \in Flows
      BY <1>2, <1>4, CleaningIsQuiet
    <2>2. answered \subseteq asked /\ stage \in Int
      BY DEF Types, TypeOK
    <2>3. Quiet
      BY <1>1, <1>3, <1>4, <2>1, <2>2 DEF Quiet, Confirms, registry, context
    <2> QED
      BY <1>1, <2>3
  <1>5. ASSUME NEW f \in Flow, NEW fl \in FlowState, NEW next \in ValidateBalances..Done, NEW out,
               StartStep(mem, f, fl, next, out)
        PROVE  Begin(f, fl, next, out) /\ mem' \in Flows /\ disk' \in Flows
    BY <1>2, <1>3, <1>5, StartIsBegin
  <1>6. /\ DepositP2PData \in ValidateBalances..Done /\ SetupTakeKey \in ValidateBalances..Done
        /\ Done \in ValidateBalances..Done
    BY DEF DepositP2PData, SetupTakeKey, ValidateBalances, Done
  <1>7. ASSUME NEW f \in Flow PROVE mem[f] \in FlowState
    BY DEF Types, TypeOK
  <1>8. ASSUME NEW f \in Flow, e[2] = "pending", mem[f].step = ApplyToStream,
               \/ e[1] \in mine /\ Fail(mem, f) /\ UNCHANGED <<left, faulty>>
               \/ Selects(f, e[1]) \/ Rejects(f, e[1])
        PROVE  /\ mem' \in Flows /\ disk' \in Flows
               /\ \/ e[1] \in mine /\ Fails(f) /\ UNCHANGED faulty
                  \/ Joins(f, e[1]) \/ Advances(f, ApplyToStream, Done)
    <2>1. CASE e[1] \in mine /\ Fail(mem, f) /\ UNCHANGED <<left, faulty>>
      BY <1>2, <1>3, <2>1, FailIsFails
    <2>2. CASE Selects(f, e[1])
      <3>1. PICK out \in Outcomes(e[1], ApplyToStream, DepositP2PData) :
                StartStep(mem, f, BuildCommitteeData(mem[f], e[1]), DepositP2PData, out)
        BY <2>2 DEF Selects
      <3>2. BuildCommitteeData(mem[f], e[1]) = [mem[f] EXCEPT !.com = e[1]] /\ e[1] \in Committee
        BY DEF BuildCommitteeData, Event
      <3>3. BuildCommitteeData(mem[f], e[1]) \in FlowState
        BY <1>7, <3>2 DEF FlowState
      <3>4. Begin(f, [mem[f] EXCEPT !.com = e[1]], DepositP2PData, out) /\ mem' \in Flows /\ disk' \in Flows
        BY <1>5, <1>6, <3>1, <3>2, <3>3
      <3> QED
        BY <1>8, <2>2, <3>4 DEF Selects, Joins
    <2>3. CASE Rejects(f, e[1])
      BY <1>5, <1>6, <1>7, <1>8, <2>3 DEF Rejects, Advances
    <2> QED
      BY <1>8, <2>1, <2>2, <2>3
  <1>9. ASSUME NEW f \in Flow, NEW next \in {SetupTakeKey, Done}, CompleteEvent(f, next)
        PROVE  mem' \in Flows /\ disk' \in Flows /\ Advances(f, mem[f].step, next)
    BY <1>5, <1>6, <1>7, <1>9 DEF CompleteEvent, Advances
  <1> QED
    BY Zenon, <1>1, <1>4, <1>8, <1>9, ConfirmCases

(* The steps that move no flow. *)
LEMMA QuietSteps ==
    ASSUME Types,
           \/ \E f, r : Refuse(f, r)
           \/ \E e : ProcessNewRskEvent(e) \/ RemoveEvent(e)
           \/ \E deep : ProcessNewBlock(deep)
           \/ EndBlock \/ SaveContext \/ Registry \/ UNCHANGED vars
    PROVE  Quiet
  <1>0. answered \subseteq asked /\ stage \in 0..4 /\ mem \in Flows /\ disk \in Flows
    BY DEF Types, TypeOK, Flows
  <1>1. ASSUME mem' = Cleaned(mem), disk' = Cleaned(disk)
        PROVE  Others(None) /\ mem' \in Flows /\ disk' \in Flows
    BY <1>1, CleaningIsQuiet DEF From
  <1>2. ASSUME UNCHANGED <<mem, disk>>
        PROVE  Others(None) /\ mem' \in Flows /\ disk' \in Flows
    BY <1>0, <1>2 DEF Others
  <1>3. ASSUME NEW f, NEW r, Refuse(f, r) PROVE Quiet
    <2>1. /\ mem' = Cleaned(mem) /\ disk' = Cleaned(disk) /\ stage < 2 /\ stage' = 2
          /\ asked' = asked \ {<<f, r>>} /\ <<f, r>> \notin answered /\ pc = "idle"
          /\ UNCHANGED <<saved, answered, pc, cur, keys, mine, used, ended, overtaken, lost, requested, deposits, applied>>
      BY <1>3 DEF Refuse, Receive, context, rsk, registry
    <2>2. faulty \subseteq faulty'
      BY <1>3 DEF Refuse, Fault
    <2> QED
      BY <1>0, <1>1, <2>1, <2>2 DEF Quiet
  <1>4. ASSUME NEW e, ProcessNewRskEvent(e) PROVE Quiet
    <2>1. /\ mem' = Cleaned(mem) /\ disk' = Cleaned(disk) /\ stage < 3 /\ stage' = 3
          /\ UNCHANGED <<saved, asked, answered, pc, cur, keys, mine, used, ended, overtaken, lost, faulty, requested, deposits, applied>>
      BY Zenon, <1>4 DEF ProcessNewRskEvent, Receive, context, registry, history, bitvmx
    <2> QED
      BY <1>0, <1>1, <2>1 DEF Quiet
  <1>5. ASSUME NEW e, RemoveEvent(e) PROVE Quiet
    <2>1. /\ mem' = Cleaned(mem) /\ disk' = Cleaned(disk) /\ stage < 3 /\ stage' = 3
          /\ UNCHANGED <<saved, asked, answered, pc, cur, keys, mine, used, ended, overtaken, lost, faulty, requested, deposits, applied>>
      BY <1>5 DEF RemoveEvent, Receive, context, registry, history, bitvmx
    <2> QED
      BY <1>0, <1>1, <2>1 DEF Quiet
  <1>6. ASSUME NEW deep, ProcessNewBlock(deep) PROVE Quiet
    <2>1. /\ mem' = Cleaned(mem) /\ disk' = Cleaned(disk) /\ stage < 4 /\ stage' = 4 /\ pc = "idle" /\ pc' = "block"
          /\ UNCHANGED <<saved, asked, answered, cur, keys, mine, used, ended, overtaken, lost, faulty, requested, deposits, applied>>
      BY <1>6 DEF ProcessNewBlock, Receive, context, registry, history, bitvmx, rsk
    <2> QED
      BY <1>0, <1>1, <2>1 DEF Quiet
  <1>7. ASSUME EndBlock PROVE Quiet
    <2>1. /\ mem' = Cleaned(mem) /\ disk' = Cleaned(disk) /\ pc = "block" /\ pc' = "idle"
          /\ UNCHANGED <<saved, stage, asked, answered, cur, keys, mine, used, ended, overtaken, lost, faulty, requested, deposits, applied>>
      BY <1>7 DEF EndBlock, context, registry, history, bitvmx, rsk
    <2> QED
      BY <1>0, <1>1, <2>1 DEF Quiet
  <1>8. ASSUME SaveContext PROVE Quiet
    <2>1. /\ UNCHANGED <<mem, disk>> /\ saved' = <<keys, mine>>
          /\ UNCHANGED <<pc, asked, answered, cur, keys, mine, used, ended, overtaken, lost, faulty, requested, deposits, applied>>
      BY <1>8 DEF SaveContext, context, registry, history, bitvmx, rsk
    <2> QED
      BY <1>0, <1>2, <2>1 DEF Quiet
  <1>9. ASSUME Registry \/ UNCHANGED vars PROVE Quiet
    <2>1. UNCHANGED <<mem, disk, saved, stage, pc, asked, answered, cur, keys, mine, used, ended, overtaken,
                      lost, faulty, requested, deposits>>
      <3>1. CASE UNCHANGED vars
        BY <3>1 DEF vars, context, history, bitvmx, rsk, registry
      <3>2. ASSUME NEW c, NEW selected, FormCommittee(c, selected)
            PROVE  UNCHANGED <<mem, disk, saved, stage, pc, asked, answered, cur, keys, mine, used, ended, overtaken,
                               lost, faulty, requested, deposits>>
        BY <3>2 DEF FormCommittee, context, history, bitvmx
      <3>3. ASSUME NEW c, NEW what, AllDeposited(c, what)
            PROVE  UNCHANGED <<mem, disk, saved, stage, pc, asked, answered, cur, keys, mine, used, ended, overtaken,
                               lost, faulty, requested, deposits>>
        BY Zenon, <3>3 DEF AllDeposited, context, history, bitvmx, registry
      <3> QED
        BY <1>9, <3>1, <3>2, <3>3 DEF Registry
    <2>2. applied' \subseteq applied
      BY Zenon, <1>9 DEF Registry, FormCommittee, AllDeposited, vars, rsk, registry
    <2> QED
      BY <1>0, <1>2, <2>1, <2>2 DEF Quiet
  <1> QED
    BY <1>3, <1>4, <1>5, <1>6, <1>7, <1>8, <1>9

(* Every step, seen from the flows. *)
Completed(f, r) ==
    LET next == NextStep(mem[f].step)
    IN /\ \E out \in Outcomes(mem[f].com, mem[f].step, next) :
             Begin(f, [mem[f] EXCEPT !.got = Got(mem[f], r)], next, out)
       /\ Requests(mem[f].step) \subseteq Got(mem[f], r)
       /\ ~Panics(next) /\ ~NoKeys(mem[f], next) /\ UNCHANGED mine

GotAnother(f, r) ==
    /\ Others(f) /\ disk'[f] = disk[f]
    /\ mem'[f] = [mem[f] EXCEPT !.got = Got(mem[f], r)]
    /\ pc' \in {"idle", "block"}
    /\ UNCHANGED <<left, applied, formed, deposits, asked, cur, keys, mine, used, overtaken, faulty>>

Answered(f, r) ==
    /\ Answers(f, r) /\ mem' \in Flows /\ disk' \in Flows
    /\ \/ /\ StepData(StepOf(r)) # StepData(mem[f].step) \/ NoKeys(mem[f], NextStep(mem[f].step))
          /\ Fails(f) /\ UNCHANGED faulty
       \/ Panics(NextStep(mem[f].step)) /\ Panic /\ disk' = Cleaned(disk)
       \/ Completed(f, r)
       \/ GotAnother(f, r)
       \/ Fails(f) /\ faulty' = faulty \cup {f}

ConfirmedMove(e, f) ==
    /\ Confirms(e) /\ mem' \in Flows /\ disk' \in Flows
    /\ \/ e[2] = "pending" /\ e[1] \in mine /\ Fails(f) /\ UNCHANGED faulty
       \/ e[2] = "pending" /\ Joins(f, e[1])
       \/ Advances(f, ApplyToStream, Done)
       \/ Advances(f, DepositP2PData, SetupTakeKey)
       \/ Advances(f, DepositKey, Done)

(* Every step, by what it does to the flows. *)
LEMMA StepCases ==
    ASSUME Types, FlowsOK, [Next]_vars
    PROVE  \/ Quiet
           \/ \E f \in Flow : \/ Requested(f) \/ AdminFail(f)
                              \/ \E r : Answered(f, r)
                              \/ \E e \in Event : ConfirmedMove(e, f)
           \/ Persist \/ Crash
  <1>1. ASSUME NEW f \in Flow, NEW r, ProcessNewBitvmxEvent(f, r) PROVE Quiet \/ Answered(f, r)
    <2>1. ASSUME Panic, disk' = Cleaned(disk) PROVE mem' \in Flows /\ disk' \in Flows
      BY <2>1, CleanedFacts DEF Panic
    <2> QED
      BY <1>1, <2>1, BitvmxCases, CompletesFacts, GetsFacts DEF Answered, Completed, GotAnother
  <1>2. CASE BitvmxAnswers
    <2>1. PICK a \in asked \ answered : ProcessNewBitvmxEvent(a[1], a[2])
      BY <1>2 DEF BitvmxAnswers
    <2>2. a[1] \in Flow
      BY DEF Types
    <2> QED
      BY <1>1, <2>1, <2>2
  <1>3. CASE Confirmed
    <2>1. PICK e \in Event : ConfirmEvent(e)
      BY Zenon, <1>3 DEF Confirmed, Types, TypeOK
    <2> QED
      BY <2>1, ConfirmMoves DEF ConfirmedMove
  <1>4. CASE ReceiveEvent \/ NewBlock \/ EndBlock \/ SaveContext \/ Registry \/ UNCHANGED vars
    BY <1>4, QuietSteps DEF ReceiveEvent, NewBlock
  <1>5. ASSUME NEW f \in Flow, ProcessUserRequest(f) PROVE Requested(f)
    BY <1>5, RequestedCase
  <1>6. CASE (\E a \in asked \ answered : Refuse(a[1], a[2])) \/ (\E e \in confirming : RemoveEvent(e))
    BY <1>6, QuietSteps
  <1>7. CASE Progress
    BY <1>2, <1>3, <1>4, <1>7 DEF Progress
  <1> QED
    BY <1>4, <1>5, <1>6, <1>7 DEF Next

-----------------------------------------------------------------------------
(* Types. *)

(* Every step keeps the type of the flows. *)
LEMMA FlowsType ==
    ASSUME Types, FlowsOK, [Next]_vars PROVE mem' \in Flows /\ disk' \in Flows
  <1>0. mem \in [Flow -> FlowState] /\ disk \in [Flow -> FlowState]
    BY Zenon DEF Types, TypeOK
  <1>1. ASSUME NEW f \in Flow, AdminFail(f) PROVE mem' \in Flows /\ disk' \in Flows
    BY <1>1, CleanedFacts, NoStateType DEF AdminFail, Flows
  <1>2. ASSUME Persist PROVE mem' \in Flows /\ disk' \in Flows
    BY <1>0, <1>2 DEF Persist, Flows, Types
  <1>3. ASSUME Crash PROVE mem' \in Flows /\ disk' \in Flows
    BY <1>0, <1>3 DEF Crash, Flows
  <1> QED
    BY Zenon, <1>1, <1>2, <1>3, StepCases DEF Quiet, Requested, Answered, ConfirmedMove

(* A failure is one of those left. *)
LEMMA FaultType ==
    ASSUME Types, NEW f \in Flow, NEW out, Fault(f, out), left.faults > 0 \/ out \in {"ok", "repeated"}
    PROVE  left' \in Budget /\ faulty' \subseteq Flow /\ left'.flows = left.flows
  <1>1. left \in Budget /\ faulty \subseteq Flow
    BY DEF Types, TypeOK
  <1>2. left.faults > 0 => [left EXCEPT !.faults = @ - 1] \in Budget
    BY <1>1 DEF Budget
  <1> QED
    BY <1>1, <1>2 DEF Fault, Budget

(* A call fails only while faults are left, unless it repeats a deposit. *)
LEMMA OutcomesType ==
    ASSUME Types, NEW c, NEW s, NEW next, NEW out \in Outcomes(c, s, next)
    PROVE  left.faults > 0 \/ out \in {"ok", "repeated"}
  <1>1. left \in Budget
    BY Zenon DEF Types, TypeOK
  <1> QED
    BY <1>1 DEF Outcomes, Budget

(* start_step keeps the type of the loop's state. *)
LEMMA StartType ==
    ASSUME Types, NEW flows, NEW f \in Flow, NEW fl, NEW c, NEW s, NEW next, NEW out \in Outcomes(c, s, next),
           StartStep(flows, f, fl, next, out)
    PROVE  /\ left' \in Budget /\ faulty' \subseteq Flow /\ left'.flows = left.flows
           /\ (pc' = "entered" /\ cur' \in Flow) \/ (Handled /\ cur' = cur)
           /\ UNCHANGED formed
  <1>1. Fault(f, out)
    BY DEF StartStep
  <1>2. left' \in Budget /\ faulty' \subseteq Flow /\ left'.flows = left.flows
    BY Zenon, <1>1, FaultType, OutcomesType
  <1>3. UNCHANGED formed
    BY DEF StartStep, Call
  <1>4. (pc' = "entered" /\ cur' \in Flow) \/ (Handled /\ cur' = cur)
    BY DEF StartStep
  <1> QED
    BY Zenon, <1>2, <1>3, <1>4

(* What the loop of the coordinator and the budget look like. *)
LoopOK ==
    /\ left \in Budget /\ requested \subseteq left.flows /\ faulty \subseteq Flow
    /\ pc \in {"idle", "block", "entered", "panicked"} /\ stage \in 0..4
    /\ cur \in Flow \cup {None} /\ (pc = "entered" => cur \in Flow)
    /\ (pc = "block" => stage = 4) /\ (pc = "idle" \/ stage < 4 => todo = {})
    /\ formed \subseteq Committee \X BOOLEAN

(* A BitVMX answer keeps the type of the loop's state. *)
LEMMA BitvmxLoopType ==
    ASSUME Types, NEW f \in Flow, NEW r, ProcessNewBitvmxEvent(f, r) PROVE LoopOK'
  <1>0. LoopOK
    BY Zenon DEF Types, TypeOK, LoopOK
  <1>1. pc = "idle" /\ todo' = {} /\ stage' = 2 /\ UNCHANGED requested
    BY Zenon, <1>0 DEF ProcessNewBitvmxEvent, Receive, LoopOK
  <1>2. CASE Ignored
    <2>1. pc' = "idle" /\ UNCHANGED <<left, faulty, cur, formed>>
      BY Zenon, <1>2 DEF Ignored, registry
    <2> QED
      BY <1>0, <1>1, <2>1 DEF LoopOK
  <1>3. CASE CompleteStep(Cleaned(mem), f, r)
    <2>1. CASE Mismatch(Cleaned(mem), f, r)
      BY <1>0, <1>1, <2>1 DEF Mismatch, Fail, LoopOK, registry
    <2>2. CASE Panic
      <3>1. pc' = "panicked" /\ UNCHANGED <<left, faulty, cur, formed>>
        BY Zenon, <2>2 DEF Panic, registry
      <3> QED
        BY <1>0, <1>1, <3>1 DEF LoopOK
    <2>3. CASE Completes(Cleaned(mem), f, r)
      BY <1>0, <1>1, <2>3, StartType DEF Completes, LoopOK, Handled
    <2>4. CASE Gets(Cleaned(mem), f, r)
      BY <1>0, <1>1, <2>4 DEF Gets, LoopOK, Handled, registry
    <2>5. CASE FailsPair(Cleaned(mem), f)
      <3>1. left' \in Budget /\ faulty' \subseteq Flow /\ left'.flows = left.flows
        BY Zenon, <2>5, FaultType DEF FailsPair
      <3> QED
        BY <1>0, <1>1, <2>5, <3>1 DEF FailsPair, Fail, LoopOK, registry
    <2> QED
      BY <1>3, <2>1, <2>2, <2>3, <2>4, <2>5, CompleteStepCases
  <1> QED
    BY Zenon, <1>2, <1>3 DEF ProcessNewBitvmxEvent

(* A confirmed event keeps the type of the loop's state. *)
LEMMA ConfirmLoopType ==
    ASSUME Types, NEW e \in Event, ConfirmEvent(e) PROVE LoopOK'
  <1>0. LoopOK
    BY Zenon DEF Types, TypeOK, LoopOK
  <1>1. pc = "block" /\ stage = 4 /\ stage' = 4 /\ UNCHANGED requested
    BY <1>0 DEF ConfirmEvent, LoopOK
  <1>2. CASE UNCHANGED <<left, registry, asked, pc, cur, mem, context, used, overtaken, faulty>>
    <2>1. UNCHANGED <<left, faulty, pc, cur, formed>>
      BY Zenon, <1>2 DEF registry
    <2> QED
      BY <1>0, <1>1, <2>1 DEF LoopOK
  <1>3. ASSUME NEW f \in Flow, Fail(mem, f), UNCHANGED <<left, faulty>> PROVE LoopOK'
    BY <1>0, <1>1, <1>3 DEF Fail, LoopOK, registry
  <1>4. ASSUME NEW f \in Flow, NEW fl, NEW c, NEW s, NEW next, NEW out \in Outcomes(c, s, next),
               StartStep(mem, f, fl, next, out)
        PROVE  LoopOK'
    <2>1. /\ left' \in Budget /\ faulty' \subseteq Flow /\ left'.flows = left.flows
          /\ (pc' = "entered" /\ cur' \in Flow) \/ (Handled /\ cur' = cur)
          /\ UNCHANGED formed
      BY Zenon, <1>4, StartType
    <2> QED
      BY <1>0, <1>1, <2>1 DEF LoopOK, Handled
  <1>5. ASSUME NEW f \in Flow, \/ Selects(f, e[1]) \/ Rejects(f, e[1])
                                \/ \E next : CompleteEvent(f, next)
        PROVE  LoopOK'
    BY Zenon, <1>4, <1>5 DEF Selects, Rejects, CompleteEvent
  <1> QED
    BY Zenon, <1>2, <1>3, <1>5, ConfirmCases

(* Every step keeps the type of the loop's state. *)
LEMMA LoopStep ==
    ASSUME Types, [Next]_vars PROVE LoopOK'
  <1>0. LoopOK /\ left \in Budget
    BY Zenon DEF Types, TypeOK, LoopOK
  <1>1. CASE BitvmxAnswers
    BY <1>1, BitvmxLoopType DEF BitvmxAnswers, Types
  <1>2. CASE Confirmed
    BY Zenon, <1>2, ConfirmLoopType DEF Confirmed, Types, TypeOK
  <1>3. CASE ReceiveEvent
    <2>1. /\ pc = "idle" /\ stage' = 3
          /\ UNCHANGED <<left, requested, faulty, pc, cur, todo, formed>>
      BY <1>3 DEF ReceiveEvent, ProcessNewRskEvent, Receive, registry, history
    <2> QED
      BY <1>0, <2>1 DEF LoopOK
  <1>4. CASE NewBlock
    <2>1. stage' = 4 /\ pc' = "block" /\ UNCHANGED <<left, requested, faulty, cur, formed>>
      BY Zenon, <1>4 DEF NewBlock, ProcessNewBlock, Receive, rsk, registry, history
    <2> QED
      BY <1>0, <2>1 DEF LoopOK
  <1>5. CASE EndBlock
    BY Zenon, <1>0, <1>5 DEF EndBlock, LoopOK, rsk, registry, history
  <1>6. CASE Persist
    <2>1. UNCHANGED <<left, requested, faulty, stage, todo, formed>> /\ cur' = None /\ pc = "entered"
      BY <1>6 DEF Persist, rsk, registry
    <2>2. pc' = IF stage = 4 THEN "block" ELSE "idle"
      BY <1>6, <2>1 DEF Persist, Handled
    <2> QED
      BY <1>0, <2>1, <2>2 DEF LoopOK
  <1>7. CASE SaveContext
    <2>1. pc = "idle" /\ stage' = 0 /\ UNCHANGED <<left, requested, faulty, pc, cur, todo, formed>>
      BY Zenon, <1>7 DEF SaveContext, rsk, registry, history
    <2> QED
      BY <1>0, <2>1 DEF LoopOK
  <1>8. CASE Registry
    <2>1. UNCHANGED <<left, requested, faulty, stage, todo, pc, cur>>
      BY Zenon, <1>8 DEF Registry, FormCommittee, AllDeposited, history
    <2>2. formed' \subseteq Committee \X BOOLEAN
      <3>1. ASSUME NEW c \in Committee, NEW selected \in BOOLEAN, FormCommittee(c, selected)
            PROVE  formed' \subseteq Committee \X BOOLEAN
        BY <1>0, <3>1 DEF FormCommittee, LoopOK
      <3>2. ASSUME NEW c, NEW what, AllDeposited(c, what) PROVE formed' \subseteq Committee \X BOOLEAN
        BY Zenon, <1>0, <3>2 DEF AllDeposited, LoopOK, registry
      <3> QED
        BY <1>8, <3>1, <3>2 DEF Registry
    <2> QED
      BY Zenon, <1>0, <2>1, <2>2 DEF LoopOK
  <1>9. ASSUME NEW f \in Flow, ProcessUserRequest(f) PROVE LoopOK'
    <2>1. /\ pc = "idle" /\ stage' = 1 /\ UNCHANGED todo
          /\ f \in left.flows /\ requested' = requested \cup {f}
      BY Zenon, <1>9 DEF ProcessUserRequest, Receive
    <2>2. /\ left' \in Budget /\ faulty' \subseteq Flow /\ left'.flows = left.flows
          /\ (pc' = "entered" /\ cur' \in Flow) \/ (Handled /\ cur' = cur)
          /\ UNCHANGED formed
      BY Zenon, <1>9, StartType DEF ProcessUserRequest
    <2> QED
      BY <1>0, <2>1, <2>2 DEF LoopOK, Handled
  <1>10. ASSUME NEW f \in Flow, AdminFail(f) PROVE LoopOK'
    <2>1. [left EXCEPT !.admin = @ \ {f}] \in Budget /\ [left EXCEPT !.admin = @ \ {f}].flows = left.flows
      BY <1>0 DEF Budget
    <2> QED
      BY <1>0, <1>10, <2>1 DEF AdminFail, LoopOK, rsk, registry
  <1>11. ASSUME NEW f \in Flow, NEW r, Refuse(f, r) PROVE LoopOK'
    <2>1. left' \in Budget /\ faulty' \subseteq Flow /\ left'.flows = left.flows
      BY Zenon, <1>11, FaultType DEF Refuse
    <2>2. /\ pc = "idle" /\ stage' = 2
          /\ UNCHANGED <<requested, pc, cur, todo, formed>>
      BY Zenon, <1>11 DEF Refuse, Receive, rsk, registry
    <2> QED
      BY <1>0, <2>1, <2>2 DEF LoopOK
  <1>12. ASSUME NEW e, RemoveEvent(e) PROVE LoopOK'
    <2>1. left.reorgs > 0 /\ left' = [left EXCEPT !.reorgs = @ - 1]
      BY <1>12 DEF RemoveEvent
    <2>2. left' \in Budget /\ left'.flows = left.flows
      BY <1>0, <2>1 DEF Budget
    <2> QED
      BY <1>0, <1>12, <2>2 DEF RemoveEvent, Receive, LoopOK, registry, history
  <1>13. CASE Crash
    <2>1. left.crashes > 0 /\ left' = [left EXCEPT !.crashes = @ - 1]
      BY <1>13 DEF Crash
    <2>2. left' \in Budget /\ left'.flows = left.flows
      BY <1>0, <2>1 DEF Budget
    <2> QED
      BY <1>0, <1>13, <2>2 DEF Crash, LoopOK, rsk, registry
  <1>14. CASE UNCHANGED vars
    BY Zenon, <1>0, <1>14 DEF vars, LoopOK, rsk, registry, history
  <1>15. CASE Progress
    BY <1>1, <1>2, <1>3, <1>4, <1>5, <1>6, <1>7, <1>8, <1>15 DEF Progress
  <1>16. CASE \E a \in asked \ answered : Refuse(a[1], a[2])
    BY <1>11, <1>16 DEF Types
  <1> QED
    BY <1>9, <1>10, <1>12, <1>13, <1>14, <1>15, <1>16 DEF Next

(* The events on their way. *)
EventsOK ==
    logs \subseteq Event /\ emitted \subseteq Event /\ confirming \subseteq Event /\ todo \subseteq confirming

events == <<logs, emitted, confirming, todo>>

(* How the events move. *)
LEMMA EventMoves ==
    ASSUME Types, [Next]_vars
    PROVE  \/ UNCHANGED <<events, formed>>
           \/ /\ \E e \in logs : logs' = logs \ {e} /\ confirming' = confirming \cup {e}
              /\ UNCHANGED <<emitted, todo, formed>>
           \/ /\ \E e \in confirming : confirming' = confirming \ {e} /\ logs' = logs \cup {e}
              /\ todo = {} /\ UNCHANGED <<emitted, todo, formed>>
           \/ todo' \subseteq confirming /\ UNCHANGED <<logs, emitted, confirming, formed>>
           \/ /\ \E e \in todo : todo' = todo \ {e} /\ confirming' = confirming \ {e}
              /\ UNCHANGED <<logs, emitted, formed>>
           \/ confirming' = {} /\ todo' = {} /\ UNCHANGED <<logs, emitted, formed>>
           \/ \E c \in Committee, b \in BOOLEAN :
                 /\ \A x \in BOOLEAN : <<c, x>> \notin formed
                 /\ formed' = formed \cup {<<c, b>>}
                 /\ emitted' = emitted \cup {<<c, "pending">>} /\ logs' = logs \cup {<<c, "pending">>}
                 /\ UNCHANGED <<confirming, todo>>
           \/ \E c \in Committee, what \in {"data", "ready"} :
                 /\ <<c, what>> \notin emitted
                 /\ emitted' = emitted \cup {<<c, what>>} /\ logs' = logs \cup {<<c, what>>}
                 /\ UNCHANGED <<confirming, todo, formed>>
  <1>1. ASSUME NEW f, NEW r, ProcessNewBitvmxEvent(f, r) PROVE UNCHANGED events
    BY Zenon, <1>1 DEF ProcessNewBitvmxEvent, events
  <1>2. ASSUME NEW f, NEW r, f \in Flow, ProcessNewBitvmxEvent(f, r) PROVE UNCHANGED formed
    <2>1. ASSUME CompleteStep(Cleaned(mem), f, r) PROVE UNCHANGED formed
      <3>1. Mismatch(Cleaned(mem), f, r) \/ FailsPair(Cleaned(mem), f) => UNCHANGED formed
        BY DEF Mismatch, FailsPair, Fail, registry
      <3>2. Panic \/ Gets(Cleaned(mem), f, r) => UNCHANGED formed
        BY DEF Panic, Gets, registry
      <3>3. Completes(Cleaned(mem), f, r) => UNCHANGED formed
        BY DEF Completes, StartStep, Call
      <3> QED
        BY Zenon, <2>1, <3>1, <3>2, <3>3, CompleteStepCases
    <2>2. Ignored => UNCHANGED formed
      BY DEF Ignored, registry
    <2> QED
      BY Zenon, <1>2, <2>1, <2>2 DEF ProcessNewBitvmxEvent
  <1>3. ASSUME NEW e \in todo, ConfirmEvent(e)
        PROVE  todo' = todo \ {e} /\ confirming' = confirming \ {e} /\ UNCHANGED <<logs, emitted, formed>>
    <2>1. e \in Event
      BY Zenon DEF Types, TypeOK
    <2>2. UNCHANGED formed
      <3>1. ASSUME NEW f, NEW fl, NEW next, NEW out, StartStep(mem, f, fl, next, out) PROVE UNCHANGED formed
        BY Zenon, <3>1 DEF StartStep, Call
      <3>2. ASSUME NEW f, Fail(mem, f) \/ UNCHANGED registry PROVE UNCHANGED formed
        BY Zenon, <3>2 DEF Fail, registry
      <3>3. ASSUME NEW f, Selects(f, e[1]) \/ Rejects(f, e[1]) \/ \E next : CompleteEvent(f, next)
            PROVE  UNCHANGED formed
        BY Zenon, <3>1, <3>3 DEF Selects, Rejects, CompleteEvent
      <3> QED
        BY Zenon, <1>3, <2>1, <3>2, <3>3, ConfirmCases
    <2> QED
      BY <1>3, <2>2 DEF ConfirmEvent
  <1>4. CASE BitvmxAnswers
    BY Zenon, <1>1, <1>2, <1>4 DEF BitvmxAnswers, Types
  <1>5. CASE Confirmed
    BY Zenon, <1>3, <1>5 DEF Confirmed
  <1>6. CASE ReceiveEvent
    BY Zenon, <1>6 DEF ReceiveEvent, ProcessNewRskEvent, registry
  <1>7. CASE NewBlock
    BY Zenon, <1>7 DEF NewBlock, ProcessNewBlock, rsk, registry
  <1>8. CASE EndBlock \/ Persist \/ SaveContext \/ UNCHANGED vars
    BY Zenon, <1>8 DEF EndBlock, Persist, SaveContext, vars, rsk, registry, events
  <1>9. ASSUME NEW c \in Committee, NEW b \in BOOLEAN, FormCommittee(c, b)
        PROVE  /\ \A x \in BOOLEAN : <<c, x>> \notin formed
               /\ formed' = formed \cup {<<c, b>>}
               /\ emitted' = emitted \cup {<<c, "pending">>} /\ logs' = logs \cup {<<c, "pending">>}
               /\ UNCHANGED <<confirming, todo>>
    BY <1>9 DEF FormCommittee
  <1>10. ASSUME NEW c \in Committee, NEW what, AllDeposited(c, what)
         PROVE  \E w \in {"data", "ready"} :
                 /\ <<c, w>> \notin emitted
                 /\ emitted' = emitted \cup {<<c, w>>} /\ logs' = logs \cup {<<c, w>>}
                 /\ UNCHANGED <<confirming, todo, formed>>
    BY Zenon, <1>10 DEF AllDeposited, registry
  <1>11. CASE Registry
    <2>1. \A d \in deposits : d[1] \in Committee
      BY Zenon DEF Types, TypeOK
    <2> QED
      BY Zenon, <1>9, <1>10, <1>11, <2>1 DEF Registry
  <1>12. CASE Progress
    BY Zenon, <1>4, <1>5, <1>6, <1>7, <1>8, <1>11, <1>12 DEF Progress
  <1>13. ASSUME NEW f \in Flow, ProcessUserRequest(f) \/ AdminFail(f) PROVE UNCHANGED <<events, formed>>
    <2>1. CASE AdminFail(f)
      BY <2>1 DEF AdminFail, rsk, registry, events
    <2>2. CASE ProcessUserRequest(f)
      BY <2>2 DEF ProcessUserRequest, StartStep, Call, events
    <2> QED
      BY <1>13, <2>1, <2>2
  <1>14. ASSUME NEW f, NEW r, Refuse(f, r) PROVE UNCHANGED <<events, formed>>
    BY <1>14 DEF Refuse, rsk, registry, events
  <1>15. ASSUME NEW e \in confirming, RemoveEvent(e)
         PROVE  /\ confirming' = confirming \ {e} /\ logs' = logs \cup {e}
                /\ todo = {} /\ UNCHANGED <<emitted, todo, formed>>
    BY <1>15 DEF RemoveEvent, Receive, registry, Types
  <1>16. CASE Crash
    BY <1>16 DEF Crash, rsk, registry
  <1> QED
    BY Zenon, <1>8, <1>12, <1>13, <1>14, <1>15, <1>16 DEF Next

(* Every step keeps the type of the pending contract events. *)
LEMMA EventsStep ==
    ASSUME Types, [Next]_vars PROVE EventsOK'
  <1>1. EventsOK
    BY Zenon DEF Types, TypeOK, EventsOK
  <1>2. \A c \in Committee : <<c, "pending">> \in Event /\ <<c, "data">> \in Event /\ <<c, "ready">> \in Event
    BY DEF Event
  <1> QED
    BY Zenon, <1>1, <1>2, EventMoves DEF EventsOK, events

(* The registry, BitVMX and the context. *)
AllRequests == UNION {Requests(s) : s \in ValidateBalances..DepositKey}

OutsideOK ==
    /\ applied \subseteq Stream /\ deposits \subseteq Committee \X {"data", "key"}
    /\ answered \subseteq asked /\ asked \subseteq Flow \X AllRequests
    /\ keys \in Flow \cup {None} /\ mine \subseteq Committee
    /\ saved \in (Flow \cup {None}) \X SUBSET Committee
    /\ used \subseteq [flow : Flow, key : Flow, funded : Flow] /\ ended \in [Flow -> {NoFlow, Done, Failed}]
    /\ overtaken \subseteq Flow /\ lost \in BOOLEAN

(* The type invariant, part by part. *)
LEMMA TypesParts == Types <=> LoopOK /\ EventsOK /\ OutsideOK /\ mem \in Flows /\ disk \in Flows
    BY Zenon DEF Types, TypeOK, LoopOK, EventsOK, OutsideOK, Flows, AllRequests

(* The calls of a step keep the type of what the contract and the disk     *)
(* hold.                                                                   *)
LEMMA CallType ==
    ASSUME Types, NEW f \in Flow, NEW fl \in FlowState, NEW next \in ValidateBalances..Done, NEW out,
           Call(f, fl, next, out),
           next \in {DepositP2PData, DepositKey} => fl.com \in Committee,
           next = ApplyToStream => fl.funded \in Flow
    PROVE  /\ applied' \subseteq Stream /\ deposits' \subseteq Committee \X {"data", "key"}
           /\ keys' \in Flow \cup {None} /\ overtaken' \subseteq Flow
           /\ used' \subseteq [flow : Flow, key : Flow, funded : Flow]
  <1>0. OutsideOK
    BY TypesParts
  <1>1. CASE next = ApplyToStream
    <2>1. MyKey(f) \in Flow
      BY Zenon, <1>0 DEF MyKey, OutsideOK
    <2>2. OfFlow[f] \in Stream
      BY SetupAssumption
    <2>3. Apply(f, fl, out \in {"ok", "late", "minedFatal"}, out = "ok") /\ UNCHANGED deposits
      BY <1>1 DEF Call, ApplyToStream, DepositP2PData, DepositKey
    <2> DEFINE use == [flow |-> f, key |-> MyKey(f), funded |-> fl.funded]
    <2>4. /\ applied' = applied \/ applied' = applied \cup {OfFlow[f]}
          /\ used' = used \/ used' = used \cup {use}
          /\ keys' = keys \/ keys' = MyKey(f)
          /\ overtaken' \subseteq overtaken \cup Flow
      BY Zenon, <2>3 DEF Apply
    <2>5. use \in [flow : Flow, key : Flow, funded : Flow]
      BY <1>1, <2>1
    <2> HIDE DEF use
    <2>6. applied' \subseteq Stream /\ overtaken' \subseteq Flow /\ keys' \in Flow \cup {None}
      BY Zenon, <1>0, <2>1, <2>2, <2>4 DEF OutsideOK
    <2>7. used' \subseteq [flow : Flow, key : Flow, funded : Flow]
      BY Zenon, <1>0, <2>4, <2>5 DEF OutsideOK
    <2>8. deposits' \subseteq Committee \X {"data", "key"}
      BY Zenon, <1>0, <2>3 DEF OutsideOK
    <2> QED
      BY <2>6, <2>7, <2>8
  <1>2. CASE next \in {DepositP2PData, DepositKey}
    <2>1. /\ \E what \in {"data", "key"} : Deposit(fl.com, what, out \in {"ok", "late", "minedFatal"})
          /\ UNCHANGED <<applied, used, keys, overtaken>>
      BY <1>2 DEF Call, ApplyToStream, DepositP2PData, DepositKey
    <2>2. PICK what \in {"data", "key"} : deposits' = deposits \/ deposits' = deposits \cup {<<fl.com, what>>}
      BY <2>1 DEF Deposit
    <2>3. <<fl.com, what>> \in Committee \X {"data", "key"}
      BY <1>2
    <2>4. deposits' \subseteq Committee \X {"data", "key"}
      BY Zenon, <1>0, <2>2, <2>3 DEF OutsideOK
    <2> QED
      BY Zenon, <1>0, <2>1, <2>4 DEF OutsideOK
  <1>3. CASE next \notin {ApplyToStream, DepositP2PData, DepositKey}
    BY <1>0, <1>3 DEF Call, OutsideOK
  <1> QED
    BY Zenon, <1>1, <1>2, <1>3

(* Entering a step keeps the type of what is outside the flows. *)
LEMMA BeginType ==
    ASSUME Types, NEW f \in Flow, NEW fl \in FlowState, NEW next \in ValidateBalances..Done, NEW out,
           Begin(f, fl, next, out),
           next \in {DepositP2PData, DepositKey} => fl.com \in Committee,
           next = ApplyToStream => fl.funded \in Flow,
           AllRequests' = AllRequests, mine' \subseteq Committee, answered' \subseteq asked \cup asked'
    PROVE  OutsideOK'
  <1>0. OutsideOK
    BY TypesParts
  <1>1. /\ asked' = IF out = "ok" THEN asked \cup ({f} \X Requests(next)) ELSE asked
        /\ Call(f, fl, next, out) /\ UNCHANGED <<saved, ended, lost>>
    BY Zenon DEF Begin
  <1>2. Requests(next) \subseteq AllRequests
    <2>1. Requests(Done) = {}
      BY DEF Requests, Done, Calls, SetupPairwiseKeys, SetupDisputeCore, RequestVars, SetupChannels, SetupPenalization
    <2>2. next = Done \/ next \in ValidateBalances..DepositKey
      BY DEF Done, DepositKey, ValidateBalances
    <2> QED
      BY <2>1, <2>2 DEF AllRequests
  <1>3. asked \subseteq asked' /\ asked' \subseteq Flow \X AllRequests'
    BY Zenon, <1>0, <1>1, <1>2 DEF OutsideOK
  <1>4. /\ applied' \subseteq Stream /\ deposits' \subseteq Committee \X {"data", "key"}
        /\ keys' \in Flow \cup {None} /\ overtaken' \subseteq Flow
        /\ used' \subseteq [flow : Flow, key : Flow, funded : Flow]
    BY <1>1, CallType
  <1> QED
    BY Zenon, <1>0, <1>1, <1>3, <1>4 DEF OutsideOK

(* What the step before tells of a flow that is about to enter a step. *)
LEMMA NextStepFacts ==
    ASSUME Types, FlowsOK, NEW f \in Flow, NEW r, Answers(f, r)
    PROVE  LET s == mem[f].step
               next == NextStep(s)
           IN /\ s \notin Calls
              /\ next = s + 1 \/ (s = GetMyCommInfo /\ next = FundMyBitVmx /\ keys # None)
              /\ next = DepositKey => s = SetupPenalization /\ mem[f].com \in Committee
              /\ next = ApplyToStream => s = FundMyBitVmx /\ mem[f].funded \in Flow
              /\ next # DepositP2PData
  <1> DEFINE s == mem[f].step
             next == NextStep(s)
  <1>1. s \in ValidateBalances..DepositKey /\ r \in Requests(s)
    BY Zenon, AnswersFacts
  <1>2. s \notin Calls
    <2>1. \A x \in Calls : Requests(x) = {}
      BY DEF Requests, Calls, ApplyToStream, DepositP2PData, DepositKey, SetupPairwiseKeys, SetupDisputeCore,
             RequestVars, SetupChannels, SetupPenalization
    <2> QED
      BY Zenon, <1>1, <2>1
  <1>3. next = s + 1 \/ (s = GetMyCommInfo /\ next = FundMyBitVmx /\ keys # None)
    BY DEF NextStep
  <1>4. FlowOK(f, mem[f]) /\ mem[f].com \in Committee \cup {None}
    BY Zenon DEF FlowsOK, Types, TypeOK, FlowState
  <1>5. next = DepositKey => s = SetupPenalization /\ mem[f].com \in Committee
    <2>1. next = DepositKey => s = SetupPenalization
      BY <1>1, <1>3 DEF ValidateBalances, DepositKey, SetupPenalization, FundMyBitVmx
    <2>2. s = SetupPenalization => mem[f].com # None
      <3>1. mem[f].com = None => mem[f].step \notin DepositP2PData..DepositKey
        BY Zenon, <1>4 DEF FlowOK
      <3> QED
        BY <3>1 DEF DepositP2PData, DepositKey, SetupPenalization
    <2> QED
      BY <1>4, <2>1, <2>2
  <1>6. next = ApplyToStream => s = FundMyBitVmx
    BY <1>1, <1>3 DEF ValidateBalances, DepositKey, ApplyToStream, FundMyBitVmx
  <1>7. s = FundMyBitVmx => mem[f].funded \in Flow
    BY Zenon, <1>4 DEF FlowOK
  <1>8. next # DepositP2PData
    BY <1>1, <1>2, <1>3 DEF Calls, ValidateBalances, DepositKey, ApplyToStream, FundMyBitVmx, DepositP2PData
  <1> QED
    BY Zenon, <1>2, <1>3, <1>5, <1>6, <1>7, <1>8

(* Every step keeps the type of what is outside the flows. *)
LEMMA OutsideStep ==
    ASSUME Types, FlowsOK, [Next]_vars PROVE OutsideOK'
  <1>0. OutsideOK /\ mem \in Flows /\ disk \in Flows
    BY TypesParts
  <1>1. AllRequests' = AllRequests
    BY RolesKept DEF AllRequests
  <1>2. CASE Quiet
    BY <1>0, <1>1, <1>2 DEF Quiet, OutsideOK
  <1>3. ASSUME NEW f \in Flow, Requested(f) PROVE OutsideOK'
    <2>1. PICK out : Begin(f, NoState, ValidateBalances, out)
      BY <1>3 DEF Requested
    <2>2. /\ ValidateBalances \in ValidateBalances..Done
          /\ ValidateBalances \notin {ApplyToStream, DepositP2PData, DepositKey}
      BY DEF ValidateBalances, Done, ApplyToStream, DepositP2PData, DepositKey
    <2>3. mine' \subseteq Committee /\ answered' \subseteq asked
      BY <1>0, <1>3 DEF Requested, OutsideOK
    <2> QED
      BY <1>1, <2>1, <2>2, <2>3, NoStateType, BeginType
  <1>4. ASSUME NEW f \in Flow, Fails(f), answered' \subseteq asked PROVE OutsideOK'
    BY <1>0, <1>1, <1>4 DEF Fails, OutsideOK, registry
  <1>5. ASSUME NEW f \in Flow, NEW r, Answered(f, r) PROVE OutsideOK'
    <2>0. Answers(f, r) /\ answered' \subseteq asked
      BY Zenon, <1>0, <1>5 DEF Answered, Answers, OutsideOK
    <2>1. CASE Fails(f)
      BY <1>4, <2>0, <2>1
    <2>2. CASE Panic
      BY Zenon, <1>0, <1>1, <2>0, <2>2 DEF Panic, Answers, OutsideOK, registry, context
    <2>3. CASE GotAnother(f, r)
      BY <1>0, <1>1, <2>0, <2>3 DEF GotAnother, Answers, OutsideOK
    <2>4. CASE Completed(f, r)
      <3> DEFINE next == NextStep(mem[f].step)
                 fl   == [mem[f] EXCEPT !.got = Got(mem[f], r)]
      <3>1. PICK out : Begin(f, fl, next, out)
        BY <2>4 DEF Completed
      <3>2. /\ next \in ValidateBalances..Done /\ fl \in FlowState
            /\ next \in {DepositP2PData, DepositKey} => mem[f].com \in Committee
            /\ next = ApplyToStream => mem[f].funded \in Flow
        BY Zenon, <2>0, AnswersFacts, NextStepFacts
      <3>3. fl.com = mem[f].com /\ fl.funded = mem[f].funded
        BY <1>0 DEF Flows, FlowState
      <3>4. mine' \subseteq Committee
        BY <1>0, <2>4 DEF Completed, OutsideOK
      <3> HIDE DEF next, fl
      <3> QED
        BY Zenon, <1>1, <2>0, <3>1, <3>2, <3>3, <3>4, BeginType
    <2> QED
      BY Zenon, <1>5, <2>1, <2>2, <2>3, <2>4 DEF Answered
  <1>6. ASSUME NEW f \in Flow, NEW e \in Event, ConfirmedMove(e, f) PROVE OutsideOK'
    <2>0. /\ answered' \subseteq asked /\ mem[f] \in FlowState /\ e[1] \in Committee
          /\ {SetupTakeKey, Done} \subseteq ValidateBalances..Done /\ DepositP2PData \in ValidateBalances..Done
      BY <1>0, <1>6 DEF ConfirmedMove, Confirms, OutsideOK, Flows, Event, SetupTakeKey, Done, ValidateBalances, DepositP2PData
    <2>1. CASE Fails(f)
      BY <1>4, <2>0, <2>1
    <2>2. CASE Joins(f, e[1])
      <3> DEFINE fl == [mem[f] EXCEPT !.com = e[1]]
      <3>1. fl \in FlowState /\ fl.com \in Committee /\ mine' \subseteq Committee
        BY <1>0, <2>0, <2>2 DEF FlowState, Joins, OutsideOK
      <3>2. PICK out : Begin(f, fl, DepositP2PData, out)
        BY <2>2 DEF Joins
      <3>3. DepositP2PData # ApplyToStream
        BY DEF DepositP2PData, ApplyToStream
      <3> HIDE DEF fl
      <3> QED
        BY Zenon, <1>1, <2>0, <3>1, <3>2, <3>3, BeginType
    <2>3. ASSUME NEW step, NEW next \in {SetupTakeKey, Done}, Advances(f, step, next) PROVE OutsideOK'
      <3>1. PICK out : Begin(f, mem[f], next, out)
        BY <2>3 DEF Advances
      <3>2. mine' \subseteq Committee
        BY Zenon, <1>0, <2>3 DEF Advances, OutsideOK
      <3>3. next \notin {DepositP2PData, DepositKey, ApplyToStream}
        BY DEF SetupTakeKey, Done, DepositP2PData, DepositKey, ApplyToStream
      <3> QED
        BY Zenon, <1>1, <2>0, <3>1, <3>2, <3>3, BeginType
    <2> QED
      BY <1>6, <2>1, <2>2, <2>3 DEF ConfirmedMove
  <1>7. ASSUME NEW f \in Flow, AdminFail(f) PROVE OutsideOK'
    BY <1>0, <1>1, <1>7 DEF AdminFail, OutsideOK, rsk, registry, bitvmx, context
  <1>8. CASE Persist
    <2>1. ended' \in [Flow -> {NoFlow, Done, Failed}]
      BY Zenon, <1>0, <1>8 DEF Persist, OutsideOK, IsTerminal
    <2>2. UNCHANGED <<applied, deposits, answered, asked, keys, mine, saved, used, overtaken, lost>>
      BY Zenon, <1>8 DEF Persist, rsk, registry, bitvmx, context
    <2> QED
      BY Zenon, <1>0, <1>1, <2>1, <2>2 DEF OutsideOK
  <1>9. CASE Crash
    BY <1>0, <1>1, <1>9 DEF Crash, OutsideOK, rsk, registry, bitvmx
  <1> QED
    BY <1>2, <1>3, <1>5, <1>6, <1>7, <1>8, <1>9, StepCases

(* Every step keeps the type invariant. *)
LEMMA TypesStep ==
    ASSUME Types, FlowsOK, [Next]_vars PROVE Types'
  <1>1. LoopOK' /\ EventsOK' /\ OutsideOK' /\ mem' \in Flows /\ disk' \in Flows
    BY LoopStep, EventsStep, OutsideStep, FlowsType
  <1>2. Flows' = Flows /\ AllRequests' = AllRequests /\ FlowState' = FlowState
    BY RolesKept DEF Flows, AllRequests
  <1> QED
    BY Zenon, <1>1, <1>2 DEF Types, TypeOK, LoopOK, EventsOK, OutsideOK, Flows, AllRequests
=============================================================================
