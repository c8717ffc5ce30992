----------------------- MODULE SetupCommittee_proofs ------------------------
(***************************************************************************)
(* For any number of set-ups, committees and members, and whatever fails,  *)
(* crashes or is reorganised: a committee is set up by one flow, with the  *)
(* funded key, after BitVMX answered everything; and a flow fails for a    *)
(* reason only.                                                            *)
(*                                                                         *)
(* Every action keeps what holds of a flow, in memory and saved: its       *)
(* requests are those of the steps it reached, and it got past a step with *)
(* all of the answers.  Then the same for the save, for the committees and *)
(* for the keys, and what follows from all of them.                        *)
(***************************************************************************)
EXTENDS SetupCommittee_steps

-----------------------------------------------------------------------------
(* FlowsOK. *)

(* FlowOK of the next state. *)
OKAfter(f, fl) ==
    /\ \A r \in fl.reqs : StepOf(r) <= fl.step
    /\ \A r \in fl.reqs : <<f, r>> \in asked' \ answered' /\ ~IsTerminal(fl.step) => StepOf(r) = fl.step
    /\ {f} \X fl.got \subseteq answered'
    /\ fl.step \in SetupTakeKey..DepositKey => \A s \in SetupTakeKey..(fl.step - 1) : Requests(s) \subseteq fl.got
    /\ fl.step \in SignMyDisputeKey..FundMyBitVmx =>
           <<"answer", GetMyDisputeKey>> \in fl.got \/ (fl.step = FundMyBitVmx /\ saved'[1] # None)
    /\ fl.step = FundMyBitVmx => fl.funded \in Flow
    /\ fl.step = Failed => f \in faulty'
    /\ fl.step # NoFlow => f \in requested'
    /\ fl.com = None => fl.step \notin DepositP2PData..DepositKey
    /\ <<fl.com, "key">> \in deposits' => <<f, <<"penalization">>>> \in answered'

(* OKAfter is FlowOK of the next state: what a step requests does not      *)
(* change.                                                                 *)
LEMMA AfterIsNext ==
    ASSUME Types, [Next]_vars, \A f \in Flow : OKAfter(f, mem'[f]) /\ OKAfter(f, disk'[f])
    PROVE  FlowsOK'
  <1>1. \A s : Requests(s)' = Requests(s)
    BY RolesKept
  <1>2. \A r : StepOf(r)' = StepOf(r)
    BY DEF StepOf
  <1>3. ASSUME NEW f \in Flow PROVE FlowOK(f, mem[f])' /\ FlowOK(f, disk[f])'
    <2>1. OKAfter(f, mem'[f]) /\ OKAfter(f, disk'[f])
      BY Zenon
    <2> QED
      BY Zenon, <1>1, <2>1 DEF OKAfter, FlowOK
  <1> QED
    BY <1>3 DEF FlowsOK

(* A flow that stays as it is. *)
LEMMA KeptOK ==
    ASSUME NEW f \in Flow, NEW fl, FlowOK(f, fl),
           answered \subseteq answered', faulty \subseteq faulty', requested \subseteq requested',
           saved[1] # None => saved'[1] # None,
           \A r \in fl.reqs : <<f, r>> \in asked' \ answered' => <<f, r>> \in asked \ answered,
           <<fl.com, "key">> \in deposits' => \/ <<fl.com, "key">> \in deposits
                                            \/ <<f, <<"penalization">>>> \in answered'
    PROVE  OKAfter(f, fl)
    BY DEF OKAfter, FlowOK

(* A flow that was never started, or was swept, satisfies FlowOK. *)
LEMMA NoStateOK ==
    ASSUME Types', NEW f \in Flow PROVE OKAfter(f, NoState)
  <1>1. NoState.step = 0 /\ NoState.reqs = {} /\ NoState.got = {} /\ NoState.com = None
    BY DEF NoState, NoFlow
  <1>2. <<None, "key">> \notin deposits'
    BY SetupAssumption DEF Types, TypeOK
  <1> QED
    BY <1>1, <1>2 DEF OKAfter, NoFlow, SetupTakeKey, SignMyDisputeKey, FundMyBitVmx, Failed, DepositP2PData, DepositKey

(* An answer fits: the step waits for it and has the keys. *)
LEMMA NoMismatch ==
    ASSUME Types, FlowsOK, SaveInv, NEW f \in Flow, NEW r, Answers(f, r)
    PROVE  StepData(StepOf(r)) = StepData(mem[f].step) /\ ~NoKeys(mem[f], NextStep(mem[f].step))
  <1>1. StepOf(r) = mem[f].step
    BY Zenon, AnswersFacts
  <1>2. ASSUME NoKeys(mem[f], NextStep(mem[f].step)) PROVE FALSE
    <2>1. mem[f].step = FundMyBitVmx /\ keys = None /\ <<"answer", GetMyDisputeKey>> \notin mem[f].got
      BY <1>2, NextStepFacts DEF NoKeys
    <2>2. saved[1] # None
      <3>1. FlowOK(f, mem[f])
        BY DEF FlowsOK
      <3>2. mem[f].step \in SignMyDisputeKey..FundMyBitVmx
        BY <2>1 DEF SignMyDisputeKey, FundMyBitVmx
      <3> QED
        BY <2>1, <3>1, <3>2 DEF FlowOK
    <2> QED
      BY <2>1, <2>2 DEF SaveInv
  <1> QED
    BY <1>1, <1>2

(* A flow that may enter a step. *)
Ready(f, fl, next) ==
    /\ \A r \in fl.reqs : StepOf(r) <= next /\ <<f, r>> \notin asked \ answered'
    /\ {f} \X fl.got \subseteq answered'
    /\ next \in SetupTakeKey..DepositKey => \A s \in SetupTakeKey..(next - 1) : Requests(s) \subseteq fl.got
    /\ next \in SignMyDisputeKey..FundMyBitVmx =>
           <<"answer", GetMyDisputeKey>> \in fl.got \/ (next = FundMyBitVmx /\ saved'[1] # None)
    /\ f \in requested'
    /\ fl.com = None => next \notin DepositP2PData..DepositKey
    /\ <<fl.com, "key">> \in deposits \/ next = DepositKey => <<f, <<"penalization">>>> \in answered'

(* A step's calls deposit only what the step is for, and remove nothing. *)
LEMMA CallDeposits ==
    ASSUME NEW f, NEW fl, NEW next, NEW out, Call(f, fl, next, out)
    PROVE  /\ next \notin {DepositP2PData, DepositKey} => UNCHANGED deposits
           /\ next = DepositP2PData => deposits' \subseteq deposits \cup {<<fl.com, "data">>}
           /\ next = DepositKey => deposits' \subseteq deposits \cup {<<fl.com, "key">>}
           /\ deposits \subseteq deposits'
  <1>1. CASE next = ApplyToStream
    BY <1>1 DEF Call, ApplyToStream, DepositP2PData, DepositKey
  <1>2. CASE next = DepositP2PData
    BY <1>2 DEF Call, ApplyToStream, DepositP2PData, DepositKey, Deposit
  <1>3. CASE next = DepositKey
    BY <1>3 DEF Call, ApplyToStream, DepositP2PData, DepositKey, Deposit
  <1>4. CASE next \notin {ApplyToStream, DepositP2PData, DepositKey}
    BY <1>4 DEF Call
  <1> QED
    BY <1>1, <1>2, <1>3, <1>4

(* The key that a step's calls deposit is the one of the flow's committee. *)
LEMMA KeyDeposit ==
    ASSUME NEW f, NEW fl, NEW next, NEW out, Call(f, fl, next, out)
    PROVE  \A d : <<d, "key">> \in deposits' => <<d, "key">> \in deposits \/ (next = DepositKey /\ d = fl.com)
  BY CallDeposits

(* The fields of a flow that has just entered a step. *)
LEMMA BeginFields ==
    ASSUME Types, NEW f \in Flow, NEW fl \in FlowState, NEW next \in ValidateBalances..Done, NEW out,
           Begin(f, fl, next, out)
    PROVE  /\ mem'[f].step = IF out \in {"fatal", "minedFatal", "repeated"} THEN Failed ELSE next
           /\ mem'[f].reqs = IF out \in {"ok", "unsent"} THEN fl.reqs \cup Requests(next) ELSE fl.reqs
           /\ mem'[f].got = fl.got /\ mem'[f].com = fl.com
           /\ mem'[f].funded = IF next = FundMyBitVmx THEN MyKey(f) ELSE fl.funded
           /\ next = FundMyBitVmx => mem'[f].funded = MyKey(f)
  <1>1. mem'[f] = Entered(f, fl, next, out)
    BY DEF Begin
  <1> QED
    BY <1>1, EnteredType

(* A flow that begins to fund its BitVMX instance records its own key. *)
LEMMA BeginFunds ==
    ASSUME Types, NEW f \in Flow, NEW fl \in FlowState, NEW next \in ValidateBalances..Done, NEW out,
           Begin(f, fl, next, out)
    PROVE  next = FundMyBitVmx => mem'[f].funded = MyKey(f)
  BY Zenon, BeginFields

(* A flow that was ready for a step satisfies FlowOK once it has entered   *)
(* it.                                                                     *)
LEMMA BeginOK ==
    ASSUME Types, NEW f \in Flow, NEW fl \in FlowState, NEW next \in ValidateBalances..Done,
           NEW c, NEW s, NEW out \in Outcomes(c, s, next), ~Repeated(c, next),
           Begin(f, fl, next, out), Ready(f, fl, next)
    PROVE  OKAfter(f, mem'[f])
  <1> DEFINE g == mem'[f]
  <1>1. /\ g.step = IF out \in {"fatal", "minedFatal", "repeated"} THEN Failed ELSE next
        /\ g.reqs = IF out \in {"ok", "unsent"} THEN fl.reqs \cup Requests(next) ELSE fl.reqs
        /\ g.got = fl.got /\ g.com = fl.com
        /\ g.funded = IF next = FundMyBitVmx THEN MyKey(f) ELSE fl.funded
    <2>1. g = Entered(f, fl, next, out)
      BY DEF Begin
    <2> QED
      BY <2>1, EnteredType
  <1> HIDE DEF g
  <1>2. out # "repeated"
    BY DEF Outcomes
  <1>3. g.step = Failed => f \in faulty'
    <2>1. next # Failed
      BY DEF ValidateBalances, Done, Failed
    <2> QED
      BY <1>1, <1>2, <2>1 DEF Begin, Fault
  <1>4. next <= g.step /\ g.step \in Int /\ next \in Int
    BY <1>1 DEF ValidateBalances, Done, Failed
  <1>5. \A r \in Requests(next) : StepOf(r) = next
    BY RequestsOfStep
  <1>6. \A r \in g.reqs : StepOf(r) <= g.step
    <2>1. \A r \in fl.reqs : StepOf(r) \in Int
      <3>1. ASSUME NEW r \in fl.reqs PROVE \E x \in ValidateBalances..DepositKey : r \in Requests(x)
        BY DEF FlowState
      <3> QED
        BY <3>1, RequestsOfStep DEF ValidateBalances, DepositKey, Done
    <2>2. ASSUME NEW r \in g.reqs PROVE StepOf(r) <= g.step
      <3>1. CASE r \in fl.reqs
        <4>1. StepOf(r) <= next /\ StepOf(r) \in Int
          BY Zenon, <2>1, <3>1 DEF Ready
        <4> QED
          BY <1>4, <4>1
      <3>2. CASE r \in Requests(next)
        BY <1>4, <1>5, <3>2
      <3>3. r \in fl.reqs \/ r \in Requests(next)
        BY <1>1, <2>2
      <3> QED
        BY <3>1, <3>2, <3>3
    <2> QED
      BY <2>2
  <1>7. \A r \in g.reqs : <<f, r>> \in asked' \ answered' /\ ~IsTerminal(g.step) => StepOf(r) = g.step
    <2> SUFFICES ASSUME NEW r \in g.reqs, <<f, r>> \in asked' \ answered', ~IsTerminal(g.step)
                 PROVE  StepOf(r) = g.step
      OBVIOUS
    <2>1. g.step = next
      BY <1>1 DEF IsTerminal
    <2>2. r \in Requests(next)
      BY Zenon, <1>1 DEF Ready, Begin
    <2> QED
      BY <1>5, <2>1, <2>2
  <1>8. MyKey(f) \in Flow
    BY Zenon DEF MyKey, Types, TypeOK
  <1>9. <<g.com, "key">> \in deposits' => <<f, <<"penalization">>>> \in answered'
    <2>1. Call(f, fl, next, out)
      BY DEF Begin
    <2> QED
      BY SMTT(30), <1>1, <2>1, CallDeposits DEF Ready
  <1>10. g.step # Failed => g.step = next
    BY Zenon, <1>1
  <1>11. /\ Failed \notin SetupTakeKey..DepositKey /\ Failed \notin SignMyDisputeKey..FundMyBitVmx
         /\ Failed \notin DepositP2PData..DepositKey /\ Failed # FundMyBitVmx
    BY DEF Failed, SetupTakeKey, DepositKey, SignMyDisputeKey, FundMyBitVmx, DepositP2PData
  <1>12. OKAfter(f, g)
    BY <1>1, <1>3, <1>6, <1>7, <1>8, <1>9, <1>10, <1>11 DEF OKAfter, Ready
  <1> QED
    BY <1>12 DEF g

(* What is saved of a flow is not ahead of it. *)
LEMMA SavedIsBehind ==
    ASSUME Types, SaveInv, pc \in {"idle", "block"}, NEW f \in Flow
    PROVE  disk[f].step <= mem[f].step /\ disk[f].step \in Int /\ mem[f].step \in Int
  <1>1. disk[f].step \in Int /\ mem[f].step \in Int
    BY DEF Types, TypeOK, FlowState, NoFlow, Failed
  <1>2. \/ disk[f].step = mem[f].step
        \/ mem[f].step = ApplyToStream /\ disk[f].step = FundMyBitVmx
        \/ mem[f].step = ValidateBalances /\ disk[f].step = NoFlow
    BY Zenon DEF SaveInv
  <1> QED
    BY <1>1, <1>2 DEF ApplyToStream, FundMyBitVmx, ValidateBalances, NoFlow

(* A flow a user requests is ready for its first step. *)
LEMMA RequestedReady ==
    ASSUME Types, FlowsOK, NEW f \in Flow, Requested(f)
    PROVE  Ready(f, NoState, ValidateBalances) /\ disk[f].step < ValidateBalances
  <1>1. NoState.reqs = {} /\ NoState.got = {} /\ NoState.com = None
    BY DEF NoState
  <1>2. <<None, "key">> \notin deposits
    BY SetupAssumption DEF Types, TypeOK
  <1>3. disk[f].step = NoFlow
    BY Zenon DEF FlowsOK, FlowOK, Requested
  <1> QED
    BY <1>1, <1>2, <1>3 DEF Ready, Requested, ValidateBalances, NoFlow, SetupTakeKey, DepositKey,
                            SignMyDisputeKey, FundMyBitVmx, DepositP2PData

(* Every request belongs to the step it tells. *)
LEMMA StepOfRequest ==
    ASSUME NEW r \in AllRequests
    PROVE  StepOf(r) \in ValidateBalances..DepositKey /\ r \in Requests(StepOf(r))
  <1>1. PICK s \in ValidateBalances..DepositKey : r \in Requests(s)
    BY DEF AllRequests
  <1>2. s \in ValidateBalances..Done
    BY DEF ValidateBalances, DepositKey, Done
  <1> QED
    BY <1>1, <1>2, RequestsOfStep

(* A flow that got all the answers of its step has no open request.        *)
LEMMA NoneOpen ==
    ASSUME Types, FlowsOK, NEW f \in Flow, ~IsTerminal(mem[f].step), answered \subseteq answered',
           {f} \X Requests(mem[f].step) \subseteq answered',
           NEW r \in mem[f].reqs
    PROVE  StepOf(r) <= mem[f].step /\ <<f, r>> \notin asked \ answered'
  <1>1. r \in AllRequests /\ FlowOK(f, mem[f])
    BY DEF Types, TypeOK, FlowState, AllRequests, FlowsOK
  <1>2. StepOf(r) <= mem[f].step
    BY Zenon, <1>1 DEF FlowOK
  <1>3. ASSUME <<f, r>> \in asked \ answered' PROVE FALSE
    <2>1. StepOf(r) = mem[f].step
      BY <1>1, <1>3 DEF FlowOK
    <2> QED
      BY <1>1, <1>3, <2>1, StepOfRequest
  <1> QED
    BY <1>2, <1>3

(* What the steps with one request, or none, ask of BitVMX. *)
LEMMA SingleRequests ==
    /\ Requests(GetMyDisputeKey) = {<<"answer", GetMyDisputeKey>>}
    /\ Requests(SetupPenalization) = {<<"penalization">>}
    /\ \A s \in Calls \cup {Done} : Requests(s) = {}
    BY DEF Requests, OneRequest, Penalization, GetMyDisputeKey, Calls, Done, ApplyToStream, DepositP2PData, DepositKey,
           SetupPairwiseKeys, SetupDisputeCore, RequestVars, SetupChannels, SetupPenalization

(* A flow with every answer of its step is ready for the next, which       *)
(* nothing on disk has reached.                                            *)
LEMMA CompletedReady ==
    ASSUME Types, FlowsOK, SaveInv, NEW f \in Flow, NEW r, Answers(f, r), Completed(f, r)
    PROVE  LET fl   == [mem[f] EXCEPT !.got = Got(mem[f], r)]
               next == NextStep(mem[f].step)
           IN Ready(f, fl, next) /\ disk[f].step < next /\ ~Repeated(mem[f].com, next)
  <1> DEFINE s    == mem[f].step
             fl   == [mem[f] EXCEPT !.got = Got(mem[f], r)]
             next == NextStep(s)
  <1>0. /\ fl.reqs = mem[f].reqs /\ fl.got = Got(mem[f], r) /\ fl.com = mem[f].com
        /\ FlowOK(f, mem[f]) /\ answered \subseteq answered' /\ saved' = saved
    BY DEF Types, TypeOK, FlowState, FlowsOK, Answers
  <1>1. /\ s \in ValidateBalances..DepositKey /\ next \in ValidateBalances..Done /\ s \notin Calls
        /\ next = s + 1 \/ (s = GetMyCommInfo /\ next = FundMyBitVmx /\ keys # None)
        /\ next # DepositP2PData
        /\ r \in Requests(s)
    BY Zenon, AnswersFacts, NextStepFacts
  <1>2. /\ mem[f].got \subseteq fl.got /\ {f} \X fl.got \subseteq answered' /\ Requests(s) \subseteq fl.got
    BY <1>0, GotFacts DEF Completed
  <1>3. s < next /\ s \in Int /\ next \in Int
    BY <1>1 DEF ValidateBalances, DepositKey, Done, GetMyCommInfo, FundMyBitVmx
  <1> HIDE DEF fl, next
  <1>4. \A x \in fl.reqs : StepOf(x) <= next /\ <<f, x>> \notin asked \ answered'
    <2> SUFFICES ASSUME NEW x \in mem[f].reqs PROVE StepOf(x) <= next /\ <<f, x>> \notin asked \ answered'
      BY <1>0
    <2>1. ~IsTerminal(s) /\ {f} \X Requests(s) \subseteq answered'
      BY <1>2 DEF Answers
    <2>2. StepOf(x) <= s /\ <<f, x>> \notin asked \ answered'
      BY <1>0, <2>1, NoneOpen
    <2>3. StepOf(x) \in Int
      BY StepOfRequest DEF Types, TypeOK, FlowState, AllRequests, ValidateBalances, DepositKey
    <2> QED
      BY <1>3, <2>2, <2>3
  <1>5. next \in SetupTakeKey..DepositKey => \A x \in SetupTakeKey..(next - 1) : Requests(x) \subseteq fl.got
    <2> SUFFICES ASSUME next \in SetupTakeKey..DepositKey, NEW x \in SetupTakeKey..(next - 1)
                 PROVE  Requests(x) \subseteq fl.got
      OBVIOUS
    <2>1. next = s + 1 /\ s \in SetupTakeKey..DepositKey
      BY <1>1, <1>3 DEF SetupTakeKey, DepositKey, FundMyBitVmx, Calls, DepositP2PData
    <2>2. x = s \/ x \in SetupTakeKey..(s - 1)
      BY <1>3, <2>1 DEF SetupTakeKey
    <2>3. \A y \in SetupTakeKey..(s - 1) : Requests(y) \subseteq mem[f].got
      BY Zenon, <1>0, <2>1 DEF FlowOK
    <2> QED
      BY Zenon, <1>2, <2>2, <2>3
  <1>6. next \in SignMyDisputeKey..FundMyBitVmx =>
           <<"answer", GetMyDisputeKey>> \in fl.got \/ (next = FundMyBitVmx /\ saved'[1] # None)
    <2> SUFFICES ASSUME next \in SignMyDisputeKey..FundMyBitVmx
                 PROVE  <<"answer", GetMyDisputeKey>> \in fl.got \/ (next = FundMyBitVmx /\ saved'[1] # None)
      OBVIOUS
    <2>1. CASE s = GetMyCommInfo /\ next = FundMyBitVmx /\ keys # None
      BY Zenon, <1>0, <2>1 DEF SaveInv, Answers
    <2>2. CASE s = GetMyDisputeKey
      BY Zenon, <1>2, <2>2, SingleRequests
    <2>3. CASE next = s + 1 /\ s # GetMyDisputeKey
      <3>1. s \in SignMyDisputeKey..FundMyBitVmx /\ s # FundMyBitVmx
        BY <1>3, <2>3 DEF SignMyDisputeKey, FundMyBitVmx, GetMyDisputeKey
      <3> QED
        BY Zenon, <1>0, <1>2, <3>1 DEF FlowOK
    <2> QED
      BY <1>1, <2>1, <2>2, <2>3
  <1>7. f \in requested'
    <2>1. s # NoFlow
      BY <1>1 DEF ValidateBalances, NoFlow, DepositKey
    <2> QED
      BY Zenon, <1>0, <2>1 DEF FlowOK, Answers
  <1>8. fl.com = None => next \notin DepositP2PData..DepositKey
    <2> SUFFICES ASSUME next \in DepositP2PData..DepositKey PROVE fl.com # None
      OBVIOUS
    <2>1. s \in DepositP2PData..DepositKey
      BY <1>1, <1>3 DEF DepositP2PData, DepositKey, FundMyBitVmx, Calls, ApplyToStream
    <2> QED
      BY Zenon, <1>0, <2>1 DEF FlowOK
  <1>9. next = DepositKey => s = SetupPenalization
    BY <1>1, <1>3 DEF DepositKey, SetupPenalization, FundMyBitVmx
  <1>10. <<fl.com, "key">> \in deposits \/ next = DepositKey => <<f, <<"penalization">>>> \in answered'
    BY Zenon, <1>0, <1>2, <1>9, SingleRequests DEF FlowOK
  <1>11. ~Repeated(mem[f].com, next)
    <2> SUFFICES ASSUME next = DepositKey, <<mem[f].com, "key">> \in deposits PROVE FALSE
      BY <1>1 DEF Repeated
    <2>1. <<f, <<"penalization">>>> \in answered
      BY Zenon, <1>0 DEF FlowOK
    <2>2. r = <<"penalization">>
      BY <1>1, <1>9, SingleRequests
    <2> QED
      BY <2>1, <2>2 DEF Answers
  <1>12. disk[f].step < next
    BY <1>3, SavedIsBehind DEF Answers
  <1>13. Ready(f, fl, next)
    BY <1>2, <1>4, <1>5, <1>6, <1>7, <1>8, <1>10 DEF Ready
  <1> QED
    BY <1>11, <1>12, <1>13 DEF fl, next

(* A flow that waits for an event has no open request. *)
LEMMA CallsReady ==
    ASSUME Types, FlowsOK, SaveInv, NEW f \in Flow, NEW fl, NEW next \in {DepositP2PData, SetupTakeKey, Done},
           mem[f].step \in Calls, mem[f].step < next, pc = "block",
           UNCHANGED <<answered, requested, saved>>,
           fl.reqs = mem[f].reqs, fl.got = mem[f].got,
           fl.com = None => next \notin DepositP2PData..DepositKey,
           <<fl.com, "key">> \in deposits => <<f, <<"penalization">>>> \in answered
    PROVE  Ready(f, fl, next) /\ disk[f].step < next
  <1> DEFINE s == mem[f].step
  <1>0. FlowOK(f, mem[f]) /\ s \in Int /\ next \in Int /\ s # NoFlow /\ ~IsTerminal(s)
    BY DEF FlowsOK, Types, TypeOK, FlowState, Calls, NoFlow, ApplyToStream, DepositP2PData, DepositKey,
           SetupTakeKey, Done, IsTerminal, Failed
  <1>1. \A x \in fl.reqs : StepOf(x) <= next /\ <<f, x>> \notin asked \ answered'
    <2> SUFFICES ASSUME NEW x \in mem[f].reqs PROVE StepOf(x) <= next /\ <<f, x>> \notin asked \ answered'
      OBVIOUS
    <2>1. {f} \X Requests(s) \subseteq answered'
      BY Zenon, SingleRequests
    <2>2. StepOf(x) <= s /\ <<f, x>> \notin asked \ answered'
      BY Zenon, <1>0, <2>1, NoneOpen
    <2>3. StepOf(x) \in Int
      BY StepOfRequest DEF Types, TypeOK, FlowState, AllRequests, ValidateBalances, DepositKey
    <2> QED
      BY <1>0, <2>2, <2>3
  <1>2. next \in SetupTakeKey..DepositKey => SetupTakeKey..(next - 1) = {}
    BY DEF DepositP2PData, SetupTakeKey, Done, DepositKey
  <1>3. next \notin SignMyDisputeKey..FundMyBitVmx /\ next # DepositKey
    BY DEF DepositP2PData, SetupTakeKey, Done, SignMyDisputeKey, FundMyBitVmx, DepositKey
  <1>4. disk[f].step < next
    BY <1>0, SavedIsBehind
  <1>5. {f} \X fl.got \subseteq answered' /\ f \in requested'
    BY Zenon, <1>0 DEF FlowOK
  <1> QED
    BY <1>1, <1>2, <1>3, <1>4, <1>5 DEF Ready

(* A flow selected for a committee is ready to deposit its P2P data. *)
LEMMA JoinsReady ==
    ASSUME Types, FlowsOK, SaveInv, ComInv, NEW f \in Flow, NEW e \in Event, e[2] = "pending",
           Confirms(e), Joins(f, e[1])
    PROVE  /\ Ready(f, [mem[f] EXCEPT !.com = e[1]], DepositP2PData) /\ disk[f].step < DepositP2PData
           /\ ~Repeated(e[1], DepositP2PData)
  <1> DEFINE fl == [mem[f] EXCEPT !.com = e[1]]
  <1>1. fl.reqs = mem[f].reqs /\ fl.got = mem[f].got /\ fl.com = e[1] /\ e[1] \in Committee
    BY DEF Types, TypeOK, FlowState, Event
  <1>2. e = <<e[1], "pending">>
    BY DEF Event
  <1>3. Waiting(e[1])
    BY <1>2 DEF Waiting, Confirms
  <1>4. <<e[1], "data">> \notin deposits /\ <<e[1], "key">> \notin deposits
    BY <1>1, <1>3 DEF ComInv
  <1>5. e[1] # None
    BY <1>1, SetupAssumption
  <1>6. mem[f].step \in Calls /\ mem[f].step < DepositP2PData /\ DepositP2PData # DepositKey
    BY DEF Joins, Calls, ApplyToStream, DepositP2PData, DepositKey
  <1> HIDE DEF fl
  <1>7. Ready(f, fl, DepositP2PData) /\ disk[f].step < DepositP2PData
    BY Zenon, <1>1, <1>4, <1>5, <1>6, CallsReady DEF Confirms
  <1> QED
    BY <1>4, <1>6, <1>7 DEF fl, Repeated

(* A flow whose contract call was confirmed is ready for the step after    *)
(* it.                                                                     *)
LEMMA AdvancesReady ==
    ASSUME Types, FlowsOK, SaveInv, NEW f \in Flow, NEW e, Confirms(e), NEW step \in Calls,
           NEW next \in {SetupTakeKey, Done}, next = SetupTakeKey => step = DepositP2PData, Advances(f, step, next)
    PROVE  Ready(f, mem[f], next) /\ disk[f].step < next /\ \A c : ~Repeated(c, next)
  <1>1. FlowOK(f, mem[f]) /\ mem[f].step = step
    BY Zenon DEF FlowsOK, Advances
  <1>2. step < next
    BY DEF Calls, ApplyToStream, DepositP2PData, DepositKey, SetupTakeKey, Done
  <1>3. mem[f].com = None => next \notin DepositP2PData..DepositKey
    BY SMTT(30), <1>1 DEF FlowOK, DepositP2PData, DepositKey, SetupTakeKey, Done
  <1>4. <<mem[f].com, "key">> \in deposits => <<f, <<"penalization">>>> \in answered
    BY Zenon, <1>1 DEF FlowOK
  <1>5. \A c : ~Repeated(c, next)
    BY DEF Repeated, DepositP2PData, DepositKey, SetupTakeKey, Done
  <1> QED
    BY Zenon, <1>1, <1>2, <1>3, <1>4, <1>5, CallsReady DEF Confirms

(* Waiting of the next state. *)
WaitingAfter(c) == <<c, "pending">> \notin emitted' \/ <<c, "pending">> \in logs' \cup confirming'

(* A flow that enters a step, whatever brought it there. *)
Enters(f, fl, next, out) ==
    /\ fl \in FlowState /\ next \in ValidateBalances..Done
    /\ \E c \in Committee \cup {None} : \E s \in NoFlow..DepositKey : out \in Outcomes(c, s, next) /\ ~Repeated(c, next)
    /\ Begin(f, fl, next, out) /\ Ready(f, fl, next)
    /\ disk[f].step < next
    /\ pc \in {"idle", "block"}
    /\ answered \subseteq answered' /\ requested \subseteq requested'
    /\ \/ fl.com = mem[f].com \/ fl.com = None
       \/ next = DepositP2PData /\ fl.com \in Committee /\ Waiting(fl.com)
    /\ next = DepositKey => fl.com = mem[f].com /\ fl.com \in Committee
    /\ mine' = IF next = DepositP2PData THEN mine \cup {fl.com} ELSE mine
    /\ next = DepositP2PData => ~WaitingAfter(fl.com)
    /\ next \in KeySteps => keys = None
    /\ IF next = ApplyToStream
       THEN stage < 2 /\ stage' = 2 /\ mem[f].step = FundMyBitVmx /\ fl.funded = mem[f].funded
       ELSE stage <= stage'
    /\ mem' \in Flows /\ disk' \in Flows

(* A handler that enters a step keeps FlowOK of every flow, in memory and  *)
(* saved.                                                                  *)
LEMMA EntersOK ==
    ASSUME Types, Types', FlowsOK, ComInv, NEW f \in Flow, NEW fl, NEW next, NEW out, Enters(f, fl, next, out),
           NEW g \in Flow
    PROVE  OKAfter(g, mem'[g]) /\ OKAfter(g, disk'[g])
  <1>1. PICK c, s : out \in Outcomes(c, s, next) /\ ~Repeated(c, next)
    BY Zenon DEF Enters
  <1>2. OKAfter(f, mem'[f])
    BY Zenon, <1>1, BeginOK DEF Enters
  <1>3. /\ answered \subseteq answered' /\ faulty \subseteq faulty' /\ requested \subseteq requested'
        /\ saved' = saved /\ Call(f, fl, next, out)
        /\ asked' \subseteq asked \cup ({f} \X Requests(next))
        /\ Others(f) /\ disk'[f] \in {disk[f], NoState}
    BY DEF Enters, Begin, Fault, KeepsDisk
  <1>4. OKAfter(g, NoState)
    BY NoStateOK
  <1>5. OKAfter(f, disk[f])
    <2>1. \A r \in disk[f].reqs : <<f, r>> \in asked' \ answered' => <<f, r>> \in asked \ answered
      <3> SUFFICES ASSUME NEW r \in disk[f].reqs, r \in Requests(next) PROVE FALSE
        BY <1>3
      <3>1. StepOf(r) = next
        BY Zenon, RequestsOfStep DEF Enters
      <3>2. StepOf(r) <= disk[f].step
        BY Zenon DEF FlowsOK, FlowOK
      <3>3. disk[f].step < next /\ next \in Int /\ disk[f].step \in Int
        <4>1. disk[f].step < next /\ next \in ValidateBalances..Done /\ disk[f] \in FlowState
          BY Zenon DEF Enters, Types, TypeOK
        <4>2. disk[f].step \in NoFlow..Failed
          BY Zenon, <4>1 DEF FlowState
        <4> QED
          BY <4>1, <4>2 DEF ValidateBalances, Done, NoFlow, Failed
      <3> QED
        BY <3>1, <3>2, <3>3
    <2>2. <<disk[f].com, "key">> \in deposits' => \/ <<disk[f].com, "key">> \in deposits
                                                 \/ <<f, <<"penalization">>>> \in answered'
      BY Zenon, <1>3, CallDeposits DEF Enters, Ready
    <2>3. FlowOK(f, disk[f])
      BY Zenon DEF FlowsOK
    <2> QED
      BY Zenon, <1>3, <2>1, <2>2, <2>3, KeptOK
  <1>6. ASSUME g # f PROVE OKAfter(g, mem[g]) /\ OKAfter(g, disk[g])
    <2>1. \A r : <<g, r>> \in asked' \ answered' => <<g, r>> \in asked \ answered
      BY Zenon, <1>3, <1>6
    <2>2. \A d \in {mem[g].com, disk[g].com} : <<d, "key">> \in deposits' => <<d, "key">> \in deposits
      <3>1. next = DepositKey => fl.com = mem[f].com /\ mem[f].com # None
        BY Zenon, SetupAssumption DEF Enters
      <3>2. mem[f].com # None => mem[f].com \notin {mem[g].com, disk[g].com}
        BY Zenon, <1>6 DEF ComInv
      <3>3. \A d : <<d, "key">> \in deposits' => <<d, "key">> \in deposits \/ (next = DepositKey /\ d = fl.com)
        BY Zenon, <1>3, KeyDeposit
      <3> QED
        BY Zenon, <3>1, <3>2, <3>3
    <2>3. FlowOK(g, mem[g]) /\ FlowOK(g, disk[g])
      BY Zenon DEF FlowsOK
    <2> QED
      BY Zenon, <1>3, <2>1, <2>2, <2>3, KeptOK
  <1>7. g # f => mem'[g] \in {mem[g], NoState} /\ disk'[g] \in {disk[g], NoState}
    BY Zenon, <1>3 DEF Others
  <1> QED
    BY Zenon, <1>2, <1>3, <1>4, <1>5, <1>6, <1>7

(* A user's request enters the first step. *)
LEMMA RequestedEnters ==
    ASSUME Types, FlowsOK, NEW f \in Flow, Requested(f)
    PROVE  \E out : Enters(f, NoState, ValidateBalances, out)
  <1>1. PICK out \in Outcomes(None, NoFlow, ValidateBalances) : Begin(f, NoState, ValidateBalances, out)
    BY DEF Requested
  <1>2. Ready(f, NoState, ValidateBalances) /\ disk[f].step < ValidateBalances
    BY RequestedReady
  <1>3. /\ ValidateBalances \in ValidateBalances..Done /\ NoFlow \in NoFlow..DepositKey
        /\ ValidateBalances \notin {DepositP2PData, DepositKey, ApplyToStream} \cup KeySteps
    BY DEF ValidateBalances, Done, NoFlow, DepositKey, DepositP2PData, ApplyToStream, KeySteps, GetMyTakeKey
  <1>4. ~Repeated(None, ValidateBalances)
    BY <1>3 DEF Repeated
  <1>5. NoState.com = None /\ stage <= stage'
    <2>1. NoState.com = None
      BY DEF NoState
    <2>2. stage < 1 /\ stage' = 1
      BY Zenon DEF Requested
    <2>3. stage \in 0..4
      BY Zenon DEF Types, TypeOK
    <2> QED
      BY <2>1, <2>2, <2>3
  <1>6. Enters(f, NoState, ValidateBalances, out)
    BY Zenon, <1>1, <1>2, <1>3, <1>4, <1>5, NoStateType DEF Enters, Requested
  <1> QED
    BY <1>6

(* The last answer of a step enters the next. *)
LEMMA CompletedEnters ==
    ASSUME Types, FlowsOK, SaveInv, NEW f \in Flow, NEW r, Answered(f, r), Completed(f, r)
    PROVE  \E fl, next, out : Enters(f, fl, next, out)
  <1> DEFINE fl   == [mem[f] EXCEPT !.got = Got(mem[f], r)]
             next == NextStep(mem[f].step)
  <1>0. Answers(f, r) /\ mem' \in Flows /\ disk' \in Flows
    BY DEF Answered
  <1>1. PICK out \in Outcomes(mem[f].com, mem[f].step, next) : Begin(f, fl, next, out)
    BY DEF Completed
  <1>2. Ready(f, fl, next) /\ disk[f].step < next /\ ~Repeated(mem[f].com, next)
    BY <1>0, CompletedReady
  <1>3. /\ mem[f].step \in NoFlow..DepositKey /\ next \in ValidateBalances..Done
        /\ fl \in FlowState /\ fl.com = mem[f].com /\ fl.funded = mem[f].funded
    <2>1. mem[f].step \in ValidateBalances..DepositKey /\ next \in ValidateBalances..Done /\ fl \in FlowState
      BY <1>0, AnswersFacts
    <2>2. fl.com = mem[f].com /\ fl.funded = mem[f].funded
      BY DEF Types, TypeOK, FlowState
    <2> QED
      BY <2>1, <2>2 DEF ValidateBalances, NoFlow, DepositKey
  <1>4. /\ next # DepositP2PData /\ (next = DepositKey => mem[f].com \in Committee)
        /\ next = ApplyToStream => mem[f].step = FundMyBitVmx
    BY Zenon, <1>0, NextStepFacts
  <1>5. /\ next \in KeySteps => keys = None
        /\ mine' = mine
    BY DEF Completed, Panics
  <1>6. /\ pc = "idle" /\ answered \subseteq answered' /\ requested' = requested
        /\ stage < 2 /\ stage' = 2 /\ stage <= stage'
    <2>1. /\ pc = "idle" /\ answered \subseteq answered' /\ requested' = requested
          /\ stage < 2 /\ stage' = 2
      BY Zenon, <1>0 DEF Answers
    <2>2. stage \in 0..4
      BY Zenon DEF Types, TypeOK
    <2>3. stage <= stage'
      BY <2>1, <2>2
    <2> QED
      BY Zenon, <2>1, <2>3
  <1>7. mem[f].com \in Committee \cup {None}
    BY Zenon DEF Types, TypeOK, FlowState
  <1> HIDE DEF fl, next
  <1>8. Enters(f, fl, next, out)
    BY Zenon, <1>0, <1>1, <1>2, <1>3, <1>4, <1>5, <1>6, <1>7 DEF Enters
  <1> QED
    BY <1>8

(* Being selected enters the deposit of the P2P data. *)
LEMMA JoinsEnters ==
    ASSUME Types, FlowsOK, SaveInv, ComInv, NEW f \in Flow, NEW e \in Event, ConfirmedMove(e, f),
           e[2] = "pending", Joins(f, e[1])
    PROVE  \E fl, next, out : Enters(f, fl, next, out)
  <1> DEFINE fl == [mem[f] EXCEPT !.com = e[1]]
  <1>0. Confirms(e) /\ mem' \in Flows /\ disk' \in Flows
    BY DEF ConfirmedMove
  <1>1. PICK out \in Outcomes(e[1], ApplyToStream, DepositP2PData) : Begin(f, fl, DepositP2PData, out)
    BY DEF Joins
  <1>2. Ready(f, fl, DepositP2PData) /\ disk[f].step < DepositP2PData /\ ~Repeated(e[1], DepositP2PData)
    BY <1>0, JoinsReady
  <1>3. fl \in FlowState /\ fl.com = e[1] /\ e[1] \in Committee
    BY DEF Types, TypeOK, FlowState, Event
  <1>4. /\ DepositP2PData \in ValidateBalances..Done /\ ApplyToStream \in NoFlow..DepositKey
        /\ DepositP2PData \notin {DepositKey, ApplyToStream} \cup KeySteps
    BY DEF ValidateBalances, Done, NoFlow, DepositKey, DepositP2PData, ApplyToStream, KeySteps, SignMyCommKey
  <1>5. e = <<e[1], "pending">>
    BY DEF Event
  <1>6. Waiting(e[1]) /\ ~WaitingAfter(e[1])
    BY Zenon, <1>0, <1>5 DEF Waiting, WaitingAfter, Confirms, ComInv
  <1>7. /\ pc = "block" /\ stage <= stage' /\ mine' = mine \cup {e[1]}
        /\ UNCHANGED <<answered, requested>>
    BY <1>0 DEF Confirms, Joins, Types, TypeOK
  <1> HIDE DEF fl
  <1>8. Enters(f, fl, DepositP2PData, out)
    BY Zenon, <1>0, <1>1, <1>2, <1>3, <1>4, <1>6, <1>7 DEF Enters
  <1> QED
    BY <1>8

(* A confirmed call enters the step after it. *)
LEMMA AdvancesEnters ==
    ASSUME Types, FlowsOK, SaveInv, NEW f \in Flow, NEW e, ConfirmedMove(e, f),
           NEW step \in Calls, NEW next \in {SetupTakeKey, Done},
           next = SetupTakeKey => step = DepositP2PData, Advances(f, step, next)
    PROVE  \E out : Enters(f, mem[f], next, out)
  <1>0. Confirms(e) /\ mem' \in Flows /\ disk' \in Flows /\ mem[f] \in FlowState
    BY Zenon DEF ConfirmedMove, Types, TypeOK
  <1>1. PICK c \in {mem[f].com, None} : \E out \in Outcomes(c, step, next) : Begin(f, mem[f], next, out)
    BY DEF Advances
  <1>2. PICK out \in Outcomes(c, step, next) : Begin(f, mem[f], next, out)
    BY <1>1
  <1>3. Ready(f, mem[f], next) /\ disk[f].step < next /\ ~Repeated(c, next)
    BY Zenon, <1>0, AdvancesReady
  <1>4. /\ next \in ValidateBalances..Done /\ step \in NoFlow..DepositKey
        /\ next \notin {DepositP2PData, DepositKey, ApplyToStream} \cup KeySteps
    BY DEF ValidateBalances, Done, NoFlow, DepositKey, DepositP2PData, ApplyToStream, KeySteps, SignMyCommKey,
           SetupTakeKey, Calls, GetMyTakeKey
  <1>5. c \in Committee \cup {None}
    BY Zenon, <1>0 DEF FlowState
  <1>6. /\ pc = "block" /\ stage <= stage' /\ mine' = mine
        /\ UNCHANGED <<answered, requested>>
    <2>1. pc = "block" /\ stage' = stage /\ mine' = mine /\ UNCHANGED <<answered, requested>>
      BY Zenon, <1>0 DEF Confirms, Advances
    <2>2. stage \in 0..4
      BY Zenon DEF Types, TypeOK
    <2>3. stage <= stage'
      BY <2>1, <2>2
    <2> QED
      BY Zenon, <2>1, <2>3
  <1>7. Enters(f, mem[f], next, out)
    BY Zenon, <1>0, <1>2, <1>3, <1>4, <1>5, <1>6 DEF Enters
  <1> QED
    BY <1>7

(* A flow that fails, for a reason. *)
Breaks(f) ==
    /\ mem[f].step # NoFlow /\ Fails(f) /\ faulty' = faulty \cup {f}
    /\ pc \in {"idle", "block"} /\ stage <= stage'
    /\ answered \subseteq answered' /\ UNCHANGED requested
    /\ mem' \in Flows /\ disk' \in Flows

Panicking(f) == Panics(NextStep(mem[f].step)) /\ Panic /\ disk' = Cleaned(disk)

(* Every step, in a state where the invariant holds: no flow fails for an  *)
(* answer that does not fit, for missing keys, for an event that is        *)
(* processed twice, or for a repeated deposit.                             *)
LEMMA Moves ==
    ASSUME Types, FlowsOK, SaveInv, ComInv, [Next]_vars
    PROVE  \/ Quiet
           \/ \E f \in Flow : \/ \E fl, next, out : Enters(f, fl, next, out)
                              \/ Breaks(f) \/ AdminFail(f)
                              \/ \E r : Answers(f, r) /\ (Panicking(f) \/ GotAnother(f, r))
           \/ Persist \/ Crash
  <1>1. ASSUME NEW f \in Flow, Requested(f) PROVE \E fl, next, out : Enters(f, fl, next, out)
    BY <1>1, RequestedEnters
  <1>2. ASSUME NEW f \in Flow, NEW r, Answered(f, r)
        PROVE  \/ \E fl, next, out : Enters(f, fl, next, out)
               \/ Breaks(f)
               \/ Answers(f, r) /\ (Panicking(f) \/ GotAnother(f, r))
    <2>0. Answers(f, r) /\ mem' \in Flows /\ disk' \in Flows
      BY <1>2 DEF Answered
    <2>1. ~(StepData(StepOf(r)) # StepData(mem[f].step) \/ NoKeys(mem[f], NextStep(mem[f].step)))
      BY <2>0, NoMismatch
    <2>2. CASE Fails(f) /\ faulty' = faulty \cup {f}
      <3>1. mem[f].step # NoFlow
        <4>1. mem[f].step \in ValidateBalances..DepositKey
          BY Zenon, <2>0, AnswersFacts
        <4> QED
          BY <4>1 DEF ValidateBalances, DepositKey, NoFlow
      <3>2. pc = "idle" /\ stage <= stage' /\ answered \subseteq answered' /\ UNCHANGED requested
        <4>1. pc = "idle" /\ stage < 2 /\ stage' = 2 /\ answered \subseteq answered' /\ UNCHANGED requested
          BY Zenon, <2>0 DEF Answers
        <4>2. stage \in 0..4
          BY Zenon DEF Types, TypeOK
        <4>3. stage <= stage'
          BY <4>1, <4>2
        <4> QED
          BY Zenon, <4>1, <4>3
      <3> QED
        BY <2>0, <2>2, <3>1, <3>2 DEF Breaks
    <2>3. CASE Completed(f, r)
      BY <1>2, <2>3, CompletedEnters
    <2>4. CASE Panics(NextStep(mem[f].step)) /\ Panic /\ disk' = Cleaned(disk)
      BY <2>0, <2>4 DEF Panicking
    <2>5. CASE GotAnother(f, r)
      BY <2>0, <2>5
    <2> QED
      BY Zenon, <1>2, <2>1, <2>2, <2>3, <2>4, <2>5 DEF Answered
  <1>3. ASSUME NEW f \in Flow, NEW e \in Event, ConfirmedMove(e, f) PROVE \E fl, next, out : Enters(f, fl, next, out)
    <2>1. ASSUME e[2] = "pending", e[1] \in mine PROVE FALSE
      <3>1. e[1] \in Committee /\ e = <<e[1], "pending">> /\ e \in confirming
        BY <1>3, <2>1 DEF Event, ConfirmedMove, Confirms
      <3>2. Waiting(e[1])
        BY <3>1 DEF Waiting
      <3> QED
        BY Zenon, <2>1, <3>1, <3>2 DEF ComInv
    <2>2. CASE e[2] = "pending" /\ Joins(f, e[1])
      BY <1>3, <2>2, JoinsEnters
    <2>3. CASE Advances(f, ApplyToStream, Done) \/ Advances(f, DepositP2PData, SetupTakeKey) \/ Advances(f, DepositKey, Done)
      <3>1. PICK step \in Calls, next \in {SetupTakeKey, Done} :
                Advances(f, step, next) /\ (next = SetupTakeKey => step = DepositP2PData)
        BY <2>3 DEF Calls, SetupTakeKey, Done
      <3> QED
        BY <1>3, <3>1, AdvancesEnters
    <2> QED
      BY <1>3, <2>1, <2>2, <2>3 DEF ConfirmedMove
  <1> QED
    BY <1>1, <1>2, <1>3, StepCases

(* Every step keeps FlowsOK. *)
LEMMA FlowsStep ==
    ASSUME Types, FlowsOK, SaveInv, ComInv, [Next]_vars
    PROVE  FlowsOK'
  <1>0. Types' /\ mem' \in Flows /\ disk' \in Flows
    BY TypesStep, FlowsType
  <1> SUFFICES ASSUME NEW g \in Flow PROVE OKAfter(g, mem'[g]) /\ OKAfter(g, disk'[g])
    BY AfterIsNext
  <1>1. OKAfter(g, NoState) /\ FlowOK(g, mem[g]) /\ FlowOK(g, disk[g])
    BY Zenon, <1>0, NoStateOK DEF FlowsOK
  <1>2. ASSUME answered \subseteq answered', faulty \subseteq faulty', requested \subseteq requested',
               saved[1] # None => saved'[1] # None, asked' \ answered' \subseteq asked \ answered,
               deposits' \subseteq deposits, NEW fl, FlowOK(g, fl)
        PROVE  OKAfter(g, fl)
    BY Zenon, <1>2, KeptOK
  <1>3. CASE Quiet
    <2>1. saved[1] # None => saved'[1] # None
      BY <1>3 DEF Quiet, SaveInv
    <2>2. OKAfter(g, mem[g]) /\ OKAfter(g, disk[g])
      BY Zenon, <1>1, <1>2, <1>3, <2>1 DEF Quiet
    <2>3. g \in Flow \ {None} /\ Others(None)
      BY <1>3, SetupAssumption DEF Quiet
    <2> QED
      BY Zenon, <1>1, <2>2, <2>3 DEF Others
  <1>4. ASSUME NEW f \in Flow, NEW fl, NEW next, NEW out, Enters(f, fl, next, out)
        PROVE  OKAfter(g, mem'[g]) /\ OKAfter(g, disk'[g])
    BY <1>0, <1>4, EntersOK
  <1>5. ASSUME NEW f \in Flow, Breaks(f) PROVE OKAfter(g, mem'[g]) /\ OKAfter(g, disk'[g])
    <2>1. OKAfter(g, mem[g]) /\ OKAfter(g, disk[g])
      <3>1. UNCHANGED <<asked, deposits, saved>>
        BY <1>5 DEF Breaks, Fails, registry
      <3> QED
        BY Zenon, <1>1, <1>2, <1>5, <3>1 DEF Breaks
    <2>2. Others(f) /\ KeepsDisk(f) /\ mem'[f] = [mem[f] EXCEPT !.step = Failed]
      BY <1>5 DEF Breaks, Fails
    <2>3. CASE g = f
      <3> DEFINE fl == mem'[f]
      <3>1. /\ fl.step = Failed /\ fl.reqs = mem[f].reqs /\ fl.got = mem[f].got /\ fl.com = mem[f].com
            /\ fl.funded = mem[f].funded
        BY <2>2 DEF Types, TypeOK, FlowState
      <3>2. \A r \in fl.reqs : StepOf(r) <= Failed
        BY <3>1, StepOfRequest DEF Types, TypeOK, FlowState, AllRequests, ValidateBalances, DepositKey, Failed
      <3>3. f \in faulty' /\ f \in requested'
        <4>1. Failed # NoFlow /\ mem[f].step # NoFlow
          BY <1>5 DEF Failed, NoFlow, Breaks
        <4> QED
          BY Zenon, <1>1, <1>5, <2>3, <4>1 DEF Breaks, FlowOK
      <3>4. /\ Failed \notin SetupTakeKey..DepositKey /\ Failed \notin SignMyDisputeKey..FundMyBitVmx
            /\ Failed \notin DepositP2PData..DepositKey /\ Failed # FundMyBitVmx /\ IsTerminal(Failed)
        BY DEF Failed, SetupTakeKey, DepositKey, SignMyDisputeKey, FundMyBitVmx, DepositP2PData, IsTerminal
      <3> HIDE DEF fl
      <3>5. OKAfter(f, fl)
        BY Zenon, <2>1, <2>3, <3>1, <3>2, <3>3, <3>4 DEF OKAfter
      <3> QED
        BY <1>1, <2>1, <2>2, <2>3, <3>5 DEF fl, KeepsDisk
    <2>4. CASE g # f
      BY <1>1, <2>1, <2>2, <2>4 DEF Others
    <2> QED
      BY <2>3, <2>4
  <1>6. ASSUME NEW f \in Flow, AdminFail(f) PROVE OKAfter(g, mem'[g]) /\ OKAfter(g, disk'[g])
    <2>1. OKAfter(g, mem[g]) /\ OKAfter(g, disk[g])
      <3>1. UNCHANGED <<asked, answered, requested, deposits, saved>> /\ faulty \subseteq faulty'
        BY <1>6 DEF AdminFail, rsk, registry, bitvmx
      <3> QED
        BY Zenon, <1>1, <1>2, <3>1
    <2>2. mem'[g] \in {mem[g], NoState} /\ disk'[g] \in {disk[g], NoState}
      BY <1>6, CleanedFacts DEF AdminFail, Flows
    <2> QED
      BY Zenon, <1>1, <2>1, <2>2
  <1>7. ASSUME NEW f \in Flow, NEW r, Answers(f, r), Panicking(f) PROVE OKAfter(g, mem'[g]) /\ OKAfter(g, disk'[g])
    <2>1. OKAfter(g, mem[g]) /\ OKAfter(g, disk[g])
      <3>1. /\ UNCHANGED <<asked, requested, deposits, saved, faulty>> /\ answered \subseteq answered'
        BY Zenon, <1>7 DEF Panicking, Panic, Answers, registry
      <3> QED
        BY Zenon, <1>1, <1>2, <3>1
    <2>2. mem'[g] = mem[g] /\ disk'[g] \in {disk[g], NoState}
      BY <1>7, CleanedFacts DEF Panicking, Panic
    <2> QED
      BY Zenon, <1>1, <2>1, <2>2
  <1>8. ASSUME NEW f \in Flow, NEW r, Answers(f, r), GotAnother(f, r)
        PROVE  OKAfter(g, mem'[g]) /\ OKAfter(g, disk'[g])
    <2>1. OKAfter(g, mem[g]) /\ OKAfter(g, disk[g])
      <3>1. /\ UNCHANGED <<asked, requested, deposits, saved, faulty>> /\ answered \subseteq answered'
        BY <1>8 DEF GotAnother, Answers
      <3> QED
        BY Zenon, <1>1, <1>2, <3>1
    <2>2. Others(f) /\ disk'[f] = disk[f] /\ mem'[f] = [mem[f] EXCEPT !.got = Got(mem[f], r)]
      BY <1>8 DEF GotAnother
    <2>3. CASE g = f
      <3> DEFINE fl == mem'[f]
      <3>1. /\ fl.step = mem[f].step /\ fl.reqs = mem[f].reqs /\ fl.got = Got(mem[f], r)
            /\ fl.com = mem[f].com /\ fl.funded = mem[f].funded
        <4>1. mem[f] \in FlowState
          BY Zenon DEF Types, TypeOK
        <4> QED
          BY <2>2, <4>1 DEF FlowState
      <3>2. mem[f].got \subseteq fl.got /\ {f} \X fl.got \subseteq answered'
        <4>1. mem[f].got \subseteq Got(mem[f], r) /\ {f} \X Got(mem[f], r) \subseteq answered'
          BY Zenon, <1>8, GotFacts
        <4> QED
          BY Zenon, <3>1, <4>1
      <3> HIDE DEF fl
      <3>3. OKAfter(f, fl)
        BY Zenon, <2>1, <2>3, <3>1, <3>2 DEF OKAfter
      <3> QED
        BY <2>1, <2>2, <2>3, <3>3 DEF fl
    <2>4. CASE g # f
      BY <1>1, <2>1, <2>2, <2>4 DEF Others
    <2> QED
      BY <2>3, <2>4
  <1>9. CASE Persist
    <2>1. OKAfter(g, mem[g]) /\ OKAfter(g, disk[g])
      <3>1. UNCHANGED <<asked, answered, requested, deposits, saved, faulty>>
        BY <1>9 DEF Persist, rsk, registry, bitvmx
      <3> QED
        BY Zenon, <1>1, <1>2, <3>1
    <2>2. mem'[g] = mem[g] /\ disk'[g] \in {disk[g], mem[g]}
      BY Zenon, <1>9 DEF Persist, Types, TypeOK
    <2> QED
      BY Zenon, <2>1, <2>2
  <1>10. CASE Crash
    <2>1. OKAfter(g, disk[g])
      <3>1. UNCHANGED <<asked, answered, requested, deposits, saved, faulty>>
        BY <1>10 DEF Crash, rsk, registry, bitvmx
      <3> QED
        BY Zenon, <1>1, <1>2, <3>1
    <2> QED
      BY <1>10, <2>1 DEF Crash
  <1> QED
    BY Zenon, <1>3, <1>4, <1>5, <1>6, <1>7, <1>8, <1>9, <1>10, Moves

-----------------------------------------------------------------------------
(* SaveInv. *)

(* Every step keeps SaveInv. *)
LEMMA SaveStep ==
    ASSUME Types, FlowsOK, SaveInv, ComInv, [Next]_vars
    PROVE  SaveInv'
  <1> DEFINE Lags(f) == \/ disk[f].step = mem[f].step
                        \/ mem[f].step = ApplyToStream /\ disk[f].step = FundMyBitVmx
                        \/ mem[f].step = ValidateBalances /\ disk[f].step = NoFlow
             LagsAfter(f) == \/ disk'[f].step = mem'[f].step
                             \/ pc' = "entered" /\ cur' = f
                             \/ mem'[f].step = ApplyToStream /\ disk'[f].step = FundMyBitVmx
                             \/ mem'[f].step = ValidateBalances /\ disk'[f].step = NoFlow
  <1>0. pc \in {"idle", "block"} => \A f \in Flow : Lags(f)
    BY Zenon DEF SaveInv
  <1>1. SUFFICES /\ pc' = "panicked" \/ \A f \in Flow : LagsAfter(f)
                 /\ saved'[1] # None => keys' = saved'[1]
                 /\ stage' < 2 => keys' = saved'[1]
    BY Zenon DEF SaveInv
  <1>2. stage \in Int /\ stage' \in Int
    <2>1. Types'
      BY TypesStep
    <2>2. stage \in 0..4 /\ stage' \in 0..4
      BY Zenon, <2>1 DEF Types, TypeOK
    <2> QED
      BY <2>2
  <1>3. ASSUME NEW f, Others(f), NEW g \in Flow \ {f}, Lags(g) PROVE LagsAfter(g)
    BY Zenon, <1>3 DEF Others
  <1>4. CASE Quiet
    <2>1. \A g \in Flow : g \in Flow \ {None}
      BY SetupAssumption
    <2>2. pc' = "panicked" \/ \A f \in Flow : LagsAfter(f)
      <3>1. CASE pc \in {"idle", "block"}
        BY Zenon, <1>0, <1>3, <1>4, <2>1, <3>1 DEF Quiet
      <3>2. CASE pc \notin {"idle", "block"}
        <4>1. pc' = pc /\ cur' = cur
          BY Zenon, <1>4, <3>2 DEF Quiet
        <4>2. ASSUME pc # "panicked", NEW g \in Flow PROVE LagsAfter(g)
          <5>1. CASE Lags(g)
            BY Zenon, <1>3, <1>4, <2>1, <5>1 DEF Quiet
          <5>2. CASE pc = "entered" /\ cur = g
            BY Zenon, <4>1, <5>2
          <5> QED
            BY Zenon, <4>2, <5>1, <5>2 DEF SaveInv
        <4> QED
          BY Zenon, <4>1, <4>2
      <3> QED
        BY Zenon, <3>1, <3>2
    <2>3. keys' = keys /\ ((saved' = saved /\ stage <= stage') \/ saved'[1] = keys)
      BY <1>4 DEF Quiet
    <2> QED
      <3>1. (saved[1] # None => keys = saved[1]) /\ (stage < 2 => keys = saved[1])
        BY Zenon DEF SaveInv
      <3>2. stage <= stage' /\ stage' < 2 => stage < 2
        BY <1>2
      <3> QED
        BY Zenon, <2>2, <2>3, <3>1, <3>2
  <1>5. ASSUME NEW f \in Flow, NEW fl, NEW next, NEW out, Enters(f, fl, next, out)
        PROVE  /\ \A g \in Flow : LagsAfter(g)
               /\ saved'[1] # None => keys' = saved'[1]
               /\ stage' < 2 => keys' = saved'[1]
    <2>1. Begin(f, fl, next, out) /\ Others(f) /\ KeepsDisk(f) /\ pc \in {"idle", "block"} /\ saved' = saved
      BY Zenon, <1>5 DEF Enters, Begin
    <2>2. LagsAfter(f)
      <3>1. CASE out \notin {"transient", "late"}
        BY Zenon, <2>1, <3>1 DEF Begin
      <3>2. CASE out \in {"transient", "late"}
        <4>1. next \in {ApplyToStream, ValidateBalances}
          BY Zenon, <1>5, <3>2 DEF Enters, Outcomes
        <4>2. mem'[f].step = next
          <5>1. fl \in FlowState /\ next \in ValidateBalances..Done
            BY Zenon, <1>5 DEF Enters
          <5>2. mem'[f].step = IF out \in {"fatal", "minedFatal", "repeated"} THEN Failed ELSE next
            BY Zenon, <2>1, <5>1, BeginFields
          <5> QED
            BY <3>2, <5>2
        <4>3. CASE next = ApplyToStream
          <5>1. mem[f].step = FundMyBitVmx
            BY Zenon, <1>5, <4>3 DEF Enters
          <5>2. disk[f].step = FundMyBitVmx
            <6>1. Lags(f) /\ pc # "entered"
              BY Zenon, <1>0, <2>1
            <6>2. FundMyBitVmx \notin {ApplyToStream, ValidateBalances}
              BY DEF ApplyToStream, FundMyBitVmx, ValidateBalances
            <6> QED
              BY Zenon, <5>1, <6>1, <6>2
          <5>3. disk'[f] = disk[f]
            <6>1. ~IsTerminal(FundMyBitVmx)
              BY DEF IsTerminal, FundMyBitVmx, Done, Failed
            <6> QED
              BY Zenon, <2>1, <5>1, <6>1 DEF KeepsDisk
          <5> QED
            BY <4>2, <4>3, <5>2, <5>3
        <4>4. CASE next = ValidateBalances
          <5>1. disk[f].step = NoFlow
            <6>1. disk[f].step < next
              BY Zenon, <1>5 DEF Enters
            <6>2. disk[f] \in FlowState
              BY Zenon DEF Types, TypeOK
            <6>3. disk[f].step \in NoFlow..Failed
              BY Zenon, <6>2 DEF FlowState
            <6> QED
              BY <4>4, <6>1, <6>3 DEF ValidateBalances, NoFlow, Failed
          <5>2. NoState.step = NoFlow
            BY DEF NoState
          <5> QED
            BY Zenon, <2>1, <4>2, <4>4, <5>1, <5>2 DEF KeepsDisk
        <4> QED
          BY Zenon, <4>1, <4>3, <4>4
      <3> QED
        BY Zenon, <3>1, <3>2
    <2>3. ASSUME NEW g \in Flow PROVE LagsAfter(g)
      BY Zenon, <1>0, <1>3, <2>1, <2>2
    <2>4. CASE next = ApplyToStream
      <3>1. stage < 2 /\ stage' = 2
        BY Zenon, <1>5, <2>4 DEF Enters
      <3>2. keys = saved[1]
        BY Zenon, <3>1 DEF SaveInv
      <3>3. keys # None => keys' = keys
        BY <2>1, <2>4 DEF Begin, Call, Apply, MyKey
      <3> QED
        <4>1. ~(stage' < 2)
          BY <3>1
        <4> QED
          BY Zenon, <2>1, <2>3, <3>2, <3>3, <4>1
    <2>5. CASE next # ApplyToStream
      <3>1. keys' = keys
        BY <2>1, <2>5 DEF Begin, Call
      <3>2. stage <= stage'
        BY Zenon, <1>5, <2>5 DEF Enters
      <3> QED
        <4>1. (saved[1] # None => keys = saved[1]) /\ (stage < 2 => keys = saved[1])
          BY Zenon DEF SaveInv
        <4>2. stage' < 2 => stage < 2
          BY <1>2, <3>2
        <4> QED
          BY Zenon, <2>1, <2>3, <3>1, <4>1, <4>2
    <2> QED
      BY Zenon, <2>4, <2>5
  <1>6. ASSUME NEW f \in Flow, Breaks(f)
        PROVE  /\ \A g \in Flow : LagsAfter(g)
               /\ UNCHANGED <<keys, saved>> /\ stage <= stage'
    BY <1>0, <1>3, <1>6 DEF Breaks, Fails
  <1>7. ASSUME NEW f \in Flow, AdminFail(f)
        PROVE  /\ \A g \in Flow : LagsAfter(g)
               /\ UNCHANGED <<keys, saved>> /\ stage <= stage'
    <2>1. pc = "idle" /\ UNCHANGED <<keys, saved>> /\ stage < 1 /\ stage' = 1
      BY <1>7 DEF AdminFail, context
    <2>2. ASSUME NEW g \in Flow PROVE LagsAfter(g)
      <3>1. \/ mem'[g] = mem[g] /\ disk'[g] = disk[g]
            \/ mem'[g] = NoState /\ disk'[g] = NoState
        BY <1>7, CleanedFacts DEF AdminFail, Flows
      <3> QED
        BY Zenon, <1>0, <2>1, <3>1
    <2> QED
      BY <1>2, <2>1, <2>2
  <1>8. ASSUME NEW f \in Flow, NEW r, Answers(f, r), Panicking(f)
        PROVE  pc' = "panicked" /\ UNCHANGED <<keys, saved>> /\ stage <= stage'
    BY <1>2, <1>8 DEF Answers, Panicking, Panic, context
  <1>9. ASSUME NEW f \in Flow, NEW r, Answers(f, r), GotAnother(f, r)
        PROVE  /\ \A g \in Flow : LagsAfter(g)
               /\ UNCHANGED <<keys, saved>> /\ stage <= stage'
    <2>1. /\ Others(f) /\ disk'[f] = disk[f] /\ pc = "idle" /\ UNCHANGED <<keys, saved>> /\ stage <= stage'
          /\ mem'[f] = [mem[f] EXCEPT !.got = Got(mem[f], r)]
      BY <1>2, <1>9 DEF GotAnother, Answers
    <2>2. mem'[f].step = mem[f].step
      BY <2>1 DEF Types, TypeOK, FlowState
    <2>3. LagsAfter(f)
      <3>1. Lags(f)
        BY <1>0, <2>1
      <3> QED
        BY <2>1, <2>2, <3>1
    <2>4. ASSUME NEW g \in Flow \ {f} PROVE LagsAfter(g)
      BY <1>0, <1>3, <2>1
    <2> HIDE DEF LagsAfter
    <2> QED
      BY <2>1, <2>3, <2>4
  <1>10. CASE Persist
    <2>1. /\ pc = "entered" /\ mem' = mem /\ UNCHANGED <<keys, saved, stage>> /\ disk' = [disk EXCEPT ![cur] = mem[cur]]
      BY <1>10 DEF Persist, context
    <2>2. ASSUME NEW g \in Flow PROVE LagsAfter(g)
      <3>1. disk'[g] = IF g = cur THEN mem[g] ELSE disk[g]
        BY Zenon, <2>1 DEF Types, TypeOK
      <3>2. Lags(g) \/ g = cur
        BY Zenon, <2>1 DEF SaveInv
      <3>3. CASE g = cur
        BY Zenon, <2>1, <3>1, <3>3
      <3>4. CASE g # cur
        BY Zenon, <2>1, <3>1, <3>2, <3>4
      <3> QED
        BY Zenon, <3>3, <3>4
    <2> QED
      BY Zenon, <2>1, <2>2 DEF SaveInv
  <1>11. CASE Crash
    BY <1>11 DEF Crash
  <1> HIDE DEF Lags, LagsAfter
  <1>12. ASSUME UNCHANGED <<keys, saved>>, stage <= stage'
         PROVE  (saved'[1] # None => keys' = saved'[1]) /\ (stage' < 2 => keys' = saved'[1])
    BY <1>2, <1>12 DEF SaveInv
  <1> QED
    BY Zenon, <1>4, <1>5, <1>6, <1>7, <1>8, <1>9, <1>10, <1>11, <1>12, Moves

-----------------------------------------------------------------------------
(* ComInv. *)

(* No event comes to wait again. *)
LEMMA WaitingStep ==
    ASSUME Types, ComInv, [Next]_vars
    PROVE  /\ \A c \in Committee : WaitingAfter(c) => Waiting(c)
           /\ logs' \cup confirming' \subseteq emitted' /\ logs' \cap confirming' = {}
           /\ \A c \in Committee : <<c, "pending">> \in emitted' <=> \E b \in BOOLEAN : <<c, b>> \in formed'
  <1>0. /\ logs \cup confirming \subseteq emitted /\ logs \cap confirming = {}
        /\ \A c \in Committee : <<c, "pending">> \in emitted <=> \E b \in BOOLEAN : <<c, b>> \in formed
    BY Zenon DEF ComInv
  <1> DEFINE Goal == /\ \A c \in Committee : WaitingAfter(c) => Waiting(c)
                     /\ logs' \cup confirming' \subseteq emitted' /\ logs' \cap confirming' = {}
                     /\ \A c \in Committee :
                           <<c, "pending">> \in emitted' <=> \E b \in BOOLEAN : <<c, b>> \in formed'
  <1>1. ASSUME UNCHANGED <<emitted, formed>>, logs' \cup confirming' \subseteq logs \cup confirming,
               logs' \cap confirming' = {}
        PROVE  Goal
    BY Zenon, <1>0, <1>1 DEF Waiting, WaitingAfter
  <1>2. ASSUME UNCHANGED <<events, formed>> PROVE Goal
    BY Zenon, <1>0, <1>1, <1>2 DEF events
  <1>3. ASSUME NEW e \in logs, logs' = logs \ {e}, confirming' = confirming \cup {e}, UNCHANGED <<emitted, formed>>
        PROVE  Goal
    BY Zenon, <1>0, <1>1, <1>3
  <1>4. ASSUME NEW e \in confirming, confirming' = confirming \ {e}, logs' = logs \cup {e}, UNCHANGED <<emitted, formed>>
        PROVE  Goal
    BY Zenon, <1>0, <1>1, <1>4
  <1>5. ASSUME confirming' \subseteq confirming, UNCHANGED <<logs, emitted, formed>> PROVE Goal
    BY Zenon, <1>0, <1>1, <1>5
  <1>6. ASSUME NEW c \in Committee, NEW b \in BOOLEAN, \A x \in BOOLEAN : <<c, x>> \notin formed,
               formed' = formed \cup {<<c, b>>}, emitted' = emitted \cup {<<c, "pending">>},
               logs' = logs \cup {<<c, "pending">>}, UNCHANGED confirming
        PROVE  Goal
    <2>1. <<c, "pending">> \notin emitted
      BY Zenon, <1>0, <1>6
    <2>2. logs' \cup confirming' \subseteq emitted' /\ logs' \cap confirming' = {}
      BY <1>0, <1>6, <2>1
    <2>3. ASSUME NEW d \in Committee
          PROVE  /\ WaitingAfter(d) => Waiting(d)
                 /\ <<d, "pending">> \in emitted' <=> \E x \in BOOLEAN : <<d, x>> \in formed'
      BY Zenon, <1>0, <1>6, <2>1 DEF Waiting, WaitingAfter
    <2> QED
      BY Zenon, <2>2, <2>3
  <1>7. ASSUME NEW c \in Committee, NEW what \in {"data", "ready"}, <<c, what>> \notin emitted,
               emitted' = emitted \cup {<<c, what>>}, logs' = logs \cup {<<c, what>>}, UNCHANGED <<confirming, formed>>
        PROVE  Goal
    <2>1. logs' \cup confirming' \subseteq emitted' /\ logs' \cap confirming' = {}
      BY <1>0, <1>7
    <2>2. ASSUME NEW d \in Committee
          PROVE  /\ WaitingAfter(d) => Waiting(d)
                 /\ <<d, "pending">> \in emitted' <=> \E x \in BOOLEAN : <<d, x>> \in formed'
      <3>1. <<d, "pending">> # <<c, what>>
        OBVIOUS
      <3>2. /\ <<d, "pending">> \in emitted' <=> <<d, "pending">> \in emitted
            /\ <<d, "pending">> \in logs' \cup confirming' <=> <<d, "pending">> \in logs \cup confirming
        BY <1>7, <3>1
      <3> QED
        BY Zenon, <1>0, <1>7, <3>2 DEF Waiting, WaitingAfter
    <2> QED
      BY Zenon, <2>1, <2>2
  <1> HIDE DEF Goal
  <1>8. Goal
    <2>1. CASE /\ \E e \in logs : logs' = logs \ {e} /\ confirming' = confirming \cup {e}
               /\ UNCHANGED <<emitted, todo, formed>>
      BY <1>3, <2>1
    <2>2. CASE /\ \E e \in confirming : confirming' = confirming \ {e} /\ logs' = logs \cup {e}
               /\ todo = {} /\ UNCHANGED <<emitted, todo, formed>>
      BY Zenon, <1>4, <2>2
    <2>3. CASE todo' \subseteq confirming /\ UNCHANGED <<logs, emitted, confirming, formed>>
      BY <1>5, <2>3
    <2>6. CASE /\ \E e \in todo : todo' = todo \ {e} /\ confirming' = confirming \ {e}
               /\ UNCHANGED <<logs, emitted, formed>>
      BY <1>5, <2>6
    <2>7. CASE confirming' = {} /\ todo' = {} /\ UNCHANGED <<logs, emitted, formed>>
      BY <1>5, <2>7
    <2>4. CASE \E c \in Committee, b \in BOOLEAN :
                    /\ \A x \in BOOLEAN : <<c, x>> \notin formed
                    /\ formed' = formed \cup {<<c, b>>}
                    /\ emitted' = emitted \cup {<<c, "pending">>} /\ logs' = logs \cup {<<c, "pending">>}
                    /\ UNCHANGED <<confirming, todo>>
      BY <1>6, <2>4
    <2>5. CASE \E c \in Committee, what \in {"data", "ready"} :
                    /\ <<c, what>> \notin emitted
                    /\ emitted' = emitted \cup {<<c, what>>} /\ logs' = logs \cup {<<c, what>>}
                    /\ UNCHANGED <<confirming, todo, formed>>
      BY Zenon, <1>7, <2>5
    <2> QED
      BY Zenon, <1>2, <2>1, <2>2, <2>3, <2>4, <2>5, <2>6, <2>7, EventMoves
  <1> QED
    BY <1>8 DEF Goal

(* The committees of the flows, after a step. *)
ComAfter ==
    /\ \A c \in Committee : WaitingAfter(c) =>
           /\ c \notin mine' /\ c \notin saved'[2]
           /\ \A f \in Flow : mem'[f].com # c /\ disk'[f].com # c
           /\ \A what \in {"data", "key"} : <<c, what>> \notin deposits'
    /\ \A f, g \in Flow : mem'[f].com # None /\ mem'[f].com \in {mem'[g].com, disk'[g].com} => f = g
    /\ \A f, g \in Flow : disk'[f].com # None /\ disk'[f].com = disk'[g].com => f = g
    /\ ~lost' => \A f \in Flow : mem'[f].com # None => mem'[f].com \in mine'

(* ComAfter is ComInv of the next state. *)
LEMMA ComAfterIsNext ==
    ASSUME Types, ComInv, [Next]_vars, ComAfter PROVE ComInv'
  <1>1. \A f, g \in Flow : mem'[f].com # None /\ mem'[f].com = mem'[g].com => f = g
    BY Zenon DEF ComAfter
  <1>2. OneFlowPerCommittee'
    BY Zenon, <1>1 DEF ComAfter, OneFlowPerCommittee
  <1>3. \A c \in Committee : Waiting(c)' <=> WaitingAfter(c)
    BY DEF Waiting, WaitingAfter
  <1> QED
    BY Zenon, <1>2, <1>3, WaitingStep DEF ComInv, ComAfter

(* The flows keep their committees, or lose them. *)
LEMMA ComKept ==
    ASSUME Types, ComInv, [Next]_vars, deposits' \subseteq deposits, mine' = mine, lost' = lost,
           saved' = saved \/ saved' = <<keys, mine>>,
           \A f \in Flow : mem'[f].com \in {mem[f].com, None} /\ disk'[f].com \in {disk[f].com, None}
    PROVE  ComAfter
  <1>1. \A c \in Committee : c # None
    BY SetupAssumption
  <1>2. \A f \in Flow : mem'[f].com = mem[f].com \/ mem'[f].com = None
    BY Zenon
  <1>3. \A f \in Flow : disk'[f].com = disk[f].com \/ disk'[f].com = None
    BY Zenon
  <1>4. ASSUME NEW c \in Committee, WaitingAfter(c)
        PROVE  /\ c \notin mine' /\ c \notin saved'[2]
               /\ \A f \in Flow : mem'[f].com # c /\ disk'[f].com # c
               /\ \A what \in {"data", "key"} : <<c, what>> \notin deposits'
    <2>1. Waiting(c)
      BY Zenon, <1>4, WaitingStep
    <2>2. /\ c \notin mine /\ c \notin saved[2]
          /\ \A f \in Flow : mem[f].com # c /\ disk[f].com # c
          /\ \A what \in {"data", "key"} : <<c, what>> \notin deposits
      BY Zenon, <2>1 DEF ComInv
    <2>3. c \notin mine' /\ \A what \in {"data", "key"} : <<c, what>> \notin deposits'
      BY Zenon, <2>2
    <2>4. c \notin saved'[2]
      <3>1. <<keys, mine>>[2] = mine
        OBVIOUS
      <3> QED
        BY Zenon, <2>2, <3>1
    <2>5. \A f \in Flow : mem'[f].com # c /\ disk'[f].com # c
      BY Zenon, <1>1, <1>2, <1>3, <2>2
    <2> QED
      BY Zenon, <2>3, <2>4, <2>5
  <1>5. \A f, g \in Flow : mem'[f].com # None /\ mem'[f].com \in {mem'[g].com, disk'[g].com} => f = g
    <2> SUFFICES ASSUME NEW f \in Flow, NEW g \in Flow, mem'[f].com # None, mem'[f].com \in {mem'[g].com, disk'[g].com}
                 PROVE  f = g
      BY Zenon
    <2>1. mem[f].com = mem'[f].com /\ mem[f].com \in {mem[g].com, disk[g].com}
      BY Zenon, <1>2, <1>3
    <2> QED
      BY Zenon, <2>1 DEF ComInv
  <1>6. \A f, g \in Flow : disk'[f].com # None /\ disk'[f].com = disk'[g].com => f = g
    BY Zenon, <1>3 DEF ComInv
  <1>7. ~lost' => \A f \in Flow : mem'[f].com # None => mem'[f].com \in mine'
    BY Zenon, <1>2 DEF ComInv, OneFlowPerCommittee
  <1> QED
    BY Zenon, <1>4, <1>5, <1>6, <1>7 DEF ComAfter

(* Every step keeps ComInv. *)
LEMMA ComStep ==
    ASSUME Types, FlowsOK, SaveInv, ComInv, [Next]_vars
    PROVE  ComInv'
  <1> SUFFICES ComAfter
    BY ComAfterIsNext
  <1>0. NoState.com = None /\ \A c \in Committee : c # None
    BY Zenon, SetupAssumption DEF NoState
  <1>1. ASSUME NEW f, Others(f), NEW g \in Flow \ {f}
        PROVE  mem'[g].com \in {mem[g].com, None} /\ disk'[g].com \in {disk[g].com, None}
    BY Zenon, <1>0, <1>1 DEF Others
  <1>2. CASE Quiet
    <2>1. \A g \in Flow : g \in Flow \ {None}
      BY SetupAssumption
    <2>2. \A g \in Flow : mem'[g].com \in {mem[g].com, None} /\ disk'[g].com \in {disk[g].com, None}
      BY Zenon, <1>1, <1>2, <2>1 DEF Quiet
    <2> QED
      BY Zenon, <1>2, <2>2, ComKept DEF Quiet
  <1>3. ASSUME NEW f \in Flow, NEW fl, NEW next, NEW out, Enters(f, fl, next, out) PROVE ComAfter
    <2>1. /\ Begin(f, fl, next, out) /\ fl \in FlowState /\ next \in ValidateBalances..Done
          /\ Others(f) /\ KeepsDisk(f) /\ Call(f, fl, next, out) /\ UNCHANGED <<saved, lost>>
      BY Zenon, <1>3 DEF Enters, Begin
    <2>2. mem'[f].com = fl.com
      BY Zenon, <2>1, BeginFields
    <2>3. \A g \in Flow \ {f} : mem'[g].com \in {mem[g].com, None}
      BY Zenon, <1>1, <2>1
    <2>4. \A g \in Flow : disk'[g].com \in {disk[g].com, None}
      BY Zenon, <1>0, <1>1, <2>1 DEF KeepsDisk
    <2>5. /\ mine' = IF next = DepositP2PData THEN mine \cup {fl.com} ELSE mine
          /\ next = DepositP2PData => ~WaitingAfter(fl.com)
          /\ next = DepositKey => fl.com = mem[f].com /\ fl.com \in Committee
          /\ \/ fl.com = mem[f].com \/ fl.com = None
             \/ next = DepositP2PData /\ fl.com \in Committee /\ Waiting(fl.com)
      BY Zenon, <1>3 DEF Enters
    <2>6. deposits' \subseteq deposits \cup IF next \in {DepositP2PData, DepositKey} THEN {<<fl.com, "data">>, <<fl.com, "key">>} ELSE {}
      BY Zenon, <2>1, CallDeposits
    <2>7. ASSUME NEW c \in Committee, WaitingAfter(c)
          PROVE  /\ c \notin mine' /\ c \notin saved'[2]
                 /\ \A g \in Flow : mem'[g].com # c /\ disk'[g].com # c
                 /\ \A what \in {"data", "key"} : <<c, what>> \notin deposits'
      <3>1. /\ c \notin mine /\ c \notin saved[2]
            /\ \A g \in Flow : mem[g].com # c /\ disk[g].com # c
            /\ \A what \in {"data", "key"} : <<c, what>> \notin deposits
        <4>1. Waiting(c)
          BY <2>7, WaitingStep
        <4> QED
          BY Zenon, <4>1 DEF ComInv
      <3>2. fl.com # c
        BY Zenon, <1>0, <2>5, <2>7, <3>1
      <3>3. \A g \in Flow : mem'[g].com # c /\ disk'[g].com # c
        BY Zenon, <1>0, <2>2, <2>3, <2>4, <3>1, <3>2
      <3>4. \A what \in {"data", "key"} : <<c, what>> \notin deposits'
        BY Zenon, <2>6, <3>1, <3>2
      <3> QED
        BY Zenon, <2>1, <2>5, <3>1, <3>2, <3>3, <3>4
    <2>8. ASSUME NEW g \in Flow, g # f, fl.com # None PROVE fl.com \notin {mem[g].com, disk[g].com}
      <3>1. CASE fl.com = mem[f].com
        BY Zenon, <2>8, <3>1 DEF ComInv
      <3>2. CASE fl.com \in Committee /\ Waiting(fl.com)
        BY Zenon, <3>2 DEF ComInv
      <3> QED
        BY Zenon, <2>5, <2>8, <3>1, <3>2
    <2>9. ASSUME NEW g \in Flow, NEW h \in Flow, mem'[g].com # None, mem'[g].com \in {mem'[h].com, disk'[h].com}
          PROVE  g = h
      <3>1. CASE g = f /\ h # f
        BY Zenon, <2>2, <2>3, <2>4, <2>8, <2>9, <3>1
      <3>2. CASE g # f /\ h = f
        <4>1. mem'[g].com = mem[g].com
          BY Zenon, <2>3, <2>9, <3>2
        <4>2. CASE mem'[g].com = fl.com
          BY Zenon, <2>8, <2>9, <3>2, <4>1, <4>2
        <4>3. CASE mem'[g].com = disk'[f].com
          BY Zenon, <2>4, <2>9, <3>2, <4>1, <4>3 DEF ComInv
        <4> QED
          BY Zenon, <2>2, <2>9, <3>2, <4>2, <4>3
      <3>3. CASE g # f /\ h # f
        <4>1. mem'[g].com = mem[g].com /\ mem[g].com \in {mem[h].com, disk[h].com}
          BY Zenon, <2>3, <2>4, <2>9, <3>3
        <4> QED
          BY Zenon, <2>9, <4>1 DEF ComInv
      <3> QED
        BY <3>1, <3>2, <3>3
    <2>10. \A g, h \in Flow : disk'[g].com # None /\ disk'[g].com = disk'[h].com => g = h
      BY Zenon, <2>4 DEF ComInv
    <2>11. ASSUME ~lost', NEW g \in Flow, mem'[g].com # None PROVE mem'[g].com \in mine'
      <3>0. ~lost /\ mine \subseteq mine' /\ \A h \in Flow : mem[h].com # None => mem[h].com \in mine
        BY Zenon, <2>1, <2>5, <2>11 DEF ComInv, OneFlowPerCommittee
      <3>1. CASE g = f
        BY Zenon, <2>2, <2>5, <2>11, <3>0, <3>1
      <3>2. CASE g # f
        BY Zenon, <2>3, <2>11, <3>0, <3>2
      <3> QED
        BY <3>1, <3>2
    <2> QED
      BY Zenon, <2>7, <2>9, <2>10, <2>11 DEF ComAfter
  <1>4. ASSUME NEW f \in Flow, Breaks(f) PROVE ComAfter
    <2>1. /\ Others(f) /\ KeepsDisk(f) /\ mem'[f] = [mem[f] EXCEPT !.step = Failed]
          /\ UNCHANGED <<deposits, mine, lost, saved>>
      BY <1>4 DEF Breaks, Fails, registry
    <2>2. mem'[f].com = mem[f].com
      BY <2>1 DEF Types, TypeOK, FlowState
    <2>3. \A g \in Flow : mem'[g].com \in {mem[g].com, None} /\ disk'[g].com \in {disk[g].com, None}
      BY Zenon, <1>0, <1>1, <2>1, <2>2 DEF KeepsDisk
    <2> QED
      BY <2>1, <2>3, ComKept
  <1>5. ASSUME NEW f \in Flow, AdminFail(f) PROVE ComAfter
    <2>1. UNCHANGED <<deposits, mine, lost, saved>>
      BY <1>5 DEF AdminFail, rsk, registry, context
    <2>2. \A g \in Flow : mem'[g] \in {mem[g], NoState} /\ disk'[g] \in {disk[g], NoState}
      BY <1>5, CleanedFacts DEF AdminFail, Flows
    <2>3. \A g \in Flow : mem'[g].com \in {mem[g].com, None} /\ disk'[g].com \in {disk[g].com, None}
      BY Zenon, <1>0, <2>2
    <2> QED
      BY Zenon, <2>1, <2>3, ComKept
  <1>6. ASSUME NEW f \in Flow, NEW r, Answers(f, r), Panicking(f) PROVE ComAfter
    <2>1. UNCHANGED <<deposits, mine, lost, saved>>
      BY Zenon, <1>6 DEF Answers, Panicking, Panic, registry, context
    <2>2. \A g \in Flow : mem'[g] = mem[g] /\ disk'[g] \in {disk[g], NoState}
      BY Zenon, <1>6, CleanedFacts DEF Panicking, Panic
    <2>3. \A g \in Flow : mem'[g].com \in {mem[g].com, None} /\ disk'[g].com \in {disk[g].com, None}
      BY Zenon, <1>0, <2>2
    <2> QED
      BY <2>1, <2>3, ComKept
  <1>7. ASSUME NEW f \in Flow, NEW r, Answers(f, r), GotAnother(f, r) PROVE ComAfter
    <2>1. /\ Others(f) /\ disk'[f] = disk[f] /\ mem'[f] = [mem[f] EXCEPT !.got = Got(mem[f], r)]
          /\ UNCHANGED <<deposits, mine, lost, saved>>
      BY <1>7 DEF GotAnother, Answers
    <2>2. mem'[f].com = mem[f].com
      BY <2>1 DEF Types, TypeOK, FlowState
    <2>3. \A g \in Flow : mem'[g].com \in {mem[g].com, None} /\ disk'[g].com \in {disk[g].com, None}
      BY Zenon, <1>1, <2>1, <2>2
    <2> QED
      BY <2>1, <2>3, ComKept
  <1>8. CASE Persist
    <2>1. /\ mem' = mem /\ UNCHANGED <<deposits, mine, lost, saved, emitted, logs, confirming>>
          /\ disk' = [disk EXCEPT ![cur] = mem[cur]]
      BY Zenon, <1>8 DEF Persist, rsk, registry, context
    <2>2. \A g \in Flow : disk'[g] = disk[g] \/ disk'[g] = mem[g]
      BY Zenon, <2>1 DEF Types, TypeOK
    <2>3. \A c : WaitingAfter(c) <=> Waiting(c)
      BY <2>1 DEF Waiting, WaitingAfter
    <2>4. \A c \in Committee : WaitingAfter(c) =>
              /\ c \notin mine' /\ c \notin saved'[2]
              /\ \A f \in Flow : mem'[f].com # c /\ disk'[f].com # c
              /\ \A what \in {"data", "key"} : <<c, what>> \notin deposits'
      BY Zenon, <2>1, <2>2, <2>3 DEF ComInv
    <2>5. \A f, g \in Flow : mem'[f].com # None /\ mem'[f].com \in {mem'[g].com, disk'[g].com} => f = g
      BY Zenon, <2>1, <2>2 DEF ComInv
    <2>6. \A f, g \in Flow : disk'[f].com # None /\ disk'[f].com = disk'[g].com => f = g
      <3> SUFFICES ASSUME NEW f \in Flow, NEW g \in Flow, disk'[f].com # None, disk'[f].com = disk'[g].com
                   PROVE  f = g
        BY Zenon
      <3>1. /\ \A h, k \in Flow : mem[h].com # None /\ mem[h].com \in {mem[k].com, disk[k].com} => h = k
            /\ \A h, k \in Flow : disk[h].com # None /\ disk[h].com = disk[k].com => h = k
        BY Zenon DEF ComInv
      <3>2. CASE disk'[f] = mem[f]
        <4>1. mem[f].com # None /\ (mem[f].com = disk[g].com \/ mem[f].com = mem[g].com)
          BY Zenon, <2>2, <3>2
        <4>2. mem[f].com \in {mem[g].com, disk[g].com}
          BY Zenon, <4>1
        <4> QED
          BY Zenon, <3>1, <4>1, <4>2
      <3>3. CASE disk'[f] = disk[f]
        <4>1. disk[f].com # None /\ (disk[f].com = disk[g].com \/ mem[g].com = disk[f].com)
          BY Zenon, <2>2, <3>3
        <4>2. CASE disk[f].com = disk[g].com
          BY Zenon, <3>1, <4>1, <4>2
        <4>3. CASE mem[g].com = disk[f].com
          <5>1. mem[g].com # None /\ mem[g].com \in {mem[f].com, disk[f].com}
            BY Zenon, <4>1, <4>3
          <5> QED
            BY Zenon, <3>1, <5>1
        <4> QED
          BY Zenon, <4>1, <4>2, <4>3
      <3> QED
        BY Zenon, <2>2, <3>2, <3>3
    <2>7. ~lost' => \A f \in Flow : mem'[f].com # None => mem'[f].com \in mine'
      BY Zenon, <2>1 DEF ComInv, OneFlowPerCommittee
    <2> QED
      BY <2>4, <2>5, <2>6, <2>7, Zenon DEF ComAfter
  <1>9. CASE Crash
    <2>1. /\ mem' = disk /\ disk' = disk /\ UNCHANGED <<deposits, saved>> /\ mine' = saved[2]
      BY <1>9 DEF Crash, rsk, registry
    <2>3. ~lost' => ~lost /\ mem = disk /\ mine = mine'
      <3>1. ~lost' => ~lost /\ mem = disk /\ context = saved
        BY Zenon, <1>9 DEF Crash
      <3>2. context = saved => mine = saved[2]
        BY DEF context
      <3> QED
        BY <2>1, <3>1, <3>2
    <2>2. \A c \in Committee : WaitingAfter(c) => Waiting(c)
      BY WaitingStep
    <2> QED
      BY Zenon, <2>1, <2>2, <2>3 DEF ComAfter, ComInv, OneFlowPerCommittee
  <1> QED
    BY <1>2, <1>3, <1>4, <1>5, <1>6, <1>7, <1>8, <1>9, Moves

-----------------------------------------------------------------------------
(* KeysInv. *)

(* Which steps make or sign the member's keys. *)
LEMMA KeyStepsFacts ==
    /\ KeySteps \subseteq GetMyTakeKey..FundMyBitVmx /\ FundMyBitVmx \in GetMyTakeKey..FundMyBitVmx
    /\ {NoFlow, ValidateBalances, FundMyBitVmx, ApplyToStream, Done, Failed} \cap KeySteps = {}
    BY DEF KeySteps, GetMyTakeKey, SignMyCommKey, FundMyBitVmx, NoFlow, ValidateBalances, ApplyToStream, Done, Failed

(* KeysInv of the next state, and what keeps it. *)
KeysAfter ==
    /\ \A f \in Flow : (mem'[f].step \in KeySteps \/ disk'[f].step \in KeySteps) /\ keys' # None => f \in overtaken'
    /\ lost' \/ \A f \in Flow : mem'[f].step = FundMyBitVmx =>
                                \/ mem'[f].funded = (IF keys' = None THEN f ELSE keys')
                                \/ f \in overtaken'
    /\ lost' \/ \A u \in used' : u.flow \in faulty' \/ (keys' # None /\ u.key = keys')
    /\ \A u \in used' : u.key = u.funded \/ u.flow \in overtaken' \/ lost'
    /\ pc' = "panicked" => overtaken' # {}

(* KeysAfter is KeysInv of the next state. *)
LEMMA KeysAfterIsNext == KeysAfter => KeysInv'
    BY Zenon DEF KeysAfter, KeysInv, MyKey, FundedKey, PanicsOvertaken

(* A step that leaves the saved keys alone, and moves no flow into the     *)
(* steps that use them, keeps KeysInv.                                     *)
LEMMA KeysKept ==
    ASSUME KeysInv, UNCHANGED <<keys, used, overtaken, lost>>, faulty \subseteq faulty',
           pc' = "panicked" => pc = "panicked" \/ overtaken # {},
           \A f \in Flow : mem'[f].step \in KeySteps \/ disk'[f].step \in KeySteps =>
                              mem[f].step \in KeySteps \/ disk[f].step \in KeySteps,
           \A f \in Flow : mem'[f].step = FundMyBitVmx => mem[f].step = FundMyBitVmx /\ mem'[f].funded = mem[f].funded
    PROVE  KeysAfter
  <1>1. \A f \in Flow : (mem'[f].step \in KeySteps \/ disk'[f].step \in KeySteps) /\ keys' # None => f \in overtaken'
    BY Zenon DEF KeysInv
  <1>2. lost' \/ \A f \in Flow : mem'[f].step = FundMyBitVmx =>
                                 \/ mem'[f].funded = (IF keys' = None THEN f ELSE keys')
                                 \/ f \in overtaken'
    <2> SUFFICES ASSUME ~lost, NEW f \in Flow, mem'[f].step = FundMyBitVmx
                 PROVE  mem'[f].funded = (IF keys = None THEN f ELSE keys) \/ f \in overtaken
      BY Zenon
    <2>1. mem[f].funded = MyKey(f) \/ f \in overtaken
      BY Zenon DEF KeysInv
    <2> QED
      BY Zenon, <2>1 DEF MyKey
  <1>3. lost' \/ \A u \in used' : u.flow \in faulty' \/ (keys' # None /\ u.key = keys')
    BY Zenon DEF KeysInv
  <1>4. \A u \in used' : u.key = u.funded \/ u.flow \in overtaken' \/ lost'
    BY Zenon DEF KeysInv, FundedKey
  <1>5. pc' = "panicked" => overtaken' # {}
    BY Zenon DEF KeysInv, PanicsOvertaken
  <1> QED
    BY Zenon, <1>1, <1>2, <1>3, <1>4, <1>5 DEF KeysAfter

(* A panic needs a flow that another one overtook: one that gets its keys  *)
(* while they are set.                                                     *)
LEMMA PanicFacts ==
    ASSUME Types, FlowsOK, KeysInv, NEW f \in Flow, NEW r, Answers(f, r), Panics(NextStep(mem[f].step))
    PROVE  overtaken # {}
  <1> DEFINE s == mem[f].step
  <1>1. s \in ValidateBalances..DepositKey
    BY Zenon, AnswersFacts
  <1>2. keys # None /\ NextStep(s) \in KeySteps
    BY DEF Panics
  <1>3. s \in KeySteps
    <2>1. s # GetMyCommInfo
      BY Zenon, <1>2, KeyStepsFacts DEF NextStep
    <2>2. s + 1 \in KeySteps
      BY Zenon, <1>2, <2>1 DEF NextStep
    <2> QED
      BY <1>1, <2>1, <2>2 DEF KeySteps, GetMyTakeKey, SignMyCommKey, GetMyCommInfo, ValidateBalances, DepositKey
  <1> QED
    BY Zenon, <1>2, <1>3 DEF KeysInv

(* Every step keeps KeysInv. *)
LEMMA KeysStep ==
    ASSUME Types, FlowsOK, SaveInv, ComInv, KeysInv, [Next]_vars
    PROVE  KeysInv'
  <1> SUFFICES KeysAfter
    BY KeysAfterIsNext
  <1> DEFINE AtKeys(g)      == mem[g].step \in KeySteps \/ disk[g].step \in KeySteps
             AtKeysAfter(g) == mem'[g].step \in KeySteps \/ disk'[g].step \in KeySteps
             FundsAfter(g)  == mem'[g].step = FundMyBitVmx =>
                                   mem[g].step = FundMyBitVmx /\ mem'[g].funded = mem[g].funded
  <1>0. NoState.step = NoFlow /\ NoFlow \notin KeySteps /\ NoFlow # FundMyBitVmx /\ Failed # FundMyBitVmx
    BY KeyStepsFacts DEF NoState, NoFlow, FundMyBitVmx, Failed
  <1>1. ASSUME NEW f, Others(f), NEW g \in Flow \ {f}
        PROVE  (AtKeysAfter(g) => AtKeys(g)) /\ FundsAfter(g)
    BY Zenon, <1>0, <1>1 DEF Others
  <1>2. CASE Quiet
    <2>1. \A g \in Flow : g \in Flow \ {None}
      BY SetupAssumption
    <2>2. \A g \in Flow : (AtKeysAfter(g) => AtKeys(g)) /\ FundsAfter(g)
      BY Zenon, <1>1, <1>2, <2>1 DEF Quiet
    <2>3. UNCHANGED <<keys, used, overtaken, lost>> /\ faulty \subseteq faulty' /\ (pc' = "panicked" => pc = "panicked")
      BY Zenon, <1>2 DEF Quiet
    <2> QED
      BY Zenon, <2>2, <2>3, KeysKept
  <1>3. ASSUME NEW f \in Flow, NEW fl, NEW next, NEW out, Enters(f, fl, next, out) PROVE KeysAfter
    <2>1. /\ Begin(f, fl, next, out) /\ fl \in FlowState /\ next \in ValidateBalances..Done
          /\ Others(f) /\ KeepsDisk(f) /\ Call(f, fl, next, out) /\ Fault(f, out) /\ lost' = lost
          /\ pc' # "panicked" /\ pc \in {"idle", "block"}
      BY Zenon, <1>3 DEF Enters, Begin
    <2>2. mem'[f].step = IF out \in {"fatal", "minedFatal", "repeated"} THEN Failed ELSE next
      BY Zenon, <2>1, BeginFields
    <2>3. next = FundMyBitVmx => mem'[f].funded = MyKey(f)
      BY Zenon, <2>1, BeginFunds
    <2>4. faulty \subseteq faulty'
      BY <2>1 DEF Fault
    <2>5. disk'[f].step \in KeySteps => disk[f].step \in KeySteps
      BY Zenon, <1>0, <2>1 DEF KeepsDisk
    <2>6. next \in KeySteps => keys = None
      BY Zenon, <1>3 DEF Enters
    <2>7. CASE next # ApplyToStream
      <3>1. UNCHANGED <<keys, used, overtaken>>
        BY <2>1, <2>7 DEF Call
      <3>2. ASSUME NEW g \in Flow, AtKeysAfter(g), keys' # None PROVE g \in overtaken'
        <4>1. CASE g = f
          <5>1. mem'[f].step \notin KeySteps
            BY Zenon, <2>2, <2>6, <3>1, <3>2, KeyStepsFacts
          <5> QED
            BY Zenon, <2>5, <3>1, <3>2, <4>1, <5>1 DEF KeysInv
        <4>2. CASE g # f
          BY Zenon, <1>1, <2>1, <3>1, <3>2, <4>2 DEF KeysInv
        <4> QED
          BY <4>1, <4>2
      <3>3. ASSUME ~lost, NEW g \in Flow, mem'[g].step = FundMyBitVmx
            PROVE  mem'[g].funded = MyKey(g) \/ g \in overtaken
        <4>1. CASE g = f
          BY Zenon, <1>0, <2>2, <2>3, <3>3, <4>1
        <4>2. CASE g # f
          BY Zenon, <1>1, <2>1, <3>3, <4>2 DEF KeysInv
        <4> QED
          BY <4>1, <4>2
      <3>4. ASSUME ~lost, NEW u \in used PROVE u.flow \in faulty' \/ (keys # None /\ u.key = keys)
        BY Zenon, <2>4, <3>4 DEF KeysInv
      <3>5. \A u \in used : u.key = u.funded \/ u.flow \in overtaken \/ lost
        BY Zenon DEF KeysInv, FundedKey
      <3> QED
        BY Zenon, <2>1, <3>1, <3>2, <3>3, <3>4, <3>5 DEF KeysAfter, MyKey
    <2>8. CASE next = ApplyToStream
      <3>1. mem[f].step = FundMyBitVmx /\ fl.funded = mem[f].funded /\ stage < 2
        BY Zenon, <1>3, <2>8 DEF Enters
      <3> DEFINE mined == out \in {"ok", "late", "minedFatal"}
                 u0    == [flow |-> f, key |-> MyKey(f), funded |-> mem[f].funded]
      <3>2. /\ used' = IF mined THEN used \cup {u0} ELSE used
            /\ keys' = IF out = "ok" THEN MyKey(f) ELSE keys
            /\ overtaken' = overtaken \cup
                   {g \in Flow \ {f} : out = "ok" /\ keys = None /\ mem[g].step \in GetMyTakeKey..FundMyBitVmx}
        <4>1. Apply(f, fl, mined, out = "ok")
          BY <2>1, <2>8 DEF Call, ApplyToStream, DepositP2PData, DepositKey
        <4> QED
          BY Zenon, <3>1, <4>1 DEF Apply
      <3>3. overtaken \subseteq overtaken' /\ (keys # None => keys' = keys) /\ MyKey(f) # None
        BY Zenon, <3>2, SetupAssumption DEF MyKey
      <3>4. ASSUME keys = None, keys' # None, NEW g \in Flow \ {f}, mem[g].step \in GetMyTakeKey..FundMyBitVmx
            PROVE  g \in overtaken'
        BY Zenon, <3>2, <3>4
      <3>5. ASSUME NEW g \in Flow PROVE disk[g].step \in KeySteps => mem[g].step \in KeySteps
        <4>1. \/ disk[g].step = mem[g].step
              \/ disk[g].step = FundMyBitVmx \/ disk[g].step = NoFlow
          BY Zenon, <2>1 DEF SaveInv
        <4> QED
          BY Zenon, <4>1, KeyStepsFacts
      <3>6. mem'[f].step \notin KeySteps /\ mem'[f].step # FundMyBitVmx /\ disk'[f].step \notin KeySteps
        <4>1. mem'[f].step \in {ApplyToStream, Failed}
          BY Zenon, <2>2, <2>8
        <4>2. ApplyToStream # FundMyBitVmx
          BY DEF ApplyToStream, FundMyBitVmx
        <4>3. disk[f].step \notin KeySteps
          BY Zenon, <3>1, <3>5, KeyStepsFacts
        <4> QED
          BY Zenon, <1>0, <2>5, <4>1, <4>2, <4>3, KeyStepsFacts
      <3>7. ASSUME NEW g \in Flow, AtKeysAfter(g), keys' # None PROVE g \in overtaken'
        <4>1. g # f
          BY <3>6, <3>7
        <4>2. mem[g].step \in KeySteps
          <5>1. g \in Flow \ {f}
            BY <4>1
          <5>2. AtKeys(g)
            BY Zenon, <1>1, <2>1, <3>7, <5>1
          <5> QED
            BY Zenon, <3>5, <5>2
        <4>3. CASE keys # None
          BY Zenon, <3>3, <4>2, <4>3 DEF KeysInv
        <4>4. CASE keys = None
          BY Zenon, <3>4, <3>7, <4>1, <4>2, <4>4, KeyStepsFacts
        <4> QED
          BY <4>3, <4>4
      <3>8. ASSUME ~lost, NEW g \in Flow, mem'[g].step = FundMyBitVmx
            PROVE  mem'[g].funded = (IF keys' = None THEN g ELSE keys') \/ g \in overtaken'
        <4>1. g # f
          BY Zenon, <3>6, <3>8
        <4>2. mem[g].step = FundMyBitVmx /\ mem'[g].funded = mem[g].funded
          <5>1. g \in Flow \ {f}
            BY <4>1
          <5> QED
            BY Zenon, <1>1, <2>1, <3>8, <5>1
        <4>3. mem[g].funded = MyKey(g) \/ g \in overtaken
          BY Zenon, <3>8, <4>2 DEF KeysInv
        <4>4. CASE keys = None /\ keys' # None
          BY Zenon, <3>4, <4>1, <4>2, <4>4, KeyStepsFacts
        <4>5. CASE keys' = keys
          BY Zenon, <3>3, <4>2, <4>3, <4>5 DEF MyKey
        <4> QED
          BY Zenon, <3>3, <4>4, <4>5
      <3>9. ASSUME ~lost, NEW u \in used' PROVE u.flow \in faulty' \/ (keys' # None /\ u.key = keys')
        <4>1. CASE u \in used
          BY Zenon, <2>4, <3>3, <3>9, <4>1 DEF KeysInv
        <4>2. CASE u = u0 /\ mined
          <5>1. CASE out = "ok"
            BY Zenon, <3>2, <3>3, <4>2, <5>1
          <5>2. CASE out # "ok"
            <6>1. f \in faulty'
              BY <2>1, <4>2, <5>2 DEF Fault
            <6> QED
              BY Zenon, <4>2, <6>1
          <5> QED
            BY <5>1, <5>2
        <4> QED
          BY Zenon, <3>2, <3>9, <4>1, <4>2
      <3>10. ASSUME NEW u \in used', ~lost PROVE u.key = u.funded \/ u.flow \in overtaken'
        <4>1. CASE u \in used
          BY Zenon, <3>3, <3>10, <4>1 DEF KeysInv, FundedKey
        <4>2. CASE u = u0
          <5>1. mem[f].funded = MyKey(f) \/ f \in overtaken
            BY Zenon, <3>1, <3>10 DEF KeysInv
          <5> QED
            BY Zenon, <3>3, <4>2, <5>1
        <4> QED
          BY Zenon, <3>2, <3>10, <4>1, <4>2
      <3> HIDE DEF u0, mined
      <3> QED
        BY Zenon, <2>1, <3>7, <3>8, <3>9, <3>10 DEF KeysAfter
    <2> QED
      BY <2>7, <2>8
  <1>4. ASSUME NEW f \in Flow, Breaks(f) PROVE KeysAfter
    <2>1. /\ Others(f) /\ KeepsDisk(f) /\ mem'[f] = [mem[f] EXCEPT !.step = Failed]
          /\ UNCHANGED <<keys, used, overtaken, lost>> /\ faulty \subseteq faulty' /\ pc' # "panicked"
      BY <1>4 DEF Breaks, Fails
    <2>2. mem'[f].step = Failed
      BY <2>1 DEF Types, TypeOK, FlowState
    <2>3. (AtKeysAfter(f) => AtKeys(f)) /\ FundsAfter(f)
      BY <1>0, <2>1, <2>2, KeyStepsFacts DEF KeepsDisk
    <2>4. \A g \in Flow : (AtKeysAfter(g) => AtKeys(g)) /\ FundsAfter(g)
      BY Zenon, <1>1, <2>1, <2>3
    <2> QED
      BY <2>1, <2>4, KeysKept
  <1>5. ASSUME NEW f \in Flow, AdminFail(f) PROVE KeysAfter
    <2>1. UNCHANGED <<keys, used, overtaken, lost, pc>> /\ faulty \subseteq faulty'
      BY <1>5 DEF AdminFail, context
    <2>2. \A g \in Flow : mem'[g] \in {mem[g], NoState} /\ disk'[g] \in {disk[g], NoState}
      BY <1>5, CleanedFacts DEF AdminFail, Flows
    <2>3. \A g \in Flow : (AtKeysAfter(g) => AtKeys(g)) /\ FundsAfter(g)
      BY Zenon, <1>0, <2>2
    <2> QED
      BY Zenon, <2>1, <2>3, KeysKept
  <1>6. ASSUME NEW f \in Flow, NEW r, Answers(f, r), Panicking(f) PROVE KeysAfter
    <2>1. UNCHANGED <<keys, used, overtaken, lost, faulty>> /\ mem' = mem /\ disk' = Cleaned(disk)
      BY Zenon, <1>6 DEF Answers, Panicking, Panic, context
    <2>2. overtaken # {}
      BY <1>6, PanicFacts DEF Panicking
    <2>3. \A g \in Flow : (AtKeysAfter(g) => AtKeys(g)) /\ FundsAfter(g)
      BY Zenon, <1>0, <2>1, CleanedFacts
    <2> QED
      BY Zenon, <2>1, <2>2, <2>3, KeysKept
  <1>7. ASSUME NEW f \in Flow, NEW r, Answers(f, r), GotAnother(f, r) PROVE KeysAfter
    <2>1. /\ Others(f) /\ disk'[f] = disk[f] /\ mem'[f] = [mem[f] EXCEPT !.got = Got(mem[f], r)]
          /\ UNCHANGED <<keys, used, overtaken, lost, faulty>> /\ pc' # "panicked"
      BY <1>7 DEF GotAnother, Answers
    <2>2. mem'[f].step = mem[f].step /\ mem'[f].funded = mem[f].funded
      BY <2>1 DEF Types, TypeOK, FlowState
    <2>3. \A g \in Flow : (AtKeysAfter(g) => AtKeys(g)) /\ FundsAfter(g)
      <3> SUFFICES ASSUME NEW g \in Flow PROVE (AtKeysAfter(g) => AtKeys(g)) /\ FundsAfter(g)
        BY Zenon
      <3>1. CASE g # f
        <4>1. Others(f) /\ g \in Flow \ {f}
          BY Zenon, <2>1, <3>1
        <4> QED
          BY Zenon, <1>1, <4>1
      <3>2. CASE g = f
        <4>1. disk'[g] = disk[g] /\ mem'[g].step = mem[g].step /\ mem'[g].funded = mem[g].funded
          BY Zenon, <2>1, <2>2, <3>2
        <4> QED
          BY Zenon, <4>1
      <3> QED
        BY Zenon, <3>1, <3>2
    <2> QED
      BY <2>1, <2>3, KeysKept
  <1>8. CASE Persist
    <2>1. /\ mem' = mem /\ UNCHANGED <<keys, used, overtaken, lost, faulty>> /\ pc' # "panicked"
          /\ disk' = [disk EXCEPT ![cur] = mem[cur]]
      BY Zenon, <1>8 DEF Persist, context, Handled
    <2>2. \A g \in Flow : disk'[g] = disk[g] \/ disk'[g] = mem[g]
      BY Zenon, <2>1 DEF Types, TypeOK
    <2>3. \A g \in Flow : (AtKeysAfter(g) => AtKeys(g)) /\ FundsAfter(g)
      BY Zenon, <2>1, <2>2
    <2> QED
      BY Zenon, <2>1, <2>3, KeysKept
  <1>9. CASE Crash
    <2>1. /\ mem' = disk /\ disk' = disk /\ keys' = saved[1] /\ UNCHANGED <<used, overtaken, faulty>> /\ pc' = "idle"
      BY <1>9 DEF Crash
    <2>2. ~lost' => ~lost /\ mem = disk /\ keys = keys'
      <3>1. ~lost' => ~lost /\ mem = disk /\ context = saved
        BY Zenon, <1>9 DEF Crash
      <3>2. context = saved => keys = saved[1]
        BY DEF context
      <3> QED
        BY <2>1, <3>1, <3>2
    <2>3. keys' # None => keys # None
      BY Zenon, <2>1 DEF SaveInv
    <2>4. \A u \in used' : u.key = u.funded \/ u.flow \in overtaken' \/ lost'
      BY Zenon, <2>1, <2>2 DEF KeysInv, FundedKey
    <2> QED
      BY Zenon, <2>1, <2>2, <2>3, <2>4 DEF KeysAfter, KeysInv, MyKey
  <1> QED
    BY <1>2, <1>3, <1>4, <1>5, <1>6, <1>7, <1>8, <1>9, Moves

-----------------------------------------------------------------------------
(* The invariant holds, and what follows from it. *)

(* Every step keeps FailsForAReason. *)
LEMMA ReasonStep ==
    ASSUME Types, FlowsOK, SaveInv, ComInv, FailsForAReason, [Next]_vars
    PROVE  FailsForAReason'
  <1> SUFFICES ASSUME NEW g \in Flow, ended'[g] = Failed PROVE g \in faulty'
    BY Zenon DEF FailsForAReason
  <1>1. ASSUME ended' = ended, faulty \subseteq faulty' PROVE g \in faulty'
    BY <1>1 DEF FailsForAReason
  <1>2. CASE Quiet
    BY Zenon, <1>1, <1>2 DEF Quiet
  <1>3. ASSUME NEW f \in Flow, NEW fl, NEW next, NEW out, Enters(f, fl, next, out) PROVE g \in faulty'
    BY <1>1, <1>3 DEF Enters, Begin, Fault
  <1>4. ASSUME NEW f \in Flow, Breaks(f) PROVE g \in faulty'
    BY <1>1, <1>4 DEF Breaks, Fails
  <1>5. ASSUME NEW f \in Flow, AdminFail(f) PROVE g \in faulty'
    BY <1>5 DEF AdminFail, FailsForAReason, Types, TypeOK
  <1>6. ASSUME NEW f \in Flow, NEW r, Answers(f, r), Panicking(f) \/ GotAnother(f, r) PROVE g \in faulty'
    BY <1>1, <1>6 DEF Answers, Panicking, Panic, GotAnother
  <1>7. CASE Persist
    <2>1. FlowOK(g, mem[g])
      BY Zenon DEF FlowsOK
    <2> QED
      BY Zenon, <1>7, <2>1 DEF Persist, FailsForAReason, FlowOK, Types, TypeOK
  <1>8. CASE Crash
    BY <1>1, <1>8 DEF Crash
  <1> QED
    BY Zenon, <1>2, <1>3, <1>4, <1>5, <1>6, <1>7, <1>8, Moves

(* The invariant holds when the client first starts. *)
LEMMA InitInv == Init => Inv
  <1> SUFFICES ASSUME Init PROVE Inv
    OBVIOUS
  <1>0. /\ NoState.step = 0 /\ NoState.reqs = {} /\ NoState.got = {} /\ NoState.com = None
        /\ NoState \in FlowState
    BY Zenon, NoStateType DEF NoState, NoFlow
  <1>1. mem \in Flows /\ disk \in Flows /\ \A f \in Flow : mem[f] = NoState /\ disk[f] = NoState
    BY Zenon, <1>0 DEF Init, Flows
  <1>2. Types
    <2>1. left \in Budget
      BY SetupAssumption DEF Init
    <2>2. ended \in [Flow -> {NoFlow, Done, Failed}]
      BY DEF Init
    <2>3. saved \in (Flow \cup {None}) \X SUBSET Committee
      BY Zenon DEF Init
    <2>4. requested \subseteq left.flows /\ stage \in 0..4
      BY DEF Init
    <2>5. lost \in BOOLEAN
      BY Zenon DEF Init
    <2> QED
      BY Zenon, <1>1, <2>1, <2>2, <2>3, <2>4, <2>5 DEF Types, TypeOK, Init, Flows
  <1>3. FlowsOK
    <2>1. ASSUME NEW f \in Flow PROVE FlowOK(f, NoState)
      <3>1. /\ NoState.step \notin SetupTakeKey..DepositKey /\ NoState.step \notin SignMyDisputeKey..FundMyBitVmx
            /\ NoState.step \notin DepositP2PData..DepositKey
            /\ NoState.step # FundMyBitVmx /\ NoState.step # Failed /\ NoState.step = NoFlow
        BY <1>0 DEF NoFlow, SetupTakeKey, DepositKey, SignMyDisputeKey, FundMyBitVmx, Failed, DepositP2PData
      <3>2. {f} \X NoState.got \subseteq answered /\ NoState.reqs = {}
        BY <1>0
      <3>3. deposits = {}
        BY DEF Init
      <3> QED
        BY Zenon, <3>1, <3>2, <3>3 DEF FlowOK
    <2> QED
      BY <1>1, <2>1 DEF FlowsOK
  <1>4. ComInv
    <2>1. \A c \in Committee : c # None
      BY SetupAssumption
    <2> QED
      BY Zenon, <1>0, <1>1, <2>1 DEF ComInv, Init, OneFlowPerCommittee
  <1>5. SaveInv
    BY Zenon, <1>1 DEF SaveInv, Init
  <1>6. KeysInv
    <2>1. keys = None /\ used = {} /\ pc = "idle" /\ \A f \in Flow : mem[f].step # FundMyBitVmx
      <3>1. FundMyBitVmx # 0
        BY DEF FundMyBitVmx
      <3>2. \A f \in Flow : mem[f].step = 0
        BY Zenon, <1>0, <1>1
      <3> QED
        BY Zenon, <3>1, <3>2 DEF Init
    <2> QED
      BY <2>1 DEF KeysInv, FundedKey, PanicsOvertaken
  <1>7. FailsForAReason
    BY DEF FailsForAReason, Init, NoFlow, Failed
  <1> QED
    BY <1>2, <1>3, <1>4, <1>5, <1>6, <1>7 DEF Inv

(* Every step keeps the invariant. *)
LEMMA InvStep == Inv /\ [Next]_vars => Inv'
    BY TypesStep, FlowsStep, ComStep, SaveStep, KeysStep, ReasonStep DEF Inv

(* Inv holds in every state: of the flows in memory and on disk, whatever  *)
(* a handler was doing when the process stopped.                           *)
LEMMA Invariance == Spec => []Inv
  <1> QED
    BY InitInv, InvStep, PTL DEF Spec

(* The state keeps its shape: a flow has only requests and answers of its  *)
(* steps, and at most the events that are confirming are still to process. *)
THEOREM ShapeKept == Spec => []TypeOK
  <1>1. Inv => TypeOK
    BY DEF Inv, Types
  <1> QED
    BY <1>1, Invariance, PTL

(* im_selected_to_new_committee and complete_step: a committee is set up   *)
(* by one flow, whatever is reorganised and wherever the process stops,    *)
(* and the membership is in my_committees unless a crash lost something.   *)
THEOREM OneFlow == Spec => []OneFlowPerCommittee
  <1>1. Inv => OneFlowPerCommittee
    BY Zenon DEF Inv, ComInv
  <1> QED
    BY <1>1, Invariance, PTL

(* fund_protocol and apply_to_stream: every application is made with the   *)
(* funded key, and all of them with the keys of one flow, but for the      *)
(* exceptions that KeysAgree names.                                        *)
THEOREM MemberHasOneKey == Spec => []KeysAgree
  <1>1. Inv => KeysAgree
    <2> SUFFICES ASSUME Inv PROVE OneKey
      BY Zenon DEF KeysAgree, Inv, KeysInv
    <2>1. lost \/ \A u \in used : u.flow \in faulty \/ u.key = keys
      BY Zenon DEF Inv, KeysInv
    <2>2. ASSUME ~lost, NEW u \in used, NEW v \in used, u.key # v.key PROVE {u.flow, v.flow} \cap faulty # {}
      <3>1. u.flow \in faulty \/ v.flow \in faulty
        BY <2>1, <2>2
      <3> QED
        BY <3>1
    <2> QED
      BY <2>2 DEF OneKey
  <1> QED
    BY <1>1, Invariance, PTL

(* start_step: the panic of a key step that finds my_keys set takes a flow *)
(* that another one overtook.                                              *)
THEOREM OvertakingPanics == Spec => []PanicsOvertaken
  <1>1. Inv => PanicsOvertaken
    BY DEF Inv, KeysInv
  <1> QED
    BY <1>1, Invariance, PTL

(* complete_step, fail and fail_flow: no flow fails for an answer to an    *)
(* earlier step, for an event that comes back after a reorganisation or    *)
(* for a deposit that it repeats after a crash.                            *)
THEOREM FailuresHaveReasons == Spec => []FailsForAReason
  <1>1. Inv => FailsForAReason
    BY DEF Inv
  <1> QED
    BY <1>1, Invariance, PTL

(* close_pub_key_req and the like: the answers that a flow counts are      *)
(* answers BitVMX gave to it.                                              *)
THEOREM AnswersAreOwn == Spec => []OwnAnswers
  <1>1. Inv => OwnAnswers
    BY Zenon DEF Inv, FlowsOK, FlowOK, OwnAnswers
  <1> QED
    BY <1>1, Invariance, PTL

(* complete_step of SetupPairwiseKeys to SetupPenalization: the aggregated *)
(* key is deposited when BitVMX answered for every partner, core and       *)
(* channel of the committee, whatever the roles of its members are.        *)
THEOREM KeyComesLast == Spec => []AllSetUp
  <1>1. Inv => AllSetUp
    <2> SUFFICES ASSUME Inv, NEW f \in Flow, mem[f].step = DepositKey
                 PROVE  LET answer(r) == <<f, r>> \in answered
                            Members   == DOMAIN left.roles
                            prover(i) == left.roles[i] = "Prover"
                        IN /\ answer(<<"answer", SetupTakeKey>>) /\ answer(<<"answer", SetupDisputeKey>>)
                           /\ answer(<<"penalization">>)
                           /\ \A i \in Members : answer(<<"core", i>>)
                           /\ \A i \in Members \ {0} : prover(0) \/ prover(i) => answer(PairKey(0, i))
                           /\ \A i \in Members \ {0} : /\ prover(0) => answer(<<"channel", 0, i>>)
                                                      /\ prover(i) => answer(<<"channel", i, 0>>)
      BY Zenon DEF AllSetUp
    <2> DEFINE roles == left.roles
    <2>1. \A s \in SetupTakeKey..SetupPenalization : \A r \in Requests(s) : <<f, r>> \in answered
      <3>1. FlowOK(f, mem[f])
        BY Zenon DEF Inv, FlowsOK
      <3>2. /\ mem[f].step \in SetupTakeKey..DepositKey
            /\ SetupTakeKey..(mem[f].step - 1) = SetupTakeKey..SetupPenalization
        BY DEF SetupTakeKey, DepositKey, SetupPenalization
      <3>3. \A s \in SetupTakeKey..SetupPenalization : Requests(s) \subseteq mem[f].got
        BY Zenon, <3>1, <3>2 DEF FlowOK
      <3>4. {f} \X mem[f].got \subseteq answered
        BY Zenon, <3>1 DEF FlowOK
      <3> QED
        BY Zenon, <3>3, <3>4
    <2>2. /\ {SetupTakeKey, SetupDisputeKey, SetupPairwiseKeys, SetupDisputeCore, SetupChannels, SetupPenalization}
                 \subseteq SetupTakeKey..SetupPenalization
          /\ Requests(SetupTakeKey) = {<<"answer", SetupTakeKey>>}
          /\ Requests(SetupDisputeKey) = {<<"answer", SetupDisputeKey>>}
          /\ Requests(SetupPairwiseKeys) = PairwiseKeys(roles, 0)
          /\ Requests(SetupDisputeCore) = DisputeCores(roles)
          /\ Requests(SetupChannels) = Channels(roles, 0)
          /\ Requests(SetupPenalization) = {<<"penalization">>}
      BY DEF Requests, OneRequest, Penalization, Calls, Done, ApplyToStream, DepositP2PData, DepositKey, SetupTakeKey,
             SetupDisputeKey, SetupPairwiseKeys, SetupDisputeCore, RequestVars, SetupChannels, SetupPenalization
    <2> HIDE DEF roles
    <2>3. ASSUME NEW i \in DOMAIN roles PROVE <<"core", i>> \in DisputeCores(roles)
      BY DEF DisputeCores
    <2>4. ASSUME NEW i \in DOMAIN roles \ {0}, roles[0] = "Prover" \/ roles[i] = "Prover"
          PROVE  i \in Partners(roles, 0) /\ PairKey(0, i) \in PairwiseKeys(roles, 0)
      BY <2>4 DEF PairwiseKeys, Partners
    <2>5. ASSUME NEW c \in CompleteSetup(roles, 0) PROVE <<"channel", c.op, c.wt>> \in Channels(roles, 0)
      BY DEF Channels
    <2>6. ASSUME NEW i \in DOMAIN roles \ {0}, roles[0] = "Prover"
          PROVE  <<"channel", 0, i>> \in Channels(roles, 0)
      <3>1. ChannelAsOperator(0, i) \in CompleteSetup(roles, 0)
        BY <2>4, <2>6 DEF CompleteSetup
      <3>2. ChannelAsOperator(0, i).op = 0 /\ ChannelAsOperator(0, i).wt = i
        BY Zenon DEF ChannelAsOperator, SetupOne
      <3> QED
        BY <2>5, <3>1, <3>2
    <2>7. ASSUME NEW i \in DOMAIN roles \ {0}, roles[i] = "Prover"
          PROVE  <<"channel", i, 0>> \in Channels(roles, 0)
      <3>1. ChannelAsWatchtower(0, i) \in CompleteSetup(roles, 0)
        BY Zenon, <2>4, <2>7 DEF CompleteSetup
      <3>2. ChannelAsWatchtower(0, i).op = i /\ ChannelAsWatchtower(0, i).wt = 0
        BY Zenon DEF ChannelAsWatchtower, SetupOne
      <3> QED
        BY Zenon, <2>5, <3>1, <3>2
    <2> QED
      BY Zenon, <2>1, <2>2, <2>3, <2>4, <2>6, <2>7 DEF roles
  <1> QED
    BY <1>1, Invariance, PTL
=============================================================================
