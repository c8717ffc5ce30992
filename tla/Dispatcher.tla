----------------------------- MODULE Dispatcher -----------------------------
(***************************************************************************)
(* One operation of the contracts gateway, called again and again by a     *)
(* flow: the check with the native bridge (invoke_contract_safe), and      *)
(* send_tx_with_gas_bump with its attempts, timeouts and receipts.  The    *)
(* Rootstock node mines the pending transactions of the member's account   *)
(* in the order of their nonces, at any time, also after the call that     *)
(* sent them has given up.                                                 *)
(***************************************************************************)
EXTENDS Gateway, Sequences, SequencesExt

CONSTANTS
    Budgets,    \* [op, gasBumps, calls, others, needs, raises, deployed]: the instances
    Needs,      \* the gas that the transaction may need
    Bridge,     \* the answers of the native bridge
    MaxU32,     \* bound of a u32, scaled down
    Required    \* required_confirmations of the verifier

MAX_GAS_LIMIT == 5000000

VARIABLES
    left,       \* what may still happen
    calls,      \* calls made so far
    pc,         \* where the call is
    attempt,    \* 1..max_attempts
    limit,      \* gas limit of the attempt, and the estimate it was made from
    estimated,
    res,        \* result of the last call
    settled,    \* the flow has success
    need, done, pool, receipt,    \* the chain (external)
    verified,   \* history: calls that saw enough confirmations
    effects,    \* history: successes per call
    repeats     \* history: calls that the contract refused because it has been done

node == <<need, done, pool, receipt>>
vars == <<left, calls, pc, attempt, limit, estimated, res, settled, node, verified, effects, repeats>>

op == left.op

NoReceipt == [status |-> "none", used |-> 0]

TypeOK ==
    /\ pc \in {"closed", "dead", "idle", "verify", "run", "estimate", "send", "wait", "why"}
    /\ calls \in Nat /\ attempt \in 0..256 /\ limit \in 0..MAX_GAS_LIMIT /\ estimated \in {0} \cup Needs
    /\ res \in DomainErrors \cup {"none", "ok"}
    /\ settled \in BOOLEAN /\ done \in BOOLEAN /\ need \in Needs
    /\ receipt.status \in {"none", "ok", "failed"}
    /\ verified \subseteq 1..calls /\ repeats \subseteq 1..calls
    /\ \A i \in DOMAIN pool : pool[i].limit \in 1..MAX_GAS_LIMIT /\ pool[i].call \in 1..calls

Init ==
    /\ left \in Budgets
    /\ calls = 0 /\ pc = "closed" /\ attempt = 0 /\ limit = 0 /\ estimated = 0 /\ res = "none" /\ settled = FALSE
    /\ need = Min(Needs) /\ done = FALSE /\ pool = <<>> /\ receipt = NoReceipt
    /\ verified = {} /\ effects = [c \in 1..left.calls |-> 0] /\ repeats = {}

-----------------------------------------------------------------------------
(* RskContractsGateway::new: every checked contract has code. *)
New ==
    /\ pc = "closed"
    /\ pc' = IF Checked \subseteq left.deployed THEN "idle" ELSE "dead"
    /\ UNCHANGED <<left, calls, attempt, limit, estimated, res, settled, node, verified, effects, repeats>>

(* The call ends with an error.  A flow counts op.success as success. *)
Return(error) ==
    LET e == IF op.wraps THEN "UnhandledContractError" ELSE error
    IN /\ pc' = "idle"
       /\ res' = e
       /\ settled' = (settled \/ e = op.success)

(* Errors of the transport have no revert data. *)
TransportError == Return("NoRevertError")

(* The contract refuses the transaction. *)
Repeated == done /\ op.repeated # "none"

NoError == [name |-> "none", actual |-> 0]

(* What the contract makes of the transaction now: it refuses what has     *)
(* been done, and anything else for a reason of its own.                   *)
Answers == IF Repeated THEN {[name |-> op.repeated, actual |-> PEG_STATUS_COMPLETED]} ELSE {NoError} \cup left.raises

(* The estimate fails with the revert data of the contract. *)
Refused ==
    /\ \E e \in Answers \ {NoError} : Return(DomainError(e))
    /\ repeats' = IF Repeated THEN repeats \cup {calls} ELSE repeats

Succeed == pc' = "idle" /\ res' = "ok" /\ settled' = TRUE

(* The flow calls the operation, for the first time or again. *)
Invoke ==
    /\ pc = "idle" /\ ~settled /\ calls < left.calls
    /\ calls' = calls + 1 /\ attempt' = 0 /\ limit' = 0 /\ estimated' = 0 /\ receipt' = NoReceipt
    /\ pc' = IF op.bridge THEN "verify" ELSE "run"
    /\ UNCHANGED <<left, res, settled, need, done, pool, verified, effects, repeats>>

(* call_get_btc_transaction_confirmations: an answer below zero is an      *)
(* error code, and one above a u32 an error without one.                   *)
Confirmations(b) ==
    [n |-> b, code |-> IF b < 0 THEN b ELSE 0, err |-> IF b \in 0..MaxU32 THEN "none" ELSE "NoRevertError"]

(* Every error of the query is wrapped, and keeps the code in its text. *)
GetBtcTransactionConfirmations(b) ==
    [Confirmations(b) EXCEPT !.err = IF @ = "none" THEN @ ELSE "UnhandledContractError"]

(* parse_native_bridge_error_code and native_bridge_error_reason: the      *)
(* codes that a later retry may cure.                                      *)
Retriable(q) == q.err = "UnhandledContractError" /\ q.code \in -5..-1

(* verify_btc_confirmations *)
Enough(q) == q.err = "none" /\ q.n >= Required

(* invoke_contract_safe *)
Verify ==
    /\ pc = "verify"
    /\ \E b \in Bridge :
           LET q == GetBtcTransactionConfirmations(b)
           IN IF Enough(q)
              THEN /\ pc' = "run"
                   /\ verified' = IF q.n >= Required THEN verified \cup {calls} ELSE verified
                   /\ UNCHANGED <<res, settled>>
              ELSE /\ Return(IF q.err = "none" \/ Retriable(q) THEN "MissingConfirmationsOnNativeBridge" ELSE q.err)
                   /\ UNCHANGED verified
    /\ UNCHANGED <<left, calls, attempt, limit, estimated, node, effects, repeats>>

(* The interaction parses its input and reads what it needs; then the      *)
(* attempts begin.                                                         *)
Run ==
    /\ pc = "run"
    /\ \/ /\ op.contract # "none"
          /\ attempt' = 1 /\ pc' = "estimate" /\ UNCHANGED <<res, settled>>
       \/ op.contract = "none" /\ Succeed /\ UNCHANGED attempt
       \/ (\E e \in op.parse : Return(e)) /\ UNCHANGED attempt
       \/ op.calls # {} /\ TransportError /\ UNCHANGED attempt
    /\ UNCHANGED <<left, calls, limit, estimated, node, verified, effects, repeats>>

(* The u8 of the configuration wraps in a release build. *)
MaxAttempts == (left.gasBumps + 1) % 256

(* bumped_gas, whose estimates are far from saturation. *)
BumpedGas(gas, bumps) ==
    LET base == (gas * 120) \div 100
        bump[n \in 0..bumps] == IF n = 0 THEN base ELSE (bump[n - 1] * 110) \div 100
    IN Max({bump[bumps], gas})

(* calculate_gas_limit_with_cap *)
WithinCap(lim) == lim <= MAX_GAS_LIMIT

(* An attempt begins: the whole call may have lasted too long, the         *)
(* estimate may fail or time out, and the contract may refuse.             *)
Estimate ==
    /\ pc = "estimate"
    /\ IF attempt > MaxAttempts
       THEN TransportError /\ UNCHANGED <<left, limit, estimated, repeats>>
       ELSE \/ /\ NoError \in Answers
               /\ LET lim == BumpedGas(need, attempt - 1)
                  IN IF WithinCap(lim)
                     THEN limit' = lim /\ estimated' = need /\ pc' = "send" /\ UNCHANGED <<res, settled>>
                     ELSE TransportError /\ UNCHANGED <<limit, estimated>>
               /\ UNCHANGED <<left, repeats>>
            \/ Refused /\ UNCHANGED <<left, limit, estimated>>
            \/ TransportError /\ UNCHANGED <<left, limit, estimated, repeats>>
    /\ UNCHANGED <<calls, attempt, node, verified, effects>>

(* send_transaction.  The node may have the transaction although the       *)
(* answer is late.                                                         *)
Send ==
    /\ pc = "send"
    /\ \/ /\ pool' = Append(pool, [limit |-> limit, call |-> calls])
          /\ \/ pc' = "wait" /\ UNCHANGED <<res, settled>>
             \/ TransportError
       \/ TransportError /\ UNCHANGED pool
    /\ UNCHANGED <<left, calls, attempt, limit, estimated, need, done, receipt, verified, effects, repeats>>

(* likely_oog *)
LikelyOog(used) == used >= limit - (limit * 5) \div 100

(* Defect: the gas is looked at before the status. *)
WaitGasFirst ==
    /\ pc = "wait"
    /\ \/ /\ receipt.status # "none"
          /\ IF LikelyOog(receipt.used)
             THEN /\ attempt' = attempt + 1 /\ pc' = "estimate" /\ receipt' = NoReceipt
                  /\ UNCHANGED <<res, settled>>
             ELSE receipt.status = "ok" /\ Succeed /\ UNCHANGED <<attempt, receipt>>
       \/ TransportError /\ UNCHANGED <<attempt, receipt>>
    /\ UNCHANGED <<left, calls, limit, estimated, need, done, pool, verified, effects, repeats>>

(* wait_for_receipt and what follows: success, another attempt if the gas  *)
(* seems to have run out, or a second look.                                *)
Wait ==
    /\ pc = "wait"
    /\ \/ receipt.status = "ok" /\ Succeed /\ UNCHANGED <<attempt, receipt>>
       \/ /\ receipt.status = "failed"
          /\ IF LikelyOog(receipt.used)
             THEN attempt' = attempt + 1 /\ pc' = "estimate" /\ receipt' = NoReceipt
             ELSE pc' = "why" /\ UNCHANGED <<attempt, receipt>>
          /\ UNCHANGED <<res, settled>>
       \/ TransportError /\ UNCHANGED <<attempt, receipt>>
    /\ UNCHANGED <<left, calls, limit, estimated, need, done, pool, verified, effects, repeats>>

(* The estimate that should show why the transaction failed. *)
Why ==
    /\ pc = "why"
    /\ Refused \/ (TransportError /\ UNCHANGED repeats)
    /\ UNCHANGED <<left, calls, attempt, limit, estimated, node, verified, effects>>

-----------------------------------------------------------------------------
(* The node mines the oldest pending transaction of the account. *)
Mine ==
    /\ pool # <<>>
    /\ \E answer \in Answers :
           LET tx  == Head(pool)
               ok  == tx.limit >= need /\ answer = NoError
           IN /\ pool' = Tail(pool)
              /\ \E used \in (IF tx.limit < need THEN {tx.limit} ELSE {need \div 2, tx.limit}) :
                     receipt' = IF tx.call = calls
                                THEN [status |-> IF ok THEN "ok" ELSE "failed", used |-> used]
                                ELSE receipt
              /\ done' = (done \/ (ok /\ op.contract \in left.deployed))
              /\ effects' = IF ok THEN [effects EXCEPT ![tx.call] = @ + 1] ELSE effects
    /\ UNCHANGED <<left, calls, pc, attempt, limit, estimated, res, settled, need, verified, repeats>>

(* Another member does what the operation is to do. *)
Other ==
    /\ left.others > 0 /\ op.repeated # "none" /\ ~done
    /\ done' = TRUE /\ left' = [left EXCEPT !.others = @ - 1]
    /\ UNCHANGED <<calls, pc, attempt, limit, estimated, res, settled, need, pool, receipt, verified, effects, repeats>>

(* The state of the contract changes, and with it the gas. *)
NeedChanges ==
    /\ left.needs > 0 /\ ~settled
    /\ need' \in Needs \ {need} /\ left' = [left EXCEPT !.needs = @ - 1]
    /\ UNCHANGED <<calls, pc, attempt, limit, estimated, res, settled, done, pool, receipt, verified, effects, repeats>>

Step == New \/ Invoke \/ Verify \/ Run \/ Estimate \/ Send \/ Wait \/ Why
Next == Step \/ Mine \/ Other \/ NeedChanges

(* Every wait of a call has a timeout. *)
Spec == Init /\ [][Next]_vars /\ WF_vars(Step)

-----------------------------------------------------------------------------
(* A flow that has success, by a receipt or by an error that counts as     *)
(* one, has the operation done on chain.                                   *)
SuccessIsDone == settled /\ op.contract # "none" => done

(* A call has its effect once at most: another attempt is only made when   *)
(* the transaction of the last one is known to have failed.                *)
OneEffectPerCall == \A c \in DOMAIN effects : effects[c] <= 1

(* A contract that refuses because the operation was done, by an earlier   *)
(* call that timed out or by another member, is success for the flow, for  *)
(* every operation that has an error to say so and does not wrap it.       *)
RepeatIsSuccess == op.success # "none" /\ ~op.wraps /\ repeats # {} => settled

(* A transaction that needs the native bridge is only sent by a call that  *)
(* saw the required confirmations.                                         *)
VerifiedFirst ==
    op.bridge => /\ \A i \in DOMAIN pool : pool[i].call \in verified
                 /\ \A c \in DOMAIN effects : effects[c] > 0 => c \in verified

(* Of the errors that are not wrapped, only NoRevertError leaves a         *)
(* transaction of the call pending, and may be followed by its effect.     *)
OthersLeaveNothing ==
    pc = "idle" /\ ~op.wraps /\ res \notin {"none", "NoRevertError"} =>
        \A i \in DOMAIN pool : pool[i].call # calls

(* What the flows rely on when they call the gateway. *)
CallContract == SuccessIsDone /\ OneEffectPerCall /\ RepeatIsSuccess /\ VerifiedFirst /\ OthersLeaveNothing

(* Every call returns. *)
Returns == []<>(pc \in {"idle", "dead"})

=============================================================================
