----------------------------- MODULE OpFunding ------------------------------
(***************************************************************************)
(* op-funding: how much a committee member must hold before it takes part  *)
(* in a package, in bitcoin for the transactions of the protocol and in    *)
(* the coin of Rootstock for the slots that it may have to serve.          *)
(*                                                                         *)
(* The slots that fall to one of m members are binomial, and the budget is *)
(* the mean plus 2.33 deviations; the root in it is found by bisection,    *)
(* one turn of the loop per step.  MaxU64 and MaxU128 stand for the        *)
(* largest integers of 64 and 128 bits.  Coins of Rootstock are counted in *)
(* units of 10^15 wei.                                                     *)
(***************************************************************************)
EXTENDS Integers

CONSTANTS
    MaxU64, MaxU128,
    Requests    \* [slots, members, provers, stream, regtest, deposit] that are asked for

(* As for 2^64 - 1 and 2^128 - 1. *)
ASSUME WidthAssumption ==
    /\ MaxU64 \in Nat /\ MaxU128 \in Nat
    /\ MaxU64 * MaxU64 <= MaxU128 /\ 333 * MaxU64 <= MaxU128

ASSUME RequestAssumption ==
    \A r \in Requests :
        /\ r.slots \in 0..MaxU64 /\ r.members \in 0..MaxU64
        /\ r.provers \in Nat /\ r.deposit \in Nat /\ r.regtest \in BOOLEAN

VARIABLES request, low, high, budget

funding == <<request, low, high, budget>>

NoBudget == -1
Panic    == -2

Members == IF request.members = 0 THEN 1 ELSE request.members

(* What checked_budgeted_slot_count takes the root of. *)
Value == request.slots * (Members - 1)

(* The state of ceil_sqrt when its loop begins; 0 and 1 are returned as    *)
(* they are.                                                               *)
FundingInit ==
    /\ request \in Requests
    /\ low = (IF Value = 0 THEN 0 ELSE 1)
    /\ high = Value
    /\ budget = NoBudget

FundingTypeOK ==
    /\ request \in Requests
    /\ low \in Nat /\ high \in Nat
    /\ budget \in Int

-----------------------------------------------------------------------------
(* Defect: the middle is excluded on both sides. *)
BisectPast ==
    /\ low < high
    /\ LET mid == low + ((high - low) \div 2)
           product == mid * mid
           square == IF product > MaxU128 THEN MaxU128 ELSE product
       IN IF square < Value THEN low' = mid + 1 /\ high' = high
                            ELSE low' = low /\ high' = mid - 1
    /\ UNCHANGED <<request, budget>>

(* Defect: the lower half may stay as it is. *)
BisectStuck ==
    /\ low < high
    /\ LET mid == low + ((high - low) \div 2)
           product == mid * mid
           square == IF product > MaxU128 THEN MaxU128 ELSE product
       IN IF square < Value THEN low' = mid /\ high' = high
                            ELSE low' = low /\ high' = mid
    /\ UNCHANGED <<request, budget>>

(* A turn of the loop of ceil_sqrt; the square saturates. *)
Bisect ==
    /\ low < high
    /\ LET mid == low + ((high - low) \div 2)
           product == mid * mid
           square == IF product > MaxU128 THEN MaxU128 ELSE product
       IN IF square < Value THEN low' = mid + 1 /\ high' = high
                            ELSE low' = low /\ high' = mid
    /\ UNCHANGED <<request, budget>>

(* Defect: the quotient is rounded down. *)
CeilDivDown(n, d) == n \div d

CeilDiv(n, d) == (n + d - 1) \div d

(* The rest of checked_budgeted_slot_count; a budget that does not fit in  *)
(* 64 bits panics in budgeted_slot_count.                                  *)
SlotBudget ==
    /\ low >= high /\ budget = NoBudget
    /\ LET b == CeilDiv((request.slots * 100) + (233 * low), 100 * Members)
       IN budget' = IF request.slots = 0 THEN 0 ELSE IF b > MaxU64 THEN Panic ELSE b
    /\ UNCHANGED <<request, low, high>>

FundingNext == Bisect \/ SlotBudget

FundingSpec == FundingInit /\ [][FundingNext]_funding

-----------------------------------------------------------------------------
(* required_member_rsk_balance. *)
SetupReserve   == 10
ReservePerSlot == 3

RequiredMemberBalance(deposit, slots) ==
    LET percentage == (deposit * 20) \div 100
        reserve    == SetupReserve + (ReservePerSlot * slots)
    IN deposit + (IF percentage > reserve THEN percentage ELSE reserve)

(* The bitcoin side, in satoshis. *)
StreamDenominations == [s \in 0..4 |-> <<100000, 1000000, 10000000, 100000000, 1000000000>>[s + 1]]

FeeRate(regtest)      == IF regtest THEN 10 ELSE 1
SpeedupFunds(regtest) == IF regtest THEN 1000000 ELSE 30000
Speedup == 540
Dust    == 540

EstimateFee(inputs, outputs, rate) == (46 + (inputs * 68) + (outputs * 34)) * rate

AdvanceFunds(d)  == (d \div 10) * 12
FundingMargin(d) == (d \div 100) * 25

OperatorFunding(r) == (12000 * r.slots) + Speedup + EstimateFee(1, r.slots + 2, FeeRate(r.regtest))

WatchtowerFunding(r) ==
    (50000 * r.members) + Speedup + EstimateFee(1, r.members + 2, FeeRate(r.regtest))

WtDisablerFunding(r) ==
    ((Dust * r.provers) * 2) + Speedup + EstimateFee(2, 2 * r.provers, FeeRate(r.regtest))

OpDisablerFunding(r) ==
    (Dust * r.slots) + Speedup + EstimateFee(2, r.slots + 1, FeeRate(r.regtest))

Known(r) == r.stream \in DOMAIN StreamDenominations

(* derive_stream_funding_profile, for a stream that is known. *)
FundingProfile(r) ==
    LET d        == StreamDenominations[r.stream]
        protocol == OperatorFunding(r) + OpDisablerFunding(r) + WatchtowerFunding(r) + WtDisablerFunding(r)
    IN [protocol |-> protocol + 5000, speedup |-> SpeedupFunds(r.regtest), advance |-> AdvanceFunds(d),
        total |-> protocol + SpeedupFunds(r.regtest) + AdvanceFunds(d) + 10000 + FundingMargin(d)]

-----------------------------------------------------------------------------
(* ceil_sqrt ends in the least number whose square reaches the value,      *)
(* whatever the squares on the way saturate at.                            *)
SqrtIsLeast ==
    low >= high =>
        /\ low * low >= Value
        /\ \A r \in 0..(low - 1) : r * r < Value

(* The invariant of the loop: the root lies between low and high. *)
RootBetween ==
    /\ low <= high
    /\ Value <= high * high
    /\ low >= 1 => (low - 1) * (low - 1) < Value
    /\ low = 0 => Value = 0

(* The budget of budgeted_slot_count lies 2.33 deviations or more above    *)
(* the mean, and three slots less do not; the members' budgets together    *)
(* serve every slot.                                                       *)
BudgetIsQuantile ==
    budget \in Nat =>
        LET above == (Members * budget) - request.slots
            less  == above - (3 * Members)
        IN /\ above >= 0
           /\ (above * 100) * (above * 100) >= (233 * 233) * Value
           /\ less > 0 => (less * 100) * (less * 100) < (233 * 233) * Value

(* With the balance of required_member_rsk_balance a member that has put   *)
(* down the deposit can pay for as many slots as it is budgeted for.       *)
BalanceServesBudget ==
    budget \in Nat =>
        \A k \in 0..budget :
            RequiredMemberBalance(request.deposit, budget) - request.deposit >= SetupReserve + (ReservePerSlot * k)

(* What derive_stream_funding_profile asks an operator to hold pays for    *)
(* the protocol's transactions, their acceleration and an advance, and     *)
(* leaves at least the margin of its stream.                               *)
ProfileCovers ==
    Known(request) =>
        LET p == FundingProfile(request)
        IN p.total >= p.protocol + p.speedup + p.advance + FundingMargin(StreamDenominations[request.stream])

(* The funding that op-funding asks of a committee is enough: the slots    *)
(* budgeted, the balance of a member and the profile of its stream.        *)
MemberIsFunded == BudgetIsQuantile /\ BalanceServesBudget /\ ProfileCovers

=============================================================================
