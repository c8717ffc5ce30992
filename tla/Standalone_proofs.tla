------------------------- MODULE Standalone_proofs --------------------------
(***************************************************************************)
(* What whoever runs a client relies on.                                   *)
(*                                                                         *)
(* Of op-funding, for every request of 64 bits: what the bisection of      *)
(* ceil_sqrt ends in, and that the budget, the balance and the profile are *)
(* enough.                                                                 *)
(*                                                                         *)
(* Of the launcher, for any number of clients, and whatever crashes or is  *)
(* interrupted: what is left when it has returned, in which order the      *)
(* services go, and that a coordinator stays subscribed.                   *)
(***************************************************************************)
EXTENDS OpFunding, Services, TLAPS

-----------------------------------------------------------------------------
(* The slots that a member is budgeted for. *)

(* Squares grow with their roots. *)
LEMMA SquareMonotone ==
    ASSUME NEW a \in Nat, NEW b \in Nat, a <= b
    PROVE  a * a <= b * b
<1>1. a * a <= a * b BY SMT
<1>2. a * b <= b * b BY SMT
<1> QED BY <1>1, <1>2, SMT

(* The bound on a product of two integers of 64 bits. *)
LEMMA ProductFits ==
    ASSUME NEW a \in 0..MaxU64, NEW b \in 0..MaxU64
    PROVE  a * b \in 0..MaxU128
<1>0. a \in Nat /\ b \in Nat /\ MaxU64 \in Nat /\ a <= MaxU64 /\ b <= MaxU64 BY WidthAssumption
<1>1. a * b <= a * MaxU64 BY <1>0, SMT
<1>2. a * MaxU64 <= MaxU64 * MaxU64 BY <1>0, SMT
<1>3. a * b \in Nat /\ a * MaxU64 \in Nat /\ MaxU64 * MaxU64 \in Nat BY <1>0, SMT
<1> QED BY <1>1, <1>2, <1>3, WidthAssumption, SMT

(* What checked_budgeted_slot_count takes the root of fits in 128 bits. *)
LEMMA ValueFits ==
    ASSUME request \in Requests
    PROVE  Value \in 0..MaxU128
<1>1. request.slots \in 0..MaxU64 /\ request.members \in 0..MaxU64 BY RequestAssumption
<1>2. Members - 1 \in 0..MaxU64 BY <1>1, WidthAssumption DEF Members
<1> QED BY <1>1, <1>2, ProductFits DEF Value

(* The inductive invariant: the types, and the root between low and high. *)
IInv == FundingTypeOK /\ RootBetween

(* ceil_sqrt begins with the root between its bounds. *)
LEMMA InitIInv == FundingInit => IInv
<1> SUFFICES ASSUME FundingInit PROVE IInv
    OBVIOUS
<1>1. request \in Requests /\ high = Value /\ budget = NoBudget BY DEF FundingInit
<1>2. Value \in Nat BY <1>1, ValueFits
<1>3. CASE Value = 0
    BY <1>1, <1>2, <1>3 DEF FundingInit, IInv, FundingTypeOK, RootBetween, NoBudget
<1>4. CASE Value # 0
    <2>1. low = 1 BY <1>4 DEF FundingInit
    <2>2. Value <= Value * Value BY <1>2, <1>4, SMT
    <2> QED BY <1>1, <1>2, <1>4, <2>1, <2>2 DEF IInv, FundingTypeOK, RootBetween, NoBudget
<1> QED BY <1>3, <1>4

(* A turn of the loop keeps the root between its bounds: a square that     *)
(* saturates is not below the value.                                       *)
LEMMA BisectIInv == IInv /\ Bisect => IInv'
<1> SUFFICES ASSUME IInv, Bisect PROVE IInv'
    OBVIOUS
<1> DEFINE mid == low + ((high - low) \div 2)
           product == mid * mid
           square == IF product > MaxU128 THEN MaxU128 ELSE product
<1>1. request \in Requests /\ low \in Nat /\ high \in Nat /\ budget \in Int /\ low < high
    BY DEF IInv, FundingTypeOK, Bisect
<1>2. Value \in Nat /\ Value <= MaxU128 BY <1>1, ValueFits, WidthAssumption
<1>3. Value' = Value /\ request' = request /\ budget' = budget BY DEF Bisect, Value, Members
<1>4. mid \in Nat /\ low <= mid /\ mid < high BY <1>1
<1>5. product \in Nat BY <1>4, SMT
<1>6. MaxU128 \in Nat BY WidthAssumption
<1>7. low >= 1 \/ Value = 0 BY <1>1 DEF IInv, RootBetween
<1> HIDE DEF mid
<1>8. CASE square < Value
    <2>1. low' = mid + 1 /\ high' = high BY <1>8 DEF Bisect, mid
    <2>2. product < Value BY <1>2, <1>5, <1>6, <1>8
    <2>3. (low' - 1) * (low' - 1) = product
        <3>1. low' - 1 = mid BY <2>1, <1>4
        <3> QED BY <3>1
    <2>4. Value <= high * high BY DEF IInv, RootBetween
    <2> HIDE DEF product
    <2> QED BY <1>1, <1>3, <1>4, <2>1, <2>2, <2>3, <2>4 DEF IInv, FundingTypeOK, RootBetween
<1>9. CASE ~(square < Value)
    <2>1. low' = low /\ high' = mid BY <1>9 DEF Bisect, mid
    <2>2. Value <= product BY <1>2, <1>5, <1>6, <1>9
    <2>3. Value <= high' * high' BY <2>1, <2>2
    <2>4. (low >= 1 => (low - 1) * (low - 1) < Value) /\ (low = 0 => Value = 0) BY DEF IInv, RootBetween
    <2> QED BY <1>1, <1>3, <1>4, <2>1, <2>3, <2>4 DEF IInv, FundingTypeOK, RootBetween
<1> QED BY <1>8, <1>9

(* The budget does not touch the root. *)
LEMMA SlotBudgetIInv == IInv /\ SlotBudget => IInv'
<1> SUFFICES ASSUME IInv, SlotBudget PROVE IInv'
    OBVIOUS
<1>1. request' = request /\ low' = low /\ high' = high BY DEF SlotBudget
<1>2. Value' = Value BY <1>1 DEF Value, Members
<1>3. request.slots \in Int /\ Members \in Nat \ {0} /\ low \in Nat
    BY RequestAssumption, WidthAssumption DEF IInv, FundingTypeOK, Members
<1>4. budget' \in Int
    <2> DEFINE n == (request.slots * 100) + (233 * low)
               d == 100 * Members
    <2>1. n \in Int /\ d \in Nat \ {0} BY <1>3
    <2>2. CeilDiv(n, d) \in Int BY <2>1 DEF CeilDiv
    <2> HIDE DEF n, d
    <2>3. budget' = IF request.slots = 0 THEN 0 ELSE IF CeilDiv(n, d) > MaxU64 THEN Panic ELSE CeilDiv(n, d)
        BY DEF SlotBudget, n, d
    <2> QED BY <2>2, <2>3 DEF Panic
<1> QED BY <1>1, <1>2, <1>4 DEF IInv, FundingTypeOK, RootBetween

(* The loop of ceil_sqrt keeps the root between low and high. *)
THEOREM RootStaysBetween == FundingSpec => []RootBetween
<1>1. FundingInit => IInv BY InitIInv
<1>2. IInv /\ [FundingNext]_funding => IInv'
    <2>1. IInv /\ UNCHANGED funding => IInv'
        BY DEF IInv, FundingTypeOK, RootBetween, Value, Members, funding
    <2> QED BY <2>1, BisectIInv, SlotBudgetIInv DEF FundingNext
<1>3. IInv => RootBetween BY DEF IInv
<1> QED BY <1>1, <1>2, <1>3, PTL DEF FundingSpec

(* With the root between equal bounds, low is the least number whose       *)
(* square reaches the value.                                               *)
LEMMA BetweenIsLeast == IInv => SqrtIsLeast
<1> SUFFICES ASSUME IInv, low >= high PROVE SqrtIsLeast
    BY DEF SqrtIsLeast
<1>1. low \in Nat /\ high \in Nat /\ low = high /\ Value \in Nat
    BY ValueFits DEF IInv, FundingTypeOK, RootBetween
<1>2. Value <= low * low BY <1>1 DEF IInv, RootBetween
<1>3. ASSUME NEW r \in 0..(low - 1) PROVE r * r < Value
    <2>1. low >= 1 /\ r \in Nat /\ low - 1 \in Nat /\ r <= low - 1 BY <1>1
    <2>2. (low - 1) * (low - 1) < Value BY <2>1 DEF IInv, RootBetween
    <2>3. r * r <= (low - 1) * (low - 1) BY <2>1, SquareMonotone
    <2>4. r * r \in Nat /\ (low - 1) * (low - 1) \in Nat BY <2>1, SMT
    <2> QED BY <1>1, <2>2, <2>3, <2>4
<1>4. low * low \in Nat BY <1>1, SMT
<1> QED BY <1>1, <1>2, <1>3, <1>4 DEF SqrtIsLeast

(* ceil_sqrt returns the least number whose square reaches the value, for  *)
(* every value that budgeted_slot_count gives it.                          *)
THEOREM SqrtCorrect == FundingSpec => []SqrtIsLeast
<1>1. FundingInit => IInv BY InitIInv
<1>2. IInv /\ [FundingNext]_funding => IInv'
    <2>1. IInv /\ UNCHANGED funding => IInv'
        BY DEF IInv, FundingTypeOK, RootBetween, Value, Members, funding
    <2> QED BY <2>1, BisectIInv, SlotBudgetIInv DEF FundingNext
<1>3. IInv => SqrtIsLeast BY BetweenIsLeast
<1> QED BY <1>1, <1>2, <1>3, PTL DEF FundingSpec

-----------------------------------------------------------------------------
(* What a member is asked to hold. *)

(* A quotient that is rounded down. *)
LEMMA DivBounds ==
    ASSUME NEW n \in Nat, NEW d \in Nat \ {0}
    PROVE  n \div d \in Nat /\ d * (n \div d) <= n /\ n < d * (n \div d) + d
  BY SMT

(* ceil_div gives the least multiple that reaches the dividend. *)
LEMMA CeilDivBounds ==
    ASSUME NEW n \in Nat, NEW d \in Nat \ {0}
    PROVE  CeilDiv(n, d) \in Nat /\ n <= d * CeilDiv(n, d) /\ d * CeilDiv(n, d) <= n + d - 1
<1>1. n + d - 1 \in Nat
    OBVIOUS
<1> DEFINE q == CeilDiv(n, d)
<1>2. q \in Nat /\ d * q <= n + d - 1 /\ n + d - 1 < d * q + d
    BY <1>1, DivBounds DEF CeilDiv
<1> HIDE DEF q
<1>3. d * q \in Nat
    BY <1>2, SMT
<1>4. n <= d * q
    BY <1>2, <1>3
<1> QED BY <1>2, <1>4 DEF q

(* The budget was made from the root that the bisection ended with. *)
BudgetMade ==
    budget # NoBudget =>
        /\ low >= high
        /\ LET b == CeilDiv((request.slots * 100) + (233 * low), 100 * Members)
           IN budget = IF request.slots = 0 THEN 0 ELSE IF b > MaxU64 THEN Panic ELSE b

(* The invariant of the bisection and of the budget. *)
FInv == IInv /\ BudgetMade

(* Every step of a calculation keeps it. *)
LEMMA FInvStep == FInv /\ [FundingNext]_funding => FInv'
<1> SUFFICES ASSUME FInv, FundingNext \/ UNCHANGED funding PROVE FInv'
    BY DEF FInv
<1>1. IInv'
    <2>1. IInv /\ UNCHANGED funding => IInv'
        BY DEF IInv, FundingTypeOK, RootBetween, Value, Members, funding
    <2> QED BY <2>1, BisectIInv, SlotBudgetIInv DEF FundingNext, FInv
<1>2. CASE Bisect
    <2>1. budget = NoBudget
        BY <1>2 DEF Bisect, FInv, IInv, FundingTypeOK, BudgetMade
    <2> QED BY <1>1, <1>2, <2>1 DEF Bisect, FInv, BudgetMade
<1>3. CASE SlotBudget
    <2>1. request' = request /\ low' = low /\ high' = high /\ low >= high
        BY <1>3 DEF SlotBudget
    <2>2. Members' = Members
        BY <2>1 DEF Members
    <2> DEFINE b == CeilDiv((request.slots * 100) + (233 * low), 100 * Members)
    <2>3. budget' = IF request.slots = 0 THEN 0 ELSE IF b > MaxU64 THEN Panic ELSE b
        BY <1>3 DEF SlotBudget
    <2>4. b' = b
        BY <2>1, <2>2 DEF CeilDiv
    <2> HIDE DEF b
    <2>5. BudgetMade'
        BY <2>1, <2>3, <2>4 DEF BudgetMade, b
    <2> QED BY <1>1, <2>5 DEF FInv
<1>4. CASE UNCHANGED funding
    BY <1>1, <1>4 DEF funding, FInv, BudgetMade, Members
<1> QED BY <1>2, <1>3, <1>4 DEF FundingNext

(* The budget is 2.33 deviations above the mean, and close to it. *)
LEMMA QuantileHolds == FInv => BudgetIsQuantile
<1> SUFFICES ASSUME FInv, budget \in Nat PROVE BudgetIsQuantile
    BY DEF BudgetIsQuantile
<1> DEFINE s == request.slots
           M == Members
           n == (s * 100) + (233 * low)
           d == 100 * M
           b == CeilDiv(n, d)
           above == (M * budget) - s
           less == above - (3 * M)
<1>1. s \in Nat /\ M \in Nat \ {0} /\ low \in Nat /\ high \in Nat /\ Value \in Nat
    BY RequestAssumption, WidthAssumption, ValueFits DEF FInv, IInv, FundingTypeOK, Members
<1>2. /\ budget # NoBudget /\ budget # Panic
      /\ low = high
      /\ budget = IF s = 0 THEN 0 ELSE b
    BY <1>1 DEF FInv, IInv, RootBetween, BudgetMade, NoBudget, Panic
<1>3. Value = s * (M - 1)
    BY DEF Value
<1>4. /\ Value <= low * low
      /\ low >= 1 => (low - 1) * (low - 1) < Value
    BY <1>2 DEF FInv, IInv, RootBetween
<1>5. n \in Nat /\ d \in Nat \ {0}
    BY <1>1
<1>6. SUFFICES /\ above >= 0
               /\ (above * 100) * (above * 100) >= (233 * 233) * Value
               /\ less > 0 => (less * 100) * (less * 100) < (233 * 233) * Value
    BY DEF BudgetIsQuantile
<1>7. CASE s = 0
    <2>1. budget = 0 /\ M * budget = 0 /\ Value = 0
        BY <1>1, <1>2, <1>3, <1>7
    <2>2. above = 0 /\ less < 0 /\ less \in Int
        BY <1>1, <1>7, <2>1
    <2> HIDE DEF above, less
    <2>3. (above * 100) * (above * 100) = 0 /\ (233 * 233) * Value = 0
        BY <2>1, <2>2
    <2>4. above >= 0 /\ ~(less > 0)
        BY <2>2
    <2>5. (above * 100) * (above * 100) >= (233 * 233) * Value
        BY <2>3
    <2> QED BY <2>4, <2>5, Zenon
<1>8. CASE s # 0
    <2>1. budget = b /\ n <= d * b /\ d * b <= n + d - 1
        <3>1. budget = b
            BY <1>2, <1>8
        <3> HIDE DEF n, d
        <3>2. n <= d * b /\ d * b <= n + d - 1
            BY <1>5, CeilDivBounds
        <3> QED BY <3>1, <3>2
    <2> HIDE DEF b
    <2> DEFINE p == M * budget
    <2>2. p \in Nat
        BY <1>1, SMT
    <2>3. d * b = 100 * p
        BY <1>1, <2>1, SMT
    <2> HIDE DEF p, M, s
    <2>4. 233 * low <= above * 100 /\ above \in Nat
        <3>1. (s * 100) + (233 * low) <= 100 * p
            BY <2>1, <2>3
        <3>2. above = p - s
            BY DEF p
        <3> QED BY <1>1, <2>2, <3>1, <3>2
    <2>5. less * 100 <= (233 * low) - (200 * M) - 1 /\ less \in Int
        <3>1. 100 * p <= (s * 100) + (233 * low) + (100 * M) - 1
            BY <2>1, <2>3
        <3>2. less = p - s - (3 * M)
            BY DEF p
        <3> QED BY <1>1, <2>2, <3>1, <3>2
    <2> HIDE DEF above, less
    <2>6. (above * 100) * (above * 100) >= (233 * 233) * Value
        <3>1. (233 * low) * (233 * low) <= (above * 100) * (above * 100)
            BY <1>1, <2>4, SquareMonotone
        <3>2. (233 * low) * (233 * low) = (233 * 233) * (low * low)
            BY <1>1, SMT
        <3>3. (233 * 233) * Value <= (233 * 233) * (low * low)
            <4>1. low * low \in Nat
                BY <1>1, SMT
            <4> QED BY <1>1, <1>4, <4>1
        <3>4. low * low \in Nat /\ (above * 100) * (above * 100) \in Nat
            BY <1>1, <2>4, SMT
        <3> QED BY <1>1, <3>1, <3>2, <3>3, <3>4
    <2>7. ASSUME less > 0 PROVE (less * 100) * (less * 100) < (233 * 233) * Value
        <3>1. low >= 1
            BY <1>1, <2>5, <2>7
        <3>2. M >= 2
            <4>1. (low - 1) * (low - 1) < Value /\ (low - 1) * (low - 1) \in Nat
                BY <1>1, <1>4, <3>1, SMT
            <4>2. M = 1 => Value = 0
                BY <1>1, <1>3
            <4> QED BY <1>1, <4>1, <4>2
        <3>3. less * 100 <= 233 * (low - 1) /\ less * 100 \in Nat /\ low - 1 \in Nat
            BY <1>1, <2>5, <2>7, <3>1, <3>2
        <3>4. (less * 100) * (less * 100) <= (233 * (low - 1)) * (233 * (low - 1))
            BY <3>3, SquareMonotone
        <3>5. (233 * (low - 1)) * (233 * (low - 1)) = (233 * 233) * ((low - 1) * (low - 1))
            BY <3>3, SMT
        <3>6. (low - 1) * (low - 1) \in Nat /\ (less * 100) * (less * 100) \in Nat
            BY <3>3, SMT
        <3>7. (low - 1) * (low - 1) < Value
            BY <1>4, <3>1
        <3> QED BY <1>1, <3>4, <3>5, <3>6, <3>7
    <2> QED BY <2>4, <2>6, <2>7
<1> QED BY <1>7, <1>8

(* The reserve grows with the slots, and the balance has it on top of the  *)
(* deposit.                                                                *)
LEMMA BalanceHolds == FInv => BalanceServesBudget
<1> SUFFICES ASSUME FInv, budget \in Nat, NEW k \in 0..budget
             PROVE  RequiredMemberBalance(request.deposit, budget) - request.deposit
                        >= SetupReserve + (ReservePerSlot * k)
    BY DEF BalanceServesBudget
<1>1. request.deposit \in Nat
    BY RequestAssumption DEF FInv, IInv, FundingTypeOK
<1> QED BY <1>1 DEF RequiredMemberBalance, SetupReserve, ReservePerSlot

(* The total of a profile has its parts and a buffer above that of the     *)
(* protocol's transactions.                                                *)
LEMMA ProfileHolds == FInv => ProfileCovers
<1> SUFFICES ASSUME FInv, Known(request) PROVE ProfileCovers
    BY DEF ProfileCovers
<1> DEFINE r == request
           x == StreamDenominations[r.stream]
           protocol == OperatorFunding(r) + OpDisablerFunding(r) + WatchtowerFunding(r) + WtDisablerFunding(r)
<1>1. r.slots \in Nat /\ r.members \in Nat /\ r.provers \in Nat
    BY RequestAssumption, WidthAssumption DEF FInv, IInv, FundingTypeOK
<1>2. x \in Nat
    BY DEF Known, StreamDenominations
<1>3. FeeRate(r.regtest) \in Nat /\ SpeedupFunds(r.regtest) \in Nat
    BY DEF FeeRate, SpeedupFunds
<1>4. protocol \in Nat
    <2>1. OperatorFunding(r) \in Nat
        <3>1. EstimateFee(1, r.slots + 2, FeeRate(r.regtest)) \in Nat
            BY <1>1, <1>3, SMT DEF EstimateFee
        <3> QED BY <1>1, <3>1 DEF OperatorFunding, Speedup
    <2>2. OpDisablerFunding(r) \in Nat
        <3>1. EstimateFee(2, r.slots + 1, FeeRate(r.regtest)) \in Nat
            BY <1>1, <1>3, SMT DEF EstimateFee
        <3> QED BY <1>1, <3>1 DEF OpDisablerFunding, Speedup, Dust
    <2>3. WatchtowerFunding(r) \in Nat
        <3>1. EstimateFee(1, r.members + 2, FeeRate(r.regtest)) \in Nat
            BY <1>1, <1>3, SMT DEF EstimateFee
        <3> QED BY <1>1, <3>1 DEF WatchtowerFunding, Speedup
    <2>4. WtDisablerFunding(r) \in Nat
        <3>1. EstimateFee(2, 2 * r.provers, FeeRate(r.regtest)) \in Nat
            BY <1>1, <1>3, SMT DEF EstimateFee
        <3> QED BY <1>1, <3>1 DEF WtDisablerFunding, Speedup, Dust
    <2> QED BY <2>1, <2>2, <2>3, <2>4
<1>5. AdvanceFunds(x) \in Nat /\ FundingMargin(x) \in Nat
    BY <1>2 DEF AdvanceFunds, FundingMargin
<1> HIDE DEF protocol, x
<1>6. FundingProfile(r) =
          [protocol |-> protocol + 5000, speedup |-> SpeedupFunds(r.regtest), advance |-> AdvanceFunds(x),
           total |-> protocol + SpeedupFunds(r.regtest) + AdvanceFunds(x) + 10000 + FundingMargin(x)]
    BY DEF FundingProfile, protocol, x
<1> QED BY <1>3, <1>4, <1>5, <1>6 DEF ProfileCovers, x

(* For every request of 64 bits: the budgeted slots are 2.33 deviations or *)
(* more above the mean and less than three slots too many, the balance     *)
(* pays for them, and the profile covers what it is made of.               *)
THEOREM MembersAreFunded == FundingSpec => []MemberIsFunded
<1>1. FundingInit => FInv
    BY InitIInv DEF FInv, FundingInit, BudgetMade
<1>2. FInv => MemberIsFunded
    BY QuantileHolds, BalanceHolds, ProfileHolds DEF MemberIsFunded
<1> QED BY <1>1, <1>2, FInvStep, PTL DEF FundingSpec

-----------------------------------------------------------------------------
(* The launcher and the services, for any number of clients. *)

(* No process of the client runs, and its coordinator does not. *)
Quiet(c)         == \A s \in Svc : proc[c][s] \notin Live
NoCoordinator(c) == proc[c]["coordinator"] \notin Live

RunTypes ==
    /\ runLeft \in Budget
    /\ main \in Starting \cup {"serve"} \cup Ending \cup Over
    /\ launch \in [C -> Svc \cup {"no", "queued", "settle", "cleanup", "ok", "failed", "joined"}]
    /\ clients \subseteq C
    /\ tear \in [C -> {"no", "wait", "others", "poll", "done"}]
    /\ proc \in [C -> [Svc -> {"none", "starting", "up", "gone"}]]
    /\ sub \in [C -> [Indexers -> {"no", "asked", "yes"}]]
    /\ ctx \in [C -> {"saved", "changed"}]
    /\ ended \in [C -> {"no", "returned", "killed"}]

(* A launch thread works while run_clients waits for it, begins and fails  *)
(* with no process running, and starts the coordinator last; a client that *)
(* was joined is kept, is being torn down or has nothing running.          *)
LaunchInv(c) ==
    /\ main # "launch" => launch[c] \in {"no", "joined"}
    /\ main \in {"ready", "serve"} \cup Ending => launch[c] = "joined"
    /\ launch[c] \in {"queued"} \cup Svc => proc[c]["coordinator"] = "none"
    /\ launch[c] \in {"queued", "failed"} => Quiet(c)
    /\ main = "launch" /\ launch[c] = "joined" => c \in clients \/ tear[c] # "no" \/ Quiet(c)

(* A teardown is of a client that was joined, and nothing starts under it. *)
TearInv(c) ==
    /\ tear[c] # "no" => launch[c] = "joined"
    /\ tear[c] \in {"others", "poll"} => NoCoordinator(c)
    /\ tear[c] = "done" => Quiet(c)

(* Once all were joined, a client that is not kept has nothing running. *)
MainInv(c) ==
    /\ main \in {"ready", "serve"} \cup Ending /\ c \notin clients => Quiet(c)
    /\ main \in {"done", "failed"} => Quiet(c)
    /\ main = "others" => NoCoordinator(c)

(* A coordinator in its loop was started with both of its indexers up, and *)
(* one that was up since has its request.                                  *)
CoordinatorInv(c) ==
    /\ ended[c] = "returned" => NoCoordinator(c) /\ ctx[c] = "saved"
    /\ proc[c]["coordinator"] = "up" =>
          \A b \in Indexers : proc[c][b] = "gone" \/ (proc[c][b] = "up" /\ sub[c][b] # "no")

ClientInv(c) == LaunchInv(c) /\ TearInv(c) /\ MainInv(c) /\ CoordinatorInv(c)

RunInv == RunTypes /\ \A c \in C : ClientInv(c)

(* The launcher starts with nothing running. *)
LEMMA RunInitInv == RunInit => RunInv
  <1> SUFFICES ASSUME RunInit PROVE RunInv
    OBVIOUS
  <1>1. RunTypes
    BY BudgetAssumption DEF RunInit, RunTypes, Starting
  <1>2. ASSUME NEW c \in C PROVE ClientInv(c)
    BY <1>2 DEF RunInit, ClientInv, LaunchInv, TearInv, MainInv, CoordinatorInv, Quiet, NoCoordinator, Live, Ending,
                Svc, Others, Indexers
  <1> QED BY <1>1, <1>2 DEF RunInv

(* What may still happen gets less, of the same clients. *)
LEMMA LeftKept ==
    ASSUME runLeft \in Budget, RunNext \/ UNCHANGED run
    PROVE  runLeft' \in Budget /\ C' = C
  <1>1. \/ UNCHANGED runLeft
        \/ runLeft.crashes > 0 /\ runLeft' = [runLeft EXCEPT !.crashes = @ - 1]
        \/ runLeft.slow > 0 /\ runLeft' = [runLeft EXCEPT !.slow = @ - 1]
        \/ runLeft.spawns > 0 /\ runLeft' = [runLeft EXCEPT !.spawns = @ - 1]
        \/ runLeft.fatal > 0 /\ runLeft' = [runLeft EXCEPT !.fatal = @ - 1]
        \/ runLeft.messages > 0 /\ runLeft' = [runLeft EXCEPT !.messages = @ - 1]
        \/ runLeft.ctrlc > 0 /\ runLeft' = [runLeft EXCEPT !.ctrlc = @ - 1]
        \/ runLeft.reruns > 0 /\ runLeft' = [runLeft EXCEPT !.reruns = @ - 1]
    <2>1. ASSUME NEW c \in C, Process(c) PROVE <1>1!1 \/ <1>1!5
      BY <2>1, Zenon DEF Process, ServiceUp, ServiceStops, UpdateConsumers, CoordinatorStarts, SaveContext,
                         CoordinatorReturns, CoordinatorStopsEarly, LoopEnds, FatalError
    <2>2. ASSUME NEW c \in C, Thread(c) PROVE <1>1!1 \/ <1>1!3 \/ <1>1!4
      BY <2>2, Zenon DEF Thread, LaunchBegins, LaunchNext, LaunchStops, PortTimeout, Settle, CleanupKill,
                         CoordinatorGone, TermOthers, KillOthers
    <2>3. Main => <1>1!1 \/ <1>1!3
      BY Zenon DEF Main, DetectCoordinators, DetectOthers, LaunchClients, Join, Joined, Ready, NotReady, PortTimeout,
                   Shutdown, TornDown, SeePort
    <2>4. CtrlC => <1>1!7
      BY Zenon DEF CtrlC
    <2>5. Rerun => <1>1!8
      BY Zenon DEF Rerun
    <2>6. ASSUME NEW c \in C, HandleMessage(c) PROVE <1>1!6
      BY <2>6, Zenon DEF HandleMessage
    <2>7. ASSUME NEW c \in C, NEW s \in Svc, MonitorWaits(c, s) \/ MonitorFires(c, s) \/ Crash(c, s)
          PROVE  <1>1!1 \/ <1>1!2
      BY <2>7, Zenon DEF MonitorWaits, MonitorFires, Crash
    <2> QED BY <2>1, <2>2, <2>3, <2>4, <2>5, <2>6, <2>7, Zenon DEF RunNext, run
  <1> QED BY <1>1, SMT DEF Budget, C

(* A client that a step does not touch. *)
LEMMA Untouched ==
    ASSUME NEW d, ClientInv(d), main' = main, clients' = clients,
           launch'[d] = launch[d], tear'[d] = tear[d], proc'[d] = proc[d], sub'[d] = sub[d],
           ctx'[d] = ctx[d], ended'[d] = ended[d]
    PROVE  ClientInv(d)'
  BY Zenon DEF ClientInv, LaunchInv, TearInv, MainInv, CoordinatorInv, Quiet, NoCoordinator

(* A step of one client. *)
LEMMA OnClient ==
    ASSUME RunInv, RunTypes', C' = C, NEW c \in C, main' = main, clients' = clients,
           \A d \in C \ {c} : /\ launch'[d] = launch[d] /\ tear'[d] = tear[d] /\ proc'[d] = proc[d]
                              /\ sub'[d] = sub[d] /\ ctx'[d] = ctx[d] /\ ended'[d] = ended[d],
           ClientInv(c)'
    PROVE  RunInv'
  <1>1. ASSUME NEW d \in C PROVE ClientInv(d)'
    <2>1. CASE d = c
      BY <2>1
    <2>2. CASE d # c
      <3>1. d \in C \ {c}
        BY <2>2
      <3> QED BY <3>1, Untouched, Zenon DEF RunInv
    <2> QED BY <2>1, <2>2
  <1> QED BY <1>1 DEF RunInv

(* A step of the processes of one client, in which none comes to life. *)
LEMMA ProcessesStep ==
    ASSUME RunInv, RunTypes', C' = C, NEW c \in C, UNCHANGED launcher,
           \A d \in C \ {c} : proc'[d] = proc[d] /\ sub'[d] = sub[d] /\ ctx'[d] = ctx[d] /\ ended'[d] = ended[d],
           \A s \in Svc : proc'[c][s] \in Live => proc[c][s] \in Live,
           proc[c]["coordinator"] = "none" => proc'[c]["coordinator"] = "none",
           CoordinatorInv(c)'
    PROVE  RunInv'
  <1>1. main' = main /\ clients' = clients /\ launch' = launch /\ tear' = tear
    BY DEF launcher
  <1>2. ClientInv(c)
    BY DEF RunInv
  <1>3. Quiet(c) => Quiet(c)'
    BY Zenon DEF Quiet
  <1>4. NoCoordinator(c) => NoCoordinator(c)'
    BY DEF NoCoordinator, Svc
  <1>5. LaunchInv(c)' /\ TearInv(c)' /\ MainInv(c)'
    BY <1>1, <1>2, <1>3, <1>4, Zenon DEF ClientInv, LaunchInv, TearInv, MainInv
  <1> QED BY <1>1, <1>5, OnClient, Zenon DEF ClientInv

(* The processes that End ends are gone, and no other changes. *)
LEMMA EndShape ==
    ASSUME RunTypes, NEW c \in C, NEW S \in SUBSET Alive(c), End(c, S)
    PROVE  /\ proc' \in [C -> [Svc -> {"none", "starting", "up", "gone"}]]
           /\ sub' \in [C -> [Indexers -> {"no", "asked", "yes"}]]
           /\ ended' \in [C -> {"no", "returned", "killed"}]
           /\ \A d \in C \ {c} : proc'[d] = proc[d] /\ sub'[d] = sub[d] /\ ended'[d] = ended[d]
           /\ \A s \in Svc : proc'[c][s] = IF s \in S THEN "gone" ELSE proc[c][s]
           /\ \A b \in Indexers : b \notin S => sub'[c][b] = sub[c][b]
           /\ ended'[c] = IF "coordinator" \in S THEN "killed" ELSE ended[c]
  <1>1. proc \in [C -> [Svc -> {"none", "starting", "up", "gone"}]]
    BY DEF RunTypes
  <1>2. sub \in [C -> [Indexers -> {"no", "asked", "yes"}]] /\ ended \in [C -> {"no", "returned", "killed"}]
    BY DEF RunTypes
  <1>3. Forgets(c, S) \in [Indexers -> {"no", "asked", "yes"}]
        /\ \A b \in Indexers : b \notin S => Forgets(c, S)[b] = sub[c][b]
    BY <1>2 DEF Forgets
  <1>4. sub' = [sub EXCEPT ![c] = Forgets(c, S)]
    BY DEF End
  <1>5. proc' = [proc EXCEPT ![c] = [s \in Svc |-> IF s \in S THEN "gone" ELSE proc[c][s]]]
    BY DEF End
  <1>6. ended' = IF "coordinator" \in S THEN [ended EXCEPT ![c] = "killed"] ELSE ended
    BY DEF End
  <1>7. /\ proc' \in [C -> [Svc -> {"none", "starting", "up", "gone"}]]
        /\ \A d \in C \ {c} : proc'[d] = proc[d]
        /\ \A s \in Svc : proc'[c][s] = IF s \in S THEN "gone" ELSE proc[c][s]
    BY <1>1, <1>5
  <1>8. /\ sub' \in [C -> [Indexers -> {"no", "asked", "yes"}]]
        /\ \A d \in C \ {c} : sub'[d] = sub[d]
        /\ \A b \in Indexers : b \notin S => sub'[c][b] = sub[c][b]
    BY <1>2, <1>3, <1>4
  <1>9. /\ ended' \in [C -> {"no", "returned", "killed"}]
        /\ \A d \in C \ {c} : ended'[d] = ended[d]
        /\ ended'[c] = IF "coordinator" \in S THEN "killed" ELSE ended[c]
    BY <1>2, <1>6
  <1> QED BY <1>7, <1>8, <1>9

(* What End does to a client whose processes S run. *)
LEMMA EndClient ==
    ASSUME RunInv, NEW c \in C, NEW S \in SUBSET Alive(c), End(c, S), UNCHANGED ctx
    PROVE  /\ \A s \in Svc : proc'[c][s] \in Live => proc[c][s] \in Live
           /\ proc[c]["coordinator"] = "none" => proc'[c]["coordinator"] = "none"
           /\ CoordinatorInv(c)'
  <1>1. RunTypes /\ CoordinatorInv(c)
    BY DEF RunInv, ClientInv
  <1>2. /\ \A s \in Svc : proc'[c][s] = IF s \in S THEN "gone" ELSE proc[c][s]
        /\ \A b \in Indexers : b \notin S => sub'[c][b] = sub[c][b]
        /\ ended'[c] = IF "coordinator" \in S THEN "killed" ELSE ended[c]
    BY <1>1, EndShape
  <1>3. \A s \in Svc : proc'[c][s] \in Live => proc[c][s] \in Live
    BY <1>2 DEF Live
  <1>4. "coordinator" \in Svc /\ Indexers \subseteq Svc
    BY DEF Svc, Others
  <1>5. proc[c]["coordinator"] = "none" => proc'[c]["coordinator"] = "none"
    BY <1>2, <1>4 DEF Alive, Live
  <1>6. CoordinatorInv(c)'
    <2>1. ended'[c] = "returned" => NoCoordinator(c)' /\ ctx'[c] = "saved"
      BY <1>1, <1>2, <1>4 DEF CoordinatorInv, NoCoordinator
    <2>2. ASSUME proc'[c]["coordinator"] = "up", NEW b \in Indexers
          PROVE  proc'[c][b] = "gone" \/ (proc'[c][b] = "up" /\ sub'[c][b] # "no")
      BY <1>1, <1>2, <1>4, <2>2 DEF CoordinatorInv
    <2> QED BY <2>1, <2>2 DEF CoordinatorInv
  <1> QED BY <1>3, <1>5, <1>6

(* The end of a process. *)
LEMMA EndStep ==
    ASSUME RunInv, runLeft' \in Budget, C' = C, NEW c \in C, NEW s \in Svc, proc[c][s] \in Live,
           End(c, {s}), UNCHANGED launcher, UNCHANGED ctx
    PROVE  RunInv'
  <1>1. {s} \in SUBSET Alive(c)
    BY DEF Alive
  <1>2. RunTypes'
    BY Zenon, <1>1, EndShape DEF RunInv, RunTypes, launcher
  <1>3. \A d \in C \ {c} : proc'[d] = proc[d] /\ sub'[d] = sub[d] /\ ctx'[d] = ctx[d] /\ ended'[d] = ended[d]
    BY <1>1, EndShape, Zenon DEF RunInv
  <1> QED BY <1>1, <1>2, <1>3, EndClient, ProcessesStep, Zenon

(* A service opens its port. *)
LEMMA ServiceUpStep ==
    ASSUME RunInv, runLeft' \in Budget, C' = C, NEW c \in C, NEW s \in Svc, ServiceUp(c, s)
    PROVE  RunInv'
  <1>1. RunTypes /\ CoordinatorInv(c)
    BY DEF RunInv, ClientInv
  <1>2. s \in Others /\ proc[c][s] = "starting" /\ proc' = [proc EXCEPT ![c][s] = "up"]
        /\ UNCHANGED <<launcher, sub, ctx, ended>>
    BY DEF ServiceUp
  <1>3. proc \in [C -> [Svc -> {"none", "starting", "up", "gone"}]]
    BY <1>1 DEF RunTypes
  <1>4. /\ proc' \in [C -> [Svc -> {"none", "starting", "up", "gone"}]]
        /\ \A d \in C \ {c} : proc'[d] = proc[d]
        /\ \A x \in Svc : proc'[c][x] = IF x = s THEN "up" ELSE proc[c][x]
    BY <1>2, <1>3
  <1>5. RunTypes'
    BY <1>1, <1>2, <1>4 DEF RunTypes, launcher
  <1>6. \A x \in Svc : proc'[c][x] \in Live => proc[c][x] \in Live
    BY <1>2, <1>4 DEF Live
  <1>7. "coordinator" \in Svc /\ s # "coordinator" /\ Indexers \subseteq Svc
    BY <1>2 DEF Svc, Others, Indexers
  <1>8. proc'[c]["coordinator"] = proc[c]["coordinator"]
    BY <1>4, <1>7
  <1>9. CoordinatorInv(c)'
    <2>1. ASSUME proc'[c]["coordinator"] = "up", NEW b \in Indexers
          PROVE  proc'[c][b] = "gone" \/ (proc'[c][b] = "up" /\ sub'[c][b] # "no")
      BY <1>1, <1>2, <1>4, <1>7, <1>8, <2>1 DEF CoordinatorInv
    <2> QED BY <1>1, <1>2, <1>8, <2>1 DEF CoordinatorInv, NoCoordinator
  <1> QED BY <1>2, <1>4, <1>5, <1>6, <1>8, <1>9, ProcessesStep, Zenon

(* An indexer takes the coordinator's request. *)
LEMMA UpdateConsumersStep ==
    ASSUME RunInv, runLeft' \in Budget, C' = C, NEW c \in C, NEW b \in Indexers, UpdateConsumers(c, b)
    PROVE  RunInv'
  <1>1. RunTypes /\ CoordinatorInv(c)
    BY DEF RunInv, ClientInv
  <1>2. sub' = [sub EXCEPT ![c][b] = "yes"] /\ UNCHANGED <<launcher, proc, ctx, ended>>
    BY DEF UpdateConsumers
  <1>3. /\ sub' \in [C -> [Indexers -> {"no", "asked", "yes"}]]
        /\ \A d \in C \ {c} : sub'[d] = sub[d]
        /\ \A x \in Indexers : sub[c][x] # "no" => sub'[c][x] # "no"
    BY <1>1, <1>2 DEF RunTypes
  <1>4. RunTypes'
    BY <1>1, <1>2, <1>3 DEF RunTypes, launcher
  <1>5. CoordinatorInv(c)'
    BY Zenon, <1>1, <1>2, <1>3 DEF CoordinatorInv, NoCoordinator
  <1> QED BY <1>2, <1>3, <1>4, <1>5, ProcessesStep, Zenon

(* The coordinator comes to its loop with both of its requests sent, or    *)
(* ends.                                                                   *)
LEMMA CoordinatorStartsStep ==
    ASSUME RunInv, runLeft' \in Budget, C' = C, NEW c \in C, CoordinatorStarts(c)
    PROVE  RunInv'
  <1>1. RunTypes /\ CoordinatorInv(c)
    BY DEF RunInv, ClientInv
  <1>2. /\ proc[c]["coordinator"] = "starting"
        /\ sub' = [sub EXCEPT ![c] = [b \in Indexers |-> IF b \in Asked(c) THEN "asked" ELSE sub[c][b]]]
        /\ ctx' = [ctx EXCEPT ![c] = "saved"]
        /\ UNCHANGED launcher
        /\ IF Asked(c) = Indexers
           THEN proc' = [proc EXCEPT ![c]["coordinator"] = "up"] /\ UNCHANGED ended
           ELSE proc' = [proc EXCEPT ![c]["coordinator"] = "gone"] /\ ended' = [ended EXCEPT ![c] = "killed"]
    BY DEF CoordinatorStarts, LoadContext
  <1>3. "coordinator" \in Svc /\ Indexers \subseteq Svc /\ "coordinator" \notin Indexers
    BY DEF Svc, Others, Indexers
  <1>4. /\ sub' \in [C -> [Indexers -> {"no", "asked", "yes"}]]
        /\ \A d \in C \ {c} : sub'[d] = sub[d]
        /\ \A b \in Indexers : b \in Asked(c) => sub'[c][b] = "asked"
    BY <1>1, <1>2 DEF RunTypes
  <1>5. /\ ctx' \in [C -> {"saved", "changed"}]
        /\ \A d \in C \ {c} : ctx'[d] = ctx[d]
        /\ ctx'[c] = "saved"
    BY <1>1, <1>2 DEF RunTypes
  <1>6. PICK to \in {"up", "gone"} :
            /\ proc' = [proc EXCEPT ![c]["coordinator"] = to]
            /\ to = "up" => Asked(c) = Indexers /\ ended' = ended
            /\ to = "gone" => ended' = [ended EXCEPT ![c] = "killed"]
    <2>1. CASE Asked(c) = Indexers
      BY <1>2, <2>1
    <2>2. CASE Asked(c) # Indexers
      BY <1>2, <2>2
    <2> QED BY <2>1, <2>2
  <1>7. /\ proc' \in [C -> [Svc -> {"none", "starting", "up", "gone"}]]
        /\ \A d \in C \ {c} : proc'[d] = proc[d]
        /\ \A x \in Svc : proc'[c][x] = IF x = "coordinator" THEN to ELSE proc[c][x]
    BY <1>1, <1>3, <1>6 DEF RunTypes
  <1>8. /\ ended' \in [C -> {"no", "returned", "killed"}]
        /\ \A d \in C \ {c} : ended'[d] = ended[d]
        /\ ended'[c] = IF to = "up" THEN ended[c] ELSE "killed"
    BY <1>1, <1>6 DEF RunTypes
  <1>9. RunTypes'
    BY Zenon, <1>1, <1>2, <1>4, <1>5, <1>7, <1>8 DEF RunTypes, launcher
  <1>10. \A x \in Svc : proc'[c][x] \in Live => proc[c][x] \in Live
    BY <1>2, <1>7 DEF Live
  <1>11. CoordinatorInv(c)'
    <2>1. ended[c] # "returned"
      BY <1>1, <1>2 DEF CoordinatorInv, NoCoordinator, Live
    <2>2. ASSUME proc'[c]["coordinator"] = "up", NEW b \in Indexers
          PROVE  proc'[c][b] = "up" /\ sub'[c][b] # "no"
      <3>1. Asked(c) = Indexers
        BY <1>3, <1>6, <1>7, <2>2
      <3>2. proc[c][b] = "up"
        BY <3>1 DEF Asked, Reachable
      <3> QED BY Zenon, <1>3, <1>4, <1>7, <3>1, <3>2
    <2> QED BY Zenon, <1>5, <1>8, <2>1, <2>2 DEF CoordinatorInv
  <1>12. proc[c]["coordinator"] # "none" /\ UNCHANGED launcher
    BY <1>2
  <1>13. \A d \in C \ {c} : proc'[d] = proc[d] /\ sub'[d] = sub[d] /\ ctx'[d] = ctx[d] /\ ended'[d] = ended[d]
    BY <1>4, <1>5, <1>7, <1>8
  <1> QED BY <1>9, <1>10, <1>11, <1>12, <1>13, ProcessesStep, Zenon

(* A message is handled, or the context is saved, while the coordinator is *)
(* in its loop.                                                            *)
LEMMA ContextStep ==
    ASSUME RunInv, runLeft' \in Budget, C' = C, NEW c \in C, HandleMessage(c) \/ SaveContext(c)
    PROVE  RunInv'
  <1>1. RunTypes /\ CoordinatorInv(c)
    BY DEF RunInv, ClientInv
  <1>2. proc[c]["coordinator"] = "up" /\ UNCHANGED <<launcher, proc, sub, ended>>
    BY Zenon DEF HandleMessage, SaveContext
  <1>3. ctx' = ctx \/ \E x \in {"saved", "changed"} : ctx' = [ctx EXCEPT ![c] = x]
    BY Zenon DEF HandleMessage, SaveContext
  <1>4. ctx' \in [C -> {"saved", "changed"}] /\ \A d \in C \ {c} : ctx'[d] = ctx[d]
    BY Zenon, <1>1, <1>3 DEF RunTypes
  <1>5. RunTypes'
    BY <1>1, <1>2, <1>4 DEF RunTypes, launcher
  <1>6. CoordinatorInv(c)'
    BY <1>1, <1>2 DEF CoordinatorInv, NoCoordinator, Live
  <1> QED BY <1>2, <1>4, <1>5, <1>6, ProcessesStep, Zenon

(* The coordinator returns with its context saved. *)
LEMMA CoordinatorReturnsStep ==
    ASSUME RunInv, runLeft' \in Budget, C' = C, NEW c \in C, CoordinatorReturns(c)
    PROVE  RunInv'
  <1>1. RunTypes
    BY DEF RunInv
  <1>2. /\ proc[c]["coordinator"] = "up"
        /\ proc' = [proc EXCEPT ![c]["coordinator"] = "gone"]
        /\ ctx' = [ctx EXCEPT ![c] = "saved"]
        /\ ended' = [ended EXCEPT ![c] = "returned"]
        /\ UNCHANGED <<launcher, sub>>
    BY DEF CoordinatorReturns, LoopEnds
  <1>3. "coordinator" \in Svc
    BY DEF Svc
  <1>4. /\ proc' \in [C -> [Svc -> {"none", "starting", "up", "gone"}]]
        /\ \A d \in C \ {c} : proc'[d] = proc[d]
        /\ \A x \in Svc : proc'[c][x] = IF x = "coordinator" THEN "gone" ELSE proc[c][x]
    BY <1>1, <1>2, <1>3 DEF RunTypes
  <1>5. /\ ctx' \in [C -> {"saved", "changed"}] /\ ended' \in [C -> {"no", "returned", "killed"}]
        /\ \A d \in C \ {c} : ctx'[d] = ctx[d] /\ ended'[d] = ended[d]
        /\ ctx'[c] = "saved"
    BY <1>1, <1>2 DEF RunTypes
  <1>6. RunTypes'
    BY <1>1, <1>2, <1>4, <1>5 DEF RunTypes, launcher
  <1>7. \A x \in Svc : proc'[c][x] \in Live => proc[c][x] \in Live
    BY <1>4 DEF Live
  <1>8. CoordinatorInv(c)'
    BY Zenon, <1>3, <1>4, <1>5 DEF CoordinatorInv, NoCoordinator, Live
  <1>9. proc[c]["coordinator"] # "none"
    BY <1>2
  <1> QED BY <1>2, <1>4, <1>5, <1>6, <1>7, <1>8, <1>9, ProcessesStep, Zenon

(* The processes keep the invariant. *)
LEMMA ProcessStep ==
    ASSUME RunInv, runLeft' \in Budget, C' = C, NEW c \in C,
           Process(c) \/ HandleMessage(c) \/ \E s \in Svc : Crash(c, s)
    PROVE  RunInv'
  <1>1. ASSUME NEW s \in Svc, ServiceStops(c, s) PROVE RunInv'
    BY <1>1, EndStep DEF ServiceStops
  <1>2. ASSUME NEW s \in Svc, Crash(c, s) PROVE RunInv'
    BY <1>2, EndStep DEF Crash
  <1>3. ASSUME CoordinatorStopsEarly(c) PROVE RunInv'
    BY <1>3, EndStep DEF CoordinatorStopsEarly, Live, Svc
  <1> QED BY <1>1, <1>2, <1>3, ServiceUpStep, UpdateConsumersStep, CoordinatorStartsStep, ContextStep,
             CoordinatorReturnsStep, Zenon DEF Process

-----------------------------------------------------------------------------
(* A step of a launch thread or of a teardown that starts no process: what *)
(* changes is where the thread of the client is.                           *)
LEMMA ThreadFrame ==
    ASSUME RunInv, runLeft' \in Budget, C' = C, NEW c \in C, UNCHANGED <<main, clients, proc, sub, ctx, ended>>,
           launch' \in [C -> Svc \cup {"no", "queued", "settle", "cleanup", "ok", "failed", "joined"}],
           tear' \in [C -> {"no", "wait", "others", "poll", "done"}],
           \A d \in C \ {c} : launch'[d] = launch[d] /\ tear'[d] = tear[d],
           LaunchInv(c)', TearInv(c)'
    PROVE  RunInv'
  <1>1. RunTypes /\ ClientInv(c)
    BY DEF RunInv
  <1>2. RunTypes'
    BY <1>1 DEF RunTypes
  <1>3. MainInv(c)' /\ CoordinatorInv(c)'
    BY <1>1, Zenon DEF ClientInv, MainInv, CoordinatorInv, Quiet, NoCoordinator
  <1> QED BY <1>2, <1>3, OnClient, Zenon DEF ClientInv

(* A launch thread that works is one that run_clients waits for. *)
LEMMA WorkingLaunch ==
    ASSUME RunInv, NEW c \in C, launch[c] \notin {"no", "joined"}
    PROVE  main = "launch" /\ tear[c] = "no"
  BY Zenon DEF RunInv, ClientInv, LaunchInv, TearInv

(* A launch begins. *)
LEMMA LaunchBeginsStep ==
    ASSUME RunInv, runLeft' \in Budget, C' = C, NEW c \in C, LaunchBegins(c)
    PROVE  RunInv'
  <1>1. RunTypes /\ LaunchInv(c)
    BY DEF RunInv, ClientInv
  <1>2. launch[c] = "queued" /\ launch' = [launch EXCEPT ![c] = "block-indexer"]
        /\ UNCHANGED <<main, clients, tear, proc, sub, ctx, ended>>
    BY DEF LaunchBegins, world
  <1>3. main = "launch" /\ tear[c] = "no"
    BY <1>2, WorkingLaunch
  <1>4. /\ launch' \in [C -> Svc \cup {"no", "queued", "settle", "cleanup", "ok", "failed", "joined"}]
        /\ \A d \in C \ {c} : launch'[d] = launch[d]
        /\ launch'[c] = "block-indexer"
    BY <1>1, <1>2 DEF RunTypes, Svc, Others, Indexers
  <1>5. LaunchInv(c)' /\ TearInv(c)'
    BY Zenon, <1>1, <1>2, <1>3, <1>4 DEF LaunchInv, TearInv
  <1>6. tear' \in [C -> {"no", "wait", "others", "poll", "done"}]
    BY <1>1, <1>2 DEF RunTypes
  <1> QED BY <1>2, <1>4, <1>5, <1>6, ThreadFrame, Zenon

(* A launch thread starts the next service; the coordinator comes last. *)
LEMMA LaunchNextStep ==
    ASSUME RunInv, runLeft' \in Budget, C' = C, NEW c \in C, LaunchNext(c)
    PROVE  RunInv'
  <1> DEFINE s == launch[c]
  <1>1. RunTypes /\ ClientInv(c)
    BY DEF RunInv
  <1>2. /\ s \in Svc
        /\ proc' = [proc EXCEPT ![c][s] = "starting"]
        /\ ended' = IF s = "coordinator" THEN [ended EXCEPT ![c] = "no"] ELSE ended
        /\ launch' = [launch EXCEPT ![c] = Following[s]]
        /\ UNCHANGED <<main, clients, tear, sub, ctx>>
    BY DEF LaunchNext, Spawn
  <1>3. main = "launch" /\ tear[c] = "no"
    BY <1>2, WorkingLaunch DEF Svc, Others, Indexers
  <1>4. proc[c]["coordinator"] = "none"
    BY <1>1, <1>2 DEF ClientInv, LaunchInv
  <1> HIDE DEF s
  <1>5. /\ Following[s] \in (Svc \ {"block-indexer"}) \cup {"settle"}
        /\ s = "coordinator" <=> Following[s] = "settle"
    BY <1>2 DEF Following, Svc, Others, Indexers
  <1>6. /\ launch' \in [C -> Svc \cup {"no", "queued", "settle", "cleanup", "ok", "failed", "joined"}]
        /\ \A d \in C \ {c} : launch'[d] = launch[d]
        /\ launch'[c] = Following[s]
    BY <1>1, <1>2, <1>5 DEF RunTypes
  <1>7. /\ proc' \in [C -> [Svc -> {"none", "starting", "up", "gone"}]]
        /\ \A d \in C \ {c} : proc'[d] = proc[d]
        /\ \A x \in Svc : proc'[c][x] = IF x = s THEN "starting" ELSE proc[c][x]
    BY <1>1, <1>2 DEF RunTypes
  <1>8. /\ ended' \in [C -> {"no", "returned", "killed"}]
        /\ \A d \in C \ {c} : ended'[d] = ended[d]
        /\ ended'[c] = IF s = "coordinator" THEN "no" ELSE ended[c]
    BY <1>1, <1>2 DEF RunTypes
  <1>9. RunTypes'
    BY <1>1, <1>2, <1>6, <1>7, <1>8 DEF RunTypes
  <1>10. "coordinator" \in Svc /\ "settle" \notin Svc \cup {"queued", "failed", "joined", "no"}
         /\ Svc \cap {"queued", "failed", "joined", "no"} = {}
    BY DEF Svc, Others, Indexers
  <1>11. LaunchInv(c)'
    BY <1>2, <1>3, <1>4, <1>5, <1>6, <1>7, <1>10 DEF LaunchInv, Ending
  <1>12. TearInv(c)' /\ MainInv(c)'
    BY <1>2, <1>3 DEF TearInv, MainInv, Ending
  <1>13. CoordinatorInv(c)'
    BY Zenon, <1>1, <1>2, <1>4, <1>7, <1>8, <1>10 DEF ClientInv, CoordinatorInv, NoCoordinator, Live
  <1>14. \A d \in C \ {c} : /\ launch'[d] = launch[d] /\ tear'[d] = tear[d] /\ proc'[d] = proc[d]
                            /\ sub'[d] = sub[d] /\ ctx'[d] = ctx[d] /\ ended'[d] = ended[d]
    BY Zenon, <1>2, <1>6, <1>7, <1>8
  <1>15. main' = main /\ clients' = clients
    BY <1>2
  <1> QED BY <1>9, <1>11, <1>12, <1>13, <1>14, <1>15, OnClient, Zenon DEF ClientInv

(* A launch that stops goes to its cleanup. *)
LEMMA CleansUpStep ==
    ASSUME RunInv, runLeft' \in Budget, C' = C, NEW c \in C, launch[c] \in Svc \cup {"settle"},
           CleansUp(c), UNCHANGED <<main, clients, tear, proc, sub, ctx, ended>>
    PROVE  RunInv'
  <1>1. RunTypes /\ LaunchInv(c)
    BY DEF RunInv, ClientInv
  <1>2. launch' = [launch EXCEPT ![c] = "cleanup"]
    BY DEF CleansUp
  <1>3. main = "launch" /\ tear[c] = "no"
    BY WorkingLaunch DEF Svc, Others, Indexers
  <1>4. /\ launch' \in [C -> Svc \cup {"no", "queued", "settle", "cleanup", "ok", "failed", "joined"}]
        /\ \A d \in C \ {c} : launch'[d] = launch[d]
        /\ launch'[c] = "cleanup"
    BY <1>1, <1>2 DEF RunTypes
  <1>5. LaunchInv(c)' /\ TearInv(c)'
    BY <1>3, <1>4 DEF LaunchInv, TearInv, Svc, Others, Indexers, Ending
  <1>6. tear' \in [C -> {"no", "wait", "others", "poll", "done"}]
    BY <1>1 DEF RunTypes
  <1> QED BY <1>4, <1>5, <1>6, ThreadFrame, Zenon

(* The last look of a launch thread. *)
LEMMA SettleStep ==
    ASSUME RunInv, runLeft' \in Budget, C' = C, NEW c \in C, Settle(c)
    PROVE  RunInv'
  <1>1. launch[c] = "settle" /\ UNCHANGED <<main, clients, tear, proc, sub, ctx, ended>>
    BY Zenon DEF Settle
  <1>2. CASE cancelled \/ Exited(c) # {}
    <2>1. CleansUp(c)
      BY Zenon, <1>2 DEF Settle
    <2>2. launch[c] \in Svc \cup {"settle"}
      BY Zenon, <1>1
    <2> QED BY Zenon, <1>1, <2>1, <2>2, CleansUpStep
  <1>3. CASE ~(cancelled \/ Exited(c) # {})
    <2>1. RunTypes /\ LaunchInv(c)
      BY DEF RunInv, ClientInv
    <2>2. launch' = [launch EXCEPT ![c] = "ok"]
      BY Zenon, <1>3 DEF Settle
    <2>0. launch[c] \notin {"no", "joined"}
      BY <1>1
    <2>3. main = "launch" /\ tear[c] = "no"
      BY Zenon, <2>0, WorkingLaunch
    <2>4. /\ launch' \in [C -> Svc \cup {"no", "queued", "settle", "cleanup", "ok", "failed", "joined"}]
          /\ \A d \in C \ {c} : launch'[d] = launch[d]
          /\ launch'[c] = "ok"
      BY <2>1, <2>2 DEF RunTypes
    <2>5. LaunchInv(c)' /\ TearInv(c)'
      BY Zenon, <1>1, <2>3, <2>4 DEF LaunchInv, TearInv, Svc, Others, Indexers, Ending
    <2>6. tear' \in [C -> {"no", "wait", "others", "poll", "done"}]
      BY <1>1, <2>1 DEF RunTypes
    <2> QED BY <1>1, <2>4, <2>5, <2>6, ThreadFrame, Zenon
  <1> QED BY <1>2, <1>3

(* A thread that kills: none of the client's processes comes to life. *)
LEMMA KillStep ==
    ASSUME RunInv, runLeft' \in Budget, C' = C, NEW c \in C, NEW S \in SUBSET Svc, Kill(c, S),
           UNCHANGED <<main, clients, ctx>>,
           launch' \in [C -> Svc \cup {"no", "queued", "settle", "cleanup", "ok", "failed", "joined"}],
           tear' \in [C -> {"no", "wait", "others", "poll", "done"}],
           \A d \in C \ {c} : launch'[d] = launch[d] /\ tear'[d] = tear[d],
           (\A s \in S : proc'[c][s] \notin Live) => LaunchInv(c)' /\ TearInv(c)'
    PROVE  RunInv'
  <1> DEFINE K == S \cap Alive(c)
  <1>1. RunTypes /\ ClientInv(c)
    BY DEF RunInv
  <1>2. K \in SUBSET Alive(c) /\ End(c, K)
    BY Zenon DEF Kill
  <1> HIDE DEF K
  <1>3. RunTypes'
    BY Zenon, <1>1, <1>2, EndShape DEF RunTypes
  <1>4. /\ \A d \in C \ {c} : proc'[d] = proc[d] /\ sub'[d] = sub[d] /\ ended'[d] = ended[d]
        /\ \A s \in Svc : proc'[c][s] = IF s \in K THEN "gone" ELSE proc[c][s]
    BY Zenon, <1>1, <1>2, EndShape
  <1>5. /\ \A s \in Svc : proc'[c][s] \in Live => proc[c][s] \in Live
        /\ CoordinatorInv(c)'
    BY <1>2, EndClient, Zenon
  <1>6. \A s \in S : proc'[c][s] \notin Live
    BY Zenon, <1>4 DEF K, Alive, Live
  <1>7. MainInv(c)'
    <2>1. Quiet(c) => Quiet(c)'
      BY <1>5, Zenon DEF Quiet
    <2>2. NoCoordinator(c) => NoCoordinator(c)'
      BY Zenon, <1>5 DEF NoCoordinator, Svc
    <2> QED BY <1>1, <2>1, <2>2, Zenon DEF ClientInv, MainInv
  <1>8. ClientInv(c)'
    BY <1>5, <1>6, <1>7, Zenon DEF ClientInv
  <1>9. \A d \in C \ {c} : /\ launch'[d] = launch[d] /\ tear'[d] = tear[d] /\ proc'[d] = proc[d]
                           /\ sub'[d] = sub[d] /\ ctx'[d] = ctx[d] /\ ended'[d] = ended[d]
    BY Zenon, <1>4
  <1> QED BY <1>3, <1>8, <1>9, OnClient, Zenon

(* A failed launch has cleaned up behind it. *)
LEMMA CleanupKillStep ==
    ASSUME RunInv, runLeft' \in Budget, C' = C, NEW c \in C, CleanupKill(c)
    PROVE  RunInv'
  <1>1. RunTypes
    BY DEF RunInv
  <1>2. launch[c] = "cleanup" /\ Kill(c, Svc) /\ launch' = [launch EXCEPT ![c] = "failed"]
        /\ UNCHANGED <<main, clients, tear, ctx>>
    BY DEF CleanupKill
  <1>3. main = "launch" /\ tear[c] = "no"
    BY <1>2, WorkingLaunch
  <1>4. /\ launch' \in [C -> Svc \cup {"no", "queued", "settle", "cleanup", "ok", "failed", "joined"}]
        /\ \A d \in C \ {c} : launch'[d] = launch[d]
        /\ launch'[c] = "failed"
    BY <1>1, <1>2 DEF RunTypes
  <1>5. tear' \in [C -> {"no", "wait", "others", "poll", "done"}]
    BY <1>1, <1>2 DEF RunTypes
  <1>6. ASSUME \A s \in Svc : proc'[c][s] \notin Live PROVE LaunchInv(c)' /\ TearInv(c)'
    <2>1. "failed" \notin Svc
      BY DEF Svc, Others, Indexers
    <2> QED BY <1>2, <1>3, <1>4, <1>6, <2>1 DEF LaunchInv, TearInv, Quiet, Ending
  <1> QED BY Zenon, <1>2, <1>4, <1>5, <1>6, KillStep

(* A step of teardown_all for one client keeps its launch as it is. *)
LEMMA TearLaunch ==
    ASSUME RunInv, NEW c \in C, tear[c] # "no", UNCHANGED <<main, clients, launch>>, tear'[c] # "no"
    PROVE  LaunchInv(c)' /\ launch'[c] = "joined"
  <1>1. LaunchInv(c) /\ TearInv(c)
    BY DEF RunInv, ClientInv
  <1>2. launch[c] = "joined" /\ "joined" \notin {"queued"} \cup Svc
    BY <1>1 DEF TearInv, Svc, Others, Indexers
  <1> QED BY <1>2 DEF LaunchInv

(* teardown_all: the coordinator goes, the others are told, all are gone. *)
LEMMA TearStep ==
    ASSUME RunInv, runLeft' \in Budget, C' = C, NEW c \in C, CoordinatorGone(c) \/ TermOthers(c) \/ KillOthers(c)
    PROVE  RunInv'
  <1>1. RunTypes /\ TearInv(c)
    BY DEF RunInv, ClientInv
  <1>2. /\ UNCHANGED <<main, clients, launch, ctx>>
        /\ tear[c] \in {"wait", "others", "poll"}
        /\ \E x \in {"others", "poll", "done"} : tear' = [tear EXCEPT ![c] = x]
    BY DEF CoordinatorGone, TermOthers, KillOthers
  <1>3. /\ tear' \in [C -> {"no", "wait", "others", "poll", "done"}]
        /\ launch' \in [C -> Svc \cup {"no", "queued", "settle", "cleanup", "ok", "failed", "joined"}]
        /\ \A d \in C \ {c} : launch'[d] = launch[d] /\ tear'[d] = tear[d]
        /\ tear'[c] # "no"
    BY <1>1, <1>2 DEF RunTypes
  <1>4. LaunchInv(c)' /\ launch'[c] = "joined"
    <2>1. tear[c] # "no" /\ UNCHANGED <<main, clients, launch>>
      BY <1>2
    <2> QED BY <1>3, <2>1, TearLaunch
  <1>5. CASE CoordinatorGone(c)
    <2>1. Kill(c, {"coordinator"}) /\ tear' = [tear EXCEPT ![c] = "others"]
      BY <1>5 DEF CoordinatorGone
    <2>2. tear'[c] = "others"
      BY <1>1, <2>1 DEF RunTypes
    <2>3. ASSUME \A s \in {"coordinator"} : proc'[c][s] \notin Live PROVE TearInv(c)'
      BY Zenon, <1>4, <2>2, <2>3 DEF TearInv, NoCoordinator
    <2>4. {"coordinator"} \in SUBSET Svc
      BY DEF Svc
    <2> QED BY Zenon, <1>2, <1>3, <1>4, <2>1, <2>3, <2>4, KillStep
  <1>6. CASE TermOthers(c)
    <2>1. tear[c] = "others" /\ tear' = [tear EXCEPT ![c] = "poll"] /\ UNCHANGED <<proc, sub, ended>>
      BY <1>6 DEF TermOthers
    <2>2. TearInv(c)'
      <3>1. tear'[c] = "poll"
        BY <1>1, <2>1 DEF RunTypes
      <3>2. NoCoordinator(c)'
        BY Zenon, <1>1, <2>1 DEF TearInv, NoCoordinator
      <3> QED BY Zenon, <1>4, <3>1, <3>2 DEF TearInv
    <2> QED BY <1>2, <1>3, <1>4, <2>1, <2>2, ThreadFrame
  <1>7. CASE KillOthers(c)
    <2>1. Kill(c, Svc) /\ tear' = [tear EXCEPT ![c] = "done"]
      BY <1>7 DEF KillOthers
    <2>2. tear'[c] = "done"
      BY <1>1, <2>1 DEF RunTypes
    <2>3. ASSUME \A s \in Svc : proc'[c][s] \notin Live PROVE TearInv(c)'
      BY <1>4, <2>2, <2>3 DEF TearInv, Quiet
    <2> QED BY Zenon, <1>2, <1>3, <1>4, <2>1, <2>3, KillStep
  <1> QED BY <1>5, <1>6, <1>7

(* The threads keep the invariant. *)
LEMMA ThreadStep ==
    ASSUME RunInv, runLeft' \in Budget, C' = C, NEW c \in C, Thread(c)
    PROVE  RunInv'
  <1>1. ASSUME LaunchStops(c) PROVE RunInv'
    BY <1>1, CleansUpStep DEF LaunchStops
  <1> QED BY <1>1, LaunchBeginsStep, LaunchNextStep, SettleStep, CleanupKillStep, TearStep, Zenon DEF Thread

-----------------------------------------------------------------------------
(* A step of run_clients that leaves the processes as they are. *)
LEMMA MainFrame ==
    ASSUME RunInv, runLeft' \in Budget, C' = C, UNCHANGED <<proc, sub, ctx, ended>>,
           main' \in Starting \cup {"serve"} \cup Ending \cup Over,
           launch' \in [C -> Svc \cup {"no", "queued", "settle", "cleanup", "ok", "failed", "joined"}],
           tear' \in [C -> {"no", "wait", "others", "poll", "done"}],
           clients' \subseteq C,
           \A d \in C : LaunchInv(d)' /\ TearInv(d)' /\ MainInv(d)'
    PROVE  RunInv'
  <1>1. RunTypes'
    BY DEF RunInv, RunTypes
  <1>2. ASSUME NEW d \in C PROVE CoordinatorInv(d)'
    BY Zenon DEF RunInv, ClientInv, CoordinatorInv, NoCoordinator
  <1> QED BY <1>1, <1>2, Zenon DEF RunInv, ClientInv

(* A joined client keeps what it has when run_clients begins the teardown  *)
(* of the clients S.                                                       *)
LEMMA TearDownShape ==
    ASSUME RunTypes, NEW S \in SUBSET C, TearDown(S)
    PROVE  /\ tear' \in [C -> {"no", "wait", "others", "poll", "done"}]
           /\ \A d \in C : tear'[d] = IF d \in S THEN "wait" ELSE tear[d]
  BY Zenon DEF RunTypes, TearDown

(* All threads were joined: the clients that are not kept have nothing     *)
(* running, and those that are kept go on or are torn down.                *)
LEMMA LeavesLaunch ==
    ASSUME RunInv, runLeft' \in Budget, C' = C, UNCHANGED <<launch, clients, proc, sub, ctx, ended>>,
           \A d \in C : launch[d] = "joined",
           \A d \in C : d \notin clients => Quiet(d),
           main' \in {"ready", "serve"} \cup Ending,
           TearDown(clients) \/ UNCHANGED tear
    PROVE  RunInv'
  <1>1. RunTypes
    BY DEF RunInv
  <1>2. clients \in SUBSET C
    BY <1>1 DEF RunTypes
  <1>3. /\ tear' \in [C -> {"no", "wait", "others", "poll", "done"}]
        /\ \A d \in C : tear'[d] = tear[d] \/ tear'[d] = "wait"
    BY <1>1, <1>2, TearDownShape DEF RunTypes
  <1>4. "joined" \notin {"queued"} \cup Svc
    BY DEF Svc, Others, Indexers
  <1>5. ASSUME NEW d \in C PROVE LaunchInv(d)' /\ TearInv(d)' /\ MainInv(d)'
    <2>1. TearInv(d)
      BY DEF RunInv, ClientInv
    <2>2. (Quiet(d) => Quiet(d)') /\ (NoCoordinator(d) => NoCoordinator(d)')
      BY DEF Quiet, NoCoordinator
    <2>3. main' \notin {"launch", "done", "failed", "others"}
      BY DEF Ending
    <2>4. LaunchInv(d)'
      BY Zenon, <1>4, <2>3 DEF LaunchInv
    <2>5. TearInv(d)'
      BY <1>3, <2>1, <2>2 DEF TearInv
    <2>6. MainInv(d)'
      BY <2>2, <2>3 DEF MainInv
    <2> QED BY <2>4, <2>5, <2>6
  <1>6. main' \in Starting \cup {"serve"} \cup Ending \cup Over
    BY DEF Starting
  <1> QED BY <1>1, <1>3, <1>5, <1>6, MainFrame DEF RunTypes

(* The teardown of what run_clients keeps, from where all were joined. *)
LEMMA AfterLaunch ==
    ASSUME RunInv, main \in {"ready", "serve"} \cup Ending
    PROVE  /\ \A d \in C : launch[d] = "joined"
           /\ \A d \in C : d \notin clients => Quiet(d)
  BY Zenon DEF RunInv, ClientInv, LaunchInv, MainInv, Ending

(* A result of launch_set. *)
LEMMA JoinStep ==
    ASSUME RunInv, runLeft' \in Budget, C' = C, NEW c \in C, Join(c)
    PROVE  RunInv'
  <1>1. RunTypes /\ (\A d \in C : LaunchInv(d) /\ TearInv(d) /\ MainInv(d))
    BY DEF RunInv, ClientInv
  <1>2. main = "launch" /\ UNCHANGED <<main, proc, sub, ctx, ended>>
    BY DEF Join
  <1>3. "joined" \notin {"queued"} \cup Svc
    BY DEF Svc, Others, Indexers
  <1>4. \A d \in C : (Quiet(d) => Quiet(d)') /\ (NoCoordinator(d) => NoCoordinator(d)')
    BY <1>2 DEF Quiet, NoCoordinator
  <1>5. \A d \in C : MainInv(d)'
    BY <1>2 DEF MainInv, Ending
  <1>6. CASE /\ launch[c] = "ok" /\ launch' = [launch EXCEPT ![c] = "joined"]
             /\ \/ clients' = clients \cup {c} /\ tear' = tear
                \/ clients' = clients /\ TearDown({c})
    <2>1. /\ launch' \in [C -> Svc \cup {"no", "queued", "settle", "cleanup", "ok", "failed", "joined"}]
          /\ \A d \in C : launch'[d] = IF d = c THEN "joined" ELSE launch[d]
      BY <1>1, <1>6 DEF RunTypes
    <2>2. /\ tear' \in [C -> {"no", "wait", "others", "poll", "done"}]
          /\ \A d \in C : tear'[d] = tear[d] \/ (d = c /\ tear'[d] = "wait")
          /\ c \in clients' \/ tear'[c] = "wait"
          /\ clients \subseteq clients' /\ clients' \subseteq C
      <3>1. CASE clients' = clients \cup {c} /\ UNCHANGED tear
        BY <1>1, <3>1 DEF RunTypes
      <3>2. CASE clients' = clients /\ TearDown({c})
        BY <1>1, <3>2, TearDownShape DEF RunTypes
      <3> QED BY <1>6, <3>1, <3>2
    <2>3. ASSUME NEW d \in C PROVE LaunchInv(d)' /\ TearInv(d)'
      <3>1. CASE d = c
        <4>1. tear[c] = "no"
          BY <1>1, <1>6 DEF TearInv
        <4>2. launch'[c] = "joined"
          BY <2>1
        <4>3. LaunchInv(c)'
          BY Zenon, <1>2, <1>3, <2>2, <4>2 DEF LaunchInv
        <4>4. TearInv(c)'
          BY Zenon, <2>2, <4>1, <4>2 DEF TearInv
        <4> QED BY <3>1, <4>3, <4>4
      <3>2. CASE d # c
        <4>1. launch'[d] = launch[d] /\ tear'[d] = tear[d] /\ proc'[d] = proc[d] /\ (d \in clients => d \in clients')
          BY Zenon, <1>2, <2>1, <2>2, <3>2
        <4>2. LaunchInv(d)'
          BY Zenon, <1>1, <1>2, <1>4, <4>1 DEF LaunchInv
        <4>3. TearInv(d)'
          BY Zenon, <1>1, <1>4, <4>1 DEF TearInv
        <4> QED BY <4>2, <4>3
      <3> QED BY <3>1, <3>2
    <2> QED BY Zenon, <1>1, <1>2, <1>5, <2>1, <2>2, <2>3, MainFrame DEF RunTypes
  <1>7. CASE /\ launch[c] = "failed" /\ UNCHANGED <<clients, tear>>
             /\ launch' = [d \in C |-> IF d = c \/ launch[d] = "queued" THEN "joined" ELSE launch[d]]
    <2>1. /\ launch' \in [C -> Svc \cup {"no", "queued", "settle", "cleanup", "ok", "failed", "joined"}]
          /\ \A d \in C : launch'[d] = IF d = c \/ launch[d] = "queued" THEN "joined" ELSE launch[d]
      BY <1>1, <1>7 DEF RunTypes
    <2>2. ASSUME NEW d \in C PROVE LaunchInv(d)' /\ TearInv(d)'
      <3>1. CASE d = c \/ launch[d] = "queued"
        <4>1. launch[d] \in {"queued", "failed"} /\ launch'[d] = "joined" /\ Quiet(d)
          BY Zenon, <1>1, <1>7, <2>1, <3>1 DEF LaunchInv
        <4>2. tear'[d] = "no" /\ Quiet(d)'
          BY Zenon, <1>1, <1>4, <1>7, <4>1 DEF TearInv
        <4> QED BY Zenon, <1>2, <1>3, <4>1, <4>2 DEF LaunchInv, TearInv
      <3>2. CASE ~(d = c \/ launch[d] = "queued")
        <4>1. launch'[d] = launch[d]
          BY <2>1, <3>2
        <4>2. LaunchInv(d)'
          BY Zenon, <1>1, <1>2, <1>4, <1>7, <4>1 DEF LaunchInv
        <4>3. TearInv(d)'
          BY Zenon, <1>1, <1>4, <1>7, <4>1 DEF TearInv
        <4> QED BY <4>2, <4>3
      <3> QED BY <3>1, <3>2
    <2> QED BY Zenon, <1>1, <1>2, <1>5, <1>7, <2>1, <2>2, MainFrame DEF RunTypes
  <1> QED
    <2>1. \/ launch[c] = "ok" /\ launch' = [launch EXCEPT ![c] = "joined"] /\ clients' = clients \cup {c} /\ tear' = tear
          \/ launch[c] = "ok" /\ launch' = [launch EXCEPT ![c] = "joined"] /\ clients' = clients /\ TearDown({c})
          \/ /\ launch[c] = "failed" /\ UNCHANGED <<clients, tear>>
             /\ launch' = [d \in C |-> IF d = c \/ launch[d] = "queued" THEN "joined" ELSE launch[d]]
      BY Zenon DEF Join
    <2> QED BY <1>6, <1>7, <2>1

(* All results are there, the clients are ready or not, or the launcher is *)
(* told to stop.                                                           *)
LEMMA ServeStep ==
    ASSUME RunInv, runLeft' \in Budget, C' = C, Joined \/ Ready \/ NotReady \/ Shutdown
    PROVE  RunInv'
  <1>1. RunTypes /\ (\A d \in C : LaunchInv(d) /\ TearInv(d))
    BY DEF RunInv, ClientInv
  <1>2. UNCHANGED <<launch, clients, proc, sub, ctx, ended>> /\ (TearDown(clients) \/ UNCHANGED tear)
    BY Zenon DEF Joined, Ready, NotReady, Shutdown, world
  <1>3. main' \in {"ready", "serve"} \cup Ending
    BY DEF Joined, Ready, NotReady, Shutdown, Ending
  <1>4. CASE Joined
    <2>1. main = "launch" /\ (\A d \in C : launch[d] = "joined" /\ tear[d] \in {"no", "done"})
      BY Zenon, <1>4 DEF Joined, Idle
    <2>2. ASSUME NEW d \in C, d \notin clients PROVE Quiet(d)
      BY Zenon, <1>1, <2>1, <2>2 DEF LaunchInv, TearInv
    <2> QED BY Zenon, <1>2, <1>3, <2>1, <2>2, LeavesLaunch
  <1>5. CASE Ready \/ NotReady \/ Shutdown
    <2>1. main \in {"ready", "serve"} \cup Ending
      BY Zenon, <1>5 DEF Ready, NotReady, Shutdown
    <2> QED BY <1>2, <1>3, <2>1, AfterLaunch, LeavesLaunch
  <1> QED BY <1>4, <1>5

(* The launcher returns when every client that it keeps is torn down. *)
LEMMA TornDownStep ==
    ASSUME RunInv, runLeft' \in Budget, C' = C, TornDown
    PROVE  RunInv'
  <1>1. RunTypes /\ (\A d \in C : LaunchInv(d) /\ TearInv(d) /\ MainInv(d))
    BY DEF RunInv, ClientInv
  <1>2. main \in Ending /\ main' \in {"done", "failed"} /\ (\A c \in clients : tear[c] = "done")
        /\ UNCHANGED <<launch, clients, tear, proc, sub, ctx, ended>>
    BY DEF TornDown, world
  <1>3. ASSUME NEW d \in C PROVE LaunchInv(d)' /\ TearInv(d)' /\ MainInv(d)'
    <2>1. Quiet(d)
      BY Zenon, <1>1, <1>2 DEF TearInv, MainInv
    <2>2. Quiet(d)' /\ (NoCoordinator(d) => NoCoordinator(d)')
      BY <1>2, <2>1 DEF Quiet, NoCoordinator
    <2>3. launch[d] = "joined" /\ "joined" \notin {"queued"} \cup Svc
      BY Zenon, <1>1, <1>2 DEF LaunchInv, Svc, Others, Indexers
    <2>4. LaunchInv(d)'
      BY Zenon, <1>2, <2>2, <2>3 DEF LaunchInv, Ending
    <2>5. TearInv(d)'
      BY Zenon, <1>1, <1>2, <2>2 DEF TearInv
    <2>6. MainInv(d)'
      BY <1>2, <2>2 DEF MainInv, Ending
    <2> QED BY <2>4, <2>5, <2>6
  <1>4. main' \in Starting \cup {"serve"} \cup Ending \cup Over
    BY <1>2 DEF Over
  <1> QED BY Zenon, <1>1, <1>2, <1>3, <1>4, MainFrame DEF RunTypes

(* The launcher starts, or starts again. *)
LEMMA StartStep ==
    ASSUME RunInv, runLeft' \in Budget, C' = C, Rerun \/ DetectCoordinators
    PROVE  RunInv'
  <1>1. RunTypes /\ (\A d \in C : LaunchInv(d) /\ TearInv(d))
    BY DEF RunInv, ClientInv
  <1>2. main \in {"start"} \cup Over /\ main' \in {"start", "coordinators"}
        /\ UNCHANGED <<launch, clients, tear, proc, sub, ctx, ended>>
    BY DEF Rerun, DetectCoordinators, world
  <1>3. ASSUME NEW d \in C PROVE LaunchInv(d)' /\ TearInv(d)' /\ MainInv(d)'
    <2>1. (Quiet(d) => Quiet(d)') /\ (NoCoordinator(d) => NoCoordinator(d)')
      BY Zenon, <1>2 DEF Quiet, NoCoordinator
    <2>2. launch[d] \in {"no", "joined"}
      BY Zenon, <1>1, <1>2 DEF LaunchInv, Over
    <2>3. LaunchInv(d)'
      BY Zenon, <1>2, <2>2 DEF LaunchInv, Ending, Svc, Others, Indexers
    <2>4. TearInv(d)'
      BY Zenon, <1>1, <1>2, <2>1 DEF TearInv
    <2>5. MainInv(d)'
      BY <1>2 DEF MainInv, Ending
    <2> QED BY <2>3, <2>4, <2>5
  <1>4. main' \in Starting \cup {"serve"} \cup Ending \cup Over
    BY <1>2 DEF Starting
  <1> QED BY <1>1, <1>2, <1>3, <1>4, MainFrame DEF RunTypes

(* detect_and_kill_existing_services comes to the others when the          *)
(* coordinators are gone.                                                  *)
LEMMA DetectOthersStep ==
    ASSUME RunInv, runLeft' \in Budget, C' = C, DetectOthers
    PROVE  RunInv'
  <1>1. RunTypes /\ (\A d \in C : ClientInv(d))
    BY DEF RunInv
  <1>2. /\ main = "coordinators" /\ main' = "others"
        /\ proc' = [c \in C |-> [proc[c] EXCEPT !["coordinator"] = IF @ \in Live THEN "gone" ELSE @]]
        /\ ended' = [c \in C |-> IF "coordinator" \in Alive(c) THEN "killed" ELSE ended[c]]
        /\ UNCHANGED <<launch, clients, tear, sub, ctx>>
    BY Zenon DEF DetectOthers
  <1>3. "coordinator" \in Svc /\ Indexers \subseteq Svc /\ "coordinator" \notin Indexers
    BY DEF Svc, Others, Indexers
  <1>4. /\ proc' \in [C -> [Svc -> {"none", "starting", "up", "gone"}]]
        /\ \A d \in C : \A s \in Svc : s # "coordinator" => proc'[d][s] = proc[d][s]
        /\ \A d \in C : proc'[d]["coordinator"] =
                            IF proc[d]["coordinator"] \in Live THEN "gone" ELSE proc[d]["coordinator"]
    BY Zenon, <1>1, <1>2, <1>3 DEF RunTypes
  <1>5. /\ ended' \in [C -> {"no", "returned", "killed"}]
        /\ \A d \in C : ended'[d] = IF "coordinator" \in Alive(d) THEN "killed" ELSE ended[d]
    BY Zenon, <1>1, <1>2 DEF RunTypes
  <1>6. RunTypes'
    BY Zenon, <1>1, <1>2, <1>4, <1>5 DEF RunTypes, Starting
  <1>7. ASSUME NEW d \in C PROVE ClientInv(d)'
    <2>1. LaunchInv(d) /\ TearInv(d) /\ CoordinatorInv(d)
      BY <1>1 DEF ClientInv
    <2>2. NoCoordinator(d)'
      BY <1>4 DEF NoCoordinator, Live
    <2>3. Quiet(d) => Quiet(d)'
      BY Zenon, <1>3, <1>4 DEF Quiet, Live
    <2>4. launch[d] \in {"no", "joined"}
      BY Zenon, <1>2, <2>1 DEF LaunchInv
    <2>5. LaunchInv(d)'
      BY Zenon, <1>2, <2>4 DEF LaunchInv, Ending, Svc, Others, Indexers
    <2>6. TearInv(d)'
      BY Zenon, <1>2, <2>1, <2>2, <2>3 DEF TearInv
    <2>7. MainInv(d)'
      BY Zenon, <1>2, <2>2 DEF MainInv, Ending
    <2>8. CoordinatorInv(d)'
      <3>1. proc'[d]["coordinator"] # "up"
        BY <2>2 DEF NoCoordinator, Live
      <3>2. ended'[d] = "returned" => ctx'[d] = "saved"
        BY Zenon, <1>2, <1>5, <2>1 DEF CoordinatorInv
      <3> QED BY <2>2, <3>1, <3>2 DEF CoordinatorInv
    <2> QED BY <2>5, <2>6, <2>7, <2>8 DEF ClientInv
  <1> QED BY <1>6, <1>7 DEF RunInv

(* Nothing runs when the launch threads begin. *)
LEMMA LaunchClientsStep ==
    ASSUME RunInv, runLeft' \in Budget, C' = C, LaunchClients
    PROVE  RunInv'
  <1>1. RunTypes /\ (\A d \in C : CoordinatorInv(d) /\ MainInv(d))
    BY DEF RunInv, ClientInv
  <1>2. /\ main = "others" /\ main' \in {"done", "failed", "launch"}
        /\ proc' = [c \in C |-> [s \in Svc |-> "none"]]
        /\ launch' = [c \in C |-> IF main' = "launch" THEN "queued" ELSE "no"]
        /\ clients' = {} /\ tear' = [c \in C |-> "no"]
        /\ UNCHANGED <<ctx, ended>>
    BY DEF LaunchClients, KillOnly, Misconfigured
  <1>3. sub' \in [C -> [Indexers -> {"no", "asked", "yes"}]]
    BY <1>1 DEF LaunchClients, FreshCleanup, Forgets, RunTypes
  <1>4. RunTypes'
    BY Zenon, <1>1, <1>2, <1>3 DEF RunTypes, Starting, Over
  <1>5. ASSUME NEW d \in C PROVE ClientInv(d)'
    <2>1. "coordinator" \in Svc /\ "no" \notin {"queued"} \cup Svc
      BY DEF Svc, Others, Indexers
    <2>2. /\ \A s \in Svc : proc'[d][s] = "none"
          /\ tear'[d] = "no" /\ launch'[d] = IF main' = "launch" THEN "queued" ELSE "no"
      BY <1>2
    <2>3. Quiet(d)' /\ NoCoordinator(d)' /\ proc'[d]["coordinator"] = "none"
      BY <2>1, <2>2 DEF Quiet, NoCoordinator, Live
    <2>4. LaunchInv(d)'
      BY <1>2, <2>1, <2>2, <2>3 DEF LaunchInv, Ending
    <2>5. TearInv(d)' /\ MainInv(d)'
      BY Zenon, <2>2, <2>3 DEF TearInv, MainInv
    <2>6. CoordinatorInv(d)'
      BY Zenon, <1>1, <1>2, <2>3 DEF CoordinatorInv
    <2> QED BY <2>4, <2>5, <2>6 DEF ClientInv
  <1> QED BY <1>4, <1>5 DEF RunInv

(* Ctrl+C: the launcher goes and leaves the processes, or begins to stop. *)
LEMMA CtrlCStep ==
    ASSUME RunInv, runLeft' \in Budget, C' = C, CtrlC
    PROVE  RunInv'
  <1>1. RunTypes /\ (\A d \in C : LaunchInv(d) /\ TearInv(d) /\ MainInv(d))
    BY DEF RunInv, ClientInv
  <1>2. UNCHANGED <<clients, proc, sub, ctx, ended>>
    BY DEF CtrlC, world
  <1>3. CASE main' = "dead" /\ launch' = [c \in C |-> "no"] /\ tear' = [c \in C |-> "no"]
    <2>1. ASSUME NEW d \in C PROVE LaunchInv(d)' /\ TearInv(d)' /\ MainInv(d)'
      BY Zenon, <1>3 DEF LaunchInv, TearInv, MainInv, Ending, Svc, Others, Indexers
    <2>2. main' \in Starting \cup {"serve"} \cup Ending \cup Over
      BY <1>3 DEF Over
    <2> QED BY <1>1, <1>2, <1>3, <2>1, <2>2, MainFrame DEF RunTypes
  <1>4. CASE UNCHANGED <<main, launch, tear>>
    <2>1. ASSUME NEW d \in C PROVE LaunchInv(d)' /\ TearInv(d)' /\ MainInv(d)'
      BY Zenon, <1>1, <1>2, <1>4 DEF LaunchInv, TearInv, MainInv, Quiet, NoCoordinator
    <2> QED BY Zenon, <1>1, <1>2, <1>4, <2>1, MainFrame DEF RunTypes
  <1> QED BY <1>3, <1>4 DEF CtrlC

(* A step that is not about threads, processes or the launch. *)
LEMMA RunStutter ==
    ASSUME RunInv, runLeft' \in Budget, C' = C, UNCHANGED <<main, launch, clients, tear, proc, sub, ctx, ended>>
    PROVE  RunInv'
  <1>1. RunTypes'
    BY DEF RunInv, RunTypes
  <1>2. ASSUME NEW d \in C PROVE ClientInv(d)'
    BY Untouched, Zenon DEF RunInv
  <1> QED BY <1>1, <1>2 DEF RunInv

(* Every step keeps the invariant. *)
LEMMA RunStep == RunInv /\ [RunNext]_run => RunInv'
  <1> SUFFICES ASSUME RunInv, RunNext \/ UNCHANGED run PROVE RunInv'
    OBVIOUS
  <1>1. runLeft' \in Budget /\ C' = C
    BY LeftKept DEF RunInv, RunTypes
  <1>2. CASE Main
    <2>1. ASSUME NEW c \in C, NEW s \in Svc, SeePort(c, s) PROVE RunInv'
      BY Zenon, <1>1, <2>1, RunStutter DEF SeePort, world
    <2> QED BY <1>1, <1>2, <2>1, StartStep, DetectOthersStep, LaunchClientsStep, JoinStep, ServeStep, TornDownStep,
               Zenon DEF Main
  <1>3. CASE CtrlC \/ Rerun
    BY <1>1, <1>3, CtrlCStep, StartStep
  <1>4. ASSUME NEW c \in C, Process(c) \/ Thread(c) \/ HandleMessage(c) PROVE RunInv'
    BY <1>1, <1>4, ProcessStep, ThreadStep
  <1>5. ASSUME NEW c \in C, NEW s \in Svc, MonitorWaits(c, s) \/ MonitorFires(c, s) \/ Crash(c, s) PROVE RunInv'
    <2>1. CASE MonitorWaits(c, s) \/ MonitorFires(c, s)
      BY <1>1, <2>1, RunStutter DEF MonitorWaits, MonitorFires, world
    <2>2. CASE Crash(c, s)
      BY <1>1, <2>2, ProcessStep
    <2> QED BY <1>5, <2>1, <2>2
  <1>6. CASE UNCHANGED run
    BY <1>1, <1>6, RunStutter DEF run, launcher, world
  <1> QED BY <1>2, <1>3, <1>4, <1>5, <1>6, Zenon DEF RunNext

(* For any number of clients, and whatever crashes, is late or is          *)
(* interrupted: when run_clients has returned nothing runs, the            *)
(* coordinator goes before the other services of its client, and one that  *)
(* returns has its context saved.                                          *)
THEOREM StopIsOrderly == RunSpec => []OrderlyStop
  <1>1. RunInv => OrderlyStop
    <2> SUFFICES ASSUME RunInv PROVE OrderlyStop
      OBVIOUS
    <2>1. \A c \in C : LaunchInv(c) /\ TearInv(c) /\ MainInv(c) /\ CoordinatorInv(c)
      BY DEF RunInv, ClientInv
    <2>2. \A c \in C : (Quiet(c) => Alive(c) = {}) /\ (NoCoordinator(c) <=> "coordinator" \notin Alive(c))
      BY DEF Quiet, NoCoordinator, Alive, Svc
    <2>3. NothingLeft
      BY <2>1, <2>2 DEF NothingLeft, MainInv
    <2>4. CoordinatorFirst
      <3>1. main = "others" => \A c \in C : "coordinator" \notin Alive(c)
        BY <2>1, <2>2 DEF MainInv
      <3>2. ASSUME NEW c \in C, tear[c] \in {"others", "poll", "done"} PROVE "coordinator" \notin Alive(c)
        BY Zenon, <2>1, <2>2, <3>2 DEF TearInv
      <3> QED BY <3>1, <3>2 DEF CoordinatorFirst
    <2>5. ContextSaved
      BY <2>1 DEF ContextSaved, CoordinatorInv
    <2> QED BY <2>3, <2>4, <2>5 DEF OrderlyStop
  <1> QED BY <1>1, RunInitInv, RunStep, PTL DEF RunSpec

(* For any number of clients: a coordinator in its loop is subscribed, or  *)
(* its request is under way, at every indexer of its client that is up,    *)
(* although it asks once only.                                             *)
THEOREM SubscriptionsStay == RunSpec => []StaysSubscribed
  <1>1. RunInv => StaysSubscribed
    BY DEF RunInv, ClientInv, CoordinatorInv, StaysSubscribed
  <1> QED BY <1>1, RunInitInv, RunStep, PTL DEF RunSpec

=============================================================================
