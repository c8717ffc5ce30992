------------------------- MODULE OperatorTake_steps -------------------------
(***************************************************************************)
(* For any number of flows, and whatever fails, is retried, crashes or     *)
(* comes late: a saved flow agrees with memory and with Rootstock, only    *)
(* moves forward, keeps its retry, and is not taken up again once Done.    *)
(***************************************************************************)
EXTENDS OperatorTake, TLAPS

-----------------------------------------------------------------------------
(* The inductive invariant. *)

Log   == Flow \X Range(Milestones)
State == FlowRec \cup {NoFlow}

IsRetries(r) ==
    /\ DOMAIN r \subseteq Flow /\ r = [f \in DOMAIN r |-> r[f]]
    /\ \A f \in DOMAIN r : r[f] \in 1..Delay

Types ==
    /\ TypeOK
    /\ logs \in Seq(Log) /\ confirming \in Seq(Log) /\ saved.confirming \in Seq(Log)
    /\ IsRetries(retries) /\ IsRetries(saved.retries)
    /\ pc = "confirm" => \A f \in pending : \E i \in DOMAIN confirming : confirming[i][1] = f

(* An event that is on its way, or confirming, happened on Rootstock. *)
Happened(e, chain) == \E k \in 1..chain[e[1]] : e[2] = Milestones[k]
AllHappened(s, chain) == \A i \in DOMAIN s : Happened(s[i], chain)

EventsInv ==
    /\ AllHappened(logs, registered)
    /\ AllHappened(confirming, registered)
    /\ AllHappened(saved.confirming, registered)

Clean(fl) == IF IsTerminal(fl.step) THEN NoFlow ELSE fl

(* What holds of a flow that is m in memory and d in the store, when reg   *)
(* of its milestones happened: it is not ahead of Rootstock; memory agrees *)
(* with the store, but for a flow whose creation failed; and it is parked  *)
(* only where it registers, with its registration still to be made if      *)
(* nothing is lost.                                                        *)
FlowOK(f, m, d, reg, done, gone, at, budget) ==
    /\ m # NoFlow \/ d # NoFlow => reg >= 1
    /\ f \in done => reg = 4
    /\ d.step \in SetVarBitVmxAdvanceFundsRegistered..RegisterOrWaitRskOperatorTake => reg >= 2
    /\ f \in Selected /\ d.step \in {WaitBitVmxOperatorTakeSpv, RegisterOrWaitRskOperatorTake} => reg >= 3
    /\ f \in Selected /\ IsRetriableStep(d.step) /\ ~d.retry => reg >= MilestoneOf(d.step)
    /\ at # "down" => \/ Clean(m) = Clean(d)
                      \/ m.step = WaitRskOperatorTakeTriggered /\ ~m.retry /\ Clean(d) = NoFlow
    /\ d.step = Done => f \in done
    /\ d.step = Failed => f \in gone
    /\ d.retry => f \in Selected /\ IsRetriableStep(d.step)
    /\ ~budget.lossy /\ d.retry => reg < MilestoneOf(d.step)

FlowsInv ==
    \A f \in Flow : FlowOK(f, mem[f], disk[f], registered[f], completed, failed, pc, left)

RetryInv ==
    ~left.lossy /\ pc # "down" => \A f \in Flow :
        mem[f].retry => f \in DOMAIN retries \/ (pc = "fire" /\ f \in pending)

(* The trigger of a flow is in one place; where it still waits to be       *)
(* confirmed, or to be saved as confirmed, the flow has nothing else       *)
(* confirming, unless a restart brought it back.                           *)
Once(s, e) == \A i, j \in DOMAIN s : s[i] = e /\ s[j] = e => i = j
In(e, s) == \E i \in DOMAIN s : s[i] = e
Only(s, f) == \A i \in DOMAIN s : s[i][1] = f => s[i] = Trigger(f)

OnceInv ==
    \A f \in Flow :
        /\ Once(logs, Trigger(f)) /\ Once(confirming, Trigger(f)) /\ Once(saved.confirming, Trigger(f))
        /\ In(Trigger(f), logs) =>
               /\ ~In(Trigger(f), confirming) /\ ~In(Trigger(f), saved.confirming)
               /\ Only(confirming, f) /\ Only(saved.confirming, f)
               /\ mem[f] = NoFlow /\ disk[f] = NoFlow /\ f \notin completed

TriggerInv ==
    \A f \in Flow \ replayed :
        /\ pc # "down" /\ In(Trigger(f), confirming) =>
               mem[f] = NoFlow /\ disk[f] = NoFlow /\ f \notin completed /\ Only(confirming, f)
        /\ In(Trigger(f), saved.confirming) =>
               /\ f \notin completed /\ Only(saved.confirming, f)
               /\ pc \notin {"down", "save"} => Only(confirming, f)
        /\ f \in completed =>
               /\ disk[f] = NoFlow \/ disk[f].step = Done
               /\ pc # "down" => mem[f] = NoFlow \/ mem[f].step = Done

Inv == Types /\ EventsInv /\ FlowsInv /\ RetryInv /\ OnceInv /\ TriggerInv

-----------------------------------------------------------------------------
(* Milestones, flows and sequences of events.  The steps are numbers from  *)
(* here on.                                                                *)

USE DEF WaitRskOperatorTakeTriggered, GetBitVmxCommInfo, RequestBitVmxOperatorTakeTransactionInfo,
        SetupBitVmxAdvanceFundsProtocol, WaitBitVmxAdvanceFundsSpv, RegisterOrWaitRskAdvanceFunds,
        SetVarBitVmxAdvanceFundsRegistered, RegisterOrWaitRskReimbursementKickoff,
        WaitBitVmxOperatorTakeSpv, RegisterOrWaitRskOperatorTake, Done, Failed

(* The contract's four events, in the order a take meets them. *)
LEMMA MilestoneFacts ==
    /\ Milestones[1] = "OperatorTakeTriggered" /\ Milestones[2] = "AdvanceFundsRegistered"
    /\ Milestones[3] = "ReimbursementKickoffRegistered" /\ Milestones[4] = "PegoutRegistered"
    /\ DOMAIN Milestones = 1..4
    /\ \A k \in 1..4 : Milestones[k] \in Range(Milestones)
    /\ \A k \in 1..4 : Milestones[k] = "OperatorTakeTriggered" => k = 1
    /\ \A k \in 1..4 : Milestones[k] = "AdvanceFundsRegistered" => k = 2
    /\ \A k \in 1..4 : Milestones[k] = "ReimbursementKickoffRegistered" => k = 3
    /\ \A k \in 1..4 : Milestones[k] = "PegoutRegistered" => k = 4
  <1>1. /\ Milestones[1] = "OperatorTakeTriggered" /\ Milestones[2] = "AdvanceFundsRegistered"
        /\ Milestones[3] = "ReimbursementKickoffRegistered" /\ Milestones[4] = "PegoutRegistered"
        /\ DOMAIN Milestones = 1..4
    BY DEF Milestones
  <1>2. \A k \in 1..4 : k = 1 \/ k = 2 \/ k = 3 \/ k = 4
    OBVIOUS
  <1> QED
    BY <1>1, <1>2 DEF Range

(* The fields of a flow. *)
LEMMA StateFacts ==
    /\ NoFlow.step = -1 /\ NoFlow.retry = FALSE
    /\ \A fl \in State : /\ fl.step \in -1..11 /\ fl.retry \in BOOLEAN
                         /\ fl.step = -1 <=> fl = NoFlow
                         /\ Clean(fl) \in State
                         /\ Clean(fl) = fl \/ (Clean(fl) = NoFlow /\ fl.step \in {Done, Failed})
                         /\ ~IsTerminal(Clean(fl).step)
    /\ \A s \in 0..11, r \in BOOLEAN :
           /\ [step |-> s, retry |-> r] \in State
           /\ [step |-> s, retry |-> r].step = s /\ [step |-> s, retry |-> r].retry = r
  <1>1. NoFlow.step = -1 /\ NoFlow.retry = FALSE /\ NoFlow \in State
    BY DEF NoFlow, State
  <1>2. \A fl \in State : fl.step \in -1..11 /\ fl.retry \in BOOLEAN /\ (fl.step = -1 <=> fl = NoFlow)
    <2>1. \A fl \in FlowRec : fl.step \in 0..11
      BY DEF FlowRec
    <2>2. \A fl \in FlowRec : fl.retry \in BOOLEAN
      BY DEF FlowRec
    <2>3. \A fl \in State : fl.retry \in BOOLEAN
      BY Zenon, <1>1, <2>2 DEF State
    <2>4. \A fl \in State : fl.step \in -1..11 /\ (fl.step = -1 <=> fl = NoFlow)
      BY <1>1, <2>1 DEF State
    <2> QED
      BY <2>3, <2>4
  <1>3. \A s \in 0..11, r \in BOOLEAN :
           /\ [step |-> s, retry |-> r] \in State
           /\ [step |-> s, retry |-> r].step = s /\ [step |-> s, retry |-> r].retry = r
    BY DEF State, FlowRec
  <1>4. ASSUME NEW fl \in State
        PROVE  /\ Clean(fl) \in State
               /\ Clean(fl) = fl \/ (Clean(fl) = NoFlow /\ fl.step \in {Done, Failed})
               /\ ~IsTerminal(Clean(fl).step)
    BY <1>1, <1>2 DEF Clean, IsTerminal, Done, Failed
  <1> QED
    BY <1>1, <1>2, <1>3, <1>4

(* A flow that is taken to a step. *)
LEMMA TakenFacts ==
    ASSUME NEW s \in 0..11
    PROVE  /\ [step |-> s, retry |-> FALSE] \in State /\ [step |-> s, retry |-> TRUE] \in State
           /\ [step |-> s, retry |-> FALSE].step = s /\ [step |-> s, retry |-> TRUE].step = s
           /\ ~[step |-> s, retry |-> FALSE].retry /\ [step |-> s, retry |-> TRUE].retry
           /\ [step |-> s, retry |-> FALSE] # NoFlow
  <1>1. [step |-> s, retry |-> FALSE] \in State /\ [step |-> s, retry |-> TRUE] \in State
    BY Zenon, StateFacts
  <1>2. [step |-> s, retry |-> FALSE].step = s /\ [step |-> s, retry |-> TRUE].step = s
    OBVIOUS
  <1>3. ~[step |-> s, retry |-> FALSE].retry /\ [step |-> s, retry |-> TRUE].retry
    BY Zenon
  <1>4. [step |-> s, retry |-> FALSE] # NoFlow
    <2>1. s # -1
      OBVIOUS
    <2> QED
      BY Zenon, <1>2, <2>1, StateFacts
  <1> QED
    BY <1>1, <1>2, <1>3, <1>4

(* cleanup_terminal_flows works flow by flow. *)
LEMMA CleanedFacts ==
    ASSUME NEW m \in [Flow -> State]
    PROVE  /\ Cleaned(m) \in [Flow -> State]
           /\ \A f \in Flow : Cleaned(m)[f] = Clean(m[f])
  BY StateFacts DEF Cleaned, Clean

(* The entries of a queue after one was added. *)
LEMMA AppendFacts ==
    ASSUME NEW S, NEW s \in Seq(S), NEW e \in S
    PROVE  /\ Append(s, e) \in Seq(S) /\ DOMAIN Append(s, e) = 1..(Len(s) + 1) /\ DOMAIN s = 1..Len(s)
           /\ Len(s) \in Nat
           /\ \A i \in DOMAIN Append(s, e) : 
               (i \in DOMAIN s /\ Append(s, e)[i] = s[i]) \/ (i = Len(s) + 1 /\ Append(s, e)[i] = e)
  <1>1. /\ Append(s, e) \in Seq(S) /\ Len(Append(s, e)) = Len(s) + 1
        /\ \A i \in 1..Len(s) : Append(s, e)[i] = s[i]
        /\ Append(s, e)[Len(s) + 1] = e
    OBVIOUS
  <1>2. DOMAIN s = 1..Len(s) /\ Len(s) \in Nat /\ DOMAIN Append(s, e) = 1..(Len(s) + 1)
    BY <1>1
  <1> DEFINE t == Append(s, e)
  <1>3. /\ t \in Seq(S) /\ DOMAIN t = 1..(Len(s) + 1) /\ t[Len(s) + 1] = e
        /\ \A i \in 1..Len(s) : t[i] = s[i]
    BY <1>1, <1>2
  <1> HIDE DEF t
  <1>4. \A i \in DOMAIN t : (i \in DOMAIN s /\ t[i] = s[i]) \/ (i = Len(s) + 1 /\ t[i] = e)
    BY <1>2, <1>3
  <1> QED
    BY <1>2, <1>3, <1>4 DEF t

(* The entries of a queue after the i-th was taken out. *)
LEMMA RemoveFacts ==
    ASSUME NEW S, NEW s \in Seq(S), NEW i \in 1..Len(s)
    PROVE  /\ Without(s, i) \in Seq(S) /\ DOMAIN Without(s, i) = 1..(Len(s) - 1) /\ DOMAIN s = 1..Len(s)
           /\ Len(s) \in Nat
           /\ \A j \in 1..(Len(s) - 1) : Without(s, i)[j] = IF j < i THEN s[j] ELSE s[j + 1]
  <1> DEFINE a == SubSeq(s, 1, i - 1)
             b == SubSeq(s, i + 1, Len(s))
  <1>1. a \in Seq(S) /\ Len(a) = i - 1 /\ \A j \in 1..(i - 1) : a[j] = s[j]
    OBVIOUS
  <1>2. b \in Seq(S) /\ Len(b) = Len(s) - i /\ \A j \in 1..(Len(s) - i) : b[j] = s[i + j]
    OBVIOUS
  <1>3. Without(s, i) = a \o b
    BY DEF Without
  <1>4. Len(s) \in Nat /\ DOMAIN s = 1..Len(s)
    OBVIOUS
  <1> HIDE DEF a, b
  <1>5. /\ a \o b \in Seq(S) /\ Len(a \o b) = Len(a) + Len(b) /\ DOMAIN (a \o b) = 1..(Len(a) + Len(b))
        /\ \A j \in 1..Len(a) : (a \o b)[j] = a[j]
    <2>1. a \in Seq(S) /\ b \in Seq(S)
      BY <1>1, <1>2
    <2>2. a \o b \in Seq(S)
      BY <2>1
    <2>3. Len(a \o b) = Len(a) + Len(b)
      BY <2>1
    <2>4. DOMAIN (a \o b) = 1..Len(a \o b)
      BY <2>2
    <2>5. \A j \in 1..Len(a) : (a \o b)[j] = a[j]
      BY <2>1
    <2> QED
      BY Zenon, <2>2, <2>3, <2>4, <2>5
  <1>6. \A j \in 1..(Len(a) + Len(b)) : j > Len(a) => (a \o b)[j] = b[j - Len(a)]
    BY <1>1, <1>2
  <1>7. \A j \in 1..(Len(s) - 1) : (a \o b)[j] = IF j < i THEN s[j] ELSE s[j + 1]
    <2> DEFINE c == a \o b
    <2>1. /\ \A j \in 1..(i - 1) : c[j] = a[j] /\ a[j] = s[j]
          /\ \A j \in 1..(Len(s) - 1) : j > i - 1 => c[j] = b[j - (i - 1)]
      BY <1>1, <1>2, <1>4, <1>5, <1>6
    <2> HIDE DEF c
    <2>2. ASSUME NEW j \in 1..(Len(s) - 1), ~(j < i) PROVE c[j] = s[j + 1]
      <3>1. j - (i - 1) \in 1..(Len(s) - i) /\ i + (j - (i - 1)) = j + 1 /\ j > i - 1
        BY <1>4, <2>2
      <3> QED
        BY <1>2, <2>1, <3>1
    <2>3. \A j \in 1..(Len(s) - 1) : j < i => c[j] = s[j]
      BY <1>4, <2>1
    <2> QED
      BY Zenon, <2>2, <2>3 DEF c
  <1>8. DOMAIN (a \o b) = 1..(Len(s) - 1)
    BY <1>1, <1>2, <1>4, <1>5
  <1> QED
    BY Zenon, <1>3, <1>4, <1>5, <1>7, <1>8

(* An event that comes last. *)
LEMMA AppendEvents ==
    ASSUME NEW s \in Seq(Log), NEW e \in Log
    PROVE  /\ Append(s, e) \in Seq(Log)
           /\ \A x : In(x, Append(s, e)) => In(x, s) \/ x = e
           /\ \A x : Once(s, x) /\ (x = e => ~In(x, s)) => Once(Append(s, e), x)
           /\ \A f : Only(s, f) /\ (e[1] = f => e = Trigger(f)) => Only(Append(s, e), f)
           /\ \A chain : AllHappened(s, chain) /\ Happened(e, chain) => AllHappened(Append(s, e), chain)
           /\ \A f : (\E i \in DOMAIN s : s[i][1] = f) => \E i \in DOMAIN Append(s, e) : Append(s, e)[i][1] = f
  <1> DEFINE t == Append(s, e)
  <1>1. /\ t \in Seq(Log) /\ DOMAIN t = 1..(Len(s) + 1) /\ DOMAIN s = 1..Len(s) /\ Len(s) \in Nat
        /\ \A i \in DOMAIN t : (i \in DOMAIN s /\ t[i] = s[i]) \/ (i = Len(s) + 1 /\ t[i] = e)
    BY Zenon, AppendFacts
  <1> HIDE DEF t
  <1>2. \A x : In(x, t) => In(x, s) \/ x = e
    BY <1>1 DEF In
  <1>3. \A x : Once(s, x) /\ (x = e => ~In(x, s)) => Once(t, x)
    BY <1>1 DEF Once, In
  <1>4. \A f : Only(s, f) /\ (e[1] = f => e = Trigger(f)) => Only(t, f)
    BY <1>1 DEF Only
  <1>5. \A chain : AllHappened(s, chain) /\ Happened(e, chain) => AllHappened(t, chain)
    BY <1>1 DEF AllHappened
  <1>6. \A i \in DOMAIN s : i \in DOMAIN t /\ t[i] = s[i]
    BY <1>1
  <1>7. \A f : (\E i \in DOMAIN s : s[i][1] = f) => \E i \in DOMAIN t : t[i][1] = f
    BY Zenon, <1>6
  <1> QED
    BY Zenon, <1>1, <1>2, <1>3, <1>4, <1>5, <1>7 DEF t

(* The first event is taken. *)
LEMMA TailEvents ==
    ASSUME NEW s \in Seq(Log), s # <<>>
    PROVE  /\ Tail(s) \in Seq(Log) /\ Head(s) \in Log /\ In(Head(s), s)
           /\ \A x : In(x, Tail(s)) => In(x, s)
           /\ \A x : Once(s, x) => Once(Tail(s), x) /\ (x = Head(s) => ~In(x, Tail(s)))
           /\ \A chain : AllHappened(s, chain) => AllHappened(Tail(s), chain) /\ Happened(Head(s), chain)
  <1> DEFINE t == Tail(s)
  <1>1. /\ t \in Seq(Log) /\ DOMAIN t = 1..(Len(s) - 1) /\ DOMAIN s = 1..Len(s) /\ Len(s) \in Nat /\ Len(s) >= 1
        /\ \A i \in DOMAIN t : t[i] = s[i + 1]
        /\ Head(s) = s[1] /\ Head(s) \in Log
    OBVIOUS
  <1> HIDE DEF t
  <1>2. \A i \in DOMAIN t : i + 1 \in DOMAIN s /\ t[i] = s[i + 1] /\ i + 1 # 1
    BY <1>1
  <1>3. 1 \in DOMAIN s /\ Head(s) = s[1]
    BY <1>1
  <1>4. \A x : In(x, t) => In(x, s)
    BY <1>2 DEF In
  <1>5. \A x : Once(s, x) => Once(t, x) /\ (x = Head(s) => ~In(x, t))
    BY <1>1, <1>2, <1>3 DEF Once, In
  <1>6. \A chain : AllHappened(s, chain) => AllHappened(t, chain) /\ Happened(Head(s), chain)
    BY <1>2, <1>3 DEF AllHappened
  <1> QED
    BY Zenon, <1>1, <1>3, <1>4, <1>5, <1>6 DEF t, In

(* An event is taken out. *)
LEMMA RemoveEvents ==
    ASSUME NEW s \in Seq(Log), NEW i \in DOMAIN s
    PROVE  /\ Without(s, i) \in Seq(Log) /\ s[i] \in Log
           /\ \A x : In(x, Without(s, i)) => In(x, s)
           /\ \A x : Once(s, x) => Once(Without(s, i), x) /\ (x = s[i] => ~In(x, Without(s, i)))
           /\ \A f : Only(s, f) => Only(Without(s, i), f)
           /\ \A chain : AllHappened(s, chain) => AllHappened(Without(s, i), chain)
           /\ \A f : f # s[i][1] /\ (\E j \in DOMAIN s : s[j][1] = f) =>
                         \E j \in DOMAIN Without(s, i) : Without(s, i)[j][1] = f
  <1> DEFINE t == Without(s, i)
             at(j) == IF j < i THEN j ELSE j + 1
             to(j) == IF j < i THEN j ELSE j - 1
  <1>0. DOMAIN s = 1..Len(s) /\ i \in 1..Len(s) /\ Len(s) \in Nat
    OBVIOUS
  <1>1. /\ t \in Seq(Log) /\ DOMAIN t = 1..(Len(s) - 1)
        /\ \A j \in 1..(Len(s) - 1) : t[j] = IF j < i THEN s[j] ELSE s[j + 1]
    BY Zenon, <1>0, RemoveFacts
  <1> HIDE DEF t
  <1>2. \A j \in DOMAIN t : at(j) \in DOMAIN s /\ t[j] = s[at(j)] /\ at(j) # i
    BY <1>0, <1>1
  <1>3. \A j, k \in DOMAIN t : at(j) = at(k) => j = k
    BY <1>0, <1>1
  <1>4. \A j \in DOMAIN s : j # i => to(j) \in DOMAIN t /\ t[to(j)] = s[j]
    BY <1>0, <1>1
  <1> HIDE DEF at, to
  <1>5. \A x : In(x, t) => In(x, s)
    BY Zenon, <1>2 DEF In
  <1>6. ASSUME NEW x, Once(s, x) PROVE Once(t, x) /\ (x = s[i] => ~In(x, t))
    BY <1>2, <1>3, <1>6 DEF Once, In
  <1>7. \A f : Only(s, f) => Only(t, f)
    BY Zenon, <1>2 DEF Only
  <1>8. \A chain : AllHappened(s, chain) => AllHappened(t, chain)
    BY Zenon, <1>2 DEF AllHappened
  <1>9. \A f : f # s[i][1] /\ (\E j \in DOMAIN s : s[j][1] = f) => \E j \in DOMAIN t : t[j][1] = f
    BY Zenon, <1>4
  <1>10. s[i] \in Log
    BY <1>0
  <1> QED
    BY Zenon, <1>1, <1>5, <1>6, <1>7, <1>8, <1>9, <1>10 DEF t

-----------------------------------------------------------------------------
(* A flow, whatever happens to it. *)

(* What start_step may count on when it takes a flow to the step next. *)
Legal(f, d, reg, next) ==
    /\ next \in 1..11 /\ reg \in 1..4
    /\ next \in SetVarBitVmxAdvanceFundsRegistered..RegisterOrWaitRskOperatorTake => reg >= 2
    /\ f \in Selected /\ next \in {WaitBitVmxOperatorTakeSpv, RegisterOrWaitRskOperatorTake} => reg >= 3
    /\ next = Done => reg = 4
    /\ Clean(d).step <= next

(* What others do to a flow: nothing, or it is cleaned up. *)
Same(f, done, gone, at, budget, done2, gone2, at2, budget2) ==
    /\ f \in done2 <=> f \in done
    /\ f \in gone2 <=> f \in gone
    /\ at2 # "down" => at # "down"
    /\ budget2.lossy = budget.lossy

(* FlowOK depends only on the flow's own part of the state. *)
LEMMA FlowKept ==
    ASSUME NEW f, NEW m \in State, NEW d \in State, NEW reg \in 0..4,
           NEW done, NEW gone, NEW at, NEW budget, NEW done2, NEW gone2, NEW at2, NEW budget2,
           FlowOK(f, m, d, reg, done, gone, at, budget),
           Same(f, done, gone, at, budget, done2, gone2, at2, budget2)
    PROVE  FlowOK(f, m, d, reg, done2, gone2, at2, budget2)
  BY StateFacts DEF FlowOK, Same, IsTerminal, IsRetriableStep, MilestoneOf

(* FlowOK survives the sweep of terminal flows. *)
LEMMA FlowCleaned ==
    ASSUME NEW f, NEW m \in State, NEW d \in State, NEW reg \in 0..4,
           NEW done, NEW gone, NEW at, NEW budget, NEW done2, NEW gone2, NEW at2, NEW budget2,
           FlowOK(f, m, d, reg, done, gone, at, budget),
           Same(f, done, gone, at, budget, done2, gone2, at2, budget2)
    PROVE  FlowOK(f, Clean(m), Clean(d), reg, done2, gone2, at2, budget2)
  BY StateFacts DEF FlowOK, Same, IsTerminal, IsRetriableStep, MilestoneOf

(* A restart: memory is what was saved. *)
LEMMA FlowRestarted ==
    ASSUME NEW f, NEW m \in State, NEW d \in State, NEW reg \in 0..4,
           NEW done, NEW gone, NEW at, NEW budget,
           FlowOK(f, m, d, reg, done, gone, at, budget)
    PROVE  FlowOK(f, d, d, reg, done, gone, "idle", budget)
  BY StateFacts DEF FlowOK

(* Rootstock emits an event of a flow that this node does not register. *)
LEMMA FlowEmitted ==
    ASSUME NEW f, NEW m \in State, NEW d \in State, NEW reg \in 0..3,
           NEW done, NEW gone, NEW at, NEW budget, NEW budget2,
           FlowOK(f, m, d, reg, done, gone, at, budget),
           reg = 0 \/ f \notin Selected, budget2.lossy = budget.lossy
    PROVE  FlowOK(f, m, d, reg + 1, done, gone, at, budget2)
  BY StateFacts DEF FlowOK, IsRetriableStep, MilestoneOf

(* The chain after a step that may have registered. *)
Registered(f, reg, next) == IF Registers(f, next) THEN reg + 1 ELSE reg

(* The step is entered; without and with a crash after the flow is saved,  *)
(* or with one before.                                                     *)
LEMMA FlowEntered ==
    ASSUME NEW f, NEW m \in State, NEW d \in State, NEW reg, NEW next,
           NEW done, NEW gone, NEW at, NEW budget, NEW at2, NEW budget2,
           FlowOK(f, m, d, reg, done, gone, at, budget), Legal(f, d, reg, next),
           Registers(f, next) => reg = MilestoneOf(next) - 1,
           budget2.lossy = budget.lossy,
           NEW done2, NEW gone2,
           done2 = IF next = Done THEN done \cup {f} ELSE done,
           gone2 = IF next = Failed THEN gone \cup {f} ELSE gone
    PROVE  LET fl == [step |-> next, retry |-> FALSE]
           IN  /\ FlowOK(f, Clean(fl), Clean(fl), Registered(f, reg, next), done2, gone2, at2, budget2)
               /\ FlowOK(f, m, fl, Registered(f, reg, next), done2, gone2, "down", budget2)
  <1> DEFINE fl == [step |-> next, retry |-> FALSE]
  <1>1. /\ fl \in State /\ fl.step = next /\ ~fl.retry /\ next \in 1..11 /\ reg \in 1..4
        /\ fl # NoFlow
    <2>1. next \in 0..11 /\ next \in 1..11 /\ reg \in 1..4
      BY DEF Legal
    <2> QED
      BY Zenon, <2>1, TakenFacts
  <1>2. Registers(f, next) => f \in Selected /\ IsRetriableStep(next)
    BY DEF Registers
  <1>3. f \in Selected /\ IsRetriableStep(next) => Registers(f, next)
    BY DEF Registers
  <1>4. Registered(f, reg, next) \in 1..4 /\ Registered(f, reg, next) >= reg
    BY <1>1, <1>2 DEF Registered, IsRetriableStep, MilestoneOf
  <1> HIDE DEF fl
  <1>5. FlowOK(f, m, fl, Registered(f, reg, next), done2, gone2, "down", budget2)
    BY <1>1, <1>2, <1>3, <1>4, StateFacts DEF FlowOK, Legal, Registered, IsRetriableStep, MilestoneOf
  <1>6. FlowOK(f, Clean(fl), Clean(fl), Registered(f, reg, next), done2, gone2, at2, budget2)
    BY <1>1, <1>2, <1>3, <1>4, <1>5, StateFacts DEF FlowOK, IsTerminal, IsRetriableStep
  <1> QED
    BY <1>5, <1>6 DEF fl

(* The step is parked. *)
LEMMA FlowParked ==
    ASSUME NEW f, NEW m \in State, NEW d \in State, NEW reg, NEW next,
           NEW done, NEW gone, NEW at, NEW budget, NEW at2, NEW budget2,
           FlowOK(f, m, d, reg, done, gone, at, budget), Legal(f, d, reg, next),
           Registers(f, next), reg < MilestoneOf(next)
    PROVE  LET fl == [step |-> next, retry |-> TRUE]
           IN  FlowOK(f, Clean(fl), Clean(fl), reg, done, gone, at2, budget2)
  <1> DEFINE fl == [step |-> next, retry |-> TRUE]
  <1>1. /\ fl \in State /\ fl.step = next /\ fl.retry /\ next \in 1..11 /\ reg \in 1..4
    <2>1. next \in 0..11 /\ next \in 1..11 /\ reg \in 1..4
      BY DEF Legal
    <2> QED
      BY Zenon, <2>1, TakenFacts
  <1>2. f \in Selected /\ IsRetriableStep(next)
    BY DEF Registers
  <1>3. Clean(fl) = fl
    BY <1>1, <1>2, StateFacts DEF IsRetriableStep
  <1> HIDE DEF fl
  <1> QED
    BY <1>1, <1>2, <1>3, StateFacts DEF FlowOK, Legal, IsRetriableStep, fl

(* A creation that failed. *)
LEMMA FlowUnborn ==
    ASSUME NEW f, NEW m \in State, NEW d \in State, NEW reg \in 1..4,
           NEW done, NEW gone, NEW at, NEW budget, NEW at2, NEW budget2,
           FlowOK(f, m, d, reg, done, gone, at, budget), at # "down",
           Clean(m) = NoFlow, budget2.lossy = budget.lossy
    PROVE  LET fl == [step |-> WaitRskOperatorTakeTriggered, retry |-> FALSE]
           IN  FlowOK(f, Clean(fl), Clean(d), reg, done, gone, at2, budget2)
  <1> DEFINE fl == [step |-> WaitRskOperatorTakeTriggered, retry |-> FALSE]
  <1>1. fl \in State /\ fl.step = 0 /\ ~fl.retry /\ Clean(fl) = fl
    <2>1. 0 \in 0..11 /\ 0 # 10 /\ 0 # 11
      OBVIOUS
    <2> QED
      BY Zenon, <2>1, TakenFacts, StateFacts
  <1>2. Clean(d) = NoFlow
    BY StateFacts DEF FlowOK, IsTerminal
  <1>3. Clean(NoFlow) = NoFlow
    BY StateFacts DEF Clean, IsTerminal
  <1> HIDE DEF fl
  <1>4. FlowOK(f, fl, NoFlow, reg, done, gone, at2, budget2)
    BY <1>1, <1>3, StateFacts DEF FlowOK, IsRetriableStep
  <1> QED
    BY <1>1, <1>2, <1>4 DEF fl

-----------------------------------------------------------------------------
(* start_step. *)

(* The flows m with f taken to the state fl, cleaned up. *)
Taken(m, f, fl) == Cleaned([m EXCEPT ![f] = fl])
Pruned(r, m) == [g \in {h \in DOMAIN r : ~IsTerminal(m[h].step)} |-> r[g]]

(* What start_step does to Rootstock: nothing, or it registers. *)
Submits(f, next) ==
    \/ UNCHANGED <<registered, logs>>
    \/ Registers(f, next) /\ registered[f] = MilestoneOf(next) - 1 /\ Emit(f)

Enters(m, f, next, ok) ==
    LET fl == [step |-> next, retry |-> FALSE]
    IN  /\ EnterStep(f, next)
        /\ mem' = Taken(m, f, fl) /\ disk' = Taken(disk, f, fl) /\ retries' = Pruned(retries, [m EXCEPT ![f] = fl])
        /\ Record(f, next) /\ pc' = ok /\ UNCHANGED left

Parks(m, f, next, ok) ==
    LET fl == [step |-> next, retry |-> TRUE]
    IN  /\ Registers(f, next) /\ registered[f] < MilestoneOf(next)
        /\ left.missing > 0 /\ left' = [left EXCEPT !.missing = @ - 1]
        /\ mem' = Taken(m, f, fl) /\ disk' = Taken(disk, f, fl)
        /\ retries' = Pruned([g \in DOMAIN retries \cup {f} |-> IF g = f THEN Delay ELSE retries[g]], [m EXCEPT ![f] = fl])
        /\ pc' = ok
        /\ UNCHANGED <<registered, logs, asked, told, history>>

Errs(m, f, next, err) ==
    /\ Submits(f, next)
    /\ \/ Registers(f, next) /\ registered[f] # MilestoneOf(next) - 1 /\ UNCHANGED left
       \/ left.lossy /\ left.errors > 0 /\ left' = [left EXCEPT !.errors = @ - 1]
    /\ mem' = Cleaned(m) /\ disk' = Cleaned(disk) /\ retries' = Pruned(retries, m)
    /\ pc' = err
    /\ UNCHANGED <<asked, told, history>>

Dies(f, next) ==
    LET fl == [step |-> next, retry |-> FALSE]
    IN  /\ left.lossy /\ EnterStep(f, next) /\ Die
        /\ \/ UNCHANGED <<disk, history>>
           \/ disk' = [disk EXCEPT ![f] = fl] /\ Record(f, next)
        /\ UNCHANGED <<mem, retries>>

(* start_step enters the step, parks the flow for a retry, fails, or the   *)
(* process dies in it.                                                     *)
LEMMA StartCases ==
    ASSUME NEW m, NEW f, NEW next, NEW ok, NEW err, StartStep(m, f, next, ok, err)
    PROVE  Enters(m, f, next, ok) \/ Parks(m, f, next, ok) \/ Errs(m, f, next, err) \/ Dies(f, next)
  BY Zenon DEF StartStep, Enters, Parks, Errs, Dies, Submits, Commit, Taken, Pruned, AfterError

(* Entering a step calls the contract for that step's milestone only. *)
LEMMA EnterSubmits ==
    ASSUME NEW f, NEW next, EnterStep(f, next)
    PROVE  /\ Submits(f, next)
           /\ Registers(f, next) => registered[f] = MilestoneOf(next) - 1 /\ Emit(f)
           /\ ~Registers(f, next) => UNCHANGED <<registered, logs>>
  BY DEF EnterStep, Submits

(* An event is emitted. *)
LEMMA EmitFacts ==
    ASSUME Types, NEW f \in Flow, registered[f] \in 0..3, Emit(f)
    PROVE  LET e == <<f, Milestones[registered[f] + 1]>>
           IN  /\ registered' \in [Flow -> 0..4] /\ registered' = [registered EXCEPT ![f] = @ + 1]
               /\ logs' = Append(logs, e) /\ e \in Log /\ Happened(e, registered')
               /\ \A s \in Seq(Log) : AllHappened(s, registered) => AllHappened(s, registered')
  <1> DEFINE k == registered[f] + 1
             e == <<f, Milestones[k]>>
  <1>1. k \in 1..4 /\ registered \in [Flow -> 0..4]
    BY DEF Types, TypeOK
  <1>2. /\ registered' \in [Flow -> 0..4] /\ registered' = [registered EXCEPT ![f] = @ + 1]
        /\ registered'[f] = k
        /\ \A g \in Flow : registered'[g] \in 0..4 /\ registered[g] \in 0..4 /\ registered'[g] >= registered[g]
    BY <1>1 DEF Emit
  <1>3. logs' = Append(logs, e)
    BY DEF Emit
  <1>4. Milestones[k] \in Range(Milestones)
    BY <1>1, MilestoneFacts
  <1>5. e \in Log
    BY <1>4 DEF Log
  <1>6. Happened(e, registered')
    <2>1. k \in 1..registered'[f]
      BY <1>1, <1>2
    <2> QED
      BY <2>1 DEF Happened
  <1>7. ASSUME NEW s \in Seq(Log), AllHappened(s, registered) PROVE AllHappened(s, registered')
    <2>1. \A x \in Log : x[1] \in Flow
      BY DEF Log
    <2>2. \A g \in Flow : 1..registered[g] \subseteq 1..registered'[g]
      BY <1>2
    <2>3. \A x \in Log : Happened(x, registered) => Happened(x, registered')
      BY Zenon, <2>1, <2>2 DEF Happened
    <2>4. \A i \in DOMAIN s : s[i] \in Log
      OBVIOUS
    <2> QED
      BY Zenon, <1>7, <2>3, <2>4 DEF AllHappened
  <1> QED
    BY Zenon, <1>2, <1>3, <1>5, <1>6, <1>7

(* What a contract call leaves of the logs: every event that happened      *)
(* stays happened, and no trigger is added.                                *)
LEMMA SubmitFacts ==
    ASSUME Types, NEW f \in Flow, NEW next, Submits(f, next)
    PROVE  /\ registered' \in [Flow -> 0..4] /\ logs' \in Seq(Log)
           /\ \A g \in Flow \ {f} : registered'[g] = registered[g]
           /\ AllHappened(logs, registered) => AllHappened(logs', registered')
           /\ \A s \in Seq(Log) : AllHappened(s, registered) => AllHappened(s, registered')
           /\ \A g \in Flow : /\ In(Trigger(g), logs') => In(Trigger(g), logs)
                              /\ Once(logs, Trigger(g)) => Once(logs', Trigger(g))
  <1>1. CASE UNCHANGED <<registered, logs>>
    BY <1>1 DEF Types, TypeOK
  <1>2. CASE Registers(f, next) /\ registered[f] = MilestoneOf(next) - 1 /\ Emit(f)
    <2>1. registered[f] \in 1..3 /\ registered[f] \in 0..3 /\ registered \in [Flow -> 0..4]
      BY <1>2 DEF Registers, IsRetriableStep, MilestoneOf, Types, TypeOK
    <2> DEFINE e == <<f, Milestones[registered[f] + 1]>>
    <2>2. /\ registered' \in [Flow -> 0..4] /\ registered' = [registered EXCEPT ![f] = @ + 1]
          /\ logs' = Append(logs, e) /\ e \in Log /\ Happened(e, registered')
          /\ \A s \in Seq(Log) : AllHappened(s, registered) => AllHappened(s, registered')
      BY Zenon, <1>2, <2>1, EmitFacts
    <2>3. \A g : e # Trigger(g)
      <3>1. registered[f] + 1 \in 1..4 /\ registered[f] + 1 # 1
        BY <2>1
      <3>2. Milestones[registered[f] + 1] # "OperatorTakeTriggered"
        BY Zenon, <3>1, MilestoneFacts
      <3> QED
        BY <3>2 DEF Trigger
    <2> HIDE DEF e
    <2>4. logs \in Seq(Log)
      BY DEF Types
    <2>5. /\ logs' \in Seq(Log)
          /\ \A x : In(x, logs') => In(x, logs) \/ x = e
          /\ \A x : Once(logs, x) /\ (x = e => ~In(x, logs)) => Once(logs', x)
          /\ \A chain : AllHappened(logs, chain) /\ Happened(e, chain) => AllHappened(logs', chain)
      BY Zenon, <2>2, <2>4, AppendEvents
    <2>6. \A g \in Flow \ {f} : registered'[g] = registered[g]
      BY <2>1, <2>2
    <2> QED
      BY Zenon, <2>2, <2>3, <2>4, <2>5, <2>6
  <1> QED
    BY Zenon, <1>1, <1>2 DEF Submits

(* Where the flows come from: they are those in memory, or a flow is       *)
(* created.                                                                *)
Origin(m, f) ==
    \/ m = mem
    \/ Clean(mem[f]) = NoFlow /\ m = [mem EXCEPT ![f] = [step |-> WaitRskOperatorTakeTriggered, retry |-> FALSE]]

Advances == \A g \in Flow : disk'[g].step >= disk[g].step \/ g \in completed' \cup failed'

(* The types of what FlowsInv speaks about. *)
LEMMA FlowTypes ==
    ASSUME Types
    PROVE  /\ mem \in [Flow -> State] /\ disk \in [Flow -> State] /\ registered \in [Flow -> 0..4]
           /\ completed \subseteq Flow /\ failed \subseteq Flow /\ left \in Budget
  BY DEF Types, TypeOK, State

(* The flows start_step is given: those in memory, or a fresh one for a    *)
(* take whose flow is gone.                                                *)
LEMMA OriginFacts ==
    ASSUME Types, NEW f \in Flow, NEW m, Origin(m, f)
    PROVE  /\ m \in [Flow -> State] /\ \A g \in Flow \ {f} : m[g] = mem[g]
           /\ m[f] = mem[f] \/ (Clean(mem[f]) = NoFlow /\ m[f] = [step |-> 0, retry |-> FALSE])
  <1>1. [step |-> 0, retry |-> FALSE] \in State
    <2>1. 0 \in 0..11
      OBVIOUS
    <2> QED
      BY Zenon, <2>1, TakenFacts
  <1> QED
    BY Zenon, <1>1, FlowTypes DEF Origin

(* The flows after one was replaced and the terminal ones swept. *)
LEMMA TakenIs ==
    ASSUME NEW m \in [Flow -> State], NEW f \in Flow, NEW fl \in State
    PROVE  /\ Taken(m, f, fl) \in [Flow -> State] /\ Taken(m, f, fl)[f] = Clean(fl)
           /\ \A g \in Flow \ {f} : Taken(m, f, fl)[g] = Clean(m[g])
  <1>1. [m EXCEPT ![f] = fl] \in [Flow -> State]
    OBVIOUS
  <1> QED
    BY Zenon, <1>1, CleanedFacts DEF Taken

(* The saved flow does not go back. *)
LEMMA AdvancesFact ==
    ASSUME NEW d \in State, NEW f, NEW reg, NEW next, Legal(f, d, reg, next)
    PROVE  IsTerminal(d.step) \/ d.step <= next
  BY StateFacts DEF Legal, IsTerminal

(* Entering a step that is legal for the flow keeps FlowsInv, and never    *)
(* moves the saved flow back.                                              *)
LEMMA EntersFlows ==
    ASSUME Types, FlowsInv, NEW f \in Flow, NEW next, NEW m, NEW ok,
           Origin(m, f), Legal(f, disk[f], registered[f], next), pc # "down", Enters(m, f, next, ok)
    PROVE  mem' \in [Flow -> State] /\ disk' \in [Flow -> State] /\ FlowsInv' /\ Advances
  <1> DEFINE fl == [step |-> next, retry |-> FALSE]
  <1>0. next \in 0..11 /\ registered[f] \in 1..4 /\ next \in 1..11
    BY DEF Legal
  <1>1. fl \in State /\ fl.step = next
    BY Zenon, <1>0, TakenFacts
  <1>2. EnterStep(f, next) /\ mem' = Taken(m, f, fl) /\ disk' = Taken(disk, f, fl) /\ Record(f, next) /\ left' = left
    BY Zenon DEF Enters
  <1> HIDE DEF fl
  <1>3. /\ mem' \in [Flow -> State] /\ mem'[f] = Clean(fl) /\ \A g \in Flow \ {f} : mem'[g] = Clean(mem[g])
        /\ disk' \in [Flow -> State] /\ disk'[f] = Clean(fl) /\ \A g \in Flow \ {f} : disk'[g] = Clean(disk[g])
    <2>1. disk \in [Flow -> State] /\ m \in [Flow -> State] /\ \A g \in Flow \ {f} : m[g] = mem[g]
      BY OriginFacts, FlowTypes
    <2>2. /\ Taken(m, f, fl) \in [Flow -> State] /\ Taken(m, f, fl)[f] = Clean(fl)
          /\ \A g \in Flow \ {f} : Taken(m, f, fl)[g] = Clean(m[g])
      BY <1>1, <2>1, TakenIs
    <2>3. /\ Taken(disk, f, fl) \in [Flow -> State] /\ Taken(disk, f, fl)[f] = Clean(fl)
          /\ \A g \in Flow \ {f} : Taken(disk, f, fl)[g] = Clean(disk[g])
      BY Zenon, <1>1, <2>1, TakenIs
    <2> QED
      BY <1>2, <2>1, <2>2, <2>3
  <1>4. /\ completed' = IF next = Done THEN completed \cup {f} ELSE completed
        /\ failed' = IF next = Failed THEN failed \cup {f} ELSE failed
    BY <1>2 DEF Record
  <1>5. /\ registered'[f] = Registered(f, registered[f], next)
        /\ Registers(f, next) => registered[f] = MilestoneOf(next) - 1
    BY <1>2, FlowTypes DEF EnterStep, Emit, Registered
  <1>6. \A g \in Flow \ {f} : registered'[g] = registered[g]
    BY Zenon, <1>2, EnterSubmits, SubmitFacts
  <1>7. FlowOK(f, mem'[f], disk'[f], registered'[f], completed', failed', pc', left')
    <2>1. FlowOK(f, mem[f], disk[f], registered[f], completed, failed, pc, left)
      BY DEF FlowsInv
    <2>2. left'.lossy = left.lossy /\ mem[f] \in State /\ disk[f] \in State
      BY <1>2, FlowTypes
    <2>3. FlowOK(f, Clean(fl), Clean(fl), Registered(f, registered[f], next), completed', failed', pc', left')
      BY Zenon, <1>4, <1>5, <2>1, <2>2, FlowEntered DEF fl
    <2> QED
      BY Zenon, <1>3, <1>5, <2>3
  <1>8. ASSUME NEW g \in Flow \ {f} PROVE FlowOK(g, mem'[g], disk'[g], registered'[g], completed', failed', pc', left')
    <2>1. FlowOK(g, mem[g], disk[g], registered[g], completed, failed, pc, left)
      BY Zenon DEF FlowsInv
    <2>2. Same(g, completed, failed, pc, left, completed', failed', pc', left')
      BY <1>2, <1>4 DEF Same
    <2>3. mem[g] \in State /\ disk[g] \in State /\ registered[g] \in 0..4
      BY FlowTypes
    <2>4. FlowOK(g, Clean(mem[g]), Clean(disk[g]), registered[g], completed', failed', pc', left')
      BY Zenon, <2>1, <2>2, <2>3, FlowCleaned
    <2> QED
      BY Zenon, <1>3, <1>6, <2>4
  <1>9. Advances
    <2>1. ASSUME NEW g \in Flow \ {f} PROVE disk'[g].step >= disk[g].step \/ g \in completed' \cup failed'
      BY <1>3, <1>4, StateFacts, FlowTypes DEF FlowsInv, FlowOK
    <2>2. disk'[f].step >= disk[f].step \/ f \in completed' \cup failed'
      <3>1. next \in {Done, Failed} => f \in completed' \cup failed'
        BY <1>4
      <3>2. next \notin {Done, Failed} => disk'[f].step = next
        BY <1>1, <1>3, StateFacts
      <3>3. IsTerminal(disk[f].step) => f \in completed' \cup failed'
        BY Zenon, <1>4 DEF FlowsInv, FlowOK, IsTerminal
      <3>4. IsTerminal(disk[f].step) \/ disk[f].step <= next
        BY FlowTypes, AdvancesFact
      <3>5. disk[f].step \in -1..11
        BY FlowTypes, StateFacts
      <3> QED
        BY <1>0, <3>1, <3>2, <3>3, <3>4, <3>5
    <2> QED
      BY Zenon, <2>1, <2>2 DEF Advances
  <1> QED
    BY Zenon, <1>3, <1>7, <1>8, <1>9 DEF FlowsInv

(* FlowOK of a flow that a handler leaves alone, or sweeps. *)
LEMMA OtherFlow ==
    ASSUME Types, FlowsInv, NEW g \in Flow, registered'[g] = registered[g],
           Same(g, completed, failed, pc, left, completed', failed', pc', left'),
           \/ mem'[g] = mem[g] /\ disk'[g] = disk[g]
           \/ mem'[g] = Clean(mem[g]) /\ disk'[g] = Clean(disk[g])
    PROVE  FlowOK(g, mem'[g], disk'[g], registered'[g], completed', failed', pc', left')
  <1>1. FlowOK(g, mem[g], disk[g], registered[g], completed, failed, pc, left)
    BY DEF FlowsInv
  <1>2. mem[g] \in State /\ disk[g] \in State /\ registered[g] \in 0..4
    BY Zenon, FlowTypes
  <1>3. FlowOK(g, mem[g], disk[g], registered[g], completed', failed', pc', left')
    BY Zenon, <1>1, <1>2, FlowKept
  <1>4. FlowOK(g, Clean(mem[g]), Clean(disk[g]), registered[g], completed', failed', pc', left')
    BY Zenon, <1>1, <1>2, FlowCleaned
  <1> QED
    BY Zenon, <1>3, <1>4

(* The step of a flow that others leave alone, or clean up. *)
LEMMA OtherAdvances ==
    ASSUME Types, FlowsInv, NEW g \in Flow, completed \subseteq completed', failed \subseteq failed',
           disk'[g] = disk[g] \/ disk'[g] = Clean(disk[g])
    PROVE  disk'[g].step >= disk[g].step \/ g \in completed' \cup failed'
  <1>1. disk[g] \in State /\ disk[g].step \in -1..11
    BY FlowTypes, StateFacts
  <1>2. disk[g].step = Done => g \in completed
    BY DEF FlowsInv, FlowOK
  <1>3. disk[g].step = Failed => g \in failed
    BY DEF FlowsInv, FlowOK
  <1> QED
    BY <1>1, <1>2, <1>3, StateFacts

(* Parking a flow for a retry keeps FlowsInv. *)
LEMMA ParksFlows ==
    ASSUME Types, FlowsInv, NEW f \in Flow, NEW next, NEW m, NEW ok,
           Origin(m, f), Legal(f, disk[f], registered[f], next), pc # "down", Parks(m, f, next, ok)
    PROVE  mem' \in [Flow -> State] /\ disk' \in [Flow -> State] /\ FlowsInv' /\ Advances
  <1> DEFINE fl == [step |-> next, retry |-> TRUE]
  <1>0. next \in 0..11 /\ registered[f] \in 1..4 /\ next \in 1..11
    BY DEF Legal
  <1>1. fl \in State /\ fl.step = next
    BY Zenon, <1>0, TakenFacts
  <1>2. /\ mem' = Taken(m, f, fl) /\ disk' = Taken(disk, f, fl) /\ UNCHANGED <<registered, completed, failed>>
        /\ Registers(f, next) /\ registered[f] < MilestoneOf(next) /\ left' = [left EXCEPT !.missing = @ - 1]
    BY Zenon DEF Parks, history
  <1>3. left'.lossy = left.lossy
    BY <1>2, FlowTypes DEF Budget
  <1> HIDE DEF fl
  <1>4. disk \in [Flow -> State] /\ m \in [Flow -> State] /\ \A g \in Flow \ {f} : m[g] = mem[g]
    BY OriginFacts, FlowTypes
  <1>5. /\ mem' \in [Flow -> State] /\ mem'[f] = Clean(fl)
        /\ \A g \in Flow \ {f} : mem'[g] = Clean(mem[g])
    BY <1>1, <1>2, <1>4, TakenIs
  <1>6. /\ disk' \in [Flow -> State] /\ disk'[f] = Clean(fl)
        /\ \A g \in Flow \ {f} : disk'[g] = Clean(disk[g])
    <2>1. /\ Taken(disk, f, fl) \in [Flow -> State] /\ Taken(disk, f, fl)[f] = Clean(fl)
          /\ \A g \in Flow \ {f} : Taken(disk, f, fl)[g] = Clean(disk[g])
      BY Zenon, <1>1, <1>4, TakenIs
    <2> QED
      BY Zenon, <1>2, <2>1
  <1>7. FlowOK(f, mem'[f], disk'[f], registered'[f], completed', failed', pc', left')
    <2>1. FlowOK(f, mem[f], disk[f], registered[f], completed, failed, pc, left)
      BY DEF FlowsInv
    <2>2. mem[f] \in State /\ disk[f] \in State
      BY FlowTypes
    <2>3. Registers(f, next) /\ registered[f] < MilestoneOf(next)
      BY Zenon, <1>2
    <2>4. FlowOK(f, Clean(fl), Clean(fl), registered[f], completed, failed, pc', left')
      BY Zenon, <2>1, <2>2, <2>3, FlowParked DEF fl
    <2> QED
      BY Zenon, <1>2, <1>5, <1>6, <2>4
  <1>8. ASSUME NEW g \in Flow \ {f} PROVE FlowOK(g, mem'[g], disk'[g], registered'[g], completed', failed', pc', left')
    <2>1. Same(g, completed, failed, pc, left, completed', failed', pc', left') /\ registered'[g] = registered[g]
      BY <1>2, <1>3 DEF Same
    <2> QED
      BY Zenon, <1>5, <1>6, <2>1, OtherFlow
  <1>9. Advances
    <2>1. ASSUME NEW g \in Flow \ {f} PROVE disk'[g].step >= disk[g].step \/ g \in completed' \cup failed'
      BY <1>2, <1>6, OtherAdvances
    <2>2. disk'[f].step >= disk[f].step \/ f \in completed' \cup failed'
      <3>2. disk'[f].step = next
        BY <1>1, <1>2, <1>6, StateFacts DEF Registers, IsRetriableStep
      <3>3. IsTerminal(disk[f].step) => f \in completed \cup failed
        BY Zenon DEF FlowsInv, FlowOK, IsTerminal
      <3>4. IsTerminal(disk[f].step) \/ disk[f].step <= next
        BY FlowTypes, AdvancesFact
      <3>5. disk[f].step \in -1..11
        BY FlowTypes, StateFacts
      <3> QED
        BY <1>0, <1>2, <3>2, <3>3, <3>4, <3>5
    <2> QED
      BY Zenon, <2>1, <2>2 DEF Advances
  <1> QED
    BY Zenon, <1>5, <1>6, <1>7, <1>8, <1>9 DEF FlowsInv

(* A step that fails keeps FlowsInv. *)
LEMMA ErrsFlows ==
    ASSUME Types, FlowsInv, NEW f \in Flow, NEW next, NEW m, NEW err,
           Origin(m, f), Legal(f, disk[f], registered[f], next), pc # "down", Errs(m, f, next, err)
    PROVE  mem' \in [Flow -> State] /\ disk' \in [Flow -> State] /\ FlowsInv' /\ Advances
  <1>1. /\ mem' = Cleaned(m) /\ disk' = Cleaned(disk) /\ UNCHANGED <<completed, failed>> /\ Submits(f, next)
        /\ left' = left \/ left' = [left EXCEPT !.errors = @ - 1]
    BY Zenon DEF Errs, history
  <1>2. left'.lossy = left.lossy
    BY <1>1, FlowTypes DEF Budget
  <1>3. /\ disk \in [Flow -> State] /\ m \in [Flow -> State] /\ \A g \in Flow \ {f} : m[g] = mem[g]
        /\ m[f] = mem[f] \/ (Clean(mem[f]) = NoFlow /\ m[f] = [step |-> 0, retry |-> FALSE])
    BY Zenon, OriginFacts, FlowTypes
  <1>4. /\ mem' \in [Flow -> State] /\ disk' \in [Flow -> State]
        /\ \A g \in Flow : mem'[g] = Clean(m[g]) /\ disk'[g] = Clean(disk[g])
    BY <1>1, <1>3, CleanedFacts
  <1>5. \A g \in Flow : Same(g, completed, failed, pc, left, completed', failed', pc', left')
    BY <1>1, <1>2 DEF Same
  <1>6. \A g \in Flow \ {f} : registered'[g] = registered[g]
    BY Zenon, <1>1, SubmitFacts
  <1>7. ASSUME NEW g \in Flow \ {f} PROVE FlowOK(g, mem'[g], disk'[g], registered'[g], completed', failed', pc', left')
    BY Zenon, <1>3, <1>4, <1>5, <1>6, OtherFlow
  <1>8. FlowOK(f, Clean(m[f]), Clean(disk[f]), registered[f], completed', failed', pc', left')
    <2>1. FlowOK(f, mem[f], disk[f], registered[f], completed, failed, pc, left)
      BY DEF FlowsInv
    <2>2. mem[f] \in State /\ disk[f] \in State /\ registered[f] \in 1..4 /\ registered[f] \in 0..4
      BY FlowTypes DEF Legal
    <2>3. CASE m[f] = mem[f]
      BY Zenon, <1>5, <2>1, <2>2, <2>3, FlowCleaned
    <2>4. CASE Clean(mem[f]) = NoFlow /\ m[f] = [step |-> 0, retry |-> FALSE]
      <3>1. FlowOK(f, Clean([step |-> 0, retry |-> FALSE]), Clean(disk[f]), registered[f], completed, failed, pc', left')
        BY Zenon, <1>2, <2>1, <2>2, <2>4, FlowUnborn
      <3> QED
        BY Zenon, <1>1, <2>4, <3>1
    <2> QED
      BY Zenon, <1>3, <2>3, <2>4
  <1>9. FlowOK(f, mem'[f], disk'[f], registered'[f], completed', failed', pc', left')
    <2>1. CASE UNCHANGED <<registered, logs>>
      BY Zenon, <1>4, <1>8, <2>1
    <2>2. CASE Registers(f, next) /\ registered[f] = MilestoneOf(next) - 1 /\ Emit(f)
      <3>1. left.lossy
        BY <2>2 DEF Errs, Submits
      <3>2. registered'[f] = registered[f] + 1 /\ registered[f] \in 1..3
        BY <2>2, FlowTypes DEF Emit, Registers, IsRetriableStep, MilestoneOf
      <3>3. Clean(disk[f]) \in State /\ Clean(m[f]) \in State
        BY Zenon, <1>3, StateFacts
      <3>4. FlowOK(f, Clean(m[f]), Clean(disk[f]), registered[f] + 1, completed', failed', pc', left')
        BY <1>2, <1>8, <3>1, <3>2, <3>3, StateFacts DEF FlowOK, IsRetriableStep, MilestoneOf
      <3> QED
        BY Zenon, <1>4, <3>2, <3>4
    <2> QED
      BY Zenon, <1>1, <2>1, <2>2 DEF Submits
  <1>10. Advances
    BY <1>1, <1>4, OtherAdvances DEF Advances
  <1> QED
    BY Zenon, <1>4, <1>7, <1>9, <1>10 DEF FlowsInv

(* A process that dies inside a step keeps FlowsInv of what it had saved. *)
LEMMA DiesFlows ==
    ASSUME Types, FlowsInv, NEW f \in Flow, NEW next, NEW m,
           Legal(f, disk[f], registered[f], next), pc # "down", Dies(f, next)
    PROVE  mem' \in [Flow -> State] /\ disk' \in [Flow -> State] /\ FlowsInv' /\ Advances
  <1> DEFINE fl == [step |-> next, retry |-> FALSE]
  <1>0. next \in 0..11 /\ registered[f] \in 1..4 /\ next \in 1..11
    BY DEF Legal
  <1>1. fl \in State /\ fl.step = next
    BY Zenon, <1>0, TakenFacts
  <1>2. /\ EnterStep(f, next) /\ pc' = "down" /\ mem' = mem /\ left.lossy
        /\ left' = [left EXCEPT !.crashes = @ - 1]
        /\ \/ disk' = disk /\ UNCHANGED <<completed, failed>>
           \/ disk' = [disk EXCEPT ![f] = fl] /\ Record(f, next)
    BY Zenon DEF Dies, Die, history
  <1>3. left'.lossy = left.lossy
    BY Zenon, <1>2, FlowTypes DEF Budget
  <1> HIDE DEF fl
  <1>4. /\ registered'[f] = Registered(f, registered[f], next)
        /\ Registers(f, next) => registered[f] = MilestoneOf(next) - 1
    BY <1>2, FlowTypes DEF EnterStep, Emit, Registered
  <1>5. \A g \in Flow \ {f} : registered'[g] = registered[g]
    BY Zenon, <1>2, EnterSubmits, SubmitFacts
  <1>6. mem[f] \in State /\ disk[f] \in State /\ FlowOK(f, mem[f], disk[f], registered[f], completed, failed, pc, left)
    BY FlowTypes DEF FlowsInv
  <1>7. ASSUME NEW g \in Flow \ {f}, disk'[g] = disk[g], g \in completed' <=> g \in completed,
               g \in failed' <=> g \in failed
        PROVE  FlowOK(g, mem'[g], disk'[g], registered'[g], completed', failed', pc', left')
    <2>1. Same(g, completed, failed, pc, left, completed', failed', pc', left') /\ registered'[g] = registered[g]
      BY Zenon, <1>2, <1>3, <1>5, <1>7 DEF Same
    <2> QED
      BY Zenon, <1>2, <1>7, <2>1, OtherFlow
  <1>8. CASE disk' = disk /\ UNCHANGED <<completed, failed>>
    <2>1. FlowOK(f, mem'[f], disk'[f], registered'[f], completed', failed', pc', left')
      <3>1. Registered(f, registered[f], next) \in 1..4 /\ Registered(f, registered[f], next) >= registered[f]
        BY <1>0, <1>4 DEF Registered, Registers, IsRetriableStep, MilestoneOf
      <3>2. FlowOK(f, mem[f], disk[f], Registered(f, registered[f], next), completed, failed, pc', left')
        BY <1>0, <1>2, <1>3, <1>4, <1>6, <3>1, StateFacts
           DEF FlowOK, IsRetriableStep, MilestoneOf, Registered, Registers
      <3> QED
        BY Zenon, <1>2, <1>4, <1>8, <3>2
    <2>2. FlowsInv'
      BY Zenon, <1>7, <1>8, <2>1 DEF FlowsInv
    <2> QED
      BY <1>2, <1>8, <2>2, FlowTypes, StateFacts DEF Advances
  <1>9. CASE disk' = [disk EXCEPT ![f] = fl] /\ Record(f, next)
    <2>1. /\ completed' = IF next = Done THEN completed \cup {f} ELSE completed
          /\ failed' = IF next = Failed THEN failed \cup {f} ELSE failed
      BY <1>9 DEF Record
    <2>2. disk' \in [Flow -> State] /\ disk'[f] = fl /\ \A g \in Flow \ {f} : disk'[g] = disk[g]
      BY <1>1, <1>9, FlowTypes
    <2>3. FlowOK(f, mem'[f], disk'[f], registered'[f], completed', failed', pc', left')
      <3>0. pc' = "down" /\ (Registers(f, next) => registered[f] = MilestoneOf(next) - 1)
        BY Zenon, <1>2, <1>4
      <3>1. FlowOK(f, mem[f], fl, Registered(f, registered[f], next), completed', failed', pc', left')
        <4>1. FlowOK(f, mem[f], fl, Registered(f, registered[f], next), completed', failed', "down", left')
          BY Zenon, <1>3, <1>6, <2>1, <3>0, FlowEntered DEF fl
        <4> QED
          BY Zenon, <3>0, <4>1
      <3> QED
        BY Zenon, <1>2, <1>4, <2>2, <3>1
    <2>4. FlowsInv'
      <3>1. \A g \in Flow \ {f} : (g \in completed' <=> g \in completed) /\ (g \in failed' <=> g \in failed)
        BY <2>1
      <3> QED
        BY Zenon, <1>7, <2>2, <2>3, <3>1 DEF FlowsInv
    <2>5. Advances
      <3>1. ASSUME NEW g \in Flow \ {f} PROVE disk'[g].step >= disk[g].step \/ g \in completed' \cup failed'
        BY <2>1, <2>2, OtherAdvances
      <3>2. IsTerminal(disk[f].step) => f \in completed' \cup failed'
        BY <2>1 DEF FlowsInv, FlowOK, IsTerminal
      <3>3. IsTerminal(disk[f].step) \/ disk[f].step <= next
        BY FlowTypes, AdvancesFact
      <3>4. disk[f].step \in -1..11
        BY FlowTypes, StateFacts
      <3>5. disk'[f].step >= disk[f].step \/ f \in completed' \cup failed'
        BY <1>0, <1>1, <2>2, <3>2, <3>3, <3>4
      <3> QED
        BY Zenon, <3>1, <3>5 DEF Advances
    <2> QED
      BY <1>2, <2>2, <2>4, <2>5, FlowTypes
  <1> QED
    BY Zenon, <1>2, <1>8, <1>9

(* A handler that only sweeps keeps FlowsInv. *)
LEMMA IgnoreFlows ==
    ASSUME Types, FlowsInv, NEW at, Commit(mem, disk, retries), pc' = at, at # "down", pc # "down",
           UNCHANGED <<registered, completed, failed, left>>
    PROVE  mem' \in [Flow -> State] /\ disk' \in [Flow -> State] /\ FlowsInv' /\ Advances
  <1>1. mem' = Cleaned(mem) /\ disk' = Cleaned(disk)
    BY DEF Commit
  <1>2. /\ mem' \in [Flow -> State] /\ disk' \in [Flow -> State]
        /\ \A g \in Flow : mem'[g] = Clean(mem[g]) /\ disk'[g] = Clean(disk[g])
    BY <1>1, FlowTypes, CleanedFacts
  <1>3. \A g \in Flow : Same(g, completed, failed, pc, left, completed', failed', pc', left')
    BY DEF Same
  <1>4. \A g \in Flow : FlowOK(g, mem'[g], disk'[g], registered'[g], completed', failed', pc', left')
    BY Zenon, <1>2, <1>3, OtherFlow
  <1>5. Advances
    BY <1>2, OtherAdvances DEF Advances
  <1> QED
    BY Zenon, <1>2, <1>4, <1>5 DEF FlowsInv

(* start_step keeps FlowsInv, whichever way it goes. *)
LEMMA StartFlows ==
    ASSUME Types, FlowsInv, NEW f \in Flow, NEW next, NEW m, NEW ok, NEW err,
           Origin(m, f), Legal(f, disk[f], registered[f], next), pc # "down", StartStep(m, f, next, ok, err)
    PROVE  mem' \in [Flow -> State] /\ disk' \in [Flow -> State] /\ FlowsInv' /\ Advances
  <1>1. CASE Enters(m, f, next, ok)
    BY Zenon, <1>1, EntersFlows
  <1>2. CASE Parks(m, f, next, ok)
    BY Zenon, <1>2, ParksFlows
  <1>3. CASE Errs(m, f, next, err)
    BY Zenon, <1>3, ErrsFlows
  <1>4. CASE Dies(f, next)
    BY Zenon, <1>4, DiesFlows
  <1> QED
    BY Zenon, <1>1, <1>2, <1>3, <1>4, StartCases

-----------------------------------------------------------------------------
(* What a handler does besides. *)

(* The sweep of the retries keeps exactly those of flows that still run. *)
LEMMA PrunedRetries ==
    ASSUME NEW r, IsRetries(r), NEW m
    PROVE  /\ IsRetries(Pruned(r, m))
           /\ \A g : g \in DOMAIN Pruned(r, m) <=> g \in DOMAIN r /\ ~IsTerminal(m[g].step)
  BY DEF IsRetries, Pruned

(* Scheduling a retry keeps the type of the schedule. *)
LEMMA ScheduledRetries ==
    ASSUME NEW r, IsRetries(r), NEW f \in Flow
    PROVE  IsRetries([g \in DOMAIN r \cup {f} |-> IF g = f THEN Delay ELSE r[g]])
  BY OperatorTakeAssumption DEF IsRetries

(* The schedule's type, as TypeOK states it. *)
LEMMA RetriesType ==
    ASSUME NEW r, IsRetries(r)
    PROVE  DOMAIN r \subseteq Flow /\ Range(r) \subseteq 1..Delay
  BY DEF IsRetries, Range

(* What is left of the budget. *)
LEMMA SpentBudget ==
    ASSUME NEW b \in Budget
    PROVE  /\ b.missing > 0 => [b EXCEPT !.missing = @ - 1] \in Budget
           /\ b.errors > 0 => [b EXCEPT !.errors = @ - 1] \in Budget
           /\ b.crashes > 0 => [b EXCEPT !.crashes = @ - 1] \in Budget
           /\ b.takes > 0 => [b EXCEPT !.takes = @ - 1] \in Budget
           /\ [b EXCEPT !.missing = @ - 1].lossy = b.lossy /\ [b EXCEPT !.errors = @ - 1].lossy = b.lossy
           /\ [b EXCEPT !.crashes = @ - 1].lossy = b.lossy /\ [b EXCEPT !.takes = @ - 1].lossy = b.lossy
  BY DEF Budget

(* What BitVMX owes and was told, and what is recorded. *)
Bounded ==
    /\ asked' \subseteq Flow \X Kinds /\ told' \subseteq Flow \X {"setup", "registered"}
    /\ completed' \subseteq Flow /\ failed' \subseteq Flow /\ replayed' = replayed
    /\ completed \subseteq completed'

(* Entering a step records what it asked and reached, within the types. *)
LEMMA EnterBounded ==
    ASSUME Types, NEW f \in Flow, NEW next, EnterStep(f, next), Record(f, next) \/ UNCHANGED history
    PROVE  Bounded
  <1>1. asked' \subseteq Flow \X Kinds
    BY DEF EnterStep, Types, TypeOK, Kinds
  <1>2. told' \subseteq Flow \X {"setup", "registered"}
    BY DEF EnterStep, Types, TypeOK
  <1>3. completed' \subseteq Flow /\ failed' \subseteq Flow /\ replayed' = replayed /\ completed \subseteq completed'
    BY DEF Record, history, Types, TypeOK
  <1> QED
    BY <1>1, <1>2, <1>3 DEF Bounded

(* A step that asks and records nothing stays within the types. *)
LEMMA QuietBounded ==
    ASSUME Types, UNCHANGED <<asked, told, history>>
    PROVE  Bounded
  BY DEF Bounded, history, Types, TypeOK

(* What start_step sends, spends and records. *)
LEMMA StartTypes ==
    ASSUME Types, NEW f \in Flow, NEW next, NEW m, NEW ok, NEW err, StartStep(m, f, next, ok, err)
    PROVE  /\ Bounded /\ IsRetries(retries') /\ left' \in Budget /\ left'.lossy = left.lossy
           /\ pc' = ok \/ pc' = err \/ pc' = "down"
           /\ Submits(f, next)
  <1>0. IsRetries(retries) /\ left \in Budget
    BY DEF Types, TypeOK
  <1>1. CASE Enters(m, f, next, ok)
    <2>1. EnterStep(f, next) /\ Record(f, next) /\ left' = left /\ pc' = ok
      BY Zenon, <1>1 DEF Enters
    <2>2. IsRetries(retries')
      BY Zenon, <1>0, <1>1, PrunedRetries DEF Enters
    <2> QED
      BY Zenon, <1>0, <2>1, <2>2, EnterBounded, EnterSubmits
  <1>2. CASE Parks(m, f, next, ok)
    <2>1. /\ left.missing > 0 /\ left' = [left EXCEPT !.missing = @ - 1] /\ pc' = ok
          /\ UNCHANGED <<registered, logs, asked, told, history>>
      BY Zenon, <1>2 DEF Parks
    <2>2. IsRetries(retries')
      <3> DEFINE r == [g \in DOMAIN retries \cup {f} |-> IF g = f THEN Delay ELSE retries[g]]
      <3>1. IsRetries(r)
        BY Zenon, <1>0, ScheduledRetries
      <3>2. retries' = Pruned(r, [m EXCEPT ![f] = [step |-> next, retry |-> TRUE]])
        BY Zenon, <1>2 DEF Parks
      <3> QED
        BY Zenon, <3>1, <3>2, PrunedRetries
    <2>3. left' \in Budget /\ left'.lossy = left.lossy
      BY Zenon, <1>0, <2>1, SpentBudget
    <2> QED
      BY Zenon, <2>1, <2>2, <2>3, QuietBounded DEF Submits
  <1>3. CASE Errs(m, f, next, err)
    <2>1. /\ left' = left \/ (left.errors > 0 /\ left' = [left EXCEPT !.errors = @ - 1])
          /\ pc' = err /\ UNCHANGED <<asked, told, history>> /\ Submits(f, next)
      BY Zenon, <1>3 DEF Errs
    <2>2. IsRetries(retries')
      BY Zenon, <1>0, <1>3, PrunedRetries DEF Errs
    <2>3. left' \in Budget /\ left'.lossy = left.lossy
      BY Zenon, <1>0, <2>1, SpentBudget
    <2> QED
      BY Zenon, <2>1, <2>2, <2>3, QuietBounded
  <1>4. CASE Dies(f, next)
    <2>1. /\ left.crashes > 0 /\ left' = [left EXCEPT !.crashes = @ - 1] /\ pc' = "down" /\ retries' = retries
          /\ EnterStep(f, next) /\ (Record(f, next) \/ UNCHANGED history)
      BY Zenon, <1>4 DEF Dies, Die
    <2>2. left' \in Budget /\ left'.lossy = left.lossy
      BY Zenon, <1>0, <2>1, SpentBudget
    <2> QED
      BY Zenon, <1>0, <2>1, <2>2, EnterBounded, EnterSubmits
  <1> QED
    BY Zenon, <1>1, <1>2, <1>3, <1>4, StartCases

(* What a handler does to the flows it does not serve. *)
Others(S) ==
    \A g \in S : /\ mem'[g] = mem[g] \/ mem'[g] = Clean(mem[g])
                 /\ disk'[g] = disk[g] \/ disk'[g] = Clean(disk[g])
                 /\ g \in completed' <=> g \in completed

(* A flow that is recorded as Done is gone, or saved as Done. *)
Recorded(f, next) ==
    f \in completed' /\ f \notin completed =>
        /\ next = Done /\ (disk'[f] = NoFlow \/ disk'[f].step = Done)
        /\ pc' # "down" => mem'[f] = NoFlow

(* TakenIs, of each flow. *)
LEMMA TakenOf ==
    \A d \in [Flow -> State] : \A x \in State : \A f \in Flow :
        Taken(d, f, x)[f] = Clean(x) /\ \A g \in Flow \ {f} : Taken(d, f, x)[g] = Clean(d[g])
  BY TakenIs

(* start_step leaves the other flows alone, and records the step of its    *)
(* own.                                                                    *)
LEMMA StartOthers ==
    ASSUME Types, NEW f \in Flow, NEW next \in 1..11, NEW m, NEW ok, NEW err, Origin(m, f), StartStep(m, f, next, ok, err)
    PROVE  Others(Flow \ {f}) /\ Recorded(f, next)
  <1>0. m \in [Flow -> State] /\ \A g \in Flow \ {f} : m[g] = mem[g]
    BY OriginFacts
  <1>1. disk \in [Flow -> State] /\ mem \in [Flow -> State]
    BY FlowTypes
  <1>2. next \in 0..11
    OBVIOUS
  <1> DEFINE fl == [step |-> next, retry |-> FALSE]
             fr == [step |-> next, retry |-> TRUE]
  <1>3. fl \in State /\ fr \in State /\ fl.step = next
    BY Zenon, <1>2, TakenFacts
  <1>4. next = Done => Clean(fl) = NoFlow
    BY <1>3 DEF Clean, IsTerminal
  <1>5. CASE Enters(m, f, next, ok)
    <2>1. mem' = Taken(m, f, fl) /\ disk' = Taken(disk, f, fl) /\ Record(f, next)
      BY Zenon, <1>5 DEF Enters
    <2> HIDE DEF fl
    <2>2. /\ Taken(m, f, fl)[f] = Clean(fl) /\ \A g \in Flow \ {f} : Taken(m, f, fl)[g] = Clean(m[g])
      BY <1>0, <1>3, TakenIs
    <2>3. /\ Taken(disk, f, fl)[f] = Clean(fl) /\ \A g \in Flow \ {f} : Taken(disk, f, fl)[g] = Clean(disk[g])
      <3>1. disk \in [Flow -> State] /\ fl \in State
        BY Zenon, <1>1, <1>3
      <3> QED
        BY Zenon, <3>1, TakenOf
    <2>4. completed' = IF next = Done THEN completed \cup {f} ELSE completed
      BY <2>1 DEF Record
    <2>5. Others(Flow \ {f})
      <3>1. \A g \in Flow \ {f} : g \in completed' <=> g \in completed
        BY <2>4
      <3> QED
        BY Zenon, <1>0, <2>1, <2>2, <2>3, <3>1 DEF Others
    <2>6. Recorded(f, next)
      BY Zenon, <1>4, <2>1, <2>2, <2>3, <2>4 DEF Recorded
    <2> QED
      BY <2>5, <2>6
  <1>6. CASE Parks(m, f, next, ok)
    <2>1. mem' = Taken(m, f, fr) /\ disk' = Taken(disk, f, fr) /\ completed' = completed
      BY Zenon, <1>6 DEF Parks, history
    <2> HIDE DEF fr
    <2>2. \A g \in Flow \ {f} : Taken(m, f, fr)[g] = Clean(m[g])
      BY Zenon, <1>0, <1>3, TakenIs
    <2>3. \A g \in Flow \ {f} : Taken(disk, f, fr)[g] = Clean(disk[g])
      BY <1>1, <1>3, TakenIs
    <2> QED
      BY Zenon, <1>0, <2>1, <2>2, <2>3 DEF Others, Recorded
  <1>7. CASE Errs(m, f, next, err)
    <2>1. mem' = Cleaned(m) /\ disk' = Cleaned(disk) /\ completed' = completed
      BY Zenon, <1>7 DEF Errs, history
    <2>2. \A g \in Flow : Cleaned(m)[g] = Clean(m[g]) /\ Cleaned(disk)[g] = Clean(disk[g])
      BY <1>0, <1>1, CleanedFacts
    <2> QED
      BY <1>0, <2>1, <2>2 DEF Others, Recorded
  <1>8. CASE Dies(f, next)
    <2>1. /\ mem' = mem /\ pc' = "down"
          /\ disk' = disk \/ disk' = [disk EXCEPT ![f] = fl]
          /\ completed' = completed \/ (disk' = [disk EXCEPT ![f] = fl] /\ Record(f, next))
      BY Zenon, <1>8 DEF Dies, Die, history
    <2> HIDE DEF fl
    <2>2. /\ \A g \in Flow \ {f} : disk'[g] = disk[g]
          /\ disk' = [disk EXCEPT ![f] = fl] => disk'[f] = fl
      BY <1>1, <2>1
    <2>3. Record(f, next) => completed' = IF next = Done THEN completed \cup {f} ELSE completed
      BY DEF Record
    <2>4. Others(Flow \ {f})
      BY Zenon, <2>1, <2>2, <2>3 DEF Others
    <2>5. Recorded(f, next)
      BY Zenon, <1>3, <2>1, <2>2, <2>3 DEF Recorded
    <2> QED
      BY <2>4, <2>5
  <1> QED
    BY Zenon, <1>5, <1>6, <1>7, <1>8, StartCases

(* A handler that only sweeps leaves every running flow alone. *)
LEMMA IgnoreFacts ==
    ASSUME Types, Commit(mem, disk, retries), UNCHANGED <<told, history, left>>, asked' \subseteq asked
    PROVE  Others(Flow) /\ Bounded /\ IsRetries(retries')
  <1>1. mem' = Cleaned(mem) /\ disk' = Cleaned(disk) /\ retries' = Pruned(retries, mem)
    BY DEF Commit, Pruned
  <1>2. \A g \in Flow : mem'[g] = Clean(mem[g]) /\ disk'[g] = Clean(disk[g])
    BY <1>1, FlowTypes, CleanedFacts
  <1>3. Others(Flow)
    BY <1>2 DEF Others, history
  <1>4. IsRetries(retries')
    BY <1>1, PrunedRetries DEF Types
  <1>5. Bounded
    BY DEF Bounded, history, Types, TypeOK
  <1> QED
    BY <1>3, <1>4, <1>5

=============================================================================
