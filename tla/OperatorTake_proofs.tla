------------------------ MODULE OperatorTake_proofs -------------------------
(***************************************************************************)
(* The actions of OperatorTake one by one, and the theorems: see           *)
(* OperatorTake_steps for the invariant.                                   *)
(***************************************************************************)
EXTENDS OperatorTake_steps

USE DEF WaitRskOperatorTakeTriggered, GetBitVmxCommInfo, RequestBitVmxOperatorTakeTransactionInfo,
        SetupBitVmxAdvanceFundsProtocol, WaitBitVmxAdvanceFundsSpv, RegisterOrWaitRskAdvanceFunds,
        SetVarBitVmxAdvanceFundsRegistered, RegisterOrWaitRskReimbursementKickoff,
        WaitBitVmxOperatorTakeSpv, RegisterOrWaitRskOperatorTake, Done, Failed

-----------------------------------------------------------------------------
(* Which steps a handler may take a flow to. *)

(* A flow that is past its creation is in the store as it is in memory. *)
LEMMA ActiveFlow ==
    ASSUME Types, FlowsInv, pc # "down", NEW f \in Flow
    PROVE  /\ mem[f].step \in 1..9 => disk[f] = mem[f] /\ Clean(mem[f]) = mem[f] /\ registered[f] \in 1..4
           /\ mem[f].step = 0 => Clean(disk[f]).step \in {-1, 0} /\ registered[f] \in 1..4
           /\ mem[f].step \in -1..11
           /\ Clean(mem[f]) = NoFlow <=> mem[f].step \notin 0..9
           /\ Clean(mem[f]) = NoFlow => Clean(disk[f]) = NoFlow
           /\ disk[f].step \in 6..9 => registered[f] >= 2
           /\ f \in Selected /\ disk[f].step \in {8, 9} => registered[f] >= 3
  <1>1. FlowOK(f, mem[f], disk[f], registered[f], completed, failed, pc, left)
    BY DEF FlowsInv
  <1>2. mem[f] \in State /\ disk[f] \in State /\ registered[f] \in 0..4
    BY FlowTypes
  <1>3. \A fl \in State : fl.step \in 0..9 => Clean(fl) = fl /\ fl # NoFlow
    BY StateFacts DEF Clean, IsTerminal
  <1>4. \A fl \in State : Clean(fl) = NoFlow <=> fl.step \notin 0..9
    BY <1>3, StateFacts DEF Clean, IsTerminal
  <1>5. /\ mem[f] # NoFlow => registered[f] >= 1
        /\ Clean(mem[f]) = Clean(disk[f]) \/ (mem[f].step = 0 /\ Clean(disk[f]) = NoFlow)
        /\ disk[f].step \in 6..9 => registered[f] >= 2
        /\ f \in Selected /\ disk[f].step \in {8, 9} => registered[f] >= 3
    BY Zenon, <1>1 DEF FlowOK
  <1>6. mem[f].step \in 1..9 => disk[f] = mem[f] /\ Clean(mem[f]) = mem[f] /\ registered[f] \in 1..4
    BY <1>2, <1>3, <1>5, StateFacts
  <1>7. mem[f].step = 0 => Clean(disk[f]).step \in {-1, 0} /\ registered[f] \in 1..4
    BY <1>2, <1>3, <1>5, StateFacts
  <1>8. Clean(mem[f]) = NoFlow => Clean(disk[f]) = NoFlow
    BY <1>2, <1>3, <1>5
  <1> QED
    BY <1>2, <1>4, <1>5, <1>6, <1>7, <1>8, StateFacts

(* An event in a queue tells how far the contract's take is. *)
LEMMA HappenedFacts ==
    ASSUME Types, NEW e \in Log, Happened(e, registered)
    PROVE  /\ e[1] \in Flow /\ registered[e[1]] \in 1..4
           /\ e[2] = "AdvanceFundsRegistered" => registered[e[1]] >= 2
           /\ e[2] = "ReimbursementKickoffRegistered" => registered[e[1]] >= 3
           /\ e[2] = "PegoutRegistered" => registered[e[1]] = 4
  <1>1. e[1] \in Flow /\ registered[e[1]] \in 0..4
    BY FlowTypes DEF Log
  <1>2. PICK k \in 1..registered[e[1]] : e[2] = Milestones[k]
    BY DEF Happened
  <1>3. k \in 1..4 /\ registered[e[1]] >= k
    BY <1>1, <1>2
  <1> QED
    BY <1>1, <1>2, <1>3, MilestoneFacts

(* A take the contract knows may get a flow at its first step, or at the   *)
(* wait for the advance of another operator.                               *)
LEMMA LegalCreate ==
    ASSUME Types, FlowsInv, pc # "down", NEW f \in Flow, registered[f] \in 1..4, Clean(mem[f]) = NoFlow,
           NEW next \in {1, 5}
    PROVE  Legal(f, disk[f], registered[f], next)
  <1>1. Clean(disk[f]).step = -1
    BY ActiveFlow, StateFacts
  <1> QED
    BY <1>1 DEF Legal

(* A confirmed event may advance the flow it is valid for. *)
LEMMA LegalConfirmed ==
    ASSUME Types, FlowsInv, pc # "down", NEW f \in Flow, NEW target, NEW next,
           IsValidTransition(mem[f].step, target, f \in Selected),
           \/ target = 5 /\ next = 6 /\ registered[f] \in 2..4
           \/ target = 7 /\ next = 8 /\ registered[f] \in 3..4
           \/ target = 9 /\ next = 10 /\ registered[f] = 4
    PROVE  Legal(f, disk[f], registered[f], next) /\ mem[f].step \in 0..9
  <1>1. mem[f].step \in 0..9 /\ mem[f].step <= target
    BY DEF IsValidTransition
  <1>2. Clean(disk[f]).step <= target
    BY <1>1, ActiveFlow
  <1>3. Clean(disk[f]).step \in -1..11 /\ registered[f] \in 1..4
    BY FlowTypes, StateFacts
  <1> QED
    BY <1>1, <1>2, <1>3 DEF Legal

(* The moves answers, retries and SPVs make are legal for the flow. *)
LEMMA LegalNext ==
    ASSUME Types, FlowsInv, pc # "down", NEW f \in Flow, NEW next
    PROVE  /\ IsRetriableStep(mem[f].step) /\ next = mem[f].step =>
                  Legal(f, disk[f], registered[f], next) /\ mem[f].step \in 1..9
           /\ mem[f].step \in 1..3 /\ next = mem[f].step + 1 => Legal(f, disk[f], registered[f], next)
           /\ mem[f].step \in 0..9 /\ next = 11 => Legal(f, disk[f], registered[f], next)
           /\ mem[f].step = 4 /\ next = 5 => Legal(f, disk[f], registered[f], next)
           /\ mem[f].step = 6 /\ next = 7 => Legal(f, disk[f], registered[f], next)
           /\ mem[f].step \in 6..8 /\ (f \in Selected => mem[f].step = 8) /\ next = 9 =>
                  Legal(f, disk[f], registered[f], next)
  <1>1. mem[f].step \in 0..9 => registered[f] \in 1..4
    BY ActiveFlow
  <1>2. mem[f].step \in 0..9 => Clean(disk[f]).step <= mem[f].step
    BY ActiveFlow
  <1>3. mem[f].step \in 1..9 => disk[f].step = mem[f].step
    BY ActiveFlow
  <1>4. /\ mem[f].step \in -1..11
        /\ disk[f].step \in 6..9 => registered[f] >= 2
        /\ f \in Selected /\ disk[f].step \in {8, 9} => registered[f] >= 3
    BY ActiveFlow
  <1>5. Clean(disk[f]).step \in -1..11
    BY FlowTypes, StateFacts
  <1> QED
    BY <1>1, <1>2, <1>3, <1>4, <1>5 DEF Legal, IsRetriableStep

-----------------------------------------------------------------------------
(* Retries. *)

(* A parked flow is this operator's, saved as it is, and its milestone has *)
(* not happened unless a call's result was lost.                           *)
LEMMA ParkedFlow ==
    ASSUME Types, FlowsInv, pc # "down", NEW f \in Flow, mem[f].retry, ~IsTerminal(mem[f].step)
    PROVE  /\ f \in Selected /\ IsRetriableStep(mem[f].step) /\ disk[f] = mem[f]
           /\ ~left.lossy => registered[f] = MilestoneOf(mem[f].step) - 1
  <1>1. FlowOK(f, mem[f], disk[f], registered[f], completed, failed, pc, left)
    BY DEF FlowsInv
  <1>2. mem[f] \in State /\ disk[f] \in State /\ registered[f] \in 0..4
    BY FlowTypes
  <1>3. mem[f] # NoFlow
    BY Zenon, StateFacts
  <1>4. disk[f] = mem[f]
    <2>1. Clean(mem[f]) = mem[f]
      BY DEF Clean
    <2>2. Clean(mem[f]) = Clean(disk[f])
      BY Zenon, <1>1 DEF FlowOK
    <2> QED
      BY Zenon, <1>2, <1>3, <2>1, <2>2, StateFacts
  <1>5. /\ f \in Selected /\ IsRetriableStep(mem[f].step)
        /\ ~left.lossy => registered[f] < MilestoneOf(mem[f].step)
        /\ disk[f].step \in 6..9 => registered[f] >= 2
        /\ f \in Selected /\ disk[f].step \in {8, 9} => registered[f] >= 3
        /\ registered[f] >= 1
    BY Zenon, <1>1, <1>3, <1>4 DEF FlowOK
  <1>6. registered[f] < MilestoneOf(mem[f].step) => registered[f] = MilestoneOf(mem[f].step) - 1
    BY <1>2, <1>4, <1>5 DEF IsRetriableStep, MilestoneOf
  <1> QED
    BY Zenon, <1>4, <1>5, <1>6

(* A flow that is parked after the sweep was parked before it. *)
LEMMA CleanRetry ==
    ASSUME NEW fl \in State, Clean(fl).retry
    PROVE  ~IsTerminal(fl.step) /\ Clean(fl) = fl
  BY Zenon, StateFacts DEF Clean

(* The retries of the flows that start_step does not serve. *)
LEMMA StartKeeps ==
    ASSUME Types, NEW f \in Flow, NEW next \in 1..11, NEW m, NEW ok, NEW err,
           Origin(m, f), StartStep(m, f, next, ok, err), ~left.lossy, NEW g \in Flow \ {f}
    PROVE  /\ mem'[g] = Clean(mem[g])
           /\ g \in DOMAIN retries /\ ~IsTerminal(mem[g].step) => g \in DOMAIN retries'
  <1>0. m \in [Flow -> State] /\ m[g] = mem[g] /\ next \in 0..11 /\ IsRetries(retries)
    BY OriginFacts DEF Types
  <1> DEFINE fl == [step |-> next, retry |-> FALSE]
             fr == [step |-> next, retry |-> TRUE]
             r  == [h \in DOMAIN retries \cup {f} |-> IF h = f THEN Delay ELSE retries[h]]
  <1>1. fl \in State /\ fr \in State
    BY Zenon, <1>0, TakenFacts
  <1>2. IsRetries(r) /\ (g \in DOMAIN r <=> g \in DOMAIN retries)
    <2>1. IsRetries(r)
      BY Zenon, <1>0, ScheduledRetries
    <2> QED
      BY <2>1
  <1>3. CASE Enters(m, f, next, ok)
    <2>1. mem' = Taken(m, f, fl) /\ retries' = Pruned(retries, [m EXCEPT ![f] = fl])
      BY Zenon, <1>3 DEF Enters
    <2> HIDE DEF fl
    <2>2. Taken(m, f, fl)[g] = Clean(m[g])
      BY <1>0, <1>1, TakenIs
    <2>3. [m EXCEPT ![f] = fl][g] = m[g]
      BY <1>0
    <2> QED
      BY Zenon, <1>0, <2>1, <2>2, <2>3, PrunedRetries
  <1>4. CASE Parks(m, f, next, ok)
    <2>1. mem' = Taken(m, f, fr) /\ retries' = Pruned(r, [m EXCEPT ![f] = fr])
      BY Zenon, <1>4 DEF Parks
    <2> HIDE DEF fr, r
    <2>2. Taken(m, f, fr)[g] = Clean(m[g])
      BY <1>0, <1>1, TakenIs
    <2>3. [m EXCEPT ![f] = fr][g] = m[g]
      BY <1>0
    <2> QED
      BY Zenon, <1>0, <1>2, <2>1, <2>2, <2>3, PrunedRetries
  <1>5. CASE Errs(m, f, next, err)
    <2>1. mem' = Cleaned(m) /\ retries' = Pruned(retries, m)
      BY Zenon, <1>5 DEF Errs
    <2>2. Cleaned(m)[g] = Clean(m[g])
      BY <1>0, CleanedFacts
    <2> QED
      BY Zenon, <1>0, <2>1, <2>2, PrunedRetries
  <1>6. ~Dies(f, next)
    BY Zenon DEF Dies
  <1> QED
    BY Zenon, <1>3, <1>4, <1>5, <1>6, StartCases

(* The retry of the flow that start_step serves. *)
LEMMA StartServes ==
    ASSUME Types, FlowsInv, pc # "down", NEW f \in Flow, NEW next \in 1..11, NEW m, NEW ok, NEW err,
           Origin(m, f), StartStep(m, f, next, ok, err), ~left.lossy, mem'[f].retry,
           pc = "fire" => (IsRetriableStep(mem[f].step) => next = mem[f].step)
    PROVE  f \in DOMAIN retries' \/ (mem[f].retry /\ pc # "fire" /\ (f \in DOMAIN retries => f \in DOMAIN retries'))
  <1>0. m \in [Flow -> State] /\ next \in 0..11 /\ IsRetries(retries) /\ mem[f] \in State
    BY OriginFacts, FlowTypes DEF Types
  <1> DEFINE fl == [step |-> next, retry |-> FALSE]
             fr == [step |-> next, retry |-> TRUE]
             r  == [h \in DOMAIN retries \cup {f} |-> IF h = f THEN Delay ELSE retries[h]]
  <1>1. fl \in State /\ fr \in State /\ ~fl.retry /\ fr.step = next
    BY Zenon, <1>0, TakenFacts
  <1>2. IsRetries(r) /\ f \in DOMAIN r
    <2>1. IsRetries(r)
      BY Zenon, <1>0, ScheduledRetries
    <2> QED
      BY <2>1
  <1>3. ~Enters(m, f, next, ok)
    <2> SUFFICES ASSUME Enters(m, f, next, ok) PROVE FALSE
      OBVIOUS
    <2>1. mem' = Taken(m, f, fl)
      BY Zenon DEF Enters
    <2> HIDE DEF fl
    <2>2. Taken(m, f, fl)[f] = Clean(fl)
      BY <1>0, <1>1, TakenIs
    <2> QED
      BY Zenon, <1>1, <2>1, <2>2, CleanRetry
  <1>4. CASE Parks(m, f, next, ok)
    <2>1. /\ Registers(f, next) /\ mem' = Taken(m, f, fr)
          /\ retries' = Pruned(r, [m EXCEPT ![f] = fr])
      BY Zenon, <1>4 DEF Parks
    <2> HIDE DEF fr, r
    <2>2. [m EXCEPT ![f] = fr][f] = fr
      BY <1>0
    <2>3. ~IsTerminal(fr.step)
      BY <1>1, <2>1 DEF IsTerminal, Registers, IsRetriableStep
    <2> QED
      BY Zenon, <1>2, <2>1, <2>2, <2>3, PrunedRetries
  <1>5. CASE Errs(m, f, next, err)
    <2>1. /\ mem' = Cleaned(m) /\ retries' = Pruned(retries, m)
          /\ Registers(f, next) /\ registered[f] # MilestoneOf(next) - 1
      BY Zenon, <1>5 DEF Errs
    <2>2. Cleaned(m)[f] = Clean(m[f])
      BY <1>0, CleanedFacts
    <2>3. m[f].retry /\ ~IsTerminal(m[f].step) /\ m[f] \in State
      BY Zenon, <1>0, <2>1, <2>2, CleanRetry
    <2>4. m[f] = mem[f]
      <3>1. m = mem \/ m[f] = [step |-> 0, retry |-> FALSE]
        BY Zenon, FlowTypes DEF Origin
      <3>2. 0 \in 0..11
        OBVIOUS
      <3>3. ~[step |-> 0, retry |-> FALSE].retry
        BY Zenon, <3>2, TakenFacts
      <3> QED
        BY Zenon, <2>3, <3>1, <3>3
    <2>5. IsRetriableStep(mem[f].step) /\ registered[f] = MilestoneOf(mem[f].step) - 1
      BY Zenon, <2>3, <2>4, ParkedFlow
    <2>6. pc # "fire"
      BY Zenon, <2>1, <2>5
    <2> QED
      BY Zenon, <1>0, <2>1, <2>3, <2>4, <2>6, PrunedRetries
  <1>6. ~Dies(f, next)
    BY Zenon DEF Dies
  <1> QED
    BY Zenon, <1>3, <1>4, <1>5, <1>6, StartCases

(* Who fires the retry of a flow. *)
Fires(f, next) ==
    pc = "fire" => /\ f \in pending /\ pending' = pending \ {f}
                   /\ pending' # {} => pc' = "fire" \/ pc' = "down"
                   /\ IsRetriableStep(mem[f].step) => next = mem[f].step

(* start_step keeps RetryInv: it parks a flow only together with its       *)
(* schedule.                                                               *)
LEMMA StartRetry ==
    ASSUME Types, FlowsInv, RetryInv, pc # "down", NEW f \in Flow, NEW next \in 1..11, NEW m, NEW ok, NEW err,
           Origin(m, f), StartStep(m, f, next, ok, err), Fires(f, next)
    PROVE  RetryInv'
  <1> SUFFICES ASSUME ~left'.lossy, pc' # "down", NEW g \in Flow, mem'[g].retry
               PROVE  g \in DOMAIN retries' \/ (pc' = "fire" /\ g \in pending')
    BY Zenon DEF RetryInv
  <1>0. ~left.lossy
    BY Zenon, StartTypes
  <1>1. CASE g # f
    <2>1. g \in Flow \ {f} /\ mem[g] \in State
      BY <1>1, FlowTypes
    <2>2. /\ mem'[g] = Clean(mem[g])
          /\ g \in DOMAIN retries /\ ~IsTerminal(mem[g].step) => g \in DOMAIN retries'
      BY Zenon, <1>0, <2>1, StartKeeps
    <2>3. mem[g].retry /\ ~IsTerminal(mem[g].step)
      BY Zenon, <2>1, <2>2, CleanRetry
    <2>4. g \in DOMAIN retries \/ (pc = "fire" /\ g \in pending)
      BY Zenon, <1>0, <2>3 DEF RetryInv
    <2>5. pc = "fire" /\ g \in pending => pc' = "fire" /\ g \in pending'
      BY <1>1 DEF Fires
    <2> QED
      BY Zenon, <2>2, <2>3, <2>4, <2>5
  <1>2. CASE g = f
    <2>1. f \in DOMAIN retries' \/ (mem[f].retry /\ pc # "fire" /\ (f \in DOMAIN retries => f \in DOMAIN retries'))
      BY Zenon, <1>0, <1>2, StartServes DEF Fires
    <2>2. mem[f].retry /\ pc # "fire" => f \in DOMAIN retries
      BY Zenon, <1>0 DEF RetryInv
    <2> QED
      BY Zenon, <1>2, <2>1, <2>2
  <1> QED
    BY Zenon, <1>1, <1>2

(* A handler that leaves the flows alone. *)
LEMMA IgnoreRetry ==
    ASSUME Types, FlowsInv, RetryInv, pc # "down", Commit(mem, disk, retries), left' = left,
           pc = "fire" => \E f \in pending : /\ pending' = pending \ {f} /\ ~IsRetriableStep(mem[f].step)
                                             /\ pending' # {} => pc' = "fire"
    PROVE  RetryInv'
  <1> SUFFICES ASSUME ~left'.lossy, pc' # "down", NEW g \in Flow, mem'[g].retry
               PROVE  g \in DOMAIN retries' \/ (pc' = "fire" /\ g \in pending')
    BY Zenon DEF RetryInv
  <1>1. mem'[g] = Clean(mem[g]) /\ mem[g] \in State
    BY FlowTypes, CleanedFacts DEF Commit
  <1>2. mem[g].retry /\ ~IsTerminal(mem[g].step)
    BY Zenon, <1>1, CleanRetry
  <1>3. retries' = Pruned(retries, mem) /\ IsRetries(retries)
    BY DEF Commit, Pruned, Types
  <1>4. g \in DOMAIN retries => g \in DOMAIN retries'
    BY Zenon, <1>2, <1>3, PrunedRetries
  <1>5. g \in DOMAIN retries \/ (pc = "fire" /\ g \in pending)
    BY Zenon, <1>2 DEF RetryInv
  <1>6. IsRetriableStep(mem[g].step)
    BY Zenon, <1>2, ParkedFlow
  <1>7. pc = "fire" /\ g \in pending => pc' = "fire" /\ g \in pending'
    BY <1>6
  <1> QED
    BY Zenon, <1>4, <1>5, <1>7

-----------------------------------------------------------------------------
(* A step of a handler that adds no event, and its place in the handler. *)

Places == {"down", "idle", "confirm", "tick", "fire", "save"} \cup Kinds

Keeps ==
    /\ confirming' \in Seq(Log) /\ saved' = saved
    /\ \A x : In(x, confirming') => In(x, confirming)
    /\ \A x : Once(confirming, x) => Once(confirming', x)
    /\ \A f : Only(confirming, f) => Only(confirming', f)
    /\ \A chain : AllHappened(confirming, chain) => AllHappened(confirming', chain)
    /\ seen' \subseteq Flow \X Spvs /\ pending' \subseteq Flow /\ pc' \in Places
    /\ pc' = "confirm" => \A f \in pending' : \E i \in DOMAIN confirming' : confirming'[i][1] = f

(* A handler that leaves the confirmations and the save alone keeps the    *)
(* queues.                                                                 *)
LEMMA KeepsAll ==
    ASSUME Types, UNCHANGED <<confirming, saved>>, seen' \subseteq Flow \X Spvs, pending' \subseteq Flow,
           pc' \in Places, pc' # "confirm"
    PROVE  Keeps
  BY Zenon DEF Keeps, Types

(* What is emitted meanwhile is no trigger. *)
Emits ==
    /\ registered' \in [Flow -> 0..4] /\ logs' \in Seq(Log)
    /\ AllHappened(logs, registered) => AllHappened(logs', registered')
    /\ \A s \in Seq(Log) : AllHappened(s, registered) => AllHappened(s, registered')
    /\ \A g \in Flow : /\ In(Trigger(g), logs') => In(Trigger(g), logs)
                       /\ Once(logs, Trigger(g)) => Once(logs', Trigger(g))

(* What is left of the type invariant once the queues are kept. *)
LEMMA KeepsTypes ==
    ASSUME Types, Keeps, Bounded, mem' \in [Flow -> State], disk' \in [Flow -> State], Emits,
           IsRetries(retries'), left' \in Budget
    PROVE  Types'
  <1>1. logs' \in Seq(Log) /\ confirming' \in Seq(Log) /\ registered' \in [Flow -> 0..4]
    BY Zenon DEF Keeps, Emits
  <1>2. \A s \in Seq(Log) : \A i \in DOMAIN s : IsLog(s[i])
    BY DEF IsLog, Log
  <1>3. DOMAIN retries' \subseteq Flow /\ Range(retries') \subseteq 1..Delay
    BY Zenon, RetriesType
  <1>4. TypeOK'
    <2>1. replayed' \subseteq Flow
      BY DEF Bounded, Types, TypeOK
    <2> QED
      BY Zenon, <1>1, <1>2, <1>3, <2>1 DEF TypeOK, Keeps, Bounded, Places, State
  <1>5. IsRetries(saved'.retries) /\ saved'.confirming \in Seq(Log)
    BY Zenon DEF Types, Keeps
  <1> QED
    BY Zenon, <1>1, <1>4, <1>5 DEF Types, Keeps

(* Events in the queues stay events that happened. *)
LEMMA KeepsEvents ==
    ASSUME Types, EventsInv, Keeps, Emits
    PROVE  EventsInv'
  <1>1. confirming \in Seq(Log) /\ saved.confirming \in Seq(Log) /\ confirming' \in Seq(Log)
    BY Zenon DEF Types, Keeps
  <1>2. AllHappened(confirming', registered)
    BY Zenon DEF EventsInv, Keeps
  <1>3. AllHappened(confirming', registered') /\ AllHappened(saved.confirming, registered')
    BY Zenon, <1>1, <1>2 DEF EventsInv, Emits
  <1> QED
    BY Zenon, <1>3 DEF EventsInv, Emits, Keeps

(* OnceInv, for a handler that leaves the flows with a trigger in the log  *)
(* alone.                                                                  *)
LEMMA KeepsOnce ==
    ASSUME Types, OnceInv, Keeps, Emits, NEW S, Others(S), \A g \in Flow : In(Trigger(g), logs) => g \in S
    PROVE  OnceInv'
  <1> SUFFICES ASSUME NEW f \in Flow
               PROVE  /\ Once(logs', Trigger(f)) /\ Once(confirming', Trigger(f)) /\ Once(saved'.confirming, Trigger(f))
                      /\ In(Trigger(f), logs') =>
                             /\ ~In(Trigger(f), confirming') /\ ~In(Trigger(f), saved'.confirming)
                             /\ Only(confirming', f) /\ Only(saved'.confirming, f)
                             /\ mem'[f] = NoFlow /\ disk'[f] = NoFlow /\ f \notin completed'
    BY Zenon DEF OnceInv, Trigger
  <1>1. Once(logs', Trigger(f)) /\ Once(confirming', Trigger(f)) /\ Once(saved'.confirming, Trigger(f))
    BY Zenon DEF OnceInv, Keeps, Emits
  <1>2. ASSUME In(Trigger(f), logs')
        PROVE  /\ ~In(Trigger(f), confirming') /\ ~In(Trigger(f), saved'.confirming)
               /\ Only(confirming', f) /\ Only(saved'.confirming, f)
               /\ mem'[f] = NoFlow /\ disk'[f] = NoFlow /\ f \notin completed'
    <2>1. In(Trigger(f), logs) /\ f \in S
      BY Zenon, <1>2 DEF Emits
    <2>2. ~In(Trigger(f), confirming') /\ ~In(Trigger(f), saved'.confirming)
      BY Zenon, <2>1 DEF OnceInv, Keeps
    <2>3. Only(confirming', f) /\ Only(saved'.confirming, f)
      BY Zenon, <2>1 DEF OnceInv, Keeps
    <2>4. Clean(NoFlow) = NoFlow
      BY DEF Clean
    <2>5. mem'[f] = NoFlow /\ disk'[f] = NoFlow /\ f \notin completed'
      BY Zenon, <2>1, <2>4 DEF OnceInv, Others
    <2> QED
      BY Zenon, <2>2, <2>3, <2>5
  <1> QED
    BY Zenon, <1>1, <1>2

(* Where the trigger of a flow that is served may still be. *)
Served(f) ==
    /\ ~In(Trigger(f), confirming')
    /\ f \in completed' =>
           /\ ~In(Trigger(f), saved.confirming)
           /\ disk'[f] = NoFlow \/ disk'[f].step = Done
           /\ pc' # "down" => mem'[f] = NoFlow \/ mem'[f].step = Done

(* TriggerInv, for a handler that leaves alone every flow whose trigger is *)
(* not served.                                                             *)
LEMMA KeepsTrigger ==
    ASSUME Types, TriggerInv, Keeps, pc \notin {"down", "save"}, replayed' = replayed,
           NEW S, Others(S), \A f \in Flow \ replayed : f \in S \/ Served(f)
    PROVE  TriggerInv'
  <1>0. Clean(NoFlow) = NoFlow /\ \A fl : fl.step = Done => Clean(fl) = NoFlow
    BY DEF Clean, IsTerminal
  <1> SUFFICES ASSUME NEW f \in Flow \ replayed
               PROVE  /\ pc' # "down" /\ In(Trigger(f), confirming') =>
                            mem'[f] = NoFlow /\ disk'[f] = NoFlow /\ f \notin completed' /\ Only(confirming', f)
                      /\ In(Trigger(f), saved'.confirming) =>
                            /\ f \notin completed' /\ Only(saved'.confirming, f)
                            /\ pc' \notin {"down", "save"} => Only(confirming', f)
                      /\ f \in completed' =>
                            /\ disk'[f] = NoFlow \/ disk'[f].step = Done
                            /\ pc' # "down" => mem'[f] = NoFlow \/ mem'[f].step = Done
    BY Zenon DEF TriggerInv, Trigger
  <1>1. In(Trigger(f), saved'.confirming) => Only(saved'.confirming, f) /\ Only(confirming', f)
    BY Zenon DEF TriggerInv, Keeps
  <1>2. CASE f \in S
    <2>1. /\ mem'[f] = mem[f] \/ mem'[f] = Clean(mem[f])
          /\ disk'[f] = disk[f] \/ disk'[f] = Clean(disk[f])
          /\ f \in completed' <=> f \in completed
      BY Zenon, <1>2 DEF Others
    <2>2. In(Trigger(f), confirming') =>
              mem'[f] = NoFlow /\ disk'[f] = NoFlow /\ f \notin completed' /\ Only(confirming', f)
      BY Zenon, <1>0, <2>1 DEF TriggerInv, Keeps
    <2>3. In(Trigger(f), saved'.confirming) => f \notin completed'
      BY Zenon, <2>1 DEF TriggerInv, Keeps
    <2>4. f \in completed' => /\ disk'[f] = NoFlow \/ disk'[f].step = Done
                              /\ mem'[f] = NoFlow \/ mem'[f].step = Done
      BY Zenon, <1>0, <2>1 DEF TriggerInv
    <2> QED
      BY Zenon, <1>1, <2>2, <2>3, <2>4
  <1>3. CASE Served(f)
    BY Zenon, <1>1, <1>3 DEF Served, Keeps
  <1> QED
    BY Zenon, <1>2, <1>3

-----------------------------------------------------------------------------
(* What start_step may be called with, and what it preserves. *)

(* A handler that runs start_step, legally and for a live flow, keeps the  *)
(* invariant.                                                              *)
LEMMA StartCall ==
    ASSUME Inv, pc \notin {"down", "save"}, NEW f \in Flow, NEW next, NEW m, NEW ok, NEW err,
           Origin(m, f), Legal(f, disk[f], registered[f], next), StartStep(m, f, next, ok, err),
           Fires(f, next), Keeps,
           mem[f].step \in 0..9 \/ (In(Trigger(f), confirming) /\ ~In(Trigger(f), confirming')),
           next = Done => ~Only(confirming, f)
    PROVE  Inv' /\ Advances
  <1>0. Types /\ EventsInv /\ FlowsInv /\ RetryInv /\ OnceInv /\ TriggerInv /\ pc # "down" /\ next \in 1..11
    BY Zenon DEF Inv, Legal
  <1>1. mem' \in [Flow -> State] /\ disk' \in [Flow -> State] /\ FlowsInv' /\ Advances
    BY Zenon, <1>0, StartFlows
  <1>2. Bounded /\ IsRetries(retries') /\ left' \in Budget /\ Submits(f, next)
    BY Zenon, <1>0, StartTypes
  <1>3. Emits
    BY Zenon, <1>0, <1>2, SubmitFacts DEF Emits
  <1>4. Others(Flow \ {f}) /\ Recorded(f, next)
    BY Zenon, <1>0, StartOthers
  <1>5. Types' /\ EventsInv' /\ RetryInv'
    BY Zenon, <1>0, <1>1, <1>2, <1>3, KeepsTypes, KeepsEvents, StartRetry
  <1>6. mem[f].step \in 0..9 => mem[f] # NoFlow /\ mem[f].step # Done
    BY StateFacts
  <1>7. OnceInv'
    <2>1. \A g \in Flow : In(Trigger(g), logs) => g \in Flow \ {f}
      BY Zenon, <1>0, <1>6 DEF OnceInv
    <2> QED
      BY Zenon, <1>0, <1>3, <1>4, <2>1, KeepsOnce
  <1>8. f \notin replayed => Served(f)
    <2> SUFFICES ASSUME f \notin replayed PROVE Served(f)
      OBVIOUS
    <2>1. ~In(Trigger(f), confirming')
      BY Zenon, <1>0, <1>6 DEF TriggerInv, Keeps
    <2>2. f \notin completed
      BY Zenon, <1>0, <1>6 DEF TriggerInv
    <2>3. f \in completed' => ~Only(confirming, f)
      BY Zenon, <1>4, <2>2 DEF Recorded
    <2>4. f \in completed' => ~In(Trigger(f), saved.confirming)
      BY Zenon, <1>0, <2>3 DEF TriggerInv
    <2> QED
      BY Zenon, <1>4, <2>1, <2>2, <2>4 DEF Served, Recorded
  <1>9. TriggerInv'
    <2>1. \A g \in Flow \ replayed : g \in Flow \ {f} \/ Served(g)
      BY Zenon, <1>8
    <2>2. replayed' = replayed
      BY <1>2 DEF Bounded
    <2> QED
      BY Zenon, <1>0, <1>4, <2>1, <2>2, KeepsTrigger
  <1> QED
    BY Zenon, <1>1, <1>5, <1>7, <1>9 DEF Inv

(* A handler that only sweeps keeps the invariant. *)
LEMMA IgnoreCall ==
    ASSUME Inv, pc \notin {"down", "save"}, NEW at, Ignore(at), at # "down", UNCHANGED <<registered, logs>>,
           asked' \subseteq asked, Keeps,
           pc = "fire" => \E f \in pending : /\ pending' = pending \ {f} /\ ~IsRetriableStep(mem[f].step)
                                             /\ pending' # {} => pc' = "fire"
    PROVE  Inv' /\ Advances
  <1>0. Types /\ EventsInv /\ FlowsInv /\ RetryInv /\ OnceInv /\ TriggerInv /\ pc # "down"
    BY Zenon DEF Inv
  <1>1. Commit(mem, disk, retries) /\ pc' = at /\ UNCHANGED <<told, history, left>>
    BY DEF Ignore
  <1>2. UNCHANGED <<completed, failed, replayed>>
    BY <1>1 DEF history
  <1>3. mem' \in [Flow -> State] /\ disk' \in [Flow -> State] /\ FlowsInv' /\ Advances
    BY Zenon, <1>0, <1>1, <1>2, IgnoreFlows
  <1>4. Others(Flow) /\ Bounded /\ IsRetries(retries')
    BY Zenon, <1>0, <1>1, IgnoreFacts
  <1>5. Emits
    BY Zenon, <1>0, FlowTypes DEF Emits, Types
  <1>6. left' \in Budget /\ left' = left
    BY <1>0, <1>1, FlowTypes
  <1>7. Types' /\ EventsInv' /\ RetryInv'
    BY Zenon, <1>0, <1>1, <1>3, <1>4, <1>5, <1>6, KeepsTypes, KeepsEvents, IgnoreRetry
  <1>8. OnceInv' /\ TriggerInv'
    BY Zenon, <1>0, <1>2, <1>4, <1>5, KeepsOnce, KeepsTrigger
  <1> QED
    BY Zenon, <1>3, <1>7, <1>8 DEF Inv

-----------------------------------------------------------------------------
(* The actions, one by one. *)

(* A retry that falls due keeps the invariant. *)
LEMMA FireRetryStep ==
    ASSUME Inv, NEW f \in Flow, FireRetry(f)
    PROVE  Inv' /\ Advances
  <1>0. Types /\ FlowsInv /\ pc = "fire" /\ f \in pending /\ pending' = pending \ {f}
        /\ UNCHANGED <<seen, confirming, saved>>
    BY DEF FireRetry, Inv
  <1> DEFINE on == IF pending' = {} THEN "save" ELSE "fire"
  <1>1. on \in {"save", "fire"} /\ (pending' # {} => on = "fire")
    OBVIOUS
  <1>2. seen' \subseteq Flow \X Spvs /\ pending' \subseteq Flow
    BY <1>0 DEF Types, TypeOK
  <1> HIDE DEF on
  <1>3. CASE IsRetriableStep(mem[f].step)
    <2>1. StartStep(mem, f, mem[f].step, on, on)
      BY Zenon, <1>3 DEF FireRetry, on
    <2>2. pc' \in {on, "down"}
      BY Zenon, <1>0, <2>1, StartTypes
    <2>3. Keeps
      BY <1>0, <1>1, <1>2, <2>2, KeepsAll DEF Places
    <2>4. Fires(f, mem[f].step)
      BY <1>0, <1>1, <2>2 DEF Fires
    <2>5. Legal(f, disk[f], registered[f], mem[f].step) /\ mem[f].step \in 0..9 /\ mem[f].step # Done
      BY <1>0, <1>3, LegalNext DEF IsRetriableStep
    <2>6. Origin(mem, f) /\ pc \notin {"down", "save"}
      BY <1>0 DEF Origin
    <2> QED
      BY Zenon, <2>1, <2>3, <2>4, <2>5, <2>6, StartCall
  <1>4. CASE ~IsRetriableStep(mem[f].step)
    <2>1. Ignore(on) /\ UNCHANGED <<registered, logs, asked>>
      BY Zenon, <1>4 DEF FireRetry, on
    <2>2. pc' = on
      BY <2>1 DEF Ignore
    <2>3. Keeps
      BY <1>0, <1>1, <1>2, <2>2, KeepsAll DEF Places
    <2> QED
      BY <1>0, <1>1, <1>4, <2>1, <2>2, <2>3, IgnoreCall
  <1> QED
    BY <1>3, <1>4

(* The admin's request to fail a flow keeps the invariant. *)
LEMMA FailFlowStep ==
    ASSUME Inv, NEW f \in Flow, FailFlow(f)
    PROVE  Inv' /\ Advances
  <1>0. Types /\ FlowsInv /\ pc = "idle" /\ UNCHANGED <<seen, confirming, pending, saved>>
    BY DEF FailFlow, Inv
  <1>1. seen' \subseteq Flow \X Spvs /\ pending' \subseteq Flow
    BY <1>0 DEF Types, TypeOK
  <1>2. Cleaned(mem)[f] = Clean(mem[f]) /\ pc # "down" /\ pc # "fire" /\ pc # "save"
    BY <1>0, FlowTypes, CleanedFacts
  <1>3. CASE Clean(mem[f]) # NoFlow
    <2>1. StartStep(mem, f, 11, "save", "idle")
      BY Zenon, <1>2, <1>3 DEF FailFlow, Failed
    <2>2. pc' \in {"save", "idle", "down"}
      BY <1>0, <2>1, StartTypes
    <2>3. Keeps
      BY <1>0, <1>1, <2>2, KeepsAll DEF Places
    <2>4. mem[f].step \in 0..9
      BY Zenon, <1>0, <1>2, <1>3, ActiveFlow
    <2>5. Legal(f, disk[f], registered[f], 11)
      BY Zenon, <1>0, <1>2, <2>4, LegalNext
    <2>6. Origin(mem, f) /\ Fires(f, 11) /\ 11 # Done /\ pc \notin {"down", "save"}
      BY <1>2 DEF Origin, Fires
    <2> QED
      BY Zenon, <2>1, <2>3, <2>4, <2>5, <2>6, StartCall
  <1>4. CASE Clean(mem[f]) = NoFlow
    <2>1. Ignore("save") /\ UNCHANGED <<registered, logs, asked>>
      BY Zenon, <1>2, <1>4 DEF FailFlow
    <2>2. pc' = "save"
      BY <2>1 DEF Ignore
    <2>3. Keeps
      BY <1>0, <1>1, <2>2, KeepsAll DEF Places
    <2> QED
      BY <1>2, <2>1, <2>3, IgnoreCall
  <1> QED
    BY <1>3, <1>4

(* An answer of BitVMX keeps the invariant. *)
LEMMA AnswerStep ==
    ASSUME Inv, NEW f \in Flow, NEW kind \in Kinds, Answer(f, kind)
    PROVE  Inv' /\ Advances
  <1>0. Types /\ pc = "idle" /\ UNCHANGED <<registered, logs, seen, confirming, saved>>
        /\ asked' \subseteq asked /\ pending' \subseteq Flow
    BY DEF Answer, Inv
  <1>1. PICK at \in {"save"} \cup Kinds : Ignore(at)
    BY Zenon DEF Answer
  <1>2. pc' = at /\ at # "down" /\ at # "confirm"
    BY <1>1 DEF Ignore, Kinds
  <1>3. seen' \subseteq Flow \X Spvs
    BY <1>0 DEF Types, TypeOK
  <1>4. Keeps
    BY <1>0, <1>1, <1>2, <1>3, KeepsAll DEF Places
  <1> QED
    BY <1>0, <1>1, <1>2, <1>4, IgnoreCall

(* Handing an answer to one flow that waits for it keeps the invariant. *)
LEMMA TakeAnswerStep ==
    ASSUME Inv, NEW f \in Flow, TakeAnswer(f)
    PROVE  Inv' /\ Advances
  <1>0. Types /\ FlowsInv /\ pc \in Kinds /\ UNCHANGED <<seen, confirming, saved>>
        /\ pending' = IF pc' = "idle" THEN {} ELSE pending \ {f}
    BY DEF TakeAnswer, Inv
  <1>1. seen' \subseteq Flow \X Spvs /\ pending' \subseteq Flow
    BY <1>0 DEF Types, TypeOK
  <1>2. pc # "down" /\ pc # "fire" /\ pc # "save" /\ pc # "confirm" /\ AwaitedBy(pc) \in 1..3 /\ pc \in Places
    BY <1>0 DEF Kinds, AwaitedBy, Places
  <1>3. CASE mem[f].step = AwaitedBy(pc)
    <2>1. PICK ok \in {"save", pc} : StartStep(mem, f, AwaitedBy(pc) + 1, ok, "idle")
      BY Zenon, <1>3 DEF TakeAnswer
    <2>2. pc' \in {"save", pc, "idle", "down"}
      BY <1>0, <2>1, StartTypes
    <2>3. Keeps
      BY <1>0, <1>1, <1>2, <2>2, KeepsAll DEF Places
    <2>4. /\ mem[f].step \in 0..9 /\ mem[f].step \in 1..3 /\ AwaitedBy(pc) + 1 = mem[f].step + 1
          /\ AwaitedBy(pc) + 1 # Done
      BY <1>2, <1>3
    <2>5. Legal(f, disk[f], registered[f], AwaitedBy(pc) + 1)
      BY Zenon, <1>0, <1>2, <2>4, LegalNext
    <2>6. Origin(mem, f) /\ Fires(f, AwaitedBy(pc) + 1) /\ pc \notin {"down", "save"}
      BY <1>2 DEF Origin, Fires
    <2> QED
      BY Zenon, <2>1, <2>3, <2>4, <2>5, <2>6, StartCall
  <1>4. CASE mem[f].step # AwaitedBy(pc)
    <2>1. Ignore("idle") /\ UNCHANGED <<registered, logs, asked>>
      BY Zenon, <1>4 DEF TakeAnswer
    <2>2. pc' = "idle"
      BY <2>1 DEF Ignore
    <2>3. Keeps
      BY <1>0, <1>1, <2>2, KeepsAll DEF Places
    <2> QED
      BY <1>2, <2>1, <2>3, IgnoreCall
  <1> QED
    BY <1>3, <1>4

(* An SPV proof of BitVMX keeps the invariant. *)
LEMMA SpvStep ==
    ASSUME Inv, NEW f \in Flow, NEW kind \in Spvs, Spv(f, kind)
    PROVE  Inv' /\ Advances
  <1> DEFINE step == Cleaned(mem)[f].step
             target == ConsumedBy(kind)
             exact == f \in Selected \/ kind = "advance_spv"
  <1>0. Types /\ FlowsInv /\ pc = "idle" /\ UNCHANGED <<confirming, pending, saved>>
        /\ seen' = seen \cup {<<f, kind>>}
    BY DEF Spv, EmitsSpv, Inv
  <1>1. seen' \subseteq Flow \X Spvs /\ pending' \subseteq Flow
    BY <1>0 DEF Types, TypeOK
  <1>2. Cleaned(mem)[f] = Clean(mem[f]) /\ pc # "down" /\ pc # "fire" /\ pc # "save"
    BY <1>0, FlowTypes, CleanedFacts
  <1>3. \/ Ignore("save") /\ UNCHANGED <<registered, logs, asked>>
        \/ Ignore("idle") /\ UNCHANGED <<registered, logs, asked>>
        \/ step # NoFlow.step /\ IsValidTransition(step, target, exact)
           /\ StartStep(mem, f, target + 1, "save", "idle")
    BY Zenon DEF Spv
  <1>4. ASSUME NEW at \in {"save", "idle"}, Ignore(at), UNCHANGED <<registered, logs, asked>>
        PROVE  Inv' /\ Advances
    <2>1. pc' = at
      BY <1>4 DEF Ignore
    <2>2. Keeps
      BY <1>0, <1>1, <2>1, KeepsAll DEF Places
    <2> QED
      BY Zenon, <1>2, <1>4, <2>2, IgnoreCall
  <1>5. ASSUME step # NoFlow.step, IsValidTransition(step, target, exact),
               StartStep(mem, f, target + 1, "save", "idle")
        PROVE  Inv' /\ Advances
    <2>1. pc' \in {"save", "idle", "down"}
      BY <1>0, <1>5, StartTypes
    <2>2. Keeps
      BY <1>0, <1>1, <2>1, KeepsAll DEF Places
    <2>3. step = mem[f].step /\ mem[f].step \in 0..9
      <3>1. Clean(mem[f]) # NoFlow
        BY Zenon, <1>2, <1>5
      <3>2. mem[f].step \in 0..9
        BY Zenon, <1>0, <1>2, <3>1, ActiveFlow
      <3>3. Clean(mem[f]) = mem[f]
        BY <3>2 DEF Clean, IsTerminal
      <3> QED
        BY <1>2, <3>2, <3>3
    <2>4. /\ (target = 4 /\ exact) \/ target = 6 \/ target = 8
          /\ f \in Selected => exact
      BY DEF Spvs, ConsumedBy
    <2> HIDE DEF step, target, exact
    <2>5. \/ mem[f].step = 4 /\ target + 1 = 5 
          \/ mem[f].step = 6 /\ target + 1 = 7 
          \/ mem[f].step \in 6..8 /\ (f \in Selected => mem[f].step = 8) /\ target + 1 = 9
      BY <1>5, <2>3, <2>4 DEF IsValidTransition
    <2>6. Legal(f, disk[f], registered[f], target + 1)
      BY Zenon, <1>0, <1>2, <2>5, LegalNext
    <2>7. target + 1 # Done
      BY <2>5
    <2>8. Origin(mem, f) /\ Fires(f, target + 1) /\ pc \notin {"down", "save"}
      BY <1>2 DEF Origin, Fires
    <2> QED
      BY Zenon, <1>5, <2>2, <2>3, <2>6, <2>7, <2>8, StartCall
  <1> QED
    BY Zenon, <1>3, <1>4, <1>5

(* process_block_confirmations: the first event of the flow is confirmed. *)
LEMMA ProcessBlockConfirmationsStep ==
    ASSUME Inv, NEW f \in Flow, ProcessBlockConfirmations(f)
    PROVE  Inv' /\ Advances
  <1>i. PICK i \in DOMAIN confirming :
           /\ confirming[i][1] = f /\ confirming' = Without(confirming, i) /\ ConfirmEvent(f, confirming[i][2])
    BY Zenon DEF ProcessBlockConfirmations
  <1> DEFINE e == confirming[i]
  <1>0. /\ Types /\ FlowsInv /\ EventsInv /\ OnceInv /\ pc = "confirm" /\ f \in pending
        /\ confirming' = Without(confirming, i) /\ ConfirmEvent(f, e[2])
        /\ pending' = IF pc' = "confirm" THEN pending \ {f} ELSE {}
        /\ UNCHANGED <<seen, saved>>
    BY Zenon, <1>i DEF ProcessBlockConfirmations, Inv
  <1>1. confirming \in Seq(Log) /\ \A g \in pending : \E j \in DOMAIN confirming : confirming[j][1] = g
    BY Zenon, <1>0 DEF Types
  <1>2. i \in DOMAIN confirming /\ e[1] = f
    BY Zenon, <1>i
  <1>3. /\ confirming' \in Seq(Log) /\ e \in Log
        /\ \A x : In(x, confirming') => In(x, confirming)
        /\ \A x : Once(confirming, x) => Once(confirming', x) /\ (x = e => ~In(x, confirming'))
        /\ \A g : Only(confirming, g) => Only(confirming', g)
        /\ \A chain : AllHappened(confirming, chain) => AllHappened(confirming', chain)
        /\ \A g : g # e[1] /\ (\E j \in DOMAIN confirming : confirming[j][1] = g) =>
                      \E j \in DOMAIN confirming' : confirming'[j][1] = g
    <2> DEFINE t == Without(confirming, i)
    <2>1. /\ t \in Seq(Log) /\ e \in Log
          /\ \A x : In(x, t) => In(x, confirming)
          /\ \A x : Once(confirming, x) => Once(t, x) /\ (x = e => ~In(x, t))
          /\ \A g : Only(confirming, g) => Only(t, g)
          /\ \A chain : AllHappened(confirming, chain) => AllHappened(t, chain)
          /\ \A g : g # e[1] /\ (\E j \in DOMAIN confirming : confirming[j][1] = g) =>
                        \E j \in DOMAIN t : t[j][1] = g
      BY Zenon, <1>1, <1>2, RemoveEvents
    <2>2. confirming' = t
      BY Zenon, <1>0
    <2> HIDE DEF t, e
    <2> QED
      BY Zenon, <2>1, <2>2
  <1>4. In(e, confirming)
    BY Zenon, <1>2 DEF In
  <1> HIDE DEF e
  <1>5. ASSUME pc' \in {"confirm", "idle", "down"} PROVE Keeps
    <2>1. pending' \subseteq Flow /\ seen' \subseteq Flow \X Spvs /\ pc' \in Places
      BY Zenon, <1>0, <1>5 DEF Types, TypeOK, Places
    <2>2. pc' = "confirm" => \A g \in pending' : \E j \in DOMAIN confirming' : confirming'[j][1] = g
      <3>1. ASSUME pc' = "confirm", NEW g \in pending' PROVE g \in pending /\ g # f
        BY <1>0, <3>1
      <3> QED
        BY Zenon, <1>1, <1>2, <1>3, <3>1
    <2> QED
      BY Zenon, <1>0, <1>3, <2>1, <2>2 DEF Keeps
  <1>6. /\ registered[f] \in 1..4
        /\ e[2] = "AdvanceFundsRegistered" => registered[f] \in 2..4
        /\ e[2] = "ReimbursementKickoffRegistered" => registered[f] \in 3..4
        /\ e[2] = "PegoutRegistered" => registered[f] = 4
    <2>1. Happened(e, registered)
      BY Zenon, <1>0, <1>4 DEF EventsInv, AllHappened, In
    <2> QED
      BY <1>0, <1>2, <1>3, <2>1, HappenedFacts
  <1>7. pc # "down" /\ pc # "fire" /\ pc # "save" /\ pc \notin {"down", "save"}
        /\ Cleaned(mem)[f] = Clean(mem[f]) /\ \A n : Fires(f, n)
    BY <1>0, FlowTypes, CleanedFacts DEF Fires
  <1>8. ASSUME NEW at \in {"confirm", "idle"}, Ignore(at), UNCHANGED <<registered, logs, asked>>
        PROVE  Inv' /\ Advances
    <2>1. pc' = at /\ at # "down"
      BY <1>8 DEF Ignore
    <2>2. Keeps
      BY <1>5, <2>1
    <2> QED
      BY <1>7, <1>8, <2>1, <2>2, IgnoreCall
  <1>9. ASSUME e[2] = "OperatorTakeTriggered", CreateFlow(f) PROVE Inv' /\ Advances
    <2> DEFINE first == IF f \in Selected THEN 1 ELSE 5
               m == [mem EXCEPT ![f] = [step |-> 0, retry |-> FALSE]]
    <2>1. CASE Clean(mem[f]) # NoFlow
      BY Zenon, <1>7, <1>8, <1>9, <2>1 DEF CreateFlow
    <2>2. CASE Clean(mem[f]) = NoFlow
      <3>1. StartStep(m, f, first, "confirm", "idle")
        BY Zenon, <1>7, <1>9, <2>2 DEF CreateFlow, GetBitVmxCommInfo, RegisterOrWaitRskAdvanceFunds, WaitRskOperatorTakeTriggered
      <3>2. first \in {1, 5} /\ first # Done
        OBVIOUS
      <3>3. Origin(m, f)
        BY Zenon, <2>2 DEF Origin, WaitRskOperatorTakeTriggered
      <3> HIDE DEF m, first
      <3>4. Legal(f, disk[f], registered[f], first)
        BY Zenon, <1>0, <1>6, <1>7, <2>2, <3>2, LegalCreate
      <3>5. Keeps
        BY Zenon, <1>0, <1>5, <3>1, StartTypes
      <3>6. e = Trigger(f)
        BY <1>2, <1>3, <1>9 DEF Trigger, Log
      <3>7. In(Trigger(f), confirming) /\ ~In(Trigger(f), confirming')
        BY Zenon, <1>0, <1>3, <1>4, <3>6 DEF OnceInv
      <3> QED
        BY Zenon, <1>7, <3>1, <3>2, <3>3, <3>4, <3>5, <3>7, StartCall
    <2> QED
      BY <2>1, <2>2
  <1>10. ASSUME NEW target, NEW next, Confirmed(f, target, next), e[2] # "OperatorTakeTriggered",
                \/ target = 5 /\ next = 6 /\ registered[f] \in 2..4
                \/ target = 7 /\ next = 8 /\ registered[f] \in 3..4
                \/ target = 9 /\ next = 10 /\ registered[f] = 4
         PROVE  Inv' /\ Advances
    <2>1. CASE ~(Clean(mem[f]) # NoFlow /\ IsValidTransition(mem[f].step, target, f \in Selected))
      BY Zenon, <1>7, <1>8, <1>10, <2>1 DEF Confirmed
    <2>2. CASE Clean(mem[f]) # NoFlow /\ IsValidTransition(mem[f].step, target, f \in Selected)
      <3>1. StartStep(mem, f, next, "confirm", "idle")
        BY Zenon, <1>7, <1>10, <2>2 DEF Confirmed
      <3>2. Keeps
        BY <1>0, <1>5, <3>1, StartTypes
      <3>3. Legal(f, disk[f], registered[f], next) /\ mem[f].step \in 0..9
        BY Zenon, <1>0, <1>7, <1>10, <2>2, LegalConfirmed
      <3>4. ~Only(confirming, f)
        <4>1. e # Trigger(f)
          BY <1>10 DEF Trigger
        <4> QED
          BY Zenon, <1>2, <1>4, <4>1 DEF Only, In
      <3>5. Origin(mem, f)
        BY DEF Origin
      <3> QED
        BY Zenon, <1>7, <3>1, <3>2, <3>3, <3>4, <3>5, StartCall
    <2> QED
      BY <2>1, <2>2
  <1>11. e[2] \in {"OperatorTakeTriggered", "AdvanceFundsRegistered", "ReimbursementKickoffRegistered", "PegoutRegistered"}
    <2>1. PICK k \in 1..4 : e[2] = Milestones[k]
      BY Zenon, <1>3, MilestoneFacts DEF Log, Range
    <2>2. k = 1 \/ k = 2 \/ k = 3 \/ k = 4
      OBVIOUS
    <2> QED
      BY Zenon, <2>1, <2>2, MilestoneFacts
  <1>12. CASE e[2] = "OperatorTakeTriggered"
    BY <1>0, <1>9, <1>12 DEF ConfirmEvent
  <1>13. CASE e[2] = "AdvanceFundsRegistered"
    <2>1. Confirmed(f, 5, 6)
      BY <1>0, <1>13 DEF ConfirmEvent
    <2> QED
      BY <1>6, <1>10, <1>13, <2>1
  <1>14. CASE e[2] = "ReimbursementKickoffRegistered"
    <2>1. Confirmed(f, 7, 8)
      BY <1>0, <1>14 DEF ConfirmEvent
    <2> QED
      BY <1>6, <1>10, <1>14, <2>1
  <1>15. CASE e[2] = "PegoutRegistered"
    <2>1. Confirmed(f, 9, 10)
      BY <1>0, <1>15 DEF ConfirmEvent
    <2> QED
      BY <1>6, <1>10, <1>15, <2>1
  <1> QED
    BY <1>11, <1>12, <1>13, <1>14, <1>15

(* A new block, which starts the confirmations, keeps the invariant. *)
LEMMA NewBlockStep ==
    ASSUME Inv, NewBlock
    PROVE  Inv' /\ Advances
  <1>0. /\ Types /\ pc = "idle" /\ Ignore("confirm") /\ pending' = {confirming[i][1] : i \in DOMAIN confirming}
        /\ UNCHANGED <<registered, logs, asked, seen, confirming, saved>>
    BY Zenon DEF NewBlock, Inv
  <1>1. confirming \in Seq(Log) /\ seen \subseteq Flow \X Spvs
    BY Zenon DEF Types, TypeOK, Inv
  <1>2. \A i \in DOMAIN confirming : confirming[i][1] \in Flow
    BY <1>1 DEF Log
  <1>3. pending' \subseteq Flow /\ \A f \in pending' : \E i \in DOMAIN confirming' : confirming'[i][1] = f
    BY Zenon, <1>0, <1>2
  <1>4. pc' = "confirm"
    BY <1>0 DEF Ignore
  <1>5. Keeps
    BY Zenon, <1>0, <1>1, <1>3, <1>4 DEF Keeps, Places
  <1> QED
    BY <1>0, <1>5, IgnoreCall

(* A step that saves no flow moves none back. *)
LEMMA StillAdvances ==
    ASSUME Types, disk' = disk
    PROVE  Advances
  BY FlowTypes, StateFacts DEF Advances

(* An event that no call of this client caused keeps the invariant. *)
LEMMA RskEmitsStep ==
    ASSUME Inv, NEW f \in Flow, RskEmits(f)
    PROVE  Inv' /\ Advances
  <1> DEFINE e == <<f, Milestones[registered[f] + 1]>>
  <1>0. /\ Types /\ EventsInv /\ FlowsInv /\ RetryInv /\ OnceInv /\ TriggerInv /\ Emit(f)
        /\ registered[f] = 0 \/ f \notin Selected
        /\ left' = left \/ (left.takes > 0 /\ left' = [left EXCEPT !.takes = @ - 1])
        /\ UNCHANGED <<asked, told, seen, pc, mem, disk, confirming, retries, pending, saved,
                       completed, failed, replayed>>
    BY Zenon DEF RskEmits, Inv, history
  <1>1. registered[f] \in 0..3 /\ registered \in [Flow -> 0..4]
    BY <1>0, FlowTypes DEF RskEmits
  <1>2. /\ registered' \in [Flow -> 0..4] /\ registered' = [registered EXCEPT ![f] = @ + 1]
        /\ logs' = Append(logs, e) /\ e \in Log /\ Happened(e, registered')
        /\ \A s \in Seq(Log) : AllHappened(s, registered) => AllHappened(s, registered')
    BY Zenon, <1>0, <1>1, EmitFacts
  <1>3. /\ logs \in Seq(Log) /\ confirming \in Seq(Log) /\ saved.confirming \in Seq(Log)
        /\ mem \in [Flow -> State] /\ disk \in [Flow -> State] /\ left \in Budget
    BY Zenon, <1>0, FlowTypes DEF Types
  <1>4. left' \in Budget /\ left'.lossy = left.lossy
    BY Zenon, <1>0, <1>3, SpentBudget
  <1>5. registered[f] # 0 => \A g : e # Trigger(g)
    <2>1. registered[f] # 0 => Milestones[registered[f] + 1] # "OperatorTakeTriggered"
      BY <1>1, MilestoneFacts
    <2> QED
      BY <2>1 DEF Trigger
  <1>6. \A g : e = Trigger(g) => g = f
    BY DEF Trigger
  <1> HIDE DEF e
  <1>7. /\ logs' \in Seq(Log)
        /\ \A x : In(x, logs') => In(x, logs) \/ x = e
        /\ \A x : Once(logs, x) /\ (x = e => ~In(x, logs)) => Once(logs', x)
        /\ \A chain : AllHappened(logs, chain) /\ Happened(e, chain) => AllHappened(logs', chain)
    <2> DEFINE t == Append(logs, e)
    <2>1. /\ t \in Seq(Log)
          /\ \A x : In(x, t) => In(x, logs) \/ x = e
          /\ \A x : Once(logs, x) /\ (x = e => ~In(x, logs)) => Once(t, x)
          /\ \A chain : AllHappened(logs, chain) /\ Happened(e, chain) => AllHappened(t, chain)
      BY Zenon, <1>2, <1>3, AppendEvents
    <2>2. logs' = t
      BY Zenon, <1>2
    <2> HIDE DEF t
    <2> QED
      BY Zenon, <2>1, <2>2
  <1>8. EventsInv'
    BY Zenon, <1>0, <1>2, <1>3, <1>7 DEF EventsInv
  <1>9. FlowsInv'
    <2>1. \A g \in Flow : FlowOK(g, mem[g], disk[g], registered[g], completed, failed, pc, left)
      BY <1>0 DEF FlowsInv
    <2>2. registered'[f] = registered[f] + 1 /\ \A g \in Flow \ {f} : registered'[g] = registered[g]
      BY <1>1, <1>2
    <2>3. FlowOK(f, mem[f], disk[f], registered[f] + 1, completed, failed, pc, left')
      <3>1. mem[f] \in State /\ disk[f] \in State
        BY <1>3
      <3> QED
        BY Zenon, <1>0, <1>1, <1>4, <2>1, <3>1, FlowEmitted
    <2>4. FlowOK(f, mem'[f], disk'[f], registered'[f], completed', failed', pc', left')
      BY Zenon, <1>0, <2>2, <2>3
    <2>5. ASSUME NEW g \in Flow \ {f}
          PROVE  FlowOK(g, mem'[g], disk'[g], registered'[g], completed', failed', pc', left')
      <3>1. Same(g, completed, failed, pc, left, completed', failed', pc', left')
        BY Zenon, <1>0, <1>4 DEF Same
      <3> QED
        BY Zenon, <1>0, <2>2, <3>1, OtherFlow
    <2> QED
      BY Zenon, <2>4, <2>5 DEF FlowsInv
  <1>10. RetryInv'
    BY Zenon, <1>0, <1>4 DEF RetryInv
  <1>11. registered[f] = 0 =>
             /\ mem[f] = NoFlow /\ disk[f] = NoFlow /\ f \notin completed
             /\ \A s \in Seq(Log) : AllHappened(s, registered) => Only(s, f) /\ ~In(Trigger(f), s)
    <2> SUFFICES ASSUME registered[f] = 0
                 PROVE  /\ mem[f] = NoFlow /\ disk[f] = NoFlow /\ f \notin completed
                        /\ \A s \in Seq(Log) : AllHappened(s, registered) => Only(s, f) /\ ~In(Trigger(f), s)
      BY Zenon
    <2>1. ~(registered[f] >= 1) /\ registered[f] # 4 /\ 1..registered[f] = {}
      OBVIOUS
    <2>2. mem[f] = NoFlow /\ disk[f] = NoFlow /\ f \notin completed
      BY Zenon, <1>0, <2>1 DEF FlowsInv, FlowOK
    <2>3. \A x : Happened(x, registered) => x[1] # f
      BY Zenon, <2>1 DEF Happened
    <2>4. Trigger(f)[1] = f
      BY DEF Trigger
    <2> QED
      BY Zenon, <2>2, <2>3, <2>4 DEF AllHappened, Only, In
  <1>12. OnceInv'
    <2> SUFFICES ASSUME NEW g \in Flow
                 PROVE  /\ Once(logs', Trigger(g))
                        /\ In(Trigger(g), logs') =>
                             /\ ~In(Trigger(g), confirming) /\ ~In(Trigger(g), saved.confirming)
                             /\ Only(confirming, g) /\ Only(saved.confirming, g)
                             /\ mem[g] = NoFlow /\ disk[g] = NoFlow /\ g \notin completed
      BY Zenon, <1>0 DEF OnceInv, Trigger
    <2>1. AllHappened(logs, registered) /\ AllHappened(confirming, registered) /\ AllHappened(saved.confirming, registered)
      BY Zenon, <1>0 DEF EventsInv
    <2>2. CASE e = Trigger(g)
      <3>1. g = f /\ registered[f] = 0
        BY Zenon, <1>5, <1>6, <2>2
      <3> QED
        BY Zenon, <1>0, <1>3, <1>7, <1>11, <2>1, <3>1 DEF OnceInv
    <2>3. CASE e # Trigger(g)
      BY Zenon, <1>0, <1>7, <2>3 DEF OnceInv
    <2> QED
      BY Zenon, <2>2, <2>3
  <1>13. TriggerInv'
    BY Zenon, <1>0 DEF TriggerInv, Trigger
  <1>14. Types'
    <2>1. \A s \in Seq(Log) : \A i \in DOMAIN s : IsLog(s[i])
      BY DEF IsLog, Log
    <2>2. TypeOK'
      BY Zenon, <1>0, <1>2, <1>4, <1>7, <2>1 DEF Types, TypeOK
    <2> QED
      BY Zenon, <1>0, <1>7, <2>2 DEF Types
  <1>15. Advances
    BY Zenon, <1>0, StillAdvances
  <1> QED
    BY Zenon, <1>8, <1>9, <1>10, <1>12, <1>13, <1>14, <1>15 DEF Inv

(* Reading a log of the contract keeps the invariant. *)
LEMMA ProcessNewRskEventStep ==
    ASSUME Inv, ProcessNewRskEvent
    PROVE  Inv' /\ Advances
  <1> DEFINE l == Head(logs)
             relevant == l[2] = "OperatorTakeTriggered" \/ Cleaned(mem)[l[1]] # NoFlow
             at == IF relevant THEN "save" ELSE "idle"
  <1>0. /\ Types /\ EventsInv /\ FlowsInv /\ RetryInv /\ OnceInv /\ TriggerInv
        /\ pc = "idle" /\ logs # <<>> /\ logs' = Tail(logs)
        /\ confirming' = (IF relevant THEN Append(confirming, l) ELSE confirming)
        /\ Ignore(at) /\ UNCHANGED <<registered, asked, seen, pending, saved>>
    BY Zenon DEF ProcessNewRskEvent, Inv
  <1>1. /\ Commit(mem, disk, retries) /\ pc' = at /\ UNCHANGED <<told, history, left>>
        /\ UNCHANGED <<completed, failed, replayed>>
    BY Zenon, <1>0 DEF Ignore, history
  <1>2. at \in {"save", "idle"} /\ (at = "idle" => ~relevant)
    OBVIOUS
  <1>3. /\ logs \in Seq(Log) /\ confirming \in Seq(Log) /\ saved.confirming \in Seq(Log)
        /\ mem \in [Flow -> State] /\ left \in Budget /\ registered \in [Flow -> 0..4]
    BY Zenon, <1>0, FlowTypes DEF Types
  <1>4. /\ logs' \in Seq(Log) /\ l \in Log /\ In(l, logs)
        /\ \A x : In(x, logs') => In(x, logs)
        /\ \A x : Once(logs, x) => Once(logs', x) /\ (x = l => ~In(x, logs'))
        /\ \A chain : AllHappened(logs, chain) => AllHappened(logs', chain) /\ Happened(l, chain)
    BY Zenon, <1>0, <1>3, TailEvents
  <1>5. relevant /\ l[2] # "OperatorTakeTriggered" => mem[l[1]] # NoFlow
    <2>1. l[1] \in Flow
      BY <1>4 DEF Log
    <2>2. Cleaned(mem)[l[1]] = Clean(mem[l[1]])
      BY Zenon, <1>3, <2>1, CleanedFacts
    <2>3. Clean(NoFlow) = NoFlow
      BY DEF Clean
    <2> QED
      BY Zenon, <2>2, <2>3
  <1>6. \A f : l[1] = f /\ l[2] = "OperatorTakeTriggered" => l = Trigger(f)
    BY <1>4 DEF Log, Trigger
  <1>7. pc' \in {"save", "idle"} /\ (pc' = "idle" => confirming' = confirming)
    BY <1>0, <1>1, <1>2
  <1> HIDE DEF l, at
  <1>8. /\ confirming' \in Seq(Log)
        /\ \A x : In(x, confirming') => In(x, confirming) \/ x = l
        /\ \A x : Once(confirming, x) /\ (x = l => ~In(x, confirming)) => Once(confirming', x)
        /\ \A f : Only(confirming, f) /\ (relevant /\ l[1] = f => l = Trigger(f)) => Only(confirming', f)
        /\ \A chain : AllHappened(confirming, chain) /\ Happened(l, chain) => AllHappened(confirming', chain)
    <2>1. CASE relevant
      <3> DEFINE t == Append(confirming, l)
      <3>1. /\ t \in Seq(Log)
            /\ \A x : In(x, t) => In(x, confirming) \/ x = l
            /\ \A x : Once(confirming, x) /\ (x = l => ~In(x, confirming)) => Once(t, x)
            /\ \A f : Only(confirming, f) /\ (l[1] = f => l = Trigger(f)) => Only(t, f)
            /\ \A chain : AllHappened(confirming, chain) /\ Happened(l, chain) => AllHappened(t, chain)
        BY Zenon, <1>3, <1>4, AppendEvents
      <3>2. confirming' = t
        BY Zenon, <1>0, <2>1
      <3> HIDE DEF t
      <3> QED
        BY Zenon, <2>1, <3>1, <3>2
    <2>2. CASE ~relevant
      <3>1. confirming' = confirming
        BY Zenon, <1>0, <2>2
      <3> QED
        BY Zenon, <1>3, <3>1
    <2> QED
      BY Zenon, <2>1, <2>2
  <1> HIDE DEF relevant
  <1>9. pc # "down" /\ pc' # "down" /\ pc # "fire" /\ pc' # "confirm"
    BY <1>0, <1>7
  <1>10. mem' \in [Flow -> State] /\ disk' \in [Flow -> State] /\ FlowsInv' /\ Advances
    BY <1>0, <1>1, <1>9, IgnoreFlows
  <1>11. Others(Flow) /\ Bounded /\ IsRetries(retries')
    BY Zenon, <1>0, <1>1, IgnoreFacts
  <1>12. RetryInv'
    BY <1>0, <1>1, <1>9, IgnoreRetry
  <1>13. EventsInv'
    BY Zenon, <1>0, <1>4, <1>8 DEF EventsInv
  <1>14. OnceInv' /\ TriggerInv'
    <2>0. Clean(NoFlow) = NoFlow /\ \A fl : fl.step = Done => Clean(fl) = NoFlow
      BY DEF Clean, IsTerminal
    <2>1. ASSUME NEW f \in Flow
          PROVE  /\ mem'[f] = mem[f] \/ mem'[f] = Clean(mem[f])
                 /\ disk'[f] = disk[f] \/ disk'[f] = Clean(disk[f])
                 /\ f \in completed' <=> f \in completed
      BY Zenon, <1>11 DEF Others
    <2>2. ASSUME NEW f \in Flow
          PROVE  /\ Once(logs', Trigger(f)) /\ Once(confirming', Trigger(f)) /\ Once(saved'.confirming, Trigger(f))
                 /\ In(Trigger(f), logs') =>
                        /\ ~In(Trigger(f), confirming') /\ ~In(Trigger(f), saved'.confirming)
                        /\ Only(confirming', f) /\ Only(saved'.confirming, f)
                        /\ mem'[f] = NoFlow /\ disk'[f] = NoFlow /\ f \notin completed'
      <3>1. Once(logs', Trigger(f)) /\ Once(confirming', Trigger(f)) /\ Once(saved'.confirming, Trigger(f))
        BY Zenon, <1>0, <1>4, <1>8 DEF OnceInv
      <3>2. ASSUME In(Trigger(f), logs')
            PROVE  /\ ~In(Trigger(f), confirming') /\ ~In(Trigger(f), saved'.confirming)
                   /\ Only(confirming', f) /\ Only(saved'.confirming, f)
                   /\ mem'[f] = NoFlow /\ disk'[f] = NoFlow /\ f \notin completed'
        <4>1. In(Trigger(f), logs) /\ l # Trigger(f)
          BY Zenon, <1>0, <1>4, <3>2 DEF OnceInv
        <4>2. /\ ~In(Trigger(f), confirming) /\ ~In(Trigger(f), saved.confirming)
              /\ Only(confirming, f) /\ Only(saved.confirming, f)
              /\ mem[f] = NoFlow /\ disk[f] = NoFlow /\ f \notin completed
          BY Zenon, <1>0, <4>1 DEF OnceInv
        <4>3. ~(relevant /\ l[1] = f)
          BY Zenon, <1>5, <1>6, <4>1, <4>2
        <4> QED
          BY Zenon, <1>0, <1>8, <2>0, <2>1, <4>1, <4>2, <4>3
      <3> QED
        BY Zenon, <3>1, <3>2
    <2>3. ASSUME NEW f \in Flow \ replayed
          PROVE  /\ In(Trigger(f), confirming') =>
                        mem'[f] = NoFlow /\ disk'[f] = NoFlow /\ f \notin completed' /\ Only(confirming', f)
                 /\ In(Trigger(f), saved'.confirming) =>
                        /\ f \notin completed' /\ Only(saved'.confirming, f)
                        /\ pc' \notin {"down", "save"} => Only(confirming', f)
                 /\ f \in completed' =>
                        /\ disk'[f] = NoFlow \/ disk'[f].step = Done
                        /\ mem'[f] = NoFlow \/ mem'[f].step = Done
      <3>1. f \in Flow
        OBVIOUS
      <3>2. In(Trigger(f), confirming') =>
                mem'[f] = NoFlow /\ disk'[f] = NoFlow /\ f \notin completed' /\ Only(confirming', f)
        <4> SUFFICES ASSUME In(Trigger(f), confirming')
                     PROVE  mem'[f] = NoFlow /\ disk'[f] = NoFlow /\ f \notin completed' /\ Only(confirming', f)
          BY Zenon
        <4>1. mem[f] = NoFlow /\ disk[f] = NoFlow /\ f \notin completed /\ Only(confirming, f)
          BY Zenon, <1>0, <1>4, <1>8, <1>9 DEF OnceInv, TriggerInv
        <4>2. relevant /\ l[1] = f => l = Trigger(f)
          BY Zenon, <1>5, <1>6, <4>1
        <4> QED
          BY Zenon, <1>8, <2>0, <2>1, <4>1, <4>2
      <3>3. In(Trigger(f), saved'.confirming) =>
                /\ f \notin completed' /\ Only(saved'.confirming, f)
                /\ pc' \notin {"down", "save"} => Only(confirming', f)
        <4>1. pc' \notin {"down", "save"} => confirming' = confirming /\ pc \notin {"down", "save"}
          BY <1>0, <1>7
        <4> QED
          BY Zenon, <1>0, <2>1, <4>1 DEF TriggerInv
      <3>4. f \in completed' => /\ disk'[f] = NoFlow \/ disk'[f].step = Done
                                /\ mem'[f] = NoFlow \/ mem'[f].step = Done
        BY Zenon, <1>0, <1>9, <2>0, <2>1 DEF TriggerInv
      <3> QED
        BY Zenon, <3>2, <3>3, <3>4
    <2>4. OnceInv'
      BY Zenon, <2>2 DEF OnceInv, Trigger
    <2>5. TriggerInv'
      BY Zenon, <1>1, <2>3 DEF TriggerInv, Trigger
    <2> QED
      BY <2>4, <2>5
  <1>15. Types'
    <2>1. \A s \in Seq(Log) : \A i \in DOMAIN s : IsLog(s[i])
      BY DEF IsLog, Log
    <2>2. DOMAIN retries' \subseteq Flow /\ Range(retries') \subseteq 1..Delay
      BY Zenon, <1>11, RetriesType
    <2>3. pc' \in {"down", "idle", "confirm", "tick", "fire", "save"} \cup Kinds
      BY <1>7
    <2>4. TypeOK'
      BY Zenon, <1>0, <1>1, <1>4, <1>8, <1>10, <1>11, <2>1, <2>2, <2>3 DEF Types, TypeOK, Bounded, State
    <2> QED
      BY Zenon, <1>0, <1>4, <1>8, <1>9, <1>11, <2>4 DEF Types
  <1> QED
    BY Zenon, <1>10, <1>12, <1>13, <1>14, <1>15 DEF Inv

(* A step that changes no flow. *)
LEMMA StillFlows ==
    ASSUME Types, FlowsInv, UNCHANGED <<mem, disk, registered, completed, failed>>,
           pc' # "down" => pc # "down", left'.lossy = left.lossy
    PROVE  FlowsInv' /\ Advances
  <1>1. \A g \in Flow : Same(g, completed, failed, pc, left, completed', failed', pc', left')
    BY Zenon DEF Same
  <1>2. \A g \in Flow : FlowOK(g, mem'[g], disk'[g], registered'[g], completed', failed', pc', left')
    BY Zenon, <1>1, OtherFlow
  <1>3. Advances
    BY Zenon, StillAdvances
  <1> QED
    BY Zenon, <1>2, <1>3 DEF FlowsInv

(* The end of a block's confirmations keeps the invariant. *)
LEMMA NoneConfirmedStep ==
    ASSUME Inv, NoneConfirmed
    PROVE  Inv' /\ Advances
  <1>0. /\ Types /\ EventsInv /\ FlowsInv /\ RetryInv /\ OnceInv /\ TriggerInv
        /\ pc = "confirm" /\ pc' = "tick" /\ pending' = {}
        /\ UNCHANGED <<registered, logs, asked, told, seen, mem, disk, confirming, retries, saved,
                       completed, failed, replayed, left>>
    BY Zenon DEF NoneConfirmed, Inv, network, history
  <1>1. FlowsInv' /\ Advances
    BY <1>0, StillFlows
  <1>2. EventsInv' /\ OnceInv'
    BY Zenon, <1>0 DEF EventsInv, OnceInv, Trigger
  <1>3. RetryInv'
    <2>1. pc # "fire" /\ pc # "down"
      BY <1>0
    <2> QED
      BY Zenon, <1>0, <2>1 DEF RetryInv
  <1>4. TriggerInv'
    <2>1. pc # "down" /\ pc \notin {"down", "save"}
      BY <1>0
    <2> QED
      BY Zenon, <1>0, <2>1 DEF TriggerInv, Trigger
  <1>5. TypeOK'
    BY Zenon, <1>0 DEF Types, TypeOK
  <1>6. Types'
    BY Zenon, <1>0, <1>5 DEF Types
  <1> QED
    BY Zenon, <1>1, <1>2, <1>3, <1>4, <1>6 DEF Inv

(* A tick of the retry scheduler keeps the invariant. *)
LEMMA TickStep ==
    ASSUME Inv, Tick
    PROVE  Inv' /\ Advances
  <1> DEFINE ready == {f \in DOMAIN retries : retries[f] = 1}
  <1>0. /\ Types /\ EventsInv /\ FlowsInv /\ RetryInv /\ OnceInv /\ TriggerInv
        /\ pc = "tick" /\ pending' = ready /\ pc' = IF ready = {} THEN "save" ELSE "fire"
        /\ retries' = [f \in DOMAIN retries \ ready |-> retries[f] - 1]
        /\ UNCHANGED <<registered, logs, asked, told, seen, mem, disk, confirming, saved,
                       completed, failed, replayed, left>>
    BY Zenon DEF Tick, Inv, network, history
  <1>1. FlowsInv' /\ Advances
    <2>1. pc # "down"
      BY <1>0
    <2> QED
      BY <1>0, <2>1, StillFlows
  <1>2. EventsInv' /\ OnceInv'
    BY Zenon, <1>0 DEF EventsInv, OnceInv, Trigger
  <1>3. RetryInv'
    <2>1. pc # "fire" /\ pc # "down"
      BY <1>0
    <2>2. \A f \in DOMAIN retries : f \in DOMAIN retries' \/ (pc' = "fire" /\ f \in pending')
      BY <1>0
    <2> QED
      BY Zenon, <1>0, <2>1, <2>2 DEF RetryInv
  <1>4. TriggerInv'
    <2>1. pc # "down" /\ pc \notin {"down", "save"}
      BY <1>0
    <2> QED
      BY Zenon, <1>0, <2>1 DEF TriggerInv, Trigger
  <1>5. IsRetries(retries') /\ pending' \subseteq Flow
    BY <1>0, OperatorTakeAssumption DEF Types, IsRetries
  <1>6. TypeOK'
    <2>1. DOMAIN retries' \subseteq Flow /\ Range(retries') \subseteq 1..Delay
      BY Zenon, <1>5, RetriesType
    <2>2. pc' \in {"down", "idle", "confirm", "tick", "fire", "save"} \cup Kinds
      BY <1>0
    <2> QED
      BY Zenon, <1>0, <1>5, <2>1, <2>2 DEF Types, TypeOK
  <1>7. Types'
    <2>1. pc' # "confirm"
      BY <1>0
    <2> QED
      BY Zenon, <1>0, <1>5, <1>6, <2>1 DEF Types
  <1> QED
    BY Zenon, <1>1, <1>2, <1>3, <1>4, <1>7 DEF Inv

(* The save that ends a handler keeps the invariant. *)
LEMMA SaveStep ==
    ASSUME Inv, Save
    PROVE  Inv' /\ Advances
  <1>0. /\ Types /\ EventsInv /\ FlowsInv /\ RetryInv /\ OnceInv /\ TriggerInv
        /\ pc = "save" /\ pc' = "idle" /\ saved' = [confirming |-> confirming, retries |-> retries]
        /\ UNCHANGED <<registered, logs, asked, told, seen, mem, disk, confirming, retries, pending,
                       completed, failed, replayed, left>>
    BY Zenon DEF Save, Inv, network, history
  <1>1. saved'.confirming = confirming /\ saved'.retries = retries
    BY <1>0
  <1>2. FlowsInv' /\ Advances
    <2>1. pc # "down"
      BY <1>0
    <2> QED
      BY <1>0, <2>1, StillFlows
  <1>3. EventsInv' /\ OnceInv'
    BY Zenon, <1>0, <1>1 DEF EventsInv, OnceInv, Trigger
  <1>4. RetryInv'
    <2>1. pc # "fire" /\ pc # "down"
      BY <1>0
    <2> QED
      BY Zenon, <1>0, <2>1 DEF RetryInv
  <1>5. TriggerInv'
    <2>1. pc # "down"
      BY <1>0
    <2> QED
      BY Zenon, <1>0, <1>1, <2>1 DEF TriggerInv, Trigger
  <1>6. TypeOK'
    BY Zenon, <1>0 DEF Types, TypeOK
  <1>7. Types'
    <2>1. pc' # "confirm"
      BY <1>0
    <2> QED
      BY Zenon, <1>0, <1>1, <1>6, <2>1 DEF Types
  <1> QED
    BY Zenon, <1>2, <1>3, <1>4, <1>5, <1>7 DEF Inv

(* A crash keeps the invariant: what it needs is on disk. *)
LEMMA CrashStep ==
    ASSUME Inv, Crash
    PROVE  Inv' /\ Advances
  <1>0. /\ Types /\ EventsInv /\ FlowsInv /\ RetryInv /\ OnceInv /\ TriggerInv
        /\ pc # "down" /\ pc' = "down" /\ left.crashes > 0 /\ left' = [left EXCEPT !.crashes = @ - 1]
        /\ UNCHANGED <<registered, logs, asked, told, seen, mem, disk, confirming, retries, pending, saved,
                       completed, failed, replayed>>
    BY Zenon DEF Crash, Die, Inv, network, history
  <1>1. left' \in Budget /\ left'.lossy = left.lossy
    BY Zenon, <1>0, FlowTypes, SpentBudget
  <1>2. FlowsInv' /\ Advances
    BY <1>0, <1>1, StillFlows
  <1>3. EventsInv' /\ OnceInv'
    BY Zenon, <1>0 DEF EventsInv, OnceInv, Trigger
  <1>4. RetryInv'
    BY Zenon, <1>0 DEF RetryInv
  <1>5. TriggerInv'
    BY Zenon, <1>0 DEF TriggerInv, Trigger
  <1>6. TypeOK'
    BY <1>0, <1>1 DEF Types, TypeOK
  <1>7. Types'
    <2>1. pc' # "confirm"
      BY <1>0
    <2> QED
      BY Zenon, <1>0, <1>6, <2>1 DEF Types
  <1> QED
    BY Zenon, <1>2, <1>3, <1>4, <1>5, <1>7 DEF Inv

(* A restart, with the retries rebuilt from the saved flows, keeps the     *)
(* invariant.                                                              *)
LEMMA RestartStep ==
    ASSUME Inv, Restart
    PROVE  Inv' /\ Advances
  <1> DEFINE rearmed == {f \in Flow : disk[f].retry} \ DOMAIN saved.retries
             back == {f \in Flow : disk[f] # NoFlow /\ Trigger(f) \in Range(saved.confirming)}
  <1>0. /\ Types /\ EventsInv /\ FlowsInv /\ RetryInv /\ OnceInv /\ TriggerInv
        /\ pc = "down" /\ pc' = "idle" /\ mem' = disk /\ confirming' = saved.confirming /\ pending' = {}
        /\ retries' = [f \in rearmed \cup DOMAIN saved.retries |->
                          IF f \in rearmed THEN Delay ELSE saved.retries[f]]
        /\ replayed' = replayed \cup back
        /\ UNCHANGED <<registered, logs, asked, told, seen, disk, saved, completed, failed, left>>
    BY Zenon DEF Restart, RestartWith, Inv, network
  <1>1. mem \in [Flow -> State] /\ disk \in [Flow -> State] /\ registered \in [Flow -> 0..4]
    BY <1>0, FlowTypes
  <1>2. FlowsInv'
    <2>1. ASSUME NEW f \in Flow PROVE FlowOK(f, mem'[f], disk'[f], registered'[f], completed', failed', pc', left')
      <3>1. mem[f] \in State /\ disk[f] \in State /\ registered[f] \in 0..4
        BY <1>1
      <3>2. FlowOK(f, mem[f], disk[f], registered[f], completed, failed, pc, left)
        BY Zenon, <1>0 DEF FlowsInv
      <3>3. FlowOK(f, disk[f], disk[f], registered[f], completed, failed, "idle", left)
        BY Zenon, <3>1, <3>2, FlowRestarted
      <3> QED
        BY Zenon, <1>0, <3>3
    <2> QED
      BY Zenon, <2>1 DEF FlowsInv
  <1>3. Advances
    BY Zenon, <1>0, StillAdvances
  <1>4. EventsInv' /\ OnceInv'
    BY Zenon, <1>0 DEF EventsInv, OnceInv, Trigger
  <1>5. RetryInv'
    <2>1. \A f \in Flow : disk[f].retry => f \in DOMAIN retries'
      BY Zenon, <1>0
    <2> QED
      BY Zenon, <1>0, <2>1 DEF RetryInv
  <1>6. TriggerInv'
    <2>1. ASSUME NEW f \in Flow \ replayed', In(Trigger(f), saved.confirming) PROVE disk[f] = NoFlow
      BY Zenon, <1>0, <2>1 DEF In, Range
    <2>2. \A f \in Flow \ replayed' : f \in Flow \ replayed
      BY Zenon, <1>0
    <2> HIDE DEF back, rearmed
    <2> QED
      BY Zenon, <1>0, <2>1, <2>2 DEF TriggerInv, Trigger
  <1>7. IsRetries(retries')
    <2>1. IsRetries(saved.retries) /\ Delay \in 1..Delay /\ rearmed \subseteq Flow
      BY <1>0, OperatorTakeAssumption DEF Types
    <2> HIDE DEF rearmed
    <2> QED
      BY Zenon, <1>0, <2>1 DEF IsRetries
  <1>8. TypeOK'
    <2>1. DOMAIN retries' \subseteq Flow /\ Range(retries') \subseteq 1..Delay
      BY Zenon, <1>7, RetriesType
    <2>2. \A s \in Seq(Log) : \A i \in DOMAIN s : IsLog(s[i])
      BY DEF IsLog, Log
    <2>3. saved.confirming \in Seq(Log)
      BY <1>0 DEF Types
    <2>4. replayed' \subseteq Flow /\ pending' \subseteq Flow /\ pc' \in {"down", "idle", "confirm", "tick", "fire", "save"} \cup Kinds
      BY Zenon, <1>0 DEF Types, TypeOK
    <2> HIDE DEF back, rearmed
    <2>5. \A i \in DOMAIN confirming' : IsLog(confirming'[i])
      BY Zenon, <1>0, <2>2, <2>3
    <2> QED
      BY Zenon, <1>0, <1>1, <2>1, <2>4, <2>5 DEF Types, TypeOK
  <1>9. Types'
    <2>1. pc' # "confirm"
      BY Zenon, <1>0
    <2> QED
      BY Zenon, <1>0, <1>7, <1>8, <2>1 DEF Types
  <1> QED
    BY Zenon, <1>2, <1>3, <1>4, <1>5, <1>6, <1>9 DEF Inv

-----------------------------------------------------------------------------
(* The invariant holds when the client first starts. *)
LEMMA InitInv == Init => Inv
  <1> SUFFICES ASSUME Init PROVE Inv
    OBVIOUS
  <1>1. /\ registered = [f \in Flow |-> 0] /\ logs = <<>> /\ confirming = <<>> /\ pc = "idle" /\ pending = {}
        /\ mem = [f \in Flow |-> NoFlow] /\ disk = mem /\ retries = NoRetries
        /\ saved.confirming = <<>> /\ saved.retries = NoRetries
        /\ completed = {} /\ failed = {} /\ left \in Budget
    BY OperatorTakeAssumption DEF Init
  <1>2. IsRetries(NoRetries)
    BY DEF NoRetries, IsRetries
  <1>3. /\ <<>> \in Seq(Log) /\ DOMAIN <<>> = {}
    OBVIOUS
  <1>4. TypeOK
    <2>1. NoFlow \in State /\ DOMAIN retries \subseteq Flow /\ Range(retries) \subseteq 1..Delay
      BY Zenon, <1>1, <1>2, RetriesType DEF State
    <2> QED
      BY <1>1, <1>3, <2>1 DEF Init, TypeOK, State
  <1>5. Types
    BY <1>1, <1>2, <1>3, <1>4 DEF Types
  <1>6. EventsInv /\ OnceInv /\ TriggerInv
    BY Zenon, <1>1, <1>3 DEF EventsInv, AllHappened, OnceInv, Once, In, Only, TriggerInv
  <1>7. FlowsInv /\ RetryInv
    <2>1. \A f \in Flow : mem[f] = NoFlow /\ disk[f] = NoFlow /\ registered[f] = 0
      BY <1>1
    <2>2. NoFlow.step = -1 /\ ~NoFlow.retry
      BY Zenon, StateFacts
    <2>3. ~IsRetriableStep(-1) /\ -1 \notin 6..9 /\ -1 \notin {8, 9} /\ -1 # Done /\ -1 # Failed
      BY DEF IsRetriableStep
    <2> QED
      BY Zenon, <1>1, <2>1, <2>2, <2>3 DEF FlowsInv, FlowOK, RetryInv,
         SetVarBitVmxAdvanceFundsRegistered, RegisterOrWaitRskOperatorTake, WaitBitVmxOperatorTakeSpv, Done, Failed
  <1> QED
    BY <1>5, <1>6, <1>7 DEF Inv

(* Every action keeps the invariant, and moves no saved flow back. *)
LEMMA NextInv ==
    ASSUME Inv, Next
    PROVE  Inv' /\ Advances
  <1>1. CASE \E f \in Flow : \/ RskEmits(f) \/ ProcessBlockConfirmations(f) \/ FireRetry(f)
                             \/ TakeAnswer(f) \/ FailFlow(f)
    BY Zenon, <1>1, RskEmitsStep, ProcessBlockConfirmationsStep, FireRetryStep, TakeAnswerStep, FailFlowStep
  <1>2. CASE \E f \in Flow : \/ \E kind \in Kinds : Answer(f, kind)
                             \/ \E kind \in Spvs : Spv(f, kind)
    BY Zenon, <1>2, AnswerStep, SpvStep
  <1>3. CASE ProcessNewRskEvent \/ NewBlock \/ NoneConfirmed \/ Tick \/ Save \/ Crash \/ Restart
    BY Zenon, <1>3, ProcessNewRskEventStep, NewBlockStep, NoneConfirmedStep, TickStep, SaveStep, CrashStep, RestartStep
  <1> QED
    BY Zenon, <1>1, <1>2, <1>3 DEF Next

(* So does a step that changes nothing. *)
LEMMA StutterInv ==
    ASSUME Inv, UNCHANGED vars
    PROVE  Inv' /\ Advances
  <1>1. UNCHANGED <<registered, logs, asked, told, seen, pc, mem, disk, confirming, retries, pending, saved,
                    completed, failed, replayed, left>>
    BY DEF vars, network, history
  <1>2. TypeOK' /\ Types'
    BY Zenon, <1>1 DEF Inv, Types, TypeOK
  <1>3. EventsInv' /\ FlowsInv' /\ RetryInv'
    BY Zenon, <1>1 DEF Inv, EventsInv, FlowsInv, RetryInv
  <1>4. OnceInv' /\ TriggerInv'
    BY Zenon, <1>1 DEF Inv, OnceInv, TriggerInv, Trigger
  <1>5. Types
    BY DEF Inv
  <1>6. Advances
    BY <1>1, <1>5, StillAdvances
  <1> QED
    BY Zenon, <1>2, <1>3, <1>4, <1>6 DEF Inv

(* The inductive invariant holds in every state, whatever fails, crashes   *)
(* or is lost.                                                             *)
LEMMA InvHolds == Spec => []Inv
  <1>1. Init => Inv
    BY InitInv
  <1>2. Inv /\ [Next]_vars => Inv'
    BY Zenon, NextInv, StutterInv
  <1> QED
    BY <1>1, <1>2, PTL DEF Spec

(* The state of the coordinator, the store and the network stays within    *)
(* its types: the budget is never overspent and nothing confirms but       *)
(* events of a flow.                                                       *)
THEOREM Typed == Spec => []TypeOK
  <1>1. Inv => TypeOK
    BY DEF Inv, Types
  <1> QED
    BY <1>1, InvHolds, PTL

(* For any number of flows, failures and crashes, a flow that is Done is   *)
(* never taken up again by create_flow_for_operator_take_triggered, unless *)
(* a restart brought its trigger back while the flow was in the store.     *)
THEOREM RunsOnce == Spec => []DoneStaysDone
  <1>1. Inv => DoneStaysDone
    <2>1. Inv => \A f \in Flow \ replayed : f \in completed => disk[f] = NoFlow \/ disk[f].step = Done
      BY Zenon DEF Inv, TriggerInv
    <2>2. Inv => completed \subseteq Flow
      BY FlowTypes DEF Inv
    <2> QED
      BY <2>1, <2>2 DEF DoneStaysDone
  <1> QED
    BY <1>1, InvHolds, PTL

(* A saved flow is never ahead of Rootstock, whatever entry action of      *)
(* start_step failed, timed out, was retried or was cut off by a crash.    *)
THEOREM BehindChain == Spec => []FlowBehindChain
  <1>1. Inv => FlowBehindChain
    BY Zenon DEF Inv, FlowsInv, FlowOK, FlowBehindChain
  <1> QED
    BY <1>1, InvHolds, PTL

(* As long as nothing is lost, a registration that schedule_retry parked   *)
(* is scheduled, or its retry is about to run, restarts included.          *)
THEOREM RetriesSurvive == Spec => []ParkedIsScheduled
  <1>1. Inv => ParkedIsScheduled
    BY Zenon DEF Inv, RetryInv, ParkedIsScheduled
  <1> QED
    BY <1>1, InvHolds, PTL

(* Between two calls of start_step memory and store agree: the rollback of *)
(* a failed entry action leaves no flow in memory that a restart would not *)
(* find, but for one whose creation failed.                                *)
THEOREM StoreAgrees == Spec => []MemoryIsSaved
  <1>1. Inv => MemoryIsSaved
    <2> SUFFICES ASSUME Inv, pc # "down", NEW f \in Flow
                 PROVE  Cleaned(mem)[f] = Cleaned(disk)[f] \/ mem[f].step = WaitRskOperatorTakeTriggered
      BY Zenon DEF MemoryIsSaved
    <2>1. Cleaned(mem)[f] = Clean(mem[f]) /\ Cleaned(disk)[f] = Clean(disk[f])
      BY FlowTypes, CleanedFacts DEF Inv
    <2> QED
      BY Zenon, <2>1 DEF Inv, FlowsInv, FlowOK
  <1> QED
    BY <1>1, InvHolds, PTL

(* The step of a saved flow never goes back until the flow is Done or      *)
(* Failed: no retry, no late or repeated event and no rollback of          *)
(* start_step saves an earlier step.                                       *)
THEOREM StepsForward == Spec => SavedStepAdvances
  <1>1. Inv /\ [Next]_vars => [\A f \in Flow : disk'[f].step >= disk[f].step \/ f \in completed' \cup failed']_vars
    BY Zenon, NextInv DEF Advances
  <1> QED
    BY <1>1, InvHolds, PTL DEF Spec, SavedStepAdvances

=============================================================================
