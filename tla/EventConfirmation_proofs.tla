---------------------- MODULE EventConfirmation_proofs ----------------------
(***************************************************************************)
(* For every tree of blocks, every number of confirmations and any number  *)
(* of restarts: a processor that hands every block to its view never       *)
(* panics, and processes no event before its confirmations; and what it    *)
(* processed is not reorganised away while forks are shorter than them.    *)
(***************************************************************************)
EXTENDS EventConfirmation, TLAPS

(* What most steps need of the constants. *)
LEMMA Constants ==
    /\ Genesis \in Block
    /\ Number \in [Block -> Nat] /\ Parent \in [Block -> Block]
    /\ EventsIn \in [Block -> SUBSET Event]
    /\ Required \in Nat /\ Required >= 2 /\ MaxReorg \in Nat
    BY BlockTreeAssumption, EventConfirmationAssumption

(* The front of a queue and the rest of it. *)
LEMMA Front ==
    ASSUME NEW S, NEW q \in Seq(S), q # <<>>
    PROVE  /\ Head(q) \in S /\ Head(q) = q[1] /\ Tail(q) \in Seq(S)
           /\ Len(q) \in Nat \ {0} /\ Len(Tail(q)) = Len(q) - 1
           /\ \A i \in 1..Len(Tail(q)) : Tail(q)[i] = q[i + 1]
    OBVIOUS

(* A queue with one more element in front. *)
LEMMA Prefixed ==
    ASSUME NEW S, NEW x \in S, NEW q \in Seq(S)
    PROVE  /\ <<x>> \o q \in Seq(S) /\ Len(<<x>> \o q) = 1 + Len(q)
           /\ (<<x>> \o q)[1] = x
           /\ \A i \in 2..1 + Len(q) : (<<x>> \o q)[i] = q[i - 1]
    OBVIOUS

USE Constants

-----------------------------------------------------------------------------
(* TypeOK is inductive. *)

(* Stopping events keeps events_confirming well typed. *)
LEMMA StopConfirmingType ==
    ASSUME NEW c, NEW S,
           IsMapTo(c, Counter)
    PROVE  IsMapTo(StopConfirming(c, S), Counter)
    BY DEF StopConfirming, IsMapTo

(* A block changes the counts of events_confirming and nothing else. *)
LEMMA UpdatedType ==
    ASSUME TypeOK, NEW b \in Block
    PROVE  /\ DOMAIN Updated(b) = DOMAIN confirming
           /\ IsMapTo(Updated(b), Counter)
           /\ \A e \in DOMAIN confirming : Updated(b)[e].block = confirming[e].block
    BY Zenon DEF TypeOK, Updated, IsMapTo, Counter

(* A snapshot keeps one block per event. *)
LEMMA SnapshotType ==
    ASSUME NEW c, IsMapTo(c, Counter)
    PROVE  IsMapTo(Snapshot(c), Block)
    BY DEF Snapshot, IsMapTo, Counter

(* A step of BlockchainView keeps blocks of the tree. *)
LEMMA ViewType ==
    ASSUME TypeOK, NEW b \in Block, NEW c
    PROVE  /\ UpdatedView(b) \in SUBSET Block
           /\ ViewAfter(UpdatedView(b), c) \in SUBSET Block
           /\ ViewAfter(view, c) \in SUBSET Block
    BY DEF TypeOK, UpdatedView, ViewAfter, Adopt, Below

(* Processing an event that is confirming records an event and a block. *)
LEMMA ProcessType ==
    ASSUME TypeOK, NEW S \in SUBSET DOMAIN confirming, Process(S)
    PROVE  processed' \in SUBSET Occurrence
    BY DEF TypeOK, Process, Occurrence, IsMapTo, Counter

(* The process is gone: nothing is confirming. *)
LEMMA DieType ==
    ASSUME NEW how \in {"down", "panicked"}, Die(how)
    PROVE  /\ status' \in {"up", "down", "panicked"}
           /\ view' \in SUBSET Block
           /\ IsMapTo(confirming', Counter)
    BY DEF Die, NoneConfirming, IsMapTo

(* Taking a log leaves a queue of logs. *)
LEMMA TakeLogType ==
    ASSUME TypeOK, NEW e \in Event, NEW b \in Block, NEW removed \in BOOLEAN,
           TakeLog(e, b, removed)
    PROVE  /\ logs' \in Seq(LogBatch)
           /\ UNCHANGED <<chain, peak, sent, blocks, canon>>
  <1> DEFINE l == Head(logs)
             rest == IF removed THEN [l EXCEPT !.removed = @ \ {<<e, b>>}]
                                ELSE [l EXCEPT !.added = @ \ {<<e, b>>}]
  <1>1. logs \in Seq(LogBatch) /\ logs # <<>>
    BY DEF TypeOK, TakeLog
  <1>2. l \in LogBatch /\ Tail(logs) \in Seq(LogBatch)
    BY <1>1, Front
  <1>3. rest \in LogBatch
    BY Zenon, <1>2 DEF LogBatch
  <1>4. <<rest>> \o Tail(logs) \in Seq(LogBatch)
    <2> HIDE DEF rest
    <2> QED
      BY <1>2, <1>3, Prefixed
  <1> QED
    BY <1>2, <1>4 DEF TakeLog

(* Taking a block leaves a queue of blocks. *)
LEMMA TakeBlockType ==
    ASSUME TypeOK, TakeBlock
    PROVE  /\ Head(blocks) \in BlockMsg
           /\ Head(blocks).block \in Block
           /\ blocks' \in Seq(BlockMsg)
           /\ canon' \in SUBSET Block
           /\ UNCHANGED <<chain, peak, sent, logs>>
  <1>1. blocks \in Seq(BlockMsg) /\ blocks # <<>>
    BY DEF TypeOK, TakeBlock
  <1>2. Head(blocks) \in BlockMsg /\ Tail(blocks) \in Seq(BlockMsg)
    BY <1>1, Front
  <1> QED
    BY <1>2 DEF TakeBlock, BlockMsg

(* The due events are among those confirming. *)
LEMMA DueType == ASSUME NEW b PROVE Due(b) \in SUBSET DOMAIN confirming
    BY DEF Due

(* Every step keeps TypeOK. *)
LEMMA TypeStep == TypeOK /\ [Next]_vars => TypeOK'
  <1> SUFFICES ASSUME TypeOK, [Next]_vars PROVE TypeOK'
    OBVIOUS
  <1> USE DEF network, faults
  <1>1. ASSUME NEW b \in Block, NotifyBlock(b) PROVE TypeOK'
    <2>1. chain' \in SUBSET Block /\ sent' \in Nat /\ peak' \in Nat
      BY <1>1 DEF NotifyBlock, TypeOK, Feed!Notify, Feed!Adopt, Feed!Below
    <2>2. [block |-> b, chain |-> chain', seq |-> sent'] \in BlockMsg
      BY <2>1 DEF BlockMsg
    <2>3. blocks' \in Seq(BlockMsg)
      BY <1>1, <2>2 DEF NotifyBlock, TypeOK
    <2>4. [removed |-> OccurrencesIn(chain \ chain'), added |-> OccurrencesIn(chain' \ chain),
           seq |-> sent'] \in LogBatch
      BY <2>1 DEF LogBatch, OccurrencesIn
    <2>5. logs' \in Seq(LogBatch)
      BY <1>1, <2>4 DEF NotifyBlock, TypeOK
    <2> QED
      BY Zenon, <1>1, <2>1, <2>3, <2>5 DEF NotifyBlock, TypeOK
  <1>2. CASE ProcessNewRskEvent
    <2>1. PICK e \in Event, b \in Block, removed \in BOOLEAN :
            /\ TakeLog(e, b, removed)
            /\ confirming' =
                   IF removed THEN StopConfirming(confirming, {e})
                   ELSE [f \in DOMAIN confirming \cup {e} |->
                            IF f = e THEN [block |-> b, last |-> Number[b]] ELSE confirming[f]]
            /\ view' = IF e \in DOMAIN confirming THEN ViewAfter(view, confirming') ELSE view
      BY Zenon, <1>2 DEF ProcessNewRskEvent
    <2>2. logs' \in Seq(LogBatch) /\ UNCHANGED <<chain, peak, sent, blocks, canon>>
      BY <2>1, TakeLogType
    <2>3. IsMapTo(confirming', Counter)
      <3>1. CASE removed
        BY <2>1, <3>1, StopConfirmingType DEF TypeOK
      <3>2. CASE ~removed
        BY <2>1, <3>2 DEF TypeOK, IsMapTo, Counter
      <3> QED
        BY <3>1, <3>2
    <2>4. view' \in SUBSET Block
      BY <2>1 DEF ViewAfter, TypeOK
    <2>5. IsMapTo(snapshot', Block)
      BY <1>2, <2>3, SnapshotType DEF ProcessNewRskEvent
    <2> QED
      BY Zenon, <1>2, <2>2, <2>3, <2>4, <2>5 DEF ProcessNewRskEvent, TypeOK
  <1>3. CASE ProcessNewBlock
    <2> DEFINE b == Head(blocks).block
    <2>1. /\ b \in Block /\ blocks' \in Seq(BlockMsg) /\ canon' \in SUBSET Block
          /\ UNCHANGED <<chain, peak, sent, logs>>
      BY <1>3, TakeBlockType DEF ProcessNewBlock
    <2> DEFINE Rest == /\ status' \in {"up", "down", "panicked"}
                       /\ view' \in SUBSET Block
                       /\ IsMapTo(confirming', Counter)
                       /\ IsMapTo(snapshot', Block)
                       /\ processed' \in SUBSET Occurrence
    <2>2. ASSUME UNCHANGED <<status, view, confirming, snapshot, processed>>
          PROVE  Rest
      BY <2>2 DEF TypeOK
    <2>3. ASSUME snapshot' = Snapshot(confirming), UNCHANGED <<status, view, confirming, processed>>
          PROVE  Rest
      BY <2>3, SnapshotType DEF TypeOK
    <2>4. ASSUME ConfirmEvents(b), UNCHANGED status
          PROVE  Rest
      <3> DEFINE u == Updated(b)
      <3>1. IsMapTo(u, Counter)
        BY <2>1, UpdatedType
      <3> HIDE DEF u
      <3>2. ASSUME NEW S, confirming' = StopConfirming(u, S),
                   view' = ViewAfter(UpdatedView(b), confirming')
            PROVE  view' \in SUBSET Block /\ IsMapTo(confirming', Counter)
        BY <2>1, <3>1, <3>2, StopConfirmingType, ViewType
      <3>3. CASE /\ Process(Due(b))
                 /\ confirming' = StopConfirming(u, Due(b))
                 /\ view' = ViewAfter(UpdatedView(b), confirming')
                 /\ snapshot' = Snapshot(confirming')
        <4>1. processed' \in SUBSET Occurrence
          BY <3>3, DueType, ProcessType
        <4>2. IsMapTo(snapshot', Block)
          BY <3>2, <3>3, SnapshotType
        <4> QED
          BY <2>4, <3>2, <3>3, <4>1, <4>2 DEF TypeOK
      <3>4. ASSUME NEW failed \in Due(b), NEW ok \in SUBSET (Due(b) \ {failed}),
                   Process(ok), confirming' = StopConfirming(u, ok \cup {failed}),
                   view' = ViewAfter(UpdatedView(b), confirming'), UNCHANGED snapshot
            PROVE  Rest
        <4>1. processed' \in SUBSET Occurrence
          <5>1. ok \in SUBSET DOMAIN confirming
            BY <3>4, DueType
          <5> QED
            BY <3>4, <5>1, ProcessType
        <4> QED
          BY Zenon, <2>4, <3>2, <3>4, <4>1 DEF TypeOK
      <3> QED
        BY Zenon, <2>4, <3>3, <3>4 DEF ConfirmEvents, u
    <2>5. ASSUME Die("panicked"), UNCHANGED <<snapshot, processed>>
          PROVE  Rest
      BY <2>5, DieType DEF TypeOK
    <2>6. Rest
      BY <1>3, <2>2, <2>3, <2>4, <2>5 DEF ProcessNewBlock
    <2> QED
      BY <1>3, <2>1, <2>6 DEF ProcessNewBlock, TypeOK
  <1>4. CASE Crash
    BY <1>4, DieType DEF Crash, TypeOK
  <1>5. CASE CrashInHandler
    <2>1. CASE TakeBlock /\ \E ok \in SUBSET Due(Head(blocks).block) : Process(ok)
      <3>1. processed' \in SUBSET Occurrence
        BY <2>1, DueType, ProcessType
      <3>2. /\ blocks' \in Seq(BlockMsg) /\ canon' \in SUBSET Block
            /\ UNCHANGED <<chain, peak, sent, logs>>
        BY <2>1, TakeBlockType
      <3> QED
        BY <1>5, <3>1, <3>2, DieType DEF CrashInHandler, TypeOK
    <2>2. ASSUME NEW e \in Event, NEW b \in Block, NEW removed \in BOOLEAN,
                 TakeLog(e, b, removed), UNCHANGED processed
          PROVE  TypeOK'
      BY <1>5, <2>2, TakeLogType, DieType DEF CrashInHandler, TypeOK
    <2> QED
      BY <1>5, <2>1, <2>2 DEF CrashInHandler
  <1>6. CASE Restart
    <2>1. IsMapTo(Restored(snapshot), Counter)
      BY DEF TypeOK, Restored, IsMapTo, Counter
    <2> QED
      BY <1>6, <2>1 DEF Restart, TypeOK
  <1>7. CASE UNCHANGED vars
    BY <1>7 DEF vars, TypeOK
  <1> QED
    BY <1>1, <1>2, <1>3, <1>4, <1>5, <1>6, <1>7 DEF Next

(* The initial state is typed. *)
LEMMA InitType == Init => TypeOK
    BY DEF Init, TypeOK, NoneConfirming, IsMapTo

(* The state of the coordinator's confirmation protocol is always well     *)
(* typed: in particular a restart restores well-formed counters.           *)
THEOREM TypeCorrect == Spec => []TypeOK
  <1> QED
    BY InitType, TypeStep, PTL DEF Spec

-----------------------------------------------------------------------------
(***************************************************************************)
(* The inductive invariant.  ViewIsSuffix alone is not inductive: a block  *)
(* taken from the queue keeps it only because the queue carries the chain  *)
(* on, block by block, from the chain already taken.                       *)
(***************************************************************************)

(* At most one block per height. *)
IsChain(S) == \A c, d \in S : Number[c] = Number[d] => c = d

(* m follows the chain S in the feed. *)
Follows(S, m) ==
    /\ m.chain = Adopt(S, m.block)
    /\ \/ IsTip(m.block, S)
       \/ m.block \notin S /\ (Below(S, m.block) = {} \/ Parent[m.block] \in S)

(* The chain before the i-th block of the queue q, when S is taken. *)
Before(S, q, i) == IF i = 1 THEN S ELSE q[i - 1].chain

QueueInv ==
    /\ IsChain(canon)
    /\ \A i \in 1..Len(blocks) : Follows(Before(canon, blocks, i), blocks[i])
    /\ chain = Before(canon, blocks, Len(blocks) + 1)

(* A count that moved since its event started ends in the notified chain. *)
CountInv ==
    \A e \in DOMAIN confirming :
        \/ confirming[e].last = Number[confirming[e].block]
        \/ \E c \in canon : Number[c] >= confirming[e].last

(* The view is cleared with the last event that is confirming. *)
EmptyView == DOMAIN confirming = {} => view = {}

IInv == TypeOK /\ QueueInv /\ ViewIsSuffix /\ EmptyView /\ CountInv /\ NoPanic

(* Adopting a block keeps one block per height. *)
LEMMA AdoptIsChain ==
    ASSUME NEW S \in SUBSET Block, NEW b \in Block, IsChain(S)
    PROVE  IsChain(Adopt(S, b)) /\ b \in Adopt(S, b) /\ Adopt(S, b) \in SUBSET Block
    BY DEF IsChain, Adopt, Below

(* A message that follows the chain taken connects to a view that is the   *)
(* end of that chain, and the updated view is the end of the new chain.    *)
LEMMA UpdateKeepsSuffix ==
    ASSUME TypeOK, ViewIsSuffix, IsChain(canon),
           NEW m \in BlockMsg, Follows(canon, m)
    PROVE  LET v == UpdatedView(m.block)
           IN /\ Connects(m.block)
              /\ v \subseteq m.chain
              /\ \A x \in v, c \in m.chain : Number[c] >= Number[x] => c \in v
  <1> DEFINE b == m.block
  <1>0. b \in Block /\ canon \in SUBSET Block /\ view \in SUBSET Block
    BY DEF TypeOK, BlockMsg
  <1>1. CASE b \in view
    <2>1. IsTip(b, canon)
      BY <1>1 DEF Follows, ViewIsSuffix
    <2>2. m.chain = canon
      BY <1>0, <2>1 DEF Follows, Adopt, Below, IsTip, IsChain
    <2> QED
      BY <1>1, <2>2 DEF ViewIsSuffix, UpdatedView, Connects
  <1>2. CASE b \notin view
    <2>1. b \notin canon \/ view = {}
      BY <1>0, <1>2 DEF Follows, IsTip, ViewIsSuffix
    <2>2. Connects(b)
      <3> SUFFICES ASSUME NEW x \in Below(view, b) PROVE Parent[b] \in view
        BY DEF Connects
      <3>1. x \in canon /\ Number[x] < Number[b] /\ x \in view
        BY DEF Below, ViewIsSuffix
      <3>2. Parent[b] \in canon /\ b # Genesis
        BY <1>0, <2>1, <3>1, BlockTreeAssumption DEF Follows, Below, IsTip
      <3>3. Number[Parent[b]] >= Number[x]
        BY <1>0, <3>1, <3>2, BlockTreeAssumption
      <3> QED
        BY <3>1, <3>2, <3>3 DEF ViewIsSuffix
    <2>3. UpdatedView(b) = Adopt(view, b) /\ m.chain = Adopt(canon, b)
      BY <1>2 DEF UpdatedView, Follows
    <2>4. Adopt(view, b) \subseteq Adopt(canon, b)
      BY DEF Adopt, Below, ViewIsSuffix
    <2>5. ASSUME NEW x \in Adopt(view, b), NEW c \in Adopt(canon, b), Number[c] >= Number[x]
          PROVE  c \in Adopt(view, b)
      BY <1>0, <2>5 DEF Adopt, Below, ViewIsSuffix
    <2> QED
      BY <2>2, <2>3, <2>4, <2>5
  <1> QED
    BY <1>1, <1>2

(* Taking a block moves the chain taken one message along the queue. *)
LEMMA TakeBlockQueue ==
    ASSUME TypeOK, QueueInv, TakeBlock
    PROVE  /\ Head(blocks) \in BlockMsg
           /\ Follows(canon, Head(blocks))
           /\ canon' = Head(blocks).chain
           /\ Head(blocks).block \in canon'
           /\ QueueInv'
  <1>1. blocks \in Seq(BlockMsg) /\ blocks # <<>> /\ blocks' = Tail(blocks)
    BY DEF TypeOK, TakeBlock
  <1>2. /\ Len(blocks) \in Nat \ {0} /\ Head(blocks) = blocks[1]
        /\ Head(blocks) \in BlockMsg
        /\ Len(blocks') = Len(blocks) - 1
        /\ \A i \in 1..Len(blocks') : blocks'[i] = blocks[i + 1]
    BY <1>1, Front
  <1>3. canon' = blocks[1].chain /\ chain' = chain
    BY <1>2 DEF TakeBlock
  <1>4. Follows(canon, blocks[1])
    <2>1. 1 \in 1..Len(blocks)
      BY <1>2
    <2>2. Follows(Before(canon, blocks, 1), blocks[1])
      BY <2>1 DEF QueueInv
    <2> QED
      BY <2>2 DEF Before
  <1>5. IsChain(canon') /\ Head(blocks).block \in canon'
    <2>1. canon \in SUBSET Block /\ IsChain(canon) /\ blocks[1].block \in Block
      BY <1>2 DEF QueueInv, TypeOK, BlockMsg
    <2>2. canon' = Adopt(canon, blocks[1].block)
      BY <1>3, <1>4 DEF Follows
    <2> QED
      BY <1>2, <2>1, <2>2, AdoptIsChain
  <1>6. \A i \in 1..Len(blocks) : Before(canon', blocks', i) = Before(canon, blocks, i + 1)
    <2> SUFFICES ASSUME NEW i \in 1..Len(blocks)
                 PROVE  Before(canon', blocks', i) = Before(canon, blocks, i + 1)
      OBVIOUS
    <2>1. CASE i = 1
      BY <1>3, <2>1 DEF Before
    <2>2. CASE i # 1
      <3>1. i - 1 \in 1..Len(blocks') /\ i + 1 # 1 /\ (i - 1) + 1 = (i + 1) - 1
        BY <1>2, <2>2
      <3>2. blocks'[i - 1] = blocks[(i + 1) - 1]
        BY <1>2, <3>1
      <3> QED
        BY <2>2, <3>1, <3>2 DEF Before
    <2> QED
      BY <2>1, <2>2
  <1>7. \A i \in 1..Len(blocks') : Follows(Before(canon', blocks', i), blocks'[i])
    <2> SUFFICES ASSUME NEW i \in 1..Len(blocks') PROVE Follows(Before(canon', blocks', i), blocks'[i])
      OBVIOUS
    <2>1. i \in 1..Len(blocks) /\ i + 1 \in 1..Len(blocks)
      BY <1>2
    <2>2. Before(canon', blocks', i) = Before(canon, blocks, i + 1) /\ blocks'[i] = blocks[i + 1]
      BY <1>2, <1>6, <2>1
    <2>3. Follows(Before(canon, blocks, i + 1), blocks[i + 1])
      BY <2>1 DEF QueueInv
    <2> QED
      BY <2>2, <2>3
  <1>8. chain' = Before(canon', blocks', Len(blocks') + 1)
    <2>1. Len(blocks') + 1 = Len(blocks) /\ Len(blocks) \in 1..Len(blocks)
      BY <1>2
    <2>2. Before(canon', blocks', Len(blocks)) = Before(canon, blocks, Len(blocks) + 1)
      BY <1>6, <2>1
    <2> QED
      BY <1>3, <2>1, <2>2 DEF QueueInv, Before
  <1> QED
    BY Zenon, <1>2, <1>3, <1>4, <1>5, <1>7, <1>8 DEF QueueInv, Follows

(* A notification as BlockFeed allows it extends the queue. *)
LEMMA NotifyQueue ==
    ASSUME TypeOK, QueueInv, NEW b \in Block, NotifyBlock(b)
    PROVE  QueueInv'
  <1> DEFINE m == [block |-> b, chain |-> chain', seq |-> sent']
  <1>1. blocks' = Append(blocks, m) /\ canon' = canon
    BY DEF NotifyBlock
  <1>2. Follows(chain, m)
    BY DEF NotifyBlock, Follows, Adopt, Below, IsTip,
           Feed!Notify, Feed!MayNotify, Feed!Adopt, Feed!Below, Feed!IsTip
  <1>3. chain' \in SUBSET Block /\ sent' \in Nat
    BY DEF NotifyBlock, TypeOK, Feed!Notify, Feed!Adopt, Feed!Below
  <1>4. m \in BlockMsg
    BY <1>3 DEF BlockMsg
  <1>5. m.chain = chain'
    OBVIOUS
  <1> HIDE DEF m
  <1>6. /\ Len(blocks) \in Nat /\ Len(blocks') = Len(blocks) + 1
        /\ blocks'[Len(blocks) + 1] = m
        /\ \A i \in 1..Len(blocks) : blocks'[i] = blocks[i]
    BY <1>1, <1>4 DEF TypeOK
  <1>7. \A i \in 1..Len(blocks) + 1 : Before(canon', blocks', i) = Before(canon, blocks, i)
    BY <1>1, <1>6 DEF Before
  <1>8. \A i \in 1..Len(blocks') : Follows(Before(canon', blocks', i), blocks'[i])
    <2> SUFFICES ASSUME NEW i \in 1..Len(blocks') PROVE Follows(Before(canon', blocks', i), blocks'[i])
      OBVIOUS
    <2>1. Before(canon', blocks', i) = Before(canon, blocks, i)
      BY <1>6, <1>7
    <2>2. CASE i = Len(blocks) + 1
      BY <1>2, <1>6, <2>1, <2>2 DEF QueueInv
    <2>3. CASE i \in 1..Len(blocks)
      BY <1>6, <2>1, <2>3 DEF QueueInv
    <2> QED
      BY <1>6, <2>2, <2>3
  <1>9. chain' = Before(canon', blocks', Len(blocks') + 1)
    BY <1>5, <1>6 DEF Before
  <1> QED
    BY <1>1, <1>8, <1>9 DEF QueueInv

(* After a block every count that moved ends in the chain with the block. *)
LEMMA UpdatedCount ==
    ASSUME TypeOK, QueueInv, ViewIsSuffix, CountInv, TakeBlock,
           NEW e \in DOMAIN confirming
    PROVE  LET u == Updated(Head(blocks).block)[e]
           IN \/ u.last = Number[u.block]
              \/ \E c \in canon' : Number[c] >= u.last
  <1> DEFINE m == Head(blocks)
             b == m.block
  <1>1. /\ m \in BlockMsg /\ Follows(canon, m) /\ canon' = m.chain
        /\ b \in canon' /\ canon' \in SUBSET Block /\ b \in Block
    BY TakeBlockQueue, TakeBlockType
  <1>2. CASE b \in view
    <2>1. IsTip(b, canon)
      BY <1>1, <1>2 DEF Follows, ViewIsSuffix
    <2>0. canon \in SUBSET Block /\ IsChain(canon)
      BY DEF TypeOK, QueueInv
    <2>2. Adopt(canon, b) = canon
      <3> HIDE DEF b
      <3> QED
        BY <1>1, <2>0, <2>1 DEF Adopt, Below, IsTip, IsChain
    <2>3. canon' = canon
      BY <1>1, <2>2 DEF Follows
    <2> QED
      BY <1>2, <2>3 DEF Updated, CountInv
  <1>3. CASE b \notin view
    <2>1. Updated(b)[e].last = Number[b]
      BY <1>3 DEF Updated, TypeOK, IsMapTo, Counter
    <2>2. Number[b] >= Number[b]
      BY <1>1
    <2> QED
      BY <1>1, <2>1, <2>2
  <1> QED
    BY <1>2, <1>3

(* Process_block_confirmations keeps the invariant. *)
LEMMA ConfirmStep ==
    ASSUME IInv, TakeBlock, DOMAIN confirming # {}, NEW S,
           confirming' = StopConfirming(Updated(Head(blocks).block), S),
           view' = ViewAfter(UpdatedView(Head(blocks).block), confirming')
    PROVE  ViewIsSuffix' /\ EmptyView' /\ CountInv'
  <1> DEFINE m == Head(blocks)
             b == m.block
  <1>0. /\ TypeOK /\ QueueInv /\ ViewIsSuffix /\ CountInv /\ IsChain(canon)
        /\ m \in BlockMsg /\ Follows(canon, m) /\ canon' = m.chain /\ b \in Block
    BY TakeBlockQueue, TakeBlockType DEF IInv, QueueInv
  <1>1. ViewIsSuffix'
    BY Zenon, <1>0, UpdateKeepsSuffix DEF ViewAfter, ViewIsSuffix
  <1>2. EmptyView'
    BY DEF EmptyView, ViewAfter
  <1>3. CountInv'
    <2> SUFFICES ASSUME NEW e \in DOMAIN confirming'
                 PROVE  \/ confirming'[e].last = Number[confirming'[e].block]
                        \/ \E c \in canon' : Number[c] >= confirming'[e].last
      BY DEF CountInv
    <2>1. e \in DOMAIN confirming /\ confirming'[e] = Updated(b)[e]
      BY <1>0, UpdatedType DEF StopConfirming
    <2> QED
      BY Zenon, <1>0, <2>1, UpdatedCount
  <1> QED
    BY <1>1, <1>2, <1>3

(* Every step keeps the invariant when no block is withheld from the view. *)
LEMMA SafetyStep ==
    ASSUME ~EarlierStagesMayFail, IInv, [Next]_vars
    PROVE  IInv'
  <1>0. TypeOK' /\ TypeOK /\ QueueInv /\ ViewIsSuffix /\ EmptyView /\ CountInv /\ NoPanic
    BY TypeStep DEF IInv
  <1> DEFINE Local == ViewIsSuffix /\ EmptyView /\ CountInv /\ NoPanic
  <1>1. ASSUME NEW b \in Block, NotifyBlock(b) PROVE QueueInv' /\ Local'
    <2>1. QueueInv'
      BY <1>0, <1>1, NotifyQueue
    <2>2. Local'
      BY Zenon, <1>0, <1>1 DEF NotifyBlock, ViewIsSuffix, EmptyView, CountInv, NoPanic
    <2> QED
      BY <2>1, <2>2
  <1>2. CASE ProcessNewRskEvent
    <2>1. PICK e \in Event, b \in Block, removed \in BOOLEAN :
            /\ TakeLog(e, b, removed)
            /\ confirming' =
                   IF removed THEN StopConfirming(confirming, {e})
                   ELSE [f \in DOMAIN confirming \cup {e} |->
                            IF f = e THEN [block |-> b, last |-> Number[b]] ELSE confirming[f]]
            /\ view' = IF e \in DOMAIN confirming THEN ViewAfter(view, confirming') ELSE view
      BY Zenon, <1>2 DEF ProcessNewRskEvent
    <2>2. UNCHANGED <<chain, blocks, canon>>
      BY <2>1 DEF TakeLog
    <2>3. QueueInv'
      BY <1>0, <2>2 DEF QueueInv
    <2>4. ViewIsSuffix'
      BY Zenon, <1>0, <2>1, <2>2 DEF ViewIsSuffix, ViewAfter
    <2>5. EmptyView'
      BY Zenon, <1>0, <2>1 DEF EmptyView, ViewAfter, StopConfirming
    <2>6. CountInv'
      <3>1. CASE removed
        BY <1>0, <2>1, <2>2, <3>1 DEF CountInv, StopConfirming
      <3>2. CASE ~removed
        BY Zenon, <1>0, <2>1, <2>2, <3>2 DEF CountInv
      <3> QED
        BY <3>1, <3>2
    <2>7. NoPanic'
      BY <1>0, <1>2 DEF ProcessNewRskEvent, NoPanic
    <2> QED
      BY <1>0, <2>3, <2>4, <2>5, <2>6, <2>7 DEF IInv
  <1>3. CASE ProcessNewBlock
    <2> DEFINE b == Head(blocks).block
    <2>1. TakeBlock
      BY <1>3 DEF ProcessNewBlock
    <2>2. QueueInv'
      BY <1>0, <2>1, TakeBlockQueue
    <2>3. Connects(b)
      BY <1>0, <2>1, TakeBlockQueue, UpdateKeepsSuffix DEF QueueInv
    <2>4. ASSUME DOMAIN confirming = {}, UNCHANGED <<status, view, confirming, processed>>
          PROVE  Local'
      <3>1. view = {} /\ view' = {} /\ DOMAIN confirming' = {} /\ status' = status
        BY <1>0, <2>4 DEF EmptyView
      <3> QED
        BY <1>0, <3>1 DEF ViewIsSuffix, EmptyView, CountInv, NoPanic
    <2>5. ASSUME DOMAIN confirming # {}, ConfirmEvents(b), UNCHANGED status
          PROVE  Local'
      <3>1. PICK S : /\ confirming' = StopConfirming(Updated(b), S)
                     /\ view' = ViewAfter(UpdatedView(b), confirming')
        BY Zenon, <2>5 DEF ConfirmEvents
      <3>2. ViewIsSuffix' /\ EmptyView' /\ CountInv'
        BY <2>1, <2>5, <3>1, ConfirmStep
      <3>3. NoPanic'
        BY <1>0, <2>5 DEF NoPanic
      <3> QED
        BY <3>2, <3>3
    <2>6. \/ DOMAIN confirming = {} /\ UNCHANGED <<status, view, confirming, processed>>
          \/ DOMAIN confirming # {} /\ ConfirmEvents(b) /\ UNCHANGED status
      BY <1>3, <2>3 DEF ProcessNewBlock
    <2>7. Local'
      BY <2>4, <2>5, <2>6
    <2> QED
      BY <1>0, <2>2, <2>7 DEF IInv
  <1>4. CASE Crash
    <2>1. QueueInv'
      BY <1>0, <1>4 DEF Crash, network, QueueInv
    <2>2. Local'
      BY <1>4 DEF Crash, Die, ViewIsSuffix, EmptyView, CountInv, NoPanic, NoneConfirming
    <2> QED
      BY <1>0, <2>1, <2>2 DEF IInv
  <1>5. CASE CrashInHandler
    <2>1. QueueInv'
      <3>1. CASE TakeBlock
        BY <1>0, <3>1, TakeBlockQueue
      <3>2. CASE \E e \in Event, b \in Block, removed \in BOOLEAN : TakeLog(e, b, removed)
        BY <1>0, <3>2 DEF TakeLog, QueueInv
      <3> QED
        BY <1>5, <3>1, <3>2 DEF CrashInHandler
    <2>2. Local'
      BY <1>5 DEF CrashInHandler, Die, ViewIsSuffix, EmptyView, CountInv, NoPanic, NoneConfirming
    <2> QED
      BY <1>0, <2>1, <2>2 DEF IInv
  <1>6. CASE Restart
    <2>1. UNCHANGED <<chain, blocks, canon>> /\ view' = {} /\ status' = "up"
      BY <1>6 DEF Restart, network
    <2>2. QueueInv' /\ ViewIsSuffix' /\ EmptyView' /\ NoPanic'
      BY <1>0, <2>1 DEF QueueInv, ViewIsSuffix, EmptyView, NoPanic
    <2>3. CountInv'
      BY <1>6 DEF Restart, Restored, CountInv
    <2> QED
      BY <1>0, <2>2, <2>3 DEF IInv
  <1>7. CASE UNCHANGED vars
    BY Zenon, <1>0, <1>7 DEF vars, network, IInv, QueueInv, ViewIsSuffix, EmptyView, CountInv, NoPanic
  <1> QED
    BY <1>0, <1>1, <1>2, <1>3, <1>4, <1>5, <1>6, <1>7 DEF Next, IInv

(* The invariant holds when no block is withheld from the view. *)
LEMMA Invariant ==
    ASSUME ~EarlierStagesMayFail
    PROVE  Spec => []IInv
  <1>1. Init => IInv
    <2> SUFFICES ASSUME Init PROVE IInv
      OBVIOUS
    <2>1. TypeOK
      BY InitType
    <2>2. blocks = <<>> /\ Len(blocks) = 0 /\ canon = {} /\ chain = {}
      BY DEF Init
    <2>3. QueueInv
      BY <2>2 DEF QueueInv, Before, IsChain
    <2>4. ViewIsSuffix /\ EmptyView /\ CountInv /\ NoPanic
      BY DEF Init, ViewIsSuffix, EmptyView, CountInv, NoPanic, NoneConfirming
    <2> QED
      BY <2>1, <2>3, <2>4 DEF IInv
  <1>2. IInv /\ [Next]_vars => IInv'
    BY SafetyStep
  <1> QED
    BY <1>1, <1>2, PTL DEF Spec

(* The view of a processor is a gapless end of the chain the coordinator   *)
(* was told of, for every tree of blocks, every interleaving of the two    *)
(* queues and any crashes, provided process_new_block always reaches       *)
(* BlockchainView::update (blockchain_tracker.rs:145-247).                 *)
THEOREM ViewCorrect ==
    ASSUME ~EarlierStagesMayFail
    PROVE  Spec => []ViewIsSuffix
  <1>1. IInv => ViewIsSuffix
    BY DEF IInv
  <1> QED
    BY <1>1, Invariant, PTL

(* Under the same proviso validate_consecutive_block never takes the       *)
(* coordinator down (blockchain_tracker.rs:304-314).                       *)
THEOREM NeverPanics ==
    ASSUME ~EarlierStagesMayFail
    PROVE  Spec => []NoPanic
  <1>1. IInv => NoPanic
    BY DEF IInv
  <1> QED
    BY <1>1, Invariant, PTL

(* An event that is due is Required blocks deep in the chain taken. *)
LEMMA DueIsDeep ==
    ASSUME TypeOK, QueueInv, ViewIsSuffix, CountInv, TakeBlock,
           NEW e \in Due(Head(blocks).block)
    PROVE  \E c \in canon' : Number[c] + 1 >= Number[confirming[e].block] + Required
  <1> DEFINE b == Head(blocks).block
             u == Updated(b)[e]
  <1>1. e \in DOMAIN confirming /\ IsConfirmed(u)
    BY DEF Due
  <1>2. b \in Block /\ canon' \in SUBSET Block
    BY TakeBlockType
  <1>3. u \in Counter /\ u.block = confirming[e].block
    BY Zenon, <1>1, <1>2 DEF Updated, TypeOK, IsMapTo, Counter
  <1>4. \/ u.last = Number[u.block]
        \/ \E c \in canon' : Number[c] >= u.last
    BY <1>1, UpdatedCount
  <1> HIDE DEF u
  <1>5. u.block \in Block /\ u.last \in Nat
    BY <1>3 DEF Counter
  <1>6. u.last + 1 >= Number[u.block] + Required
    BY <1>1, <1>5 DEF IsConfirmed, Accum
  <1>7. PICK c \in canon' : Number[c] >= u.last
    BY <1>4, <1>5, <1>6
  <1>8. Number[c] + 1 >= Number[u.block] + Required
    BY <1>2, <1>5, <1>6, <1>7
  <1> QED
    BY <1>3, <1>8

(* Whenever an event is processed the chain the coordinator was told of    *)
(* reaches Required blocks from the event's own: a restart, which restores *)
(* only the block an event started at, and a rollback never make a count   *)
(* run ahead of the chain (blockchain_tracker.rs:41-48, 209-247, 362-374). *)
THEOREM DepthCorrect ==
    ASSUME ~EarlierStagesMayFail
    PROVE  Spec => ConfirmedDepth
  <1> DEFINE Deep == \A r \in processed' \ processed :
                        \E c \in canon' : Number[c] + 1 >= Number[r[2]] + Required
  <1>1. IInv /\ [Next]_vars => [Deep]_vars
    <2> SUFFICES ASSUME IInv, Next PROVE Deep
      OBVIOUS
    <2>0. TypeOK /\ QueueInv /\ ViewIsSuffix /\ CountInv
      BY DEF IInv
    <2>1. ASSUME TakeBlock, NEW S \in SUBSET Due(Head(blocks).block), Process(S)
          PROVE  Deep
      <3> SUFFICES ASSUME NEW r \in processed' \ processed
                   PROVE  \E c \in canon' : Number[c] + 1 >= Number[r[2]] + Required
        OBVIOUS
      <3>1. PICK e \in S : r = <<e, confirming[e].block>>
        BY <2>1 DEF Process
      <3>2. r[2] = confirming[e].block /\ e \in Due(Head(blocks).block)
        BY <2>1, <3>1
      <3> QED
        BY <2>0, <2>1, <3>2, DueIsDeep
    <2>2. ASSUME UNCHANGED processed PROVE Deep
      BY <2>2
    <2>3. CASE ProcessNewBlock
      <3>1. TakeBlock
        BY <2>3 DEF ProcessNewBlock
      <3>2. \/ UNCHANGED processed
            \/ ConfirmEvents(Head(blocks).block)
        BY <2>3 DEF ProcessNewBlock
      <3>3. ASSUME ConfirmEvents(Head(blocks).block)
            PROVE  \E S \in SUBSET Due(Head(blocks).block) : Process(S)
        BY Zenon, <3>3 DEF ConfirmEvents
      <3> QED
        BY <2>1, <2>2, <3>1, <3>2, <3>3
    <2>4. CASE CrashInHandler
      <3>1. \/ UNCHANGED processed
            \/ TakeBlock /\ \E S \in SUBSET Due(Head(blocks).block) : Process(S)
        BY <2>4 DEF CrashInHandler
      <3> QED
        BY <2>1, <2>2, <3>1
    <2>5. ASSUME \/ \E b \in Block : NotifyBlock(b)
                 \/ ProcessNewRskEvent \/ Crash \/ Restart
          PROVE  UNCHANGED processed
      BY Zenon, <2>5 DEF NotifyBlock, ProcessNewRskEvent, Crash, Restart
    <2> HIDE DEF Deep
    <2> QED
      BY <2>2, <2>3, <2>4, <2>5 DEF Next
  <1> QED
    BY <1>1, Invariant, PTL DEF Spec, ConfirmedDepth

-----------------------------------------------------------------------------
(***************************************************************************)
(* What confirmations are for.  ProcessedIsFinal is not inductive: that an *)
(* event which is due is still on the chain follows from what is pending   *)
(* in the two queues.  An event whose block has been replaced has its      *)
(* removal in the queue of logs, and no block that may be taken before     *)
(* that removal is high enough to confirm the event, because the fork was  *)
(* allowed only while the chain was too low for that.                      *)
(***************************************************************************)

(* The removal of the event e of block b is at place i of the logs L or    *)
(* after it, and the blocks of B sent before it are low.                   *)
Pending(e, b, i, L, B) ==
    \E j \in i..Len(L) :
        /\ <<e, b>> \in L[j].removed
        /\ \A k \in 1..Len(B) : B[k].seq < L[j].seq => Number[B[k].block] < Number[b] + MaxReorg

(* Nothing is higher than peak, and the logs are queued as they were sent. *)
HeightInv ==
    /\ \A c \in chain : Number[c] <= peak
    /\ \A k \in 1..Len(blocks) : Number[blocks[k].block] <= peak
    /\ \A i \in 1..Len(logs) :
          /\ logs[i].seq <= sent
          /\ \A j \in i..Len(logs) : logs[i].seq <= logs[j].seq

(* An event of block b that was reported: b is on the chain, or the        *)
(* removal is pending from place i of the logs on.                         *)
Reported(e, b, i) ==
    /\ e \in EventsIn[b] /\ Number[b] <= peak
    /\ b \in chain \/ (MaxReorg > 0 /\ Pending(e, b, i, logs, blocks))

(* The same of the state after a step, for an e and a b of either state. *)
StillReported(e, b, i) ==
    /\ e \in EventsIn[b] /\ Number[b] <= peak'
    /\ b \in chain' \/ (MaxReorg > 0 /\ Pending(e, b, i, logs', blocks'))

LogInv ==
    \A i \in 1..Len(logs) : \A e \in Event, b \in Block :
        <<e, b>> \in logs[i].added => Reported(e, b, i + 1)

ConfirmingInv ==
    \A e \in DOMAIN confirming :
        /\ Reported(e, confirming[e].block, 1)
        /\ confirming[e].last <= peak
        /\ \/ confirming[e].block \in chain
           \/ confirming[e].last < Number[confirming[e].block] + MaxReorg

SnapshotInv == \A e \in DOMAIN snapshot : Reported(e, snapshot[e], 1)

(* A processed event is too deep in the chain for any fork. *)
ProcessedInv == \A r \in processed : r[2] \in chain /\ Number[r[2]] + MaxReorg <= peak

FinalInv == TypeOK /\ HeightInv /\ LogInv /\ ConfirmingInv /\ SnapshotInv /\ ProcessedInv

(* What the queues hold. *)
LEMMA QueueTypes ==
    ASSUME TypeOK
    PROVE  /\ Len(logs) \in Nat /\ Len(blocks) \in Nat /\ sent \in Nat /\ peak \in Nat
           /\ \A i \in 1..Len(logs) : logs[i] \in LogBatch /\ logs[i].seq \in Nat
           /\ \A k \in 1..Len(blocks) : /\ blocks[k].block \in Block /\ blocks[k].seq \in Nat
                                        /\ Number[blocks[k].block] \in Nat
  <1>1. logs \in Seq(LogBatch) /\ blocks \in Seq(BlockMsg) /\ sent \in Nat /\ peak \in Nat
    BY DEF TypeOK
  <1>2. \A i \in 1..Len(logs) : logs[i] \in LogBatch
    BY <1>1
  <1>3. \A k \in 1..Len(blocks) : blocks[k] \in BlockMsg
    BY <1>1
  <1>4. \A l \in LogBatch : l.seq \in Nat
    BY DEF LogBatch
  <1>5. \A m \in BlockMsg : m.block \in Block /\ m.seq \in Nat /\ Number[m.block] \in Nat
    BY DEF BlockMsg
  <1>6. Len(logs) \in Nat /\ Len(blocks) \in Nat
    BY <1>1
  <1> QED
    BY Zenon, <1>1, <1>2, <1>3, <1>4, <1>5, <1>6

(* Notifying a block sends it and, where its fork or itself has events, a  *)
(* batch of logs, both after everything sent before.                       *)
LEMMA NotifyShape ==
    ASSUME TypeOK, HeightInv, NEW n \in Block, NotifyBlock(n)
    PROVE  /\ peak \in Nat /\ peak' \in Nat /\ peak <= peak' /\ Number[n] <= peak'
           /\ Number[n] + MaxReorg > peak
           /\ chain' = Below(chain, n) \cup {n}
           /\ sent' = sent + 1
           /\ Len(blocks') = Len(blocks) + 1
           /\ blocks'[Len(blocks) + 1].block = n /\ blocks'[Len(blocks) + 1].seq = sent + 1
           /\ \A k \in 1..Len(blocks) : blocks'[k] = blocks[k]
           /\ Len(logs') \in {Len(logs), Len(logs) + 1}
           /\ \A i \in 1..Len(logs) : logs'[i] = logs[i]
           /\ Len(logs') = Len(logs) + 1 =>
                /\ logs'[Len(logs) + 1].removed = OccurrencesIn(chain \ chain')
                /\ logs'[Len(logs) + 1].added = OccurrencesIn(chain' \ chain)
                /\ logs'[Len(logs) + 1].seq = sent + 1
           /\ OccurrencesIn(chain \ chain') # {} => Len(logs') = Len(logs) + 1
  <1> DEFINE m == [block |-> n, chain |-> chain', seq |-> sent']
             l == [removed |-> OccurrencesIn(chain \ chain'), added |-> OccurrencesIn(chain' \ chain),
                   seq |-> sent']
  <1>1. /\ chain' = Below(chain, n) \cup {n} /\ sent' = sent + 1 /\ sent' \in Nat
        /\ Number[n] + MaxReorg > peak /\ peak \in Nat
    BY DEF NotifyBlock, TypeOK, Feed!Notify, Feed!Adopt, Feed!Below, Below
  <1>2. peak' \in Nat /\ peak <= peak' /\ Number[n] <= peak'
    BY <1>1 DEF NotifyBlock
  <1>3. chain' \in SUBSET Block
    BY <1>1 DEF TypeOK, Below
  <1>4. m \in BlockMsg /\ m.block = n /\ m.seq = sent'
    BY <1>1, <1>3 DEF BlockMsg
  <1>5. l \in LogBatch /\ l.seq = sent'
        /\ l.removed = OccurrencesIn(chain \ chain') /\ l.added = OccurrencesIn(chain' \ chain)
    BY <1>1, <1>3 DEF LogBatch, OccurrencesIn
  <1>6. blocks' = Append(blocks, m)
    BY DEF NotifyBlock
  <1>7. /\ logs' = logs \/ logs' = Append(logs, l)
        /\ OccurrencesIn(chain \ chain') # {} => logs' = Append(logs, l)
    BY Zenon DEF NotifyBlock
  <1>8. blocks \in Seq(BlockMsg) /\ logs \in Seq(LogBatch)
    BY DEF TypeOK
  <1> HIDE DEF m, l
  <1>9. /\ Len(blocks') = Len(blocks) + 1 /\ blocks'[Len(blocks) + 1] = m
        /\ \A k \in 1..Len(blocks) : blocks'[k] = blocks[k]
    BY <1>4, <1>6, <1>8
  <1>10. CASE logs' = Append(logs, l)
    <2>1. /\ Len(logs') = Len(logs) + 1 /\ logs'[Len(logs) + 1] = l
          /\ \A i \in 1..Len(logs) : logs'[i] = logs[i]
      BY <1>5, <1>8, <1>10
    <2> QED
      BY Zenon, <1>1, <1>2, <1>4, <1>5, <1>9, <2>1
  <1>11. CASE logs' = logs /\ logs' # Append(logs, l)
    <2>1. Len(logs') = Len(logs) /\ OccurrencesIn(chain \ chain') = {}
          /\ \A i \in 1..Len(logs) : logs'[i] = logs[i]
      BY Zenon, <1>7, <1>11
    <2>2. Len(logs') # Len(logs) + 1
      BY <2>1, QueueTypes
    <2> QED
      BY Zenon, <1>1, <1>2, <1>4, <1>9, <2>1, <2>2
  <1> QED
    BY Zenon, <1>7, <1>10, <1>11

(* A removal that is pending stays so when a block is notified. *)
LEMMA NotifyPending ==
    ASSUME TypeOK, HeightInv, NEW n \in Block, NotifyBlock(n),
           NEW e, NEW b \in Block, NEW i \in Nat \ {0}, Pending(e, b, i, logs, blocks)
    PROVE  Pending(e, b, i, logs', blocks')
  <1>1. PICK j \in i..Len(logs) :
           /\ <<e, b>> \in logs[j].removed
           /\ \A k \in 1..Len(blocks) : blocks[k].seq < logs[j].seq => Number[blocks[k].block] < Number[b] + MaxReorg
    BY Zenon DEF Pending
  <1>2. Len(logs) \in Nat /\ Len(blocks) \in Nat /\ sent \in Nat
    BY DEF TypeOK
  <1>3. j \in 1..Len(logs) /\ j \in i..Len(logs')
    <2>1. Len(logs') \in {Len(logs), Len(logs) + 1}
      BY Zenon, NotifyShape
    <2> QED
      BY <1>2, <2>1
  <1>4. logs'[j] = logs[j] /\ logs[j].seq <= sent /\ logs[j].seq \in Nat
    BY Zenon, <1>3, NotifyShape, QueueTypes DEF HeightInv
  <1>5. ASSUME NEW k \in 1..Len(blocks'), blocks'[k].seq < logs'[j].seq
        PROVE  Number[blocks'[k].block] < Number[b] + MaxReorg
    <2>1. CASE k \in 1..Len(blocks)
      BY Zenon, <1>1, <1>4, <1>5, <2>1, NotifyShape
    <2>2. CASE k = Len(blocks) + 1
      <3>1. blocks'[k].seq = sent + 1
        BY Zenon, <2>2, NotifyShape
      <3>2. sent + 1 < logs[j].seq /\ logs[j].seq <= sent /\ logs[j].seq \in Nat
        BY Zenon, <1>4, <1>5, <3>1
      <3> QED
        BY <1>2, <3>2
    <2>3. Len(blocks') = Len(blocks) + 1
      BY Zenon, NotifyShape
    <2>4. k \in 1..Len(blocks) \/ k = Len(blocks) + 1
      BY <1>2, <2>3
    <2> QED
      BY Zenon, <2>1, <2>2, <2>4
  <1> QED
    BY Zenon, <1>1, <1>3, <1>4, <1>5 DEF Pending

(* A fork that replaces the block of an event puts the removal behind      *)
(* blocks that are all too low to confirm the event.                       *)
LEMMA NotifyRemoves ==
    ASSUME TypeOK, HeightInv, NEW n \in Block, NotifyBlock(n),
           NEW e \in Event, NEW b \in chain, b \notin chain', e \in EventsIn[b],
           NEW i \in 1..Len(logs) + 1
    PROVE  Pending(e, b, i, logs', blocks') /\ peak < Number[b] + MaxReorg
  <1>1. b \in Block /\ Number[b] \in Nat /\ Number[n] \in Nat
    BY DEF TypeOK
  <1>2. Number[n] <= Number[b]
    <2>0. chain' = Below(chain, n) \cup {n}
      BY Zenon, NotifyShape
    <2>1. b \notin Below(chain, n)
      BY <2>0
    <2>2. ~(Number[b] < Number[n])
      BY Zenon, <2>1 DEF Below
    <2> QED
      BY <1>1, <2>2
  <1>3. peak < Number[b] + MaxReorg
    <2>1. peak \in Nat /\ Number[n] + MaxReorg > peak
      BY Zenon, NotifyShape
    <2> QED
      BY <1>1, <1>2, <2>1
  <1>4. <<e, b>> \in OccurrencesIn(chain \ chain')
    BY <1>1 DEF OccurrencesIn, Occurrence
  <1> DEFINE j == Len(logs) + 1
  <1>5. Len(logs') = j /\ <<e, b>> \in logs'[j].removed /\ logs'[j].seq = sent + 1
    BY Zenon, <1>4, NotifyShape
  <1>6. Len(logs) \in Nat /\ Len(blocks) \in Nat /\ sent \in Nat
    BY DEF TypeOK
  <1>7. ASSUME NEW k \in 1..Len(blocks'), blocks'[k].seq < sent + 1
        PROVE  Number[blocks'[k].block] < Number[b] + MaxReorg
    <2>1. CASE k \in 1..Len(blocks)
      <3>1. blocks'[k] = blocks[k] /\ Number[blocks[k].block] <= peak /\ blocks[k].block \in Block
        BY Zenon, <2>1, NotifyShape, QueueTypes DEF HeightInv
      <3>2. Number[blocks[k].block] \in Nat /\ peak \in Nat
        BY Zenon, <3>1, NotifyShape
      <3> QED
        BY <1>1, <1>3, <3>1, <3>2
    <2>2. CASE k = Len(blocks) + 1
      <3>1. blocks'[k].seq = sent + 1
        BY Zenon, <2>2, NotifyShape
      <3> QED
        BY <1>6, <1>7, <3>1
    <2>3. Len(blocks') = Len(blocks) + 1
      BY Zenon, NotifyShape
    <2>4. k \in 1..Len(blocks) \/ k = Len(blocks) + 1
      BY <1>6, <2>3
    <2> QED
      BY Zenon, <2>1, <2>2, <2>4
  <1>8. j \in i..Len(logs')
    BY <1>5, <1>6
  <1> HIDE DEF j
  <1> QED
    BY Zenon, <1>3, <1>5, <1>7, <1>8 DEF Pending

(* What was reported stays reported when a block is notified. *)
LEMMA NotifyReported ==
    ASSUME TypeOK, HeightInv, NEW n \in Block, NotifyBlock(n),
           NEW e \in Event, NEW b \in Block, NEW i \in 1..Len(logs) + 1, Reported(e, b, i)
    PROVE  StillReported(e, b, i)
  <1>1. e \in EventsIn[b] /\ Number[b] \in Nat /\ Number[b] <= peak /\ peak \in Nat /\ peak' \in Nat /\ peak <= peak'
    BY Zenon, NotifyShape DEF Reported, StillReported
  <1>2. Number[b] <= peak'
    BY <1>1
  <1>3. CASE b \in chain'
    BY <1>1, <1>2, <1>3 DEF Reported, StillReported
  <1>4. CASE b \notin chain' /\ b \in chain
    <2>1. Pending(e, b, i, logs', blocks') /\ peak < Number[b] + MaxReorg
      BY <1>1, <1>4, NotifyRemoves
    <2>2. MaxReorg > 0
      BY <1>1, <2>1
    <2> QED
      BY <1>1, <1>2, <2>1, <2>2 DEF Reported, StillReported
  <1>5. CASE b \notin chain' /\ b \notin chain
    <2>1. MaxReorg > 0 /\ Pending(e, b, i, logs, blocks) /\ i \in Nat \ {0}
      BY <1>5 DEF Reported, StillReported
    <2>2. Pending(e, b, i, logs', blocks')
      BY <2>1, NotifyPending
    <2> QED
      BY <1>1, <1>2, <2>1, <2>2 DEF Reported, StillReported
  <1> QED
    BY <1>3, <1>4, <1>5

(* A place of a queue of n logs that may have grown by one. *)
LEMMA NewPlace ==
    ASSUME NEW n \in Nat, NEW l \in {n, n + 1}, NEW i \in 1..l, NEW j \in i..l
    PROVE  j \in 1..n \/ (j = n + 1 /\ l = n + 1)
  OBVIOUS

(* Notifying a block keeps the invariant. *)
LEMMA NotifyFinal ==
    ASSUME FinalInv, NEW n \in Block, NotifyBlock(n)
    PROVE  HeightInv' /\ LogInv' /\ ConfirmingInv' /\ SnapshotInv' /\ ProcessedInv'
  <1>0. /\ TypeOK /\ HeightInv /\ LogInv /\ ConfirmingInv /\ SnapshotInv /\ ProcessedInv
        /\ UNCHANGED <<confirming, snapshot, processed>>
    BY DEF FinalInv, NotifyBlock
  <1>1. Len(logs) \in Nat /\ Len(blocks) \in Nat /\ sent \in Nat /\ peak \in Nat /\ peak' \in Nat /\ peak <= peak'
    BY Zenon, <1>0, NotifyShape, QueueTypes DEF TypeOK
  <1>2. HeightInv'
    <2>1. \A c \in chain' : Number[c] <= peak'
      <3> SUFFICES ASSUME NEW c \in chain' PROVE Number[c] <= peak'
        OBVIOUS
      <3>1. CASE c = n
        BY Zenon, <1>0, <3>1, NotifyShape
      <3>2. CASE c \in chain
        <4>1. Number[c] \in Nat /\ Number[c] <= peak
          BY Zenon, <1>0, <3>2 DEF TypeOK, HeightInv
        <4> QED
          BY <1>1, <4>1
      <3>3. c \in Below(chain, n) \cup {n}
        BY Zenon, <1>0, NotifyShape
      <3> QED
        BY Zenon, <3>1, <3>2, <3>3 DEF Below
    <2>2. \A k \in 1..Len(blocks') : Number[blocks'[k].block] <= peak'
      <3> SUFFICES ASSUME NEW k \in 1..Len(blocks') PROVE Number[blocks'[k].block] <= peak'
        OBVIOUS
      <3>1. CASE k = Len(blocks) + 1
        BY Zenon, <1>0, <3>1, NotifyShape
      <3>2. CASE k \in 1..Len(blocks)
        <4>1. blocks'[k] = blocks[k] /\ blocks[k].block \in Block /\ Number[blocks[k].block] <= peak
          BY Zenon, <1>0, <3>2, NotifyShape, QueueTypes DEF HeightInv
        <4> QED
          BY <1>1, <4>1
      <3> QED
        <4>1. Len(blocks') = Len(blocks) + 1
          BY Zenon, <1>0, NotifyShape
        <4> QED
          BY <1>1, <3>1, <3>2, <4>1
    <2>3. ASSUME NEW i \in 1..Len(logs'), NEW j \in i..Len(logs')
          PROVE  logs'[i].seq <= sent' /\ logs'[i].seq <= logs'[j].seq
      <3>0. sent' = sent + 1 /\ Len(logs') \in {Len(logs), Len(logs) + 1}
        BY Zenon, <1>0, NotifyShape
      <3>1. ASSUME NEW h \in 1..Len(logs') PROVE logs'[h].seq \in Nat /\ logs'[h].seq <= sent'
        <4>1. CASE h \in 1..Len(logs)
          <5>1. logs'[h] = logs[h] /\ logs[h].seq \in Nat /\ logs[h].seq <= sent
            BY Zenon, <1>0, <4>1, NotifyShape, QueueTypes DEF HeightInv
          <5> QED
            BY <1>1, <3>0, <5>1
        <4>2. CASE h = Len(logs) + 1 /\ Len(logs') = Len(logs) + 1
          <5>1. logs'[h].seq = sent + 1
            BY Zenon, <1>0, <4>2, NotifyShape
          <5> QED
            BY <1>1, <3>0, <5>1
        <4>3. h \in 1..Len(logs) \/ (h = Len(logs) + 1 /\ Len(logs') = Len(logs) + 1)
          BY <1>1, <3>0
        <4> QED
          BY Zenon, <4>1, <4>2, <4>3
      <3>2. CASE j \in 1..Len(logs)
        <4>1. i \in 1..Len(logs) /\ j \in i..Len(logs)
          BY <1>1, <3>2
        <4>2. logs'[i] = logs[i] /\ logs'[j] = logs[j] /\ logs[i].seq <= logs[j].seq
          BY Zenon, <1>0, <3>2, <4>1, NotifyShape DEF HeightInv
        <4> QED
          BY Zenon, <3>1, <4>2
      <3>3. CASE j = Len(logs) + 1 /\ Len(logs') = Len(logs) + 1
        <4>1. logs'[j].seq = sent'
          BY Zenon, <1>0, <3>0, <3>3, NotifyShape
        <4> QED
          BY <3>1, <4>1
      <3>4. j \in 1..Len(logs) \/ (j = Len(logs) + 1 /\ Len(logs') = Len(logs) + 1)
        BY Zenon, <1>1, <3>0, NewPlace
      <3> QED
        BY Zenon, <3>2, <3>3, <3>4
    <2> QED
      BY <2>1, <2>2, <2>3 DEF HeightInv
  <1>3. LogInv'
    <2> SUFFICES ASSUME NEW i \in 1..Len(logs'), NEW e \in Event, NEW b \in Block, <<e, b>> \in logs'[i].added
                 PROVE  StillReported(e, b, i + 1)
      BY Zenon DEF LogInv, Reported, StillReported
    <2>1. CASE i \in 1..Len(logs)
      <3>1. logs'[i] = logs[i] /\ i + 1 \in 1..Len(logs) + 1
        <4>1. logs'[i] = logs[i]
          BY Zenon, <1>0, <2>1, NotifyShape
        <4>2. i + 1 \in 1..Len(logs) + 1
          BY <1>1, <2>1
        <4> QED
          BY <4>1, <4>2
      <3>2. Reported(e, b, i + 1)
        BY Zenon, <1>0, <2>1, <3>1 DEF LogInv
      <3> QED
        BY Zenon, <1>0, <3>1, <3>2, NotifyReported
    <2>2. CASE i = Len(logs) + 1 /\ Len(logs') = Len(logs) + 1
      <3>1. <<e, b>> \in OccurrencesIn(chain' \ chain)
        BY Zenon, <1>0, <2>2, NotifyShape
      <3>2. b \in chain' /\ e \in EventsIn[b]
        BY <3>1 DEF OccurrencesIn
      <3>3. Number[b] <= peak'
        BY <1>2, <3>2 DEF HeightInv
      <3> QED
        BY Zenon, <3>2, <3>3 DEF Reported, StillReported
    <2>3. Len(logs') \in {Len(logs), Len(logs) + 1}
      BY Zenon, <1>0, NotifyShape
    <2>4. i \in 1..Len(logs) \/ (i = Len(logs) + 1 /\ Len(logs') = Len(logs) + 1)
      BY <1>1, <2>3
    <2> QED
      BY Zenon, <2>1, <2>2, <2>4
  <1>4. SnapshotInv'
    <2> SUFFICES ASSUME NEW e \in DOMAIN snapshot PROVE StillReported(e, snapshot[e], 1)
      BY <1>0 DEF SnapshotInv, Reported, StillReported
    <2>1. e \in Event /\ snapshot[e] \in Block /\ Reported(e, snapshot[e], 1) /\ 1 \in 1..Len(logs) + 1
      BY <1>0, <1>1 DEF TypeOK, IsMapTo, SnapshotInv
    <2> DEFINE b == snapshot[e]
    <2>2. b' = b
      BY <1>0
    <2> HIDE DEF b
    <2>3. b \in Block /\ Reported(e, b, 1)
      BY <2>1 DEF b
    <2>4. e \in EventsIn[b] /\ Number[b] <= peak' /\ (b \in chain' \/ (MaxReorg > 0 /\ Pending(e, b, 1, logs', blocks')))
      BY Zenon, <1>0, <2>1, <2>3, NotifyReported DEF Reported, StillReported
    <2> QED
      BY Zenon, <2>2, <2>4 DEF Reported, StillReported, b
  <1>5. ConfirmingInv'
    <2> SUFFICES ASSUME NEW e \in DOMAIN confirming
                 PROVE  /\ StillReported(e, confirming[e].block, 1)
                        /\ confirming[e].last <= peak'
                        /\ \/ confirming[e].block \in chain'
                           \/ confirming[e].last < Number[confirming[e].block] + MaxReorg
      BY Zenon, <1>0 DEF ConfirmingInv, Reported, StillReported
    <2> DEFINE b == confirming[e].block
               last == confirming[e].last
    <2>1. /\ e \in Event /\ b \in Block /\ last \in Nat /\ Reported(e, b, 1) /\ last <= peak
          /\ b \in chain \/ last < Number[b] + MaxReorg
          /\ 1 \in 1..Len(logs) + 1
      <3>1. e \in Event /\ confirming[e] \in Counter
        BY <1>0 DEF TypeOK, IsMapTo
      <3>2. b \in Block /\ last \in Nat
        BY <3>1 DEF Counter
      <3>3. 1 \in 1..Len(logs) + 1
        BY <1>1
      <3> QED
        BY Zenon, <1>0, <3>1, <3>2, <3>3 DEF ConfirmingInv
    <2>2. b' = b
      BY <1>0
    <2> HIDE DEF b, last
    <2>3. e \in EventsIn[b] /\ Number[b] <= peak' /\ (b \in chain' \/ (MaxReorg > 0 /\ Pending(e, b, 1, logs', blocks')))
      BY <1>0, <2>1, NotifyReported DEF Reported, StillReported
    <2>4. last <= peak'
      BY <1>1, <2>1
    <2>5. b \in chain' \/ last < Number[b] + MaxReorg
      <3> SUFFICES ASSUME b \in chain, b \notin chain' PROVE last < Number[b] + MaxReorg
        BY <2>1
      <3>1. peak < Number[b] + MaxReorg
        BY <1>0, <2>1, <2>3, NotifyRemoves
      <3> QED
        BY <1>1, <2>1, <3>1
    <2> QED
      BY Zenon, <2>2, <2>3, <2>4, <2>5 DEF Reported, StillReported, b, last
  <1>6. ProcessedInv'
    <2> SUFFICES ASSUME NEW r \in processed PROVE r[2] \in chain' /\ Number[r[2]] + MaxReorg <= peak'
      BY <1>0 DEF ProcessedInv
    <2>1. r[2] \in chain /\ Number[r[2]] + MaxReorg <= peak /\ r[2] \in Block
      BY <1>0 DEF ProcessedInv, TypeOK
    <2>2. Number[n] + MaxReorg > peak /\ chain' = Below(chain, n) \cup {n}
      BY Zenon, <1>0, NotifyShape
    <2>3. Number[r[2]] < Number[n]
      BY <1>1, <2>1, <2>2
    <2>4. Number[r[2]] + MaxReorg <= peak'
      BY <1>1, <2>1
    <2> QED
      BY <2>1, <2>2, <2>3, <2>4 DEF Below
  <1> QED
    BY <1>2, <1>3, <1>4, <1>5, <1>6

(* Taking a log drops it from the front batch, and the batch with its last *)
(* log: d batches are gone.                                                *)
TakenFrom(d, e, b, removed) ==
    /\ Len(logs') = Len(logs) - d
    /\ \A i \in 1..Len(logs') :
          /\ logs'[i].seq = logs[i + d].seq
          /\ logs'[i].added \subseteq logs[i + d].added
    /\ \A j \in 1..Len(logs) : \A o \in logs[j].removed :
          (removed => o # <<e, b>>) \/ j > 1 => j - d \in 1..Len(logs') /\ o \in logs'[j - d].removed

(* TakeLog takes one log from the front. *)
LEMMA TakeLogShape ==
    ASSUME TypeOK, NEW e \in Event, NEW b \in Block, NEW removed \in BOOLEAN, TakeLog(e, b, removed)
    PROVE  \E d \in {0, 1} : TakenFrom(d, e, b, removed)
  <1> DEFINE l == Head(logs)
             rest == IF removed THEN [l EXCEPT !.removed = @ \ {<<e, b>>}]
                                ELSE [l EXCEPT !.added = @ \ {<<e, b>>}]
  <1>1. logs \in Seq(LogBatch) /\ logs # <<>> /\ ~removed => l.removed = {}
    BY DEF TypeOK, TakeLog
  <1>2. /\ l \in LogBatch /\ l = logs[1] /\ Len(logs) \in Nat /\ Len(logs) >= 1
        /\ Tail(logs) \in Seq(LogBatch) /\ Len(Tail(logs)) = Len(logs) - 1
        /\ \A i \in 1..Len(logs) - 1 : Tail(logs)[i] = logs[i + 1]
    BY <1>1, Front DEF TypeOK, TakeLog
  <1>3. /\ rest \in LogBatch /\ rest.seq = l.seq /\ rest.added \subseteq l.added
        /\ \A o \in l.removed : (removed => o # <<e, b>>) => o \in rest.removed
    BY Zenon, <1>1, <1>2 DEF LogBatch
  <1>4. logs' = IF rest.removed \cup rest.added = {} THEN Tail(logs) ELSE <<rest>> \o Tail(logs)
    BY DEF TakeLog
  <1> HIDE DEF rest, l
  <1>5. CASE rest.removed \cup rest.added = {}
    <2>1. logs' = Tail(logs)
      BY <1>4, <1>5
    <2>2. ASSUME NEW j \in 1..Len(logs), NEW o \in logs[j].removed, (removed => o # <<e, b>>) \/ j > 1
          PROVE  j - 1 \in 1..Len(logs') /\ o \in logs'[j - 1].removed
      <3>1. j # 1
        <4> SUFFICES ASSUME j = 1 PROVE FALSE
          OBVIOUS
        <4>1. o \in l.removed /\ (removed => o # <<e, b>>)
          BY <1>2, <2>2
        <4>2. o \in rest.removed
          BY Zenon, <1>3, <4>1
        <4> QED
          BY Zenon, <1>5, <4>2
      <3>2. j - 1 \in 1..Len(logs) - 1 /\ (j - 1) + 1 = j
        BY <1>2, <3>1
      <3> QED
        BY Zenon, <1>2, <2>1, <2>2, <3>2
    <2>3. TakenFrom(1, e, b, removed)
      BY Zenon, <1>2, <2>1, <2>2 DEF TakenFrom
    <2> QED
      BY <2>3
  <1>6. CASE rest.removed \cup rest.added # {}
    <2>1. logs' = <<rest>> \o Tail(logs)
      BY <1>4, <1>6
    <2>2. /\ Len(logs') = Len(logs) /\ logs'[1] = rest
          /\ \A i \in 2..Len(logs) : logs'[i] = logs[i]
      <3>1. /\ Len(logs') = 1 + (Len(logs) - 1) /\ logs'[1] = rest
            /\ \A i \in 2..1 + (Len(logs) - 1) : logs'[i] = Tail(logs)[i - 1]
        <4> DEFINE q == Tail(logs)
        <4>1. q \in Seq(LogBatch) /\ Len(q) = Len(logs) - 1 /\ logs' = <<rest>> \o q
          BY <1>2, <2>1
        <4> HIDE DEF q
        <4>2. Len(logs') = 1 + Len(q) /\ logs'[1] = rest /\ \A i \in 2..1 + Len(q) : logs'[i] = q[i - 1]
          BY <1>3, <4>1, Prefixed
        <4> QED
          BY <4>1, <4>2 DEF q
      <3>2. ASSUME NEW i \in 2..Len(logs) PROVE logs'[i] = logs[i]
        <4>1. i \in 2..1 + (Len(logs) - 1) /\ i - 1 \in 1..Len(logs) - 1 /\ (i - 1) + 1 = i
          BY <1>2
        <4> QED
          BY Zenon, <1>2, <3>1, <4>1
      <3>3. Len(logs') = Len(logs)
        BY <1>2, <3>1
      <3> QED
        BY Zenon, <3>1, <3>2, <3>3
    <2>3. ASSUME NEW i \in 1..Len(logs)
          PROVE  logs'[i].seq = logs[i].seq /\ logs'[i].added \subseteq logs[i].added
      BY <1>2, <1>3, <2>2
    <2>4. ASSUME NEW j \in 1..Len(logs), NEW o \in logs[j].removed, (removed => o # <<e, b>>) \/ j > 1
          PROVE  o \in logs'[j].removed
      BY <1>2, <1>3, <2>2, <2>4
    <2>5. TakenFrom(0, e, b, removed)
      <3>1. \A i \in 1..Len(logs) : i + 0 = i /\ i - 0 = i
        BY <1>2
      <3>2. Len(logs') = Len(logs) - 0
        BY <1>2, <2>2
      <3> QED
        BY Zenon, <2>2, <2>3, <2>4, <3>1, <3>2 DEF TakenFrom
    <2> QED
      BY <2>5
  <1> QED
    BY Zenon, <1>5, <1>6

(* The place of a log once d logs were taken from the head of the queue. *)
LEMMA Shifted ==
    ASSUME NEW d \in {0, 1}, NEW i \in Nat \ {0}, NEW h \in Nat \ {0}, NEW l, NEW j \in i..l,
           NEW r, j - d \in 1..r, h <= 1 \/ h <= i - d
    PROVE  (j - d) + d = j /\ j - d \in h..r
  OBVIOUS

(* A removal stays pending while other logs are taken. *)
LEMMA TakeLogPending ==
    ASSUME TypeOK, NEW e \in Event, NEW b \in Block, NEW removed \in BOOLEAN,
           NEW d \in {0, 1}, TakenFrom(d, e, b, removed), UNCHANGED blocks,
           NEW f, NEW c \in Block, NEW i \in Nat \ {0}, Pending(f, c, i, logs, blocks),
           (removed => f # e) \/ i > 1,
           NEW h \in Nat \ {0}, h <= 1 \/ h <= i - d
    PROVE  Pending(f, c, h, logs', blocks')
  <1>1. PICK j \in i..Len(logs) :
           /\ <<f, c>> \in logs[j].removed
           /\ \A k \in 1..Len(blocks) : blocks[k].seq < logs[j].seq => Number[blocks[k].block] < Number[c] + MaxReorg
    BY Zenon DEF Pending
  <1>2. Len(logs) \in Nat /\ j \in 1..Len(logs)
    BY DEF TypeOK
  <1>3. (removed => <<f, c>> # <<e, b>>) \/ j > 1
    BY <1>2
  <1>4. j - d \in 1..Len(logs') /\ <<f, c>> \in logs'[j - d].removed
    BY Zenon, <1>1, <1>2, <1>3 DEF TakenFrom
  <1>5. (j - d) + d = j /\ j - d \in h..Len(logs')
    BY <1>4, Shifted
  <1>6. logs'[j - d].seq = logs[j].seq
    BY Zenon, <1>4, <1>5 DEF TakenFrom
  <1> QED
    BY Zenon, <1>1, <1>4, <1>5, <1>6 DEF Pending

(* process_new_rsk_event keeps the invariant: an event is dropped with its *)
(* removal, and an event that is added has any removal still to come.      *)
LEMMA RskEventFinal ==
    ASSUME FinalInv, ProcessNewRskEvent
    PROVE  HeightInv' /\ LogInv' /\ ConfirmingInv' /\ SnapshotInv' /\ ProcessedInv'
  <1>0. /\ TypeOK /\ HeightInv /\ LogInv /\ ConfirmingInv /\ ProcessedInv
        /\ snapshot' = Snapshot(confirming') /\ UNCHANGED processed
    BY Zenon DEF FinalInv, ProcessNewRskEvent
  <1>1. PICK e \in Event, b \in Block, removed \in BOOLEAN :
            /\ TakeLog(e, b, removed)
            /\ confirming' =
                   IF removed THEN StopConfirming(confirming, {e})
                   ELSE [f \in DOMAIN confirming \cup {e} |->
                            IF f = e THEN [block |-> b, last |-> Number[b]] ELSE confirming[f]]
    BY Zenon DEF ProcessNewRskEvent
  <1>2. UNCHANGED <<chain, peak, sent, blocks>>
    BY <1>1 DEF TakeLog
  <1>3. PICK d \in {0, 1} : TakenFrom(d, e, b, removed)
    BY Zenon, <1>0, <1>1, TakeLogShape
  <1>4. Len(logs) \in Nat /\ Len(logs') \in Nat /\ Len(logs') = Len(logs) - d
    <2>1. logs \in Seq(LogBatch)
      BY Zenon, <1>0 DEF TypeOK
    <2>2. logs' \in Seq(LogBatch)
      BY Zenon, <1>0, <1>1, TakeLogType
    <2>3. Len(logs') = Len(logs) - d
      BY Zenon, <1>3 DEF TakenFrom
    <2> QED
      BY <2>1, <2>2, <2>3
  <1>5. HeightInv'
    <2>1. ASSUME NEW i \in 1..Len(logs'), NEW j \in i..Len(logs')
          PROVE  logs'[i].seq <= sent /\ logs'[i].seq <= logs'[j].seq
      <3>1. i + d \in 1..Len(logs) /\ j + d \in (i + d)..Len(logs) /\ j \in 1..Len(logs')
        BY <1>4
      <3>2. logs'[i].seq = logs[i + d].seq /\ logs'[j].seq = logs[j + d].seq
        BY Zenon, <1>3, <3>1 DEF TakenFrom
      <3> QED
        BY Zenon, <1>0, <3>1, <3>2 DEF HeightInv
    <2>2. /\ \A c \in chain' : Number[c] <= peak'
          /\ \A k \in 1..Len(blocks') : Number[blocks'[k].block] <= peak'
      BY Zenon, <1>0, <1>2 DEF HeightInv
    <2>3. \A i \in 1..Len(logs') : logs'[i].seq <= sent'
      <3> SUFFICES ASSUME NEW i \in 1..Len(logs') PROVE logs'[i].seq <= sent
        BY <1>2
      <3>1. i \in i..Len(logs')
        BY <1>4
      <3> QED
        BY Zenon, <2>1, <3>1
    <2> QED
      BY Zenon, <2>1, <2>2, <2>3 DEF HeightInv
  <1>6. LogInv'
    <2> SUFFICES ASSUME NEW i \in 1..Len(logs'), NEW f \in Event, NEW c \in Block, <<f, c>> \in logs'[i].added
                 PROVE  StillReported(f, c, i + 1)
      BY Zenon DEF LogInv, Reported, StillReported
    <2>1. i + d \in 1..Len(logs) /\ (i + d) + 1 \in Nat \ {0} /\ (i + d) + 1 > 1
          /\ i + 1 \in Nat \ {0} /\ i + 1 <= ((i + d) + 1) - d
      BY <1>4
    <2>2. <<f, c>> \in logs[i + d].added
      BY Zenon, <1>3 DEF TakenFrom
    <2>3. Reported(f, c, (i + d) + 1)
      BY Zenon, <1>0, <2>1, <2>2 DEF LogInv
    <2>4. ASSUME Pending(f, c, (i + d) + 1, logs, blocks) PROVE Pending(f, c, i + 1, logs', blocks')
      BY Zenon, <1>0, <1>2, <1>3, <2>1, <2>4, TakeLogPending
    <2> QED
      BY Zenon, <1>2, <2>3, <2>4 DEF Reported, StillReported
  <1>7. ASSUME NEW f \in DOMAIN confirming'
        PROVE  /\ StillReported(f, confirming'[f].block, 1)
               /\ confirming'[f].last <= peak
               /\ \/ confirming'[f].block \in chain
                  \/ confirming'[f].last < Number[confirming'[f].block] + MaxReorg
    <2>1. CASE f = e /\ ~removed
      <3>1. confirming'[f] = [block |-> b, last |-> Number[b]]
        BY Zenon, <1>1, <2>1
      <3>2. logs # <<>> /\ <<e, b>> \in Head(logs).added
        BY <1>1, <2>1 DEF TakeLog
      <3>3. 1 \in 1..Len(logs) /\ <<e, b>> \in logs[1].added
        BY <1>0, <3>2 DEF TypeOK
      <3>4. Reported(e, b, 2)
        <4>1. Reported(e, b, 1 + 1)
          BY <1>0, <3>3 DEF LogInv
        <4> QED
          BY <4>1
      <3>5. ASSUME Pending(e, b, 2, logs, blocks) PROVE Pending(e, b, 1, logs', blocks')
        BY <1>0, <1>2, <1>3, <3>5, TakeLogPending
      <3>6. StillReported(e, b, 1) /\ Number[b] <= peak /\ (b \in chain \/ MaxReorg > 0)
        BY <1>2, <3>4, <3>5 DEF Reported, StillReported
      <3>7. Number[b] < Number[b] + MaxReorg \/ b \in chain
        BY <3>6
      <3>8. confirming'[f].block = b /\ confirming'[f].last = Number[b]
        <4>1. [block |-> b, last |-> Number[b]].block = b /\ [block |-> b, last |-> Number[b]].last = Number[b]
          OBVIOUS
        <4> QED
          BY Zenon, <3>1, <4>1
      <3>9. StillReported(f, confirming'[f].block, 1)
        BY Zenon, <2>1, <3>6, <3>8 DEF Reported, StillReported
      <3> QED
        BY Zenon, <3>6, <3>7, <3>8, <3>9
    <2>2. CASE f # e \/ removed
      <3>1. f # e /\ f \in DOMAIN confirming /\ confirming'[f] = confirming[f]
        BY Zenon, <1>1, <2>2 DEF StopConfirming
      <3> DEFINE c == confirming[f].block
      <3>2. c \in Block /\ Reported(f, c, 1)
        BY <1>0, <3>1 DEF TypeOK, IsMapTo, Counter, ConfirmingInv
      <3>3. ASSUME Pending(f, c, 1, logs, blocks) PROVE Pending(f, c, 1, logs', blocks')
        <4>1. 1 \in Nat \ {0} /\ 1 <= 1 /\ UNCHANGED blocks
          BY <1>2
        <4> HIDE DEF c
        <4> QED
          BY Zenon, <1>0, <1>3, <3>1, <3>2, <3>3, <4>1, TakeLogPending
      <3>4. f \in EventsIn[c] /\ Number[c] <= peak' /\ (c \in chain' \/ (MaxReorg > 0 /\ Pending(f, c, 1, logs', blocks')))
        BY Zenon, <1>2, <3>2, <3>3 DEF Reported, StillReported
      <3>5. StillReported(f, confirming'[f].block, 1)
        BY Zenon, <3>1, <3>4 DEF Reported, StillReported
      <3> QED
        BY Zenon, <1>0, <3>1, <3>5 DEF ConfirmingInv
    <2> QED
      BY Zenon, <2>1, <2>2
  <1>8. ConfirmingInv'
    BY Zenon, <1>2, <1>7 DEF ConfirmingInv, Reported, StillReported
  <1>9. SnapshotInv'
    BY Zenon, <1>0, <1>7 DEF SnapshotInv, Snapshot, Reported, StillReported
  <1>10. ProcessedInv'
    BY <1>0, <1>2 DEF ProcessedInv
  <1> QED
    BY <1>5, <1>6, <1>8, <1>9, <1>10

(* Taking a block drops it from the queue and leaves the logs. *)
LEMMA TakeBlockShape ==
    ASSUME TypeOK, TakeBlock
    PROVE  /\ Head(blocks) = blocks[1] /\ 1 \in 1..Len(blocks) /\ Len(blocks') = Len(blocks) - 1
           /\ \A k \in 1..Len(blocks') : k + 1 \in 1..Len(blocks) /\ blocks'[k] = blocks[k + 1]
           /\ UNCHANGED <<chain, peak, sent, logs>>
  <1>1. blocks \in Seq(BlockMsg) /\ blocks # <<>> /\ blocks' = Tail(blocks)
    BY DEF TypeOK, TakeBlock
  <1>2. /\ Len(blocks) \in Nat \ {0} /\ Head(blocks) = blocks[1] /\ Len(blocks') = Len(blocks) - 1
        /\ \A k \in 1..Len(blocks') : blocks'[k] = blocks[k + 1]
    BY <1>1, Front
  <1> QED
    BY <1>2 DEF TakeBlock

(* What was reported stays reported when a block is taken, and the block   *)
(* is too low to confirm an event whose removal is pending: it was sent    *)
(* before the removal, since it does not overtake a log.                   *)
LEMMA TakeBlockReported ==
    ASSUME LogsFirst, TypeOK, HeightInv, TakeBlock,
           NEW e, NEW b \in Block, NEW i \in Nat \ {0}, Reported(e, b, i)
    PROVE  /\ StillReported(e, b, i)
           /\ b \in chain \/ Number[Head(blocks).block] < Number[b] + MaxReorg
  <1>1. UNCHANGED <<chain, peak, logs>>
    BY TakeBlockShape
  <1>2. CASE b \in chain
    BY <1>1, <1>2 DEF Reported, StillReported
  <1>3. CASE b \notin chain
    <2>1. MaxReorg > 0 /\ Pending(e, b, i, logs, blocks)
      BY <1>3 DEF Reported, StillReported
    <2>2. PICK j \in i..Len(logs) :
           /\ <<e, b>> \in logs[j].removed
           /\ \A k \in 1..Len(blocks) : blocks[k].seq < logs[j].seq => Number[blocks[k].block] < Number[b] + MaxReorg
      BY <2>1 DEF Pending
    <2>3. Len(logs) \in Nat /\ 1 \in 1..Len(logs) /\ j \in 1..Len(logs) /\ logs # <<>> /\ Head(logs) = logs[1]
      BY DEF TypeOK
    <2>4. blocks[1].seq < logs[1].seq /\ logs[1].seq <= logs[j].seq
          /\ blocks[1].seq \in Nat /\ logs[1].seq \in Nat /\ logs[j].seq \in Nat
      <3>1. Head(logs).seq > Head(blocks).seq
        BY <2>3 DEF TakeBlock
      <3>2. logs[1].seq <= logs[j].seq
        BY <2>3 DEF HeightInv
      <3>3. blocks[1] \in BlockMsg /\ logs[1] \in LogBatch /\ logs[j] \in LogBatch
        <4>1. logs \in Seq(LogBatch)
          BY Zenon DEF TypeOK
        <4>2. logs[1] \in LogBatch /\ logs[j] \in LogBatch
          BY <2>3, <4>1
        <4> QED
          BY <4>2, TakeBlockShape DEF TypeOK
      <3> QED
        BY <2>3, <3>1, <3>2, <3>3, TakeBlockShape DEF BlockMsg, LogBatch
    <2>5. Number[Head(blocks).block] < Number[b] + MaxReorg
      <3>1. blocks[1].seq < logs[j].seq
        BY <2>4
      <3> QED
        BY Zenon, <2>2, <3>1, TakeBlockShape
    <2>6. Pending(e, b, i, logs', blocks')
      <3>1. \A k \in 1..Len(blocks') : blocks'[k].seq < logs[j].seq => Number[blocks'[k].block] < Number[b] + MaxReorg
        BY Zenon, <2>2, TakeBlockShape
      <3> QED
        BY Zenon, <1>1, <2>2, <3>1 DEF Pending
    <2> QED
      BY Zenon, <1>1, <2>1, <2>5, <2>6 DEF Reported, StillReported
  <1> QED
    BY Zenon, <1>2, <1>3

(* A block that is taken leaves the queues and the snapshot as they should *)
(* be, and no count it moves confirms an event that has been replaced.     *)
LEMMA TakeBlockFinal ==
    ASSUME LogsFirst, FinalInv, TakeBlock
    PROVE  /\ HeightInv' /\ LogInv'
           /\ \A e \in DOMAIN snapshot : StillReported(e, snapshot[e], 1)
           /\ \A e \in DOMAIN confirming :
                /\ StillReported(e, confirming[e].block, 1)
                /\ Updated(Head(blocks).block)[e].last \in Nat
                /\ Updated(Head(blocks).block)[e].last <= peak
                /\ \/ confirming[e].block \in chain
                   \/ Updated(Head(blocks).block)[e].last < Number[confirming[e].block] + MaxReorg
  <1> DEFINE m == Head(blocks).block
  <1>0. /\ TypeOK /\ HeightInv /\ LogInv /\ ConfirmingInv /\ SnapshotInv
        /\ UNCHANGED <<chain, peak, sent, logs>>
    BY TakeBlockShape DEF FinalInv
  <1>6. 1 \in Nat \ {0}
    OBVIOUS
  <1>1. m \in Block /\ Number[m] \in Nat /\ Number[m] <= peak
    BY Zenon, <1>0, TakeBlockShape, QueueTypes DEF HeightInv
  <1>2. HeightInv'
    BY Zenon, <1>0, TakeBlockShape DEF HeightInv
  <1>3. LogInv'
    <2> SUFFICES ASSUME NEW i \in 1..Len(logs), NEW e \in Event, NEW b \in Block, <<e, b>> \in logs[i].added
                 PROVE  StillReported(e, b, i + 1)
      BY Zenon, <1>0 DEF LogInv, Reported, StillReported
    <2>1. Reported(e, b, i + 1)
      BY Zenon, <1>0 DEF LogInv
    <2>2. Len(logs) \in Nat
      BY Zenon, <1>0, QueueTypes
    <2>3. i + 1 \in Nat \ {0}
      BY <2>2
    <2> QED
      BY Zenon, <1>0, <2>1, <2>3, TakeBlockReported
  <1>4. ASSUME NEW e \in DOMAIN snapshot
        PROVE  /\ e \in EventsIn[snapshot[e]] /\ Number[snapshot[e]] <= peak'
               /\ \/ snapshot[e] \in chain'
                  \/ MaxReorg > 0 /\ Pending(e, snapshot[e], 1, logs', blocks')
    <2>1. snapshot[e] \in Block /\ Reported(e, snapshot[e], 1)
      BY <1>0 DEF TypeOK, IsMapTo, SnapshotInv
    <2>2. StillReported(e, snapshot[e], 1)
      BY Zenon, <1>0, <1>6, <2>1, TakeBlockReported
    <2> QED
      BY Zenon, <2>2 DEF StillReported
  <1>5. ASSUME NEW e \in DOMAIN confirming
        PROVE  /\ e \in EventsIn[confirming[e].block] /\ Number[confirming[e].block] <= peak'
               /\ \/ confirming[e].block \in chain'
                  \/ MaxReorg > 0 /\ Pending(e, confirming[e].block, 1, logs', blocks')
               /\ Updated(m)[e].last \in Nat
               /\ Updated(m)[e].last <= peak
               /\ confirming[e].block \in chain \/ Updated(m)[e].last < Number[confirming[e].block] + MaxReorg
    <2> DEFINE b == confirming[e].block
               u == Updated(m)[e].last
    <2>1. /\ b \in Block /\ Reported(e, b, 1) /\ confirming[e].last \in Nat /\ confirming[e].last <= peak
          /\ b \in chain \/ confirming[e].last < Number[b] + MaxReorg
      BY Zenon, <1>0 DEF TypeOK, IsMapTo, Counter, ConfirmingInv
    <2>2. u = confirming[e].last \/ u = Number[m]
      BY <1>0, <1>1 DEF Updated, TypeOK, IsMapTo, Counter
    <2> HIDE DEF b, u, m
    <2>3. /\ e \in EventsIn[b] /\ Number[b] <= peak'
          /\ b \in chain' \/ (MaxReorg > 0 /\ Pending(e, b, 1, logs', blocks'))
          /\ b \in chain \/ Number[m] < Number[b] + MaxReorg
      <3>1. StillReported(e, b, 1) /\ (b \in chain \/ Number[m] < Number[b] + MaxReorg)
        BY Zenon, <1>0, <1>6, <2>1, TakeBlockReported DEF m
      <3> QED
        BY Zenon, <3>1 DEF StillReported
    <2>4. u \in Nat /\ u <= peak /\ (b \in chain \/ u < Number[b] + MaxReorg)
      BY Zenon, <1>1, <2>1, <2>2, <2>3
    <2> QED
      BY Zenon, <2>3, <2>4 DEF b, u
  <1> QED
    BY Zenon, <1>2, <1>3, <1>4, <1>5 DEF Reported, StillReported

(* An event that is due has its block deep in the chain. *)
LEMMA DueIsFinal ==
    ASSUME LogsFirst, MaxReorg < Required, FinalInv, TakeBlock, NEW e \in Due(Head(blocks).block)
    PROVE  confirming[e].block \in chain /\ Number[confirming[e].block] + MaxReorg <= peak
  <1> DEFINE u == Updated(Head(blocks).block)[e]
             b == confirming[e].block
  <1>1. e \in DOMAIN confirming /\ IsConfirmed(u) /\ TypeOK /\ Head(blocks).block \in Block /\ peak \in Nat
    BY Zenon, TakeBlockType DEF Due, FinalInv, TypeOK
  <1>2. u.block = b /\ b \in Block /\ Number[b] \in Nat
    BY Zenon, <1>1, UpdatedType DEF TypeOK, IsMapTo, Counter
  <1>3. u.last \in Nat /\ u.last <= peak /\ (b \in chain \/ u.last < Number[b] + MaxReorg)
    BY Zenon, <1>1, TakeBlockFinal
  <1> HIDE DEF u, b
  <1>4. u.last + 1 >= Number[b] + Required
    <2>1. IsConfirmed(u)
      BY Zenon, <1>1
    <2> QED
      BY <1>2, <1>3, <2>1 DEF IsConfirmed, Accum
  <1>5. b \in chain /\ Number[b] + MaxReorg <= peak
    BY <1>1, <1>2, <1>3, <1>4
  <1> QED
    BY <1>5 DEF b

(* Processing events that are due keeps what is processed final. *)
LEMMA ProcessFinal ==
    ASSUME LogsFirst, MaxReorg < Required, FinalInv, TakeBlock,
           NEW S \in SUBSET Due(Head(blocks).block), Process(S)
    PROVE  ProcessedInv'
  <1> SUFFICES ASSUME NEW r \in processed' PROVE r[2] \in chain /\ Number[r[2]] + MaxReorg <= peak
    BY Zenon, TakeBlockShape DEF ProcessedInv, FinalInv
  <1>1. CASE r \in processed
    BY <1>1 DEF FinalInv, ProcessedInv
  <1>2. CASE r \notin processed
    <2>1. PICK e \in S : r = <<e, confirming[e].block>>
      BY Zenon, <1>2 DEF Process
    <2>2. r[2] = confirming[e].block
      BY Zenon, <2>1
    <2> QED
      BY Zenon, <2>2, DueIsFinal
  <1> QED
    BY <1>1, <1>2

(* The counts that are left after a block are counts of reported events. *)
LEMMA StoppedFinal ==
    ASSUME LogsFirst, FinalInv, TakeBlock, NEW S,
           confirming' = StopConfirming(Updated(Head(blocks).block), S)
    PROVE  ConfirmingInv' /\ (snapshot' \in {snapshot, Snapshot(confirming')} => SnapshotInv')
  <1> DEFINE u == Updated(Head(blocks).block)
  <1>0. TypeOK /\ Head(blocks).block \in Block /\ UNCHANGED <<chain, peak>>
    BY TakeBlockType DEF FinalInv
  <1>1. DOMAIN u = DOMAIN confirming /\ \A e \in DOMAIN confirming : u[e].block = confirming[e].block
    BY Zenon, <1>0, UpdatedType
  <1>2. \A e \in DOMAIN confirming :
          /\ StillReported(e, confirming[e].block, 1)
          /\ u[e].last <= peak
          /\ confirming[e].block \in chain \/ u[e].last < Number[confirming[e].block] + MaxReorg
    BY Zenon, TakeBlockFinal
  <1>3. confirming' = StopConfirming(u, S)
    BY Zenon
  <1> HIDE DEF u
  <1>4. \A e \in DOMAIN confirming' : e \in DOMAIN confirming /\ confirming'[e] = u[e]
    BY Zenon, <1>1, <1>3 DEF StopConfirming
  <1>5. ASSUME NEW e \in DOMAIN confirming'
        PROVE  /\ StillReported(e, confirming'[e].block, 1)
               /\ confirming'[e].last <= peak'
               /\ \/ confirming'[e].block \in chain'
                  \/ confirming'[e].last < Number[confirming'[e].block] + MaxReorg
    BY Zenon, <1>0, <1>1, <1>2, <1>4
  <1>6. ConfirmingInv'
    BY Zenon, <1>5 DEF ConfirmingInv, Reported, StillReported
  <1>7. ASSUME snapshot' = Snapshot(confirming') PROVE SnapshotInv'
    BY Zenon, <1>5, <1>7 DEF SnapshotInv, Snapshot, Reported, StillReported
  <1>8. ASSUME snapshot' = snapshot PROVE SnapshotInv'
    BY Zenon, <1>8, TakeBlockFinal DEF SnapshotInv, Reported, StillReported
  <1> QED
    BY <1>6, <1>7, <1>8

(* process_new_block keeps the invariant. *)
LEMMA BlockFinal ==
    ASSUME LogsFirst, MaxReorg < Required, FinalInv, ProcessNewBlock
    PROVE  HeightInv' /\ LogInv' /\ ConfirmingInv' /\ SnapshotInv' /\ ProcessedInv'
  <1> DEFINE b == Head(blocks).block
  <1>0. TakeBlock /\ TypeOK /\ UNCHANGED <<chain, peak>> /\ ProcessedInv
    BY Zenon, TakeBlockShape DEF ProcessNewBlock, FinalInv
  <1>1. HeightInv' /\ LogInv'
    BY Zenon, <1>0, TakeBlockFinal
  <1>2. ASSUME UNCHANGED processed PROVE ProcessedInv'
    BY <1>0, <1>2 DEF ProcessedInv
  <1>3. ASSUME snapshot' = snapshot PROVE SnapshotInv'
    BY Zenon, <1>0, <1>3, TakeBlockFinal DEF SnapshotInv, Reported, StillReported
  <1>4. ASSUME UNCHANGED confirming PROVE ConfirmingInv'
    <2>1. ASSUME NEW e \in DOMAIN confirming
          PROVE  /\ StillReported(e, confirming[e].block, 1)
                 /\ confirming[e].last <= peak'
                 /\ \/ confirming[e].block \in chain'
                    \/ confirming[e].last < Number[confirming[e].block] + MaxReorg
      BY Zenon, <1>0, TakeBlockFinal DEF FinalInv, ConfirmingInv
    <2> QED
      BY Zenon, <1>4, <2>1 DEF ConfirmingInv, Reported, StillReported
  <1>5. CASE UNCHANGED <<view, confirming, snapshot, processed>>
    BY <1>1, <1>2, <1>3, <1>4, <1>5
  <1>6. CASE snapshot' = Snapshot(confirming) /\ UNCHANGED <<view, confirming, processed>>
    <2>1. snapshot' = Snapshot(confirming')
      BY <1>6
    <2>2. SnapshotInv'
      BY Zenon, <1>4, <1>6, <2>1 DEF SnapshotInv, ConfirmingInv, Snapshot
    <2> QED
      BY <1>1, <1>2, <1>4, <1>6, <2>2
  <1>7. CASE ConfirmEvents(b)
    <2>1. \E S, P : /\ P \in SUBSET Due(b) /\ Process(P)
                    /\ confirming' = StopConfirming(Updated(b), S)
                    /\ snapshot' \in {snapshot, Snapshot(confirming')}
      BY Zenon, <1>7 DEF ConfirmEvents
    <2>2. ConfirmingInv' /\ SnapshotInv'
      BY Zenon, <1>0, <2>1, StoppedFinal
    <2>3. ProcessedInv'
      BY Zenon, <1>0, <2>1, ProcessFinal
    <2> QED
      BY <1>1, <2>2, <2>3
  <1>8. CASE Die("panicked") /\ UNCHANGED <<snapshot, processed>>
    <2>1. ConfirmingInv'
      BY <1>8 DEF Die, NoneConfirming, ConfirmingInv
    <2> QED
      BY <1>1, <1>2, <1>3, <1>8, <2>1
  <1> QED
    BY Zenon, <1>5, <1>6, <1>7, <1>8 DEF ProcessNewBlock

(* Every step keeps the invariant, when blocks do not overtake logs, forks *)
(* are shorter than the confirmations and a crash loses no message.        *)
LEMMA FinalStep ==
    ASSUME LogsFirst, MaxReorg < Required, MaxLost = 0, FinalInv, lost = 0, [Next]_vars
    PROVE  FinalInv' /\ lost' = 0
  <1> DEFINE Rest == HeightInv /\ LogInv /\ ConfirmingInv /\ SnapshotInv /\ ProcessedInv
  <1>0. TypeOK' /\ Rest
    BY TypeStep DEF FinalInv
  <1>1. ASSUME NEW n \in Block, NotifyBlock(n) PROVE Rest' /\ lost' = 0
    BY Zenon, <1>1, NotifyFinal DEF NotifyBlock, faults
  <1>2. ASSUME ProcessNewRskEvent PROVE Rest' /\ lost' = 0
    BY Zenon, <1>2, RskEventFinal DEF ProcessNewRskEvent, faults
  <1>3. ASSUME ProcessNewBlock PROVE Rest' /\ lost' = 0
    BY Zenon, <1>3, BlockFinal DEF ProcessNewBlock, faults
  <1>4. ASSUME Crash PROVE Rest' /\ lost' = 0
    <2>1. confirming' = NoneConfirming /\ UNCHANGED <<chain, peak, sent, blocks, logs, snapshot, processed, lost>>
      BY <1>4 DEF Crash, Die, network
    <2>2. ConfirmingInv'
      BY <2>1 DEF NoneConfirming, ConfirmingInv
    <2>3. HeightInv' /\ LogInv' /\ SnapshotInv' /\ ProcessedInv'
      BY Zenon, <1>0, <2>1 DEF HeightInv, LogInv, SnapshotInv, ProcessedInv, Reported
    <2> QED
      BY <2>1, <2>2, <2>3
  <1>5. ASSUME CrashInHandler PROVE Rest' /\ lost' = 0
    BY <1>5 DEF CrashInHandler
  <1>6. ASSUME Restart PROVE Rest' /\ lost' = 0
    <2>1. confirming' = Restored(snapshot) /\ UNCHANGED <<chain, peak, sent, blocks, logs, snapshot, processed, lost>>
      BY <1>6 DEF Restart, network, faults
    <2>2. ConfirmingInv'
      <3>1. ASSUME NEW e \in DOMAIN snapshot
            PROVE  /\ Reported(e, snapshot[e], 1) /\ Number[snapshot[e]] <= peak
                   /\ snapshot[e] \in chain \/ Number[snapshot[e]] < Number[snapshot[e]] + MaxReorg
        <4>1. Reported(e, snapshot[e], 1) /\ snapshot[e] \in Block /\ Number[snapshot[e]] \in Nat
          BY Zenon, <1>0 DEF SnapshotInv, FinalInv, TypeOK, IsMapTo
        <4>2. snapshot[e] \in chain \/ MaxReorg > 0
          BY <4>1 DEF Reported
        <4>3. snapshot[e] \in chain \/ Number[snapshot[e]] < Number[snapshot[e]] + MaxReorg
          BY <4>1, <4>2
        <4> QED
          BY Zenon, <4>1, <4>3 DEF Reported
      <3>2. /\ DOMAIN confirming' = DOMAIN snapshot
            /\ \A e \in DOMAIN snapshot : confirming'[e].block = snapshot[e] /\ confirming'[e].last = Number[snapshot[e]]
        BY Zenon, <2>1 DEF Restored
      <3>3. \A e, b : Reported(e, b, 1) => StillReported(e, b, 1)
        BY Zenon, <2>1 DEF Reported, StillReported
      <3>4. peak' = peak /\ chain' = chain
        BY <2>1
      <3>5. ASSUME NEW e \in DOMAIN confirming'
            PROVE  /\ StillReported(e, confirming'[e].block, 1) /\ confirming'[e].last <= peak'
                   /\ confirming'[e].block \in chain' \/ confirming'[e].last < Number[confirming'[e].block] + MaxReorg
        <4>1. /\ e \in DOMAIN snapshot /\ confirming'[e].block = snapshot[e]
              /\ confirming'[e].last = Number[snapshot[e]]
          BY Zenon, <3>2
        <4>2. /\ Reported(e, snapshot[e], 1) /\ Number[snapshot[e]] <= peak
              /\ snapshot[e] \in chain \/ Number[snapshot[e]] < Number[snapshot[e]] + MaxReorg
          BY Zenon, <3>1, <4>1
        <4>3. StillReported(e, confirming'[e].block, 1)
          BY Zenon, <3>3, <4>1, <4>2
        <4> QED
          BY Zenon, <3>4, <4>1, <4>2, <4>3
      <3> QED
        BY Zenon, <3>5 DEF ConfirmingInv, Reported, StillReported
    <2>3. HeightInv' /\ LogInv' /\ SnapshotInv' /\ ProcessedInv'
      BY Zenon, <1>0, <2>1 DEF HeightInv, LogInv, SnapshotInv, ProcessedInv, Reported
    <2> QED
      BY <2>1, <2>2, <2>3
  <1>7. ASSUME UNCHANGED vars PROVE Rest' /\ lost' = 0
    <2>1. UNCHANGED <<chain, peak, sent, blocks, logs, confirming, snapshot, processed, lost>>
      BY <1>7 DEF vars, network, faults
    <2> QED
      BY Zenon, <1>0, <2>1 DEF HeightInv, LogInv, ConfirmingInv, SnapshotInv, ProcessedInv, Reported
  <1> HIDE DEF Rest
  <1>8. Rest' /\ lost' = 0
    BY Zenon, <1>1, <1>2, <1>3, <1>4, <1>5, <1>6, <1>7 DEF Next
  <1> QED
    BY <1>0, <1>8 DEF FinalInv, Rest

(* No event the coordinator acted on is ever reorganised away, for every   *)
(* tree of blocks, any number of restarts between handlers and whether or  *)
(* not earlier stages fail, as long as forks are shorter than the          *)
(* confirmations that are waited for, a block is not handled before a log  *)
(* that was sent earlier, and no crash loses a message that was received.  *)
THEOREM FinalityHolds ==
    ASSUME LogsFirst, MaxReorg < Required, MaxLost = 0
    PROVE  Spec => []ProcessedIsFinal
  <1> DEFINE Safe == FinalInv /\ lost = 0
  <1>1. Init => Safe
    <2> SUFFICES ASSUME Init PROVE FinalInv /\ lost = 0
      OBVIOUS
    <2>1. TypeOK /\ lost = 0
      BY InitType DEF Init
    <2>2. /\ chain = {} /\ blocks = <<>> /\ logs = <<>> /\ Len(blocks) = 0 /\ Len(logs) = 0
          /\ DOMAIN confirming = {} /\ DOMAIN snapshot = {} /\ processed = {}
      BY DEF Init, NoneConfirming
    <2>3. HeightInv /\ LogInv
      BY <2>2 DEF HeightInv, LogInv
    <2>4. ConfirmingInv /\ SnapshotInv /\ ProcessedInv
      BY Zenon, <2>2 DEF ConfirmingInv, SnapshotInv, ProcessedInv
    <2> QED
      BY <2>1, <2>3, <2>4 DEF FinalInv
  <1>2. Safe /\ [Next]_vars => Safe'
    BY FinalStep
  <1>3. Safe => ProcessedIsFinal
    BY DEF FinalInv, ProcessedInv, ProcessedIsFinal
  <1> HIDE DEF Safe
  <1> QED
    BY <1>1, <1>2, <1>3, PTL DEF Spec

=============================================================================
