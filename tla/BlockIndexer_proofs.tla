------------------------ MODULE BlockIndexer_proofs ------------------------
(***************************************************************************)
(* The store of the block indexer and what its consumer is told, for every *)
(* tree of blocks.                                                         *)
(***************************************************************************)
EXTENDS BlockIndexer, TLAPS

(* The part of a chain that the store should hold. *)
Segment(b) == {c \in ChainOf[b] : Number[c] >= Number[InitialBlock]}

(* The chain of b contains the initial block. *)
Rooted(b) == b \in Block /\ InitialBlock \in ChainOf[b]

Types ==
    /\ node \in Block /\ heads \in Seq(Block)
    /\ best \in Block \cup {NoBlock} /\ canonical \in SUBSET Block /\ checkpoint \in Block \cup {NoBlock}
    /\ pc \in {"down", "resume", "rounds", "subscribe", "listen", "save_canonical", "save_best", "sync"}
    /\ round \in 0..MaxRounds
    /\ sync = NoSync \/ sync \in [start : Block, cur : Block, found : Seq(Block), return : {"rounds", "listen"}]
    /\ pc = "sync" => sync # NoSync
    /\ channel \in Seq(Block) /\ subscribed \in BOOLEAN /\ canon \in SUBSET Block

(* Every block the indexer works on descends from the initial block. *)
RootedInv ==
    /\ Rooted(node) /\ node \in left.blocks
    /\ \A i \in DOMAIN heads : Rooted(heads[i]) /\ Number[heads[i]] <= Number[node]
    /\ pc # "down" => best # NoBlock
    /\ best # NoBlock => Rooted(best)
    /\ pc \in {"save_canonical", "save_best"} => heads # <<>> /\ heads[1] # Genesis /\ Parent[heads[1]] = best
    /\ pc = "sync" => Rooted(sync.start) /\ Rooted(sync.cur) /\ sync.cur \in ChainOf[sync.start]
    /\ pc = "sync" => sync.start \in ChainOf[node]

(* On one chain, with stops. *)
LineInv ==
    OneChain(left.blocks) =>
        /\ canonical \subseteq ChainOf[node]
        /\ \A i \in DOMAIN heads : heads[i] \in ChainOf[node]
        /\ best # NoBlock => best \in ChainOf[node] /\ Segment(best) \subseteq canonical
        /\ checkpoint # NoBlock =>
              checkpoint \in ChainOf[node] /\ checkpoint # InitialBlock /\ Rooted(checkpoint)
        /\ pc = "save_best" => heads[1] \in canonical
        /\ pc = "sync" => {c \in ChainOf[sync.start] : Number[c] > Number[sync.cur]} \subseteq canonical

(* The store until a stop. *)
StoreInv ==
    ~left.stopped =>
        /\ checkpoint = NoBlock
        /\ best = NoBlock => canonical = {}
        /\ best # NoBlock => Number[best] <= Number[node]
        /\ best # NoBlock /\ pc \notin {"sync", "save_best"} => canonical = Segment(best)
        /\ pc = "save_best" => canonical = Segment(heads[1])
        /\ pc = "sync" =>
              /\ Number[best] <= Number[sync.start]
              /\ canonical = {c \in Segment(best) : Number[c] <= Number[sync.cur]}
                             \cup {c \in ChainOf[sync.start] : Number[c] > Number[sync.cur]}

(* b may be told of after t. *)
Follows(t, b) == b = t \/ (b # Genesis /\ Parent[b] \in ChainOf[t] /\ b \notin ChainOf[t])

(* The consumer knows the end of the chain of t. *)
Told(S, t) == \E m \in 0..Number[t] : S = {c \in ChainOf[t] : Number[c] >= m}

(* The blocks s on their way may be told of one after the other. *)
Chained(s) == \A i \in 1..(Len(s) - 1) : Follows(s[i], s[i + 1])

(* The first of them may be told of next. *)
Linked(s, known, S) == known /\ S # {} /\ s # <<>> => \E t \in Block : Told(S, t) /\ Follows(t, s[1])

(* The last one that is or was on its way is b. *)
EndsIn(s, known, S, b) == IF s = <<>> THEN known /\ S # {} => Told(S, b) ELSE s[Len(s)] = b

(* f is the chain of s from above b, and none of it is known on that of t. *)
Found(f, s, b, t) ==
    /\ Len(f) = Number[s] - Number[b]
    /\ \A i \in DOMAIN f : f[i] \in ChainOf[s] /\ f[i] \notin ChainOf[t] /\ Number[f[i]] = Number[b] + i

(* What the consumer is told until a stop. *)
FeedInv ==
    ~left.stopped =>
        /\ pc = "down" => ~subscribed /\ channel = <<>>
        /\ Chained(channel) /\ Linked(channel, subscribed, canon)
        /\ pc \in {"save_canonical", "save_best"} => EndsIn(channel, subscribed, canon, heads[1])
        /\ pc \notin {"save_canonical", "save_best", "down"} => EndsIn(channel, subscribed, canon, best)
        /\ pc = "sync" => Found(sync.found, sync.start, sync.cur, best)

Good == Types /\ RootedInv /\ LineInv /\ StoreInv /\ FeedInv

(* What was not stopped, or is on one chain, is in order. *)
Calm == ~left.stopped \/ OneChain(left.blocks)

LeftType == left \in [stops : Nat, blocks : SUBSET Block, stopped : BOOLEAN]

Inv == LeftType /\ (Calm => Good)

(* What is stopped, or may be, is on one chain. *)
StopInv == left.stops > 0 \/ left.stopped => OneChain(left.blocks)

-----------------------------------------------------------------------------
(* Chains. *)

(* The chain of a block is the least set with the block and the parents of *)
(* its blocks.                                                             *)
LEMMA ChainFacts ==
    ASSUME NEW b \in Block
    PROVE  /\ ChainOf[b] \subseteq Block /\ b \in ChainOf[b]
           /\ \A c \in ChainOf[b] : c # Genesis => Parent[c] \in ChainOf[b]
           /\ \A S \in SUBSET Block : b \in S /\ HasParents(S) => ChainOf[b] \subseteq S
  <1>1. ChainOf[b] = {c \in Block : \A S \in SUBSET Block : b \in S /\ HasParents(S) => c \in S}
    BY Zenon DEF ChainOf
  <1>2. ASSUME NEW c \in ChainOf[b], c # Genesis PROVE Parent[c] \in ChainOf[b]
    <2>1. c \in Block /\ Parent[c] \in Block
      BY <1>1, BlockTreeAssumption
    <2>2. ASSUME NEW S \in SUBSET Block, b \in S, HasParents(S) PROVE Parent[c] \in S
      BY Zenon, <1>1, <1>2, <2>1, <2>2 DEF HasParents
    <2> QED
      BY Zenon, <1>1, <2>1, <2>2
  <1> QED
    BY Zenon, <1>1, <1>2

(* A number is one more than that of the parent. *)
LEMMA NumberFacts ==
    ASSUME NEW b \in Block
    PROVE  /\ Number[b] \in Nat /\ Parent[b] \in Block
           /\ b # Genesis => Number[b] = Number[Parent[b]] + 1 /\ Number[Parent[b]] \in Nat
  BY BlockTreeAssumption

(* The numbers of a chain are below that of its end. *)
LEMMA ChainNumbers ==
    ASSUME NEW b \in Block, NEW c \in ChainOf[b]
    PROVE  c \in Block /\ Number[c] \in Nat /\ (c = b \/ Number[c] < Number[b])
  <1> DEFINE S == {x \in Block : x = b \/ Number[x] < Number[b]}
  <1>1. ASSUME NEW x \in S, x # Genesis PROVE Parent[x] \in S
    BY <1>1, NumberFacts
  <1>2. ChainOf[b] \subseteq S
    <2>1. S \in SUBSET Block /\ b \in S
      OBVIOUS
    <2> HIDE DEF S
    <2> QED
      BY Zenon, <1>1, <2>1, ChainFacts DEF HasParents
  <1> QED
    BY <1>2, NumberFacts

(* A chain contains the chains of its blocks. *)
LEMMA ChainDown ==
    ASSUME NEW b \in Block, NEW c \in ChainOf[b]
    PROVE  ChainOf[c] \subseteq ChainOf[b]
  BY Zenon, ChainFacts DEF HasParents

(* A chain is its end and the chain of the parent of its end. *)
LEMMA ChainStep ==
    ASSUME NEW b \in Block, b # Genesis
    PROVE  /\ ChainOf[b] = {b} \cup ChainOf[Parent[b]] /\ b \notin ChainOf[Parent[b]]
           /\ Parent[b] \in Block /\ Parent[b] \in ChainOf[b]
  <1> DEFINE p == Parent[b]
             S == {b} \cup ChainOf[p]
  <1>1. p \in Block /\ p \in ChainOf[b]
    BY Zenon, ChainFacts, NumberFacts
  <1>2. S \subseteq ChainOf[b]
    BY Zenon, <1>1, ChainFacts, ChainDown
  <1>3. ChainOf[b] \subseteq S
    <2>1. S \in SUBSET Block /\ b \in S
      BY Zenon, <1>1, ChainFacts
    <2>2. \A x \in S \ {Genesis} : Parent[x] \in S
      BY Zenon, <1>1, ChainFacts
    <2> HIDE DEF S
    <2> QED
      BY Zenon, <2>1, <2>2, ChainFacts DEF HasParents
  <1>4. b \notin ChainOf[p]
    <2>1. \A c \in ChainOf[p] : c = p \/ Number[c] < Number[p]
      BY Zenon, <1>1, ChainNumbers
    <2>2. Number[b] = Number[p] + 1 /\ Number[p] \in Nat
      BY NumberFacts
    <2> QED
      BY <2>1, <2>2
  <1> QED
    BY Zenon, <1>1, <1>2, <1>3, <1>4

(* Of two blocks of a chain, the lower one is in the chain of the other. *)
LEMMA ChainOrder ==
    ASSUME NEW b \in Block, NEW c \in ChainOf[b], NEW d \in ChainOf[b], Number[c] <= Number[d]
    PROVE  c \in ChainOf[d]
  <1> DEFINE S == {x \in ChainOf[b] : \A y \in ChainOf[b] : Number[y] <= Number[x] => y \in ChainOf[x]}
  <1>1. S \in SUBSET Block /\ b \in S
    BY Zenon, ChainFacts
  <1>2. ASSUME NEW x \in S, x # Genesis PROVE Parent[x] \in S
    <2>1. x \in Block /\ x \in ChainOf[b] /\ Parent[x] \in ChainOf[b] /\ ChainOf[x] = {x} \cup ChainOf[Parent[x]]
      BY Zenon, <1>2, ChainFacts, ChainStep
    <2>2. ASSUME NEW y \in ChainOf[b], Number[y] <= Number[Parent[x]] PROVE y \in ChainOf[Parent[x]]
      <3>1. y \in Block
        BY Zenon, ChainFacts
      <3>2. Number[y] <= Number[x] /\ y # x
        BY <1>2, <2>1, <2>2, <3>1, NumberFacts
      <3> QED
        BY Zenon, <2>1, <3>2
    <2> QED
      BY Zenon, <2>1, <2>2
  <1>3. ChainOf[b] \subseteq S
    <2> HIDE DEF S
    <2> QED
      BY Zenon, <1>1, <1>2, ChainFacts DEF HasParents
  <1> QED
    BY Zenon, <1>3

(* A chain has one block of a number. *)
LEMMA ChainUnique ==
    ASSUME NEW b \in Block, NEW c \in ChainOf[b], NEW d \in ChainOf[b], Number[c] = Number[d]
    PROVE  c = d
  <1>1. c \in Block /\ d \in Block
    BY Zenon, ChainFacts
  <1>2. Number[c] <= Number[d] /\ ~(Number[c] < Number[d])
    BY <1>1, NumberFacts
  <1> QED
    BY Zenon, <1>1, <1>2, ChainOrder, ChainNumbers

-----------------------------------------------------------------------------
(* What the steps have in common. *)

(* A rooted block is not below the initial one. *)
LEMMA RootedFacts ==
    ASSUME NEW b, Rooted(b)
    PROVE  /\ b \in Block /\ b \in Segment(b) /\ Number[b] \in Nat /\ Number[InitialBlock] <= Number[b]
           /\ InitialBlock \in Segment(b) /\ Segment(b) \subseteq ChainOf[b] /\ Segment(b) \subseteq Block
           /\ \A c \in Segment(b) : Number[c] \in Nat /\ (c = b \/ Number[c] < Number[b])
           /\ \A c \in ChainOf[b] : Number[c] >= Number[InitialBlock] => Rooted(c) /\ c \in Segment(b)
  <1>1. b \in Block /\ b \in ChainOf[b] /\ ChainOf[b] \subseteq Block /\ InitialBlock \in ChainOf[b]
    BY Zenon, ChainFacts DEF Rooted
  <1>2. Number[InitialBlock] <= Number[b] /\ Number[b] \in Nat /\ Number[InitialBlock] \in Nat
    <2>1. InitialBlock = b \/ Number[InitialBlock] < Number[b]
      BY Zenon, <1>1, ChainNumbers
    <2> QED
      BY <1>1, <2>1, NumberFacts
  <1>3. \A c \in Segment(b) : Number[c] \in Nat /\ (c = b \/ Number[c] < Number[b])
    BY Zenon, <1>1, ChainNumbers DEF Segment
  <1>4. ASSUME NEW c \in ChainOf[b], Number[c] >= Number[InitialBlock] PROVE Rooted(c) /\ c \in Segment(b)
    <2>1. Number[InitialBlock] <= Number[c] /\ c \in Block
      BY <1>1, <1>2, <1>4, NumberFacts
    <2> QED
      BY Zenon, <1>1, <1>4, <2>1, ChainOrder DEF Rooted, Segment
  <1>5. Number[b] >= Number[InitialBlock] /\ Number[InitialBlock] >= Number[InitialBlock]
    BY <1>2
  <1>6. b \in Segment(b) /\ InitialBlock \in Segment(b) /\ Segment(b) \subseteq ChainOf[b]
    BY Zenon, <1>1, <1>5 DEF Segment
  <1> QED
    BY Zenon, <1>1, <1>2, <1>3, <1>4, <1>6

(* The parent of a rooted block other than the initial one is rooted. *)
LEMMA RootedParent ==
    ASSUME NEW b, Rooted(b), b # InitialBlock
    PROVE  b # Genesis /\ Rooted(Parent[b]) /\ Number[Parent[b]] = Number[b] - 1
  <1>1. b \in Block /\ InitialBlock \in ChainOf[b]
    BY DEF Rooted
  <1>2. InitialBlock \in Block /\ Number[InitialBlock] < Number[b]
    BY Zenon, <1>1, ChainNumbers
  <1>3. b # Genesis
    BY <1>1, <1>2, BlockTreeAssumption
  <1>4. Parent[b] \in Block /\ InitialBlock \in ChainOf[Parent[b]]
    <2>1. ChainOf[b] = {b} \cup ChainOf[Parent[b]] /\ Parent[b] \in Block
      BY Zenon, <1>1, <1>3, ChainStep
    <2> QED
      BY <1>1, <2>1
  <1>5. Number[Parent[b]] = Number[b] - 1
    BY <1>1, <1>3, NumberFacts
  <1> QED
    BY <1>3, <1>4, <1>5 DEF Rooted

(* The segment of a child. *)
LEMMA SegmentStep ==
    ASSUME NEW b \in Block, b # Genesis, Rooted(Parent[b])
    PROVE  /\ Rooted(b) /\ Segment(b) = Segment(Parent[b]) \cup {b} /\ b \notin ChainOf[Parent[b]]
           /\ \A c \in ChainOf[Parent[b]] : Number[c] < Number[b]
  <1>1. ChainOf[b] = {b} \cup ChainOf[Parent[b]] /\ b \notin ChainOf[Parent[b]]
    BY Zenon, ChainStep
  <1>2. Rooted(b)
    BY Zenon, <1>1 DEF Rooted
  <1>3. Number[b] >= Number[InitialBlock]
    BY <1>2, RootedFacts
  <1>4. ASSUME NEW c \in ChainOf[Parent[b]] PROVE Number[c] < Number[b]
    <2>1. /\ Parent[b] \in Block /\ Number[b] = Number[Parent[b]] + 1 /\ Number[Parent[b]] \in Nat 
      BY NumberFacts
    <2>2. c = Parent[b] \/ Number[c] < Number[Parent[b]]
      BY Zenon, <2>1, ChainNumbers
    <2>3. Number[c] \in Nat
      BY Zenon, <2>1, ChainNumbers
    <2> QED
      BY <2>1, <2>2, <2>3
  <1> QED
    BY Zenon, <1>1, <1>2, <1>3, <1>4 DEF Segment

(* One height of the store gets another block. *)
LEMMA SetCanonicalFacts ==
    ASSUME NEW S, canonical = S, NEW b
    PROVE  SetCanonical(b) = {c \in S : Number[c] # Number[b]} \cup {b}
  BY Zenon DEF SetCanonical

(* The next block of a backward sync is the parent of the last one. *)
LEMMA NextIsParent ==
    ASSUME Good, pc = "sync", sync.cur # InitialBlock
    PROVE  /\ NextSyncBlock(Number[sync.cur] - 1) = Parent[sync.cur]
           /\ Rooted(Parent[sync.cur]) /\ Parent[sync.cur] \in ChainOf[sync.start]
           /\ Number[Parent[sync.cur]] = Number[sync.cur] - 1
  <1> DEFINE b == sync.cur
             n == Number[b] - 1
  <1>1. /\ Rooted(sync.start) /\ Rooted(b) /\ b \in ChainOf[sync.start] /\ sync.start \in ChainOf[node]
        /\ Rooted(node)
    BY Zenon DEF Good, RootedInv
  <1> HIDE DEF b
  <1>2. b \in Block /\ node \in Block /\ sync.start \in Block
    BY Zenon, <1>1 DEF Rooted
  <1>3. b # Genesis /\ Rooted(Parent[b]) /\ Number[Parent[b]] = n
    BY <1>1, RootedParent DEF b
  <1>4. Parent[b] \in ChainOf[sync.start] /\ Parent[b] \in ChainOf[node]
    BY Zenon, <1>1, <1>2, <1>3, ChainFacts, ChainDown
  <1>5. ~(n > Number[node])
    <2>1. Parent[b] = node \/ Number[Parent[b]] < Number[node]
      BY Zenon, <1>2, <1>4, ChainNumbers
    <2> QED
      BY <1>2, <1>3, <2>1, NumberFacts
  <1> HIDE DEF n
  <1>6. \A c \in ChainOf[node] : Number[c] = n => c = Parent[b]
    BY Zenon, <1>2, <1>3, <1>4, ChainUnique
  <1>7. (CHOOSE c \in ChainOf[node] : Number[c] = n) = Parent[b]
    BY Zenon, <1>3, <1>4, <1>6
  <1>8. NextSyncBlock(n) = Parent[b]
    BY Zenon, <1>5, <1>7 DEF NextSyncBlock
  <1> QED
    BY Zenon, <1>3, <1>4, <1>8 DEF b, n

(* A node that keeps to one chain only moves up. *)
LEMMA NodeMovesUp ==
    ASSUME OrderlyNode, RootedInv, NEW b \in left.blocks, left.blocks \subseteq Block,
           TotalDifficulty[b] > TotalDifficulty[node],
           pc = "sync" /\ ~ReorgDuringSync => node \in ChainOf[b]
    PROVE  /\ Number[node] <= Number[b] /\ b \in Block
           /\ pc = "sync" \/ OneChain(left.blocks) => node \in ChainOf[b] /\ ChainOf[node] \subseteq ChainOf[b]
  <1>1. node \in Block /\ node \in left.blocks /\ b \in Block
    BY Zenon DEF RootedInv, Rooted
  <1>2. Number[b] >= Number[node]
    BY Zenon, <1>1 DEF OrderlyNode
  <1>3. Number[node] <= Number[b] /\ ~(Number[b] < Number[node]) /\ b # node
    BY <1>1, <1>2, NumberFacts, BlockTreeAssumption
  <1>4. OneChain(left.blocks) => node \in ChainOf[b]
    BY Zenon, <1>1, <1>3, ChainNumbers DEF OneChain
  <1> QED
    BY Zenon, <1>1, <1>3, <1>4, ChainDown DEF OrderlyNode

(* More blocks are sent to the notifier. *)
LEMMA ConcatFeed ==
    ASSUME NEW s \in Seq(Block), NEW f \in Seq(Block), NEW known, NEW S, NEW t \in Block,
           Chained(s), Linked(s, known, S), EndsIn(s, known, S, t),
           f # <<>>, Chained(f), Follows(t, f[1])
    PROVE  /\ s \o f \in Seq(Block) /\ Chained(s \o f) /\ Linked(s \o f, known, S)
           /\ EndsIn(s \o f, known, S, f[Len(f)])
  <1> DEFINE u == s \o f
  <1>1. u \in Seq(Block) /\ Len(u) = Len(s) + Len(f) /\ Len(s) \in Nat /\ Len(f) \in Nat /\ Len(f) > 0
    <2>1. u \in Seq(Block)
      OBVIOUS
    <2>2. Len(u) = Len(s) + Len(f)
      OBVIOUS
    <2>3. Len(s) \in Nat /\ Len(f) \in Nat /\ Len(f) > 0
      OBVIOUS
    <2> QED
      BY Zenon, <2>1, <2>2, <2>3
  <1>2. /\ \A i \in 1..Len(s) : u[i] = s[i]
        /\ \A i \in 1..Len(f) : u[Len(s) + i] = f[i]
    OBVIOUS
  <1>3. u # <<>> /\ u[Len(u)] = f[Len(f)]
    BY <1>1, <1>2
  <1>4. s # <<>> => Len(s) > 0 /\ s[Len(s)] = t
    BY DEF EndsIn
  <1>5. s = <<>> => u[1] = f[1]
    BY <1>1, <1>2
  <1>6. s # <<>> => u[1] = s[1]
    BY <1>1, <1>2, <1>4
  <1> HIDE DEF u
  <1>7. ASSUME NEW i \in 1..(Len(u) - 1) PROVE Follows(u[i], u[i + 1])
    <2>1. CASE i < Len(s)
      <3>1. u[i] = s[i] /\ u[i + 1] = s[i + 1] /\ i \in 1..(Len(s) - 1)
        BY <1>1, <1>2, <2>1
      <3> QED
        BY Zenon, <3>1 DEF Chained
    <2>2. CASE i = Len(s)
      <3>1. u[i] = s[Len(s)] /\ s # <<>>
        BY <1>1, <1>2, <2>2
      <3>2. u[i + 1] = f[1]
        BY <1>1, <1>2, <2>2
      <3> QED
        BY Zenon, <1>4, <3>1, <3>2
    <2>3. CASE i > Len(s)
      <3> DEFINE j == i - Len(s)
      <3>1. j \in 1..(Len(f) - 1) /\ j + 1 \in 1..Len(f) /\ j \in 1..Len(f) /\ Len(s) + j = i /\ Len(s) + (j + 1) = i + 1
        BY <1>1, <2>3
      <3> HIDE DEF j
      <3>2. u[Len(s) + j] = f[j] /\ u[Len(s) + (j + 1)] = f[j + 1]
        BY Zenon, <1>2, <3>1
      <3>3. u[i] = f[j] /\ u[i + 1] = f[j + 1]
        BY Zenon, <3>1, <3>2
      <3> QED
        BY Zenon, <3>1, <3>3 DEF Chained
    <2> QED
      BY <1>1, <2>1, <2>2, <2>3
  <1>8. Linked(u, known, S)
    BY Zenon, <1>5, <1>6 DEF Linked, EndsIn
  <1> QED
    BY Zenon, <1>1, <1>3, <1>7, <1>8 DEF u, Chained, EndsIn

-----------------------------------------------------------------------------
(* One lemma for each action. *)

(* The node moves to a heavier chain, which is not shorter: what is stored and told is as before. *)
LEMMA NewHeadStep ==
    ASSUME OrderlyNode, LeftType, Good, NewHead
    PROVE  Good'
  <1>0. Types /\ RootedInv /\ LineInv /\ StoreInv /\ FeedInv
    BY DEF Good
  <1>1. PICK b \in left.blocks :
           /\ TotalDifficulty[b] > TotalDifficulty[node] /\ InitialBlock \in ChainOf[b]
           /\ pc = "sync" /\ ~ReorgDuringSync => node \in ChainOf[b]
           /\ node' = b
           /\ heads' = IF Listening THEN Append(heads, b) ELSE heads
           /\ UNCHANGED <<store, thread, link, left>>
    BY Zenon DEF NewHead
  <1>2. UNCHANGED <<best, canonical, checkpoint, pc, round, sync, channel, subscribed, canon, left>>
    BY <1>1 DEF store, thread, link
  <1>3. left.blocks \subseteq Block
    BY DEF LeftType
  <1>4. /\ Number[node] <= Number[b] /\ b \in Block
        /\ pc = "sync" \/ OneChain(left.blocks) => node \in ChainOf[b] /\ ChainOf[node] \subseteq ChainOf[b]
    BY Zenon, <1>0, <1>1, <1>3, NodeMovesUp
  <1>5. /\ heads' \in Seq(Block)
        /\ \A i \in DOMAIN heads' : (i \in DOMAIN heads /\ heads'[i] = heads[i]) \/ heads'[i] = b
        /\ heads # <<>> => heads' # <<>> /\ heads'[1] = heads[1]
    <2>1. heads \in Seq(Block)
      BY <1>0 DEF Types
    <2>2. CASE Listening
      BY <1>1, <1>4, <2>1, <2>2
    <2>3. CASE ~Listening
      BY Zenon, <1>1, <2>1, <2>3
    <2> QED
      BY <2>2, <2>3
  <1>6. Types'
    BY Zenon, <1>0, <1>1, <1>2, <1>4, <1>5 DEF Types
  <1>7. RootedInv'
    <2>1. Rooted(b) /\ b \in left.blocks /\ Number[b] <= Number[b]
      BY <1>1, <1>4, NumberFacts DEF Rooted
    <2>2. ASSUME NEW i \in DOMAIN heads' PROVE Rooted(heads'[i]) /\ Number[heads'[i]] <= Number[b]
      <3>1. CASE heads'[i] = b
        BY Zenon, <2>1, <3>1
      <3>2. CASE i \in DOMAIN heads /\ heads'[i] = heads[i]
        <4>1. Rooted(heads[i]) /\ Number[heads[i]] <= Number[node] /\ node \in Block
          BY Zenon, <1>0, <3>2 DEF RootedInv, Rooted
        <4>2. heads[i] \in Block
          BY <4>1 DEF Rooted
        <4>3. Number[heads[i]] <= Number[b]
          BY <1>4, <4>1, <4>2, NumberFacts
        <4> QED
          BY Zenon, <3>2, <4>1, <4>3
      <3> QED
        BY Zenon, <1>5, <3>1, <3>2
    <2>3. pc = "sync" => sync.start \in ChainOf[b]
      BY Zenon, <1>0, <1>4 DEF RootedInv
    <2> QED
      BY Zenon, <1>0, <1>1, <1>2, <1>5, <2>1, <2>2, <2>3 DEF RootedInv
  <1>8. LineInv'
    <2>1. SUFFICES ASSUME OneChain(left.blocks) PROVE LineInv'
      BY Zenon, <1>2 DEF LineInv
    <2>2. ChainOf[node] \subseteq ChainOf[b] /\ b \in ChainOf[b]
      BY Zenon, <1>4, <2>1, ChainFacts
    <2>3. pc = "save_best" => heads'[1] = heads[1]
      BY Zenon, <1>0, <1>5 DEF RootedInv
    <2>4. \A i \in DOMAIN heads' : heads'[i] \in ChainOf[b]
      BY Zenon, <1>0, <1>5, <2>1, <2>2 DEF LineInv
    <2> QED
      BY Zenon, <1>0, <1>1, <1>2, <2>1, <2>2, <2>3, <2>4 DEF LineInv
  <1>9. StoreInv'
    <2>1. pc = "save_best" => heads'[1] = heads[1]
      BY Zenon, <1>0, <1>5 DEF RootedInv
    <2>2. ~left.stopped /\ best # NoBlock => Number[best] <= Number[b]
      <3> SUFFICES ASSUME ~left.stopped, best # NoBlock PROVE Number[best] <= Number[b]
        OBVIOUS
      <3>1. Number[best] <= Number[node] /\ best \in Block /\ node \in Block
        BY Zenon, <1>0 DEF StoreInv, RootedInv, Rooted
      <3> QED
        BY <1>4, <3>1, NumberFacts
    <2> QED
      BY Zenon, <1>0, <1>1, <1>2, <2>1, <2>2 DEF StoreInv
  <1>10. FeedInv'
    <2>1. pc \in {"save_canonical", "save_best"} => heads'[1] = heads[1]
      BY Zenon, <1>0, <1>5 DEF RootedInv
    <2> QED
      BY Zenon, <1>0, <1>2, <2>1 DEF FeedInv
  <1> QED
    BY <1>6, <1>7, <1>8, <1>9, <1>10 DEF Good

(* A head that the subscription loses changes nothing else. *)
LEMMA SkipHeadStep ==
    ASSUME Good, SkipHead
    PROVE  Good'
  <1>0. Types /\ RootedInv /\ LineInv /\ StoreInv /\ FeedInv
    BY DEF Good
  <1>1. /\ pc = "listen" /\ heads # <<>> /\ heads' = Tail(heads)
        /\ UNCHANGED <<node, best, canonical, checkpoint, pc, round, sync, channel, subscribed, canon, left>>
    BY DEF SkipHead, store, thread, link
  <1>2. heads' \in Seq(Block) /\ \A i \in DOMAIN heads' : i + 1 \in DOMAIN heads /\ heads'[i] = heads[i + 1]
    BY <1>0, <1>1 DEF Types
  <1>3. Types'
    BY Zenon, <1>0, <1>1, <1>2 DEF Types
  <1>4. RootedInv'
    BY Zenon, <1>0, <1>1, <1>2 DEF RootedInv
  <1>5. LineInv'
    BY Zenon, <1>0, <1>1, <1>2 DEF LineInv
  <1>6. StoreInv'
    BY Zenon, <1>0, <1>1 DEF StoreInv
  <1>7. FeedInv'
    BY Zenon, <1>0, <1>1 DEF FeedInv
  <1> QED
    BY <1>3, <1>4, <1>5, <1>6, <1>7 DEF Good

(* A stop is recorded. *)
LEMMA StopsFacts ==
    ASSUME LeftType, Stops
    PROVE  LeftType' /\ left'.blocks = left.blocks /\ left'.stopped = TRUE
  <1>1. left.stops - 1 \in Nat
    BY DEF LeftType, Stops
  <1>2. left' = [left EXCEPT !.stops = left.stops - 1, !.stopped = TRUE]
    BY Zenon DEF Stops
  <1> QED
    BY Zenon, <1>1, <1>2 DEF LeftType

(* A crash empties the memory and leaves the store. *)
LEMMA CrashStep ==
    ASSUME LeftType, Good, Crash
    PROVE  Good'
  <1>0. Types /\ RootedInv /\ LineInv
    BY DEF Good
  <1>1. /\ pc' = "down" /\ round' = 0 /\ sync' = NoSync /\ heads' = <<>> /\ channel' = <<>> /\ subscribed' = FALSE
        /\ UNCHANGED <<node, best, canonical, checkpoint, canon>>
    BY DEF Crash, store
  <1>2. left'.blocks = left.blocks /\ left'.stopped = TRUE
    BY Zenon, StopsFacts DEF Crash
  <1>3. Types'
    <2>1. 0 \in 0..MaxRounds /\ <<>> \in Seq(Block)
      BY BlockIndexerAssumption
    <2> QED
      BY Zenon, <1>0, <1>1, <2>1 DEF Types
  <1>4. DOMAIN heads' = {}
    BY <1>1
  <1>5. RootedInv'
    BY Zenon, <1>0, <1>1, <1>2, <1>4 DEF RootedInv
  <1>6. LineInv'
    BY Zenon, <1>0, <1>1, <1>2, <1>4 DEF LineInv
  <1>7. StoreInv' /\ FeedInv'
    BY Zenon, <1>2 DEF StoreInv, FeedInv
  <1> QED
    BY <1>3, <1>5, <1>6, <1>7 DEF Good

(* init_db_if_required gives an empty store the initial block. *)
LEMMA StartStep ==
    ASSUME Good, Start
    PROVE  Good'
  <1>0. Types /\ RootedInv /\ LineInv /\ StoreInv /\ FeedInv
    BY DEF Good
  <1>1. /\ pc = "down" /\ pc' = "resume"
        /\ UNCHANGED <<node, heads, checkpoint, round, sync, channel, subscribed, canon, left>>
    BY DEF Start, link
  <1>2. Rooted(InitialBlock) /\ InitialBlock # NoBlock
    BY ChainFacts, BlockIndexerAssumption DEF Rooted
  <1>3. Segment(InitialBlock) = {InitialBlock}
    <2>1. \A c \in Segment(InitialBlock) : c = InitialBlock \/ Number[c] < Number[InitialBlock]
      BY Zenon, <1>2, RootedFacts
    <2>2. \A c \in Segment(InitialBlock) : Number[c] \in Nat /\ Number[c] >= Number[InitialBlock]
      BY Zenon, <1>2, RootedFacts DEF Segment
    <2>3. InitialBlock \in Segment(InitialBlock) /\ Number[InitialBlock] \in Nat
      BY Zenon, <1>2, RootedFacts
    <2> QED
      BY <2>1, <2>2, <2>3
  <1>4. CASE best = NoBlock
    <2>1. best' = InitialBlock /\ canonical' = {c \in canonical : Number[c] # Number[InitialBlock]} \cup {InitialBlock}
      BY <1>4 DEF Start, SetCanonical
    <2>2. Rooted(node) /\ InitialBlock \in ChainOf[node] /\ InitialBlock \in Block /\ Number[InitialBlock] <= Number[node]
      BY <1>0, <1>2, RootedFacts DEF RootedInv, Rooted
    <2>3. Types'
      BY <1>0, <1>1, <2>1, <2>2 DEF Types
    <2>4. RootedInv'
      BY Zenon, <1>0, <1>1, <1>2, <2>1 DEF RootedInv
    <2>5. LineInv'
      <3>1. InitialBlock \in canonical' /\ \A c \in canonical' : c \in canonical \/ c = InitialBlock
        BY Zenon, <2>1
      <3> QED
        BY Zenon, <1>0, <1>1, <1>3, <2>1, <2>2, <3>1 DEF LineInv
    <2>6. StoreInv'
      <3>1. ~left.stopped => canonical' = Segment(InitialBlock)
        BY <1>0, <1>3, <1>4, <2>1 DEF StoreInv
      <3> QED
        BY Zenon, <1>0, <1>1, <1>2, <2>1, <2>2, <3>1 DEF StoreInv
    <2>7. FeedInv'
      <3>1. ~left.stopped => EndsIn(channel, subscribed, canon, best')
        BY Zenon, <1>0, <1>1 DEF FeedInv, EndsIn
      <3> QED
        BY Zenon, <1>0, <1>1, <3>1 DEF FeedInv
    <2> QED
      BY <2>3, <2>4, <2>5, <2>6, <2>7 DEF Good
  <1>5. CASE best # NoBlock
    <2>1. UNCHANGED <<best, canonical>>
      BY <1>5 DEF Start
    <2>2. Types'
      BY Zenon, <1>0, <1>1, <2>1 DEF Types
    <2>3. RootedInv'
      BY Zenon, <1>0, <1>1, <1>5, <2>1 DEF RootedInv
    <2>4. LineInv'
      BY Zenon, <1>0, <1>1, <2>1 DEF LineInv
    <2>5. StoreInv'
      BY Zenon, <1>0, <1>1, <2>1 DEF StoreInv
    <2>6. FeedInv'
      <3>1. ~left.stopped => EndsIn(channel, subscribed, canon, best)
        BY Zenon, <1>0, <1>1 DEF FeedInv, EndsIn
      <3> QED
        BY Zenon, <1>0, <1>1, <2>1, <3>1 DEF FeedInv
    <2> QED
      BY <2>2, <2>3, <2>4, <2>5, <2>6 DEF Good
  <1> QED
    BY <1>4, <1>5

(* subscribe_blocks changes nothing of the store. *)
LEMMA SubscribeStep ==
    ASSUME Good, Subscribe
    PROVE  Good'
  <1>0. Types /\ RootedInv /\ LineInv /\ StoreInv /\ FeedInv
    BY DEF Good
  <1>1. /\ pc = "subscribe" /\ pc' = "listen"
        /\ UNCHANGED <<node, heads, best, canonical, checkpoint, round, sync, channel, subscribed, canon, left>>
    BY DEF Subscribe, store, link
  <1>2. Types' /\ RootedInv'
    BY Zenon, <1>0, <1>1 DEF Types, RootedInv
  <1>3. LineInv' /\ StoreInv'
    BY Zenon, <1>0, <1>1 DEF LineInv, StoreInv
  <1>4. FeedInv'
    BY Zenon, <1>0, <1>1 DEF FeedInv
  <1> QED
    BY <1>2, <1>3, <1>4 DEF Good

(* A consumer that subscribes starts from nothing. *)
LEMMA UpdateConsumersStep ==
    ASSUME Good, UpdateConsumers
    PROVE  Good'
  <1>0. Types /\ RootedInv /\ LineInv /\ StoreInv /\ FeedInv
    BY DEF Good
  <1>1. /\ pc # "down" /\ subscribed' = TRUE /\ canon' = {}
        /\ UNCHANGED <<node, heads, best, canonical, checkpoint, pc, round, sync, channel, left>>
    BY DEF UpdateConsumers, store, thread
  <1>2. Types' /\ RootedInv'
    BY Zenon, <1>0, <1>1 DEF Types, RootedInv
  <1>3. LineInv' /\ StoreInv'
    BY Zenon, <1>0, <1>1 DEF LineInv, StoreInv
  <1>4. FeedInv'
    <2>1. Linked(channel, TRUE, {}) /\ \A b : EndsIn(channel, subscribed, canon, b) => EndsIn(channel, TRUE, {}, b)
      BY Zenon DEF EndsIn, Linked
    <2> QED
      BY Zenon, <1>0, <1>1, <2>1 DEF FeedInv
  <1> QED
    BY <1>2, <1>3, <1>4 DEF Good

(* A backward sync begins. *)
LEMMA BeginSync ==
    ASSUME Good, pc \in {"resume", "rounds", "listen"}, NEW b, NEW return \in {"rounds", "listen"},
           Rooted(b), b \in ChainOf[node], ~left.stopped => Number[best] <= Number[b],
           BackwardSync(b, return), round' \in 0..MaxRounds, heads' = heads \/ (heads # <<>> /\ heads' = Tail(heads)),
           UNCHANGED <<node, best, canonical, checkpoint, channel, subscribed, canon, left>>
    PROVE  Good'
  <1>0. Types /\ RootedInv /\ LineInv /\ StoreInv /\ FeedInv
    BY DEF Good
  <1>1. pc' = "sync" /\ sync' = [start |-> b, cur |-> b, found |-> <<>>, return |-> return]
    BY DEF BackwardSync
  <1>2. sync'.start = b /\ sync'.cur = b /\ sync'.found = <<>>
    BY <1>1
  <1>3. /\ b \in Block /\ b \in ChainOf[b] /\ Number[b] \in Nat
        /\ \A c \in ChainOf[b] : ~(Number[c] > Number[b])
    <2>1. b \in Block /\ b \in ChainOf[b] /\ \A c \in ChainOf[b] : c \in Block /\ (c = b \/ Number[c] < Number[b])
      BY Zenon, ChainFacts, ChainNumbers DEF Rooted
    <2> QED
      BY <2>1, NumberFacts
  <1>4. heads' \in Seq(Block) /\ \A i \in DOMAIN heads' : \E j \in DOMAIN heads : heads'[i] = heads[j]
    <2>1. heads \in Seq(Block)
      BY <1>0 DEF Types
    <2>2. CASE heads # <<>> /\ heads' = Tail(heads)
      <3>1. heads' \in Seq(Block) /\ \A i \in DOMAIN heads' : i + 1 \in DOMAIN heads /\ heads'[i] = heads[i + 1]
        BY <2>1, <2>2
      <3> QED
        BY Zenon, <3>1
    <2> QED
      BY Zenon, <2>1, <2>2
  <1>5. Types'
    <2>1. sync' \in [start : Block, cur : Block, found : Seq(Block), return : {"rounds", "listen"}] /\ sync' # NoSync
      BY <1>1, <1>3, BlockIndexerAssumption DEF NoSync
    <2> QED
      BY Zenon, <1>0, <1>1, <1>4, <2>1 DEF Types
  <1>6. RootedInv'
    BY Zenon, <1>0, <1>1, <1>2, <1>3, <1>4 DEF RootedInv
  <1>7. LineInv'
    BY Zenon, <1>0, <1>1, <1>2, <1>3, <1>4 DEF LineInv
  <1>8. StoreInv'
    <2>1. SUFFICES ASSUME ~left.stopped PROVE StoreInv'
      BY Zenon DEF StoreInv
    <2>2. best # NoBlock /\ Rooted(best) /\ canonical = Segment(best) /\ Number[best] <= Number[b]
      BY Zenon, <1>0, <2>1 DEF StoreInv, RootedInv
    <2>3. \A c \in Segment(best) : Number[c] <= Number[b]
      BY <1>3, <2>2, RootedFacts
    <2>4. canonical = {c \in Segment(best) : Number[c] <= Number[b]} \cup {c \in ChainOf[b] : Number[c] > Number[b]}
      BY Zenon, <1>3, <2>2, <2>3
    <2> QED
      BY Zenon, <1>0, <1>1, <1>2, <2>1, <2>2, <2>4 DEF StoreInv
  <1>9. FeedInv'
    <2>1. Len(sync'.found) = Number[b] - Number[b] /\ DOMAIN sync'.found = {}
      BY <1>2, <1>3
    <2> QED
      BY Zenon, <1>0, <1>1, <1>2, <2>1 DEF FeedInv, Found
  <1> QED
    BY <1>5, <1>6, <1>7, <1>8, <1>9 DEF Good

(* pc moves on and nothing else does. *)
LEMMA MovesOn ==
    ASSUME Good, pc \in {"resume", "rounds"}, pc' \in {"rounds", "subscribe"}, round' \in 0..MaxRounds,
           UNCHANGED <<node, heads, best, canonical, checkpoint, sync, channel, subscribed, canon, left>>
    PROVE  Good'
  <1>0. Types /\ RootedInv /\ LineInv /\ StoreInv /\ FeedInv
    BY DEF Good
  <1>1. pc' \notin {"down", "sync", "save_canonical", "save_best"} /\ pc \notin {"down", "sync", "save_canonical", "save_best"}
    OBVIOUS
  <1>2. Types' /\ RootedInv'
    BY Zenon, <1>0, <1>1 DEF Types, RootedInv
  <1>3. LineInv' /\ StoreInv'
    BY Zenon, <1>0, <1>1 DEF LineInv, StoreInv
  <1>4. FeedInv'
    BY Zenon, <1>0, <1>1 DEF FeedInv
  <1> QED
    BY <1>2, <1>3, <1>4 DEF Good

(* resume_pending_backward_sync goes on below the checkpoint. *)
LEMMA ResumeStep ==
    ASSUME Good, Calm, Resume
    PROVE  Good'
  <1>0. Types /\ RootedInv /\ LineInv /\ StoreInv /\ FeedInv
    BY DEF Good
  <1>1. /\ pc = "resume" /\ round' = MaxRounds
        /\ UNCHANGED <<node, heads, best, canonical, checkpoint, channel, subscribed, canon, left>>
    BY DEF Resume, store, link
  <1>2. round' \in 0..MaxRounds
    BY <1>1, BlockIndexerAssumption
  <1>3. CASE checkpoint \notin {NoBlock, Genesis} /\ BackwardSync(Parent[checkpoint], "rounds")
    <2>1. left.stopped /\ OneChain(left.blocks)
      BY Zenon, <1>0, <1>3 DEF StoreInv, Calm
    <2>2. checkpoint \in ChainOf[node] /\ checkpoint # InitialBlock /\ Rooted(checkpoint) /\ node \in Block
      BY Zenon, <1>0, <1>3, <2>1 DEF LineInv, RootedInv, Rooted
    <2>3. Rooted(Parent[checkpoint])
      BY Zenon, <2>2, RootedParent
    <2>4. Parent[checkpoint] \in ChainOf[node]
      BY Zenon, <1>3, <2>2, ChainFacts
    <2>5. pc \in {"resume", "rounds", "listen"} /\ "rounds" \in {"rounds", "listen"}
      BY <1>1
    <2> QED
      BY Zenon, <1>1, <1>2, <1>3, <2>1, <2>3, <2>4, <2>5, BeginSync
  <1>4. CASE pc' = "rounds" /\ UNCHANGED sync
    <2>1. pc \in {"resume", "rounds"} /\ pc' \in {"rounds", "subscribe"}
      BY <1>1, <1>4
    <2> QED
      BY Zenon, <1>1, <1>2, <1>4, <2>1, MovesOn
  <1> QED
    BY Zenon, <1>3, <1>4 DEF Resume

(* A round of full_sync_backward_syncs starts from the best block of the node. *)
LEMMA FullSyncRoundStep ==
    ASSUME Good, FullSyncRound
    PROVE  Good'
  <1>0. Types /\ RootedInv /\ LineInv /\ StoreInv /\ FeedInv
    BY DEF Good
  <1>1. /\ pc = "rounds" /\ round \in 0..MaxRounds /\ MaxRounds \in Nat
        /\ channel' = (IF pc' = "down" THEN <<>> ELSE channel) /\ subscribed' = (subscribed /\ pc' # "down")
        /\ UNCHANGED <<node, heads, best, canonical, checkpoint, canon, left>>
    BY Zenon, <1>0, BlockIndexerAssumption DEF FullSyncRound, store, Types
  <1>2. CASE round = 0 /\ pc' = "down" /\ UNCHANGED <<round, sync>>
    <2>0. <<>> \in Seq(Block)
      OBVIOUS
    <2>1. channel' = <<>> /\ subscribed' = FALSE /\ <<>> \in Seq(Block)
      BY Zenon, <1>1, <1>2, <2>0
    <2>2. Types'
      BY Zenon, <1>0, <1>1, <1>2, <2>1 DEF Types
    <2>3. RootedInv'
      BY Zenon, <1>0, <1>1, <1>2 DEF RootedInv
    <2>4. LineInv' /\ StoreInv'
      BY Zenon, <1>0, <1>1, <1>2 DEF LineInv, StoreInv
    <2>5. FeedInv'
      <3>1. Len(channel') = 0 /\ 1..(0 - 1) = {}
        BY <2>1
      <3> QED
        BY Zenon, <1>2, <2>1, <3>1 DEF FeedInv, Chained, Linked
    <2> QED
      BY <2>2, <2>3, <2>4, <2>5 DEF Good
  <1>3. CASE pc' = "subscribe" /\ UNCHANGED <<round, sync>>
    <2>1. pc' # "down" /\ pc \in {"resume", "rounds"} /\ pc' \in {"rounds", "subscribe"}
      BY <1>1, <1>3
    <2>2. channel' = channel /\ subscribed' = subscribed
      BY Zenon, <1>0, <1>1, <2>1 DEF Types
    <2> QED
      BY Zenon, <1>1, <1>3, <2>1, <2>2, MovesOn
  <1>4. CASE round > 0 /\ round' = round - 1 /\ BackwardSync(node, "rounds")
    <2>1. pc' # "down" /\ pc \in {"resume", "rounds", "listen"} /\ "rounds" \in {"rounds", "listen"}
      BY <1>1, <1>4 DEF BackwardSync
    <2>2. channel' = channel /\ subscribed' = subscribed
      BY Zenon, <1>0, <1>1, <2>1 DEF Types
    <2>3. round' \in 0..MaxRounds
      BY <1>1, <1>4
    <2>4. Rooted(node) /\ node \in ChainOf[node]
      BY Zenon, <1>0, ChainFacts DEF RootedInv, Rooted
    <2>5. ~left.stopped => Number[best] <= Number[node]
      BY Zenon, <1>0, <1>1 DEF StoreInv, RootedInv
    <2>6. UNCHANGED <<node, best, canonical, checkpoint, channel, subscribed, canon, left>> /\ heads' = heads
      BY Zenon, <1>1, <2>2
    <2> QED
      BY Zenon, <1>4, <2>1, <2>3, <2>4, <2>5, <2>6, BeginSync
  <1> QED
    BY Zenon, <1>2, <1>3, <1>4 DEF FullSyncRound

(* listen_blocks sends a head that extends the best block and syncs to any other. *)
LEMMA ListenBlocksStep ==
    ASSUME Good, ListenBlocks
    PROVE  Good'
  <1>0. Types /\ RootedInv /\ LineInv /\ StoreInv /\ FeedInv
    BY DEF Good
  <1> DEFINE b == Head(heads)
  <1>1. /\ pc = "listen" /\ heads # <<>>
        /\ UNCHANGED <<node, best, canonical, checkpoint, round, subscribed, canon, left>>
    BY DEF ListenBlocks, store
  <1>2. heads \in Seq(Block) /\ b = heads[1] /\ 1 \in DOMAIN heads /\ b \in Block
    BY <1>0, <1>1 DEF Types
  <1>3. best # NoBlock /\ Rooted(best) /\ best \in Block /\ Rooted(b)
    BY Zenon, <1>0, <1>1, <1>2 DEF RootedInv, Rooted
  <1> HIDE DEF b
  <1>4. CASE /\ Parent[b] = best /\ b # Genesis /\ channel' = Append(channel, b) /\ pc' = "save_canonical"
             /\ UNCHANGED <<heads, sync>>
    <2>1. RootedInv'
      BY Zenon, <1>0, <1>1, <1>2, <1>4 DEF RootedInv
    <2>2. LineInv' /\ StoreInv'
      BY Zenon, <1>0, <1>1, <1>4 DEF LineInv, StoreInv
    <2>3. channel \in Seq(Block) /\ Append(channel, b) \in Seq(Block)
      BY <1>0, <1>2 DEF Types
    <2>4. Types'
      BY Zenon, <1>0, <1>1, <1>4, <2>3 DEF Types
    <2>5. FeedInv'
      <3>1. SUFFICES ASSUME ~left.stopped PROVE FeedInv'
        BY Zenon, <1>1 DEF FeedInv
      <3>2. Chained(channel) /\ Linked(channel, subscribed, canon) /\ EndsIn(channel, subscribed, canon, best)
        BY Zenon, <1>0, <1>1, <3>1 DEF FeedInv
      <3>3. Follows(best, b)
        BY Zenon, <1>2, <1>3, <1>4, ChainFacts, SegmentStep DEF Follows
      <3> DEFINE f == <<b>>
      <3>4. /\ f \in Seq(Block) /\ f # <<>> /\ f[1] = b /\ f[Len(f)] = b /\ Append(channel, b) = channel \o f
            /\ 1..(Len(f) - 1) = {}
        BY <1>2, <2>3
      <3>5. Chained(f)
        BY Zenon, <3>4 DEF Chained
      <3> HIDE DEF f
      <3>6. /\ Chained(channel \o f) /\ Linked(channel \o f, subscribed, canon)
            /\ EndsIn(channel \o f, subscribed, canon, f[Len(f)])
        BY Zenon, <1>3, <2>3, <3>2, <3>3, <3>4, <3>5, ConcatFeed
      <3>7. /\ Chained(channel') /\ Linked(channel', subscribed, canon)
            /\ EndsIn(channel', subscribed, canon, heads[1])
        BY Zenon, <1>2, <1>4, <3>4, <3>6
      <3> QED
        BY Zenon, <1>1, <1>4, <3>7 DEF FeedInv
    <2> QED
      BY <2>1, <2>2, <2>4, <2>5 DEF Good
  <1>5. CASE heads' = Tail(heads) /\ BackwardSync(node, "listen") /\ UNCHANGED channel
    <2>1. round' \in 0..MaxRounds
      BY Zenon, <1>0, <1>1 DEF Types
    <2>2. Rooted(node) /\ node \in ChainOf[node]
      BY Zenon, <1>0, ChainFacts DEF RootedInv, Rooted
    <2>3. ~left.stopped => Number[best] <= Number[node]
      BY Zenon, <1>0, <1>3 DEF StoreInv
    <2>4. pc \in {"resume", "rounds", "listen"} /\ "listen" \in {"rounds", "listen"}
      BY <1>1
    <2>5. UNCHANGED <<node, best, canonical, checkpoint, channel, subscribed, canon, left>>
      BY Zenon, <1>1, <1>5
    <2> QED
      BY Zenon, <1>1, <1>5, <2>1, <2>2, <2>3, <2>4, <2>5, BeginSync
  <1>6. CASE heads' = Tail(heads) /\ UNCHANGED <<pc, sync, channel>>
    BY Zenon, <1>1, <1>6, SkipHeadStep DEF SkipHead, store, thread, link
  <1> QED
    BY Zenon, <1>4, <1>5, <1>6 DEF ListenBlocks, b

(* The block that is saved and the best block. *)
LEMMA SavedFacts ==
    ASSUME Good, pc \in {"save_canonical", "save_best"}
    PROVE  /\ heads \in Seq(Block) /\ heads # <<>> /\ heads[1] = Head(heads) /\ 1 \in DOMAIN heads /\ heads[1] \in Block
           /\ best # NoBlock /\ Rooted(heads[1]) /\ Segment(heads[1]) = Segment(best) \cup {heads[1]}
           /\ \A c \in Segment(best) : Number[c] # Number[heads[1]]
  <1>0. Types /\ RootedInv
    BY DEF Good
  <1>1. heads \in Seq(Block) /\ heads # <<>> /\ best # NoBlock /\ Rooted(best)
    BY <1>0 DEF Types, RootedInv
  <1>2. heads[1] = Head(heads) /\ 1 \in DOMAIN heads /\ heads[1] \in Block
    BY <1>1
  <1>3. heads[1] # Genesis /\ Parent[heads[1]] = best
    BY <1>0 DEF RootedInv
  <1>4. /\ Rooted(heads[1]) /\ Segment(heads[1]) = Segment(best) \cup {heads[1]}
        /\ \A c \in ChainOf[best] : Number[c] < Number[heads[1]]
    BY Zenon, <1>1, <1>2, <1>3, SegmentStep
  <1>5. \A c \in Segment(best) : c \in ChainOf[best] /\ Number[c] \in Nat
    BY Zenon, <1>1, RootedFacts
  <1>6. Number[heads[1]] \in Nat
    BY <1>2, NumberFacts
  <1>7. \A c \in Segment(best) : Number[c] # Number[heads[1]]
    BY <1>4, <1>5, <1>6
  <1> QED
    BY Zenon, <1>1, <1>2, <1>4, <1>7

(* The first write of save_as_best_block extends the segment. *)
LEMMA SaveCanonicalStep ==
    ASSUME Good, SaveCanonical
    PROVE  Good'
  <1>0. Types /\ RootedInv /\ LineInv /\ StoreInv /\ FeedInv
    BY DEF Good
  <1>1. /\ pc = "save_canonical" /\ pc' = "save_best"
        /\ UNCHANGED <<node, heads, best, checkpoint, round, sync, channel, subscribed, canon, left>>
    BY DEF SaveCanonical, link
  <1> DEFINE h == heads[1]
  <1>2. /\ heads \in Seq(Block) /\ h = Head(heads) /\ 1 \in DOMAIN heads /\ h \in Block /\ best # NoBlock
        /\ Rooted(h) /\ Segment(h) = Segment(best) \cup {h} /\ \A c \in Segment(best) : Number[c] # Number[h]
    BY <1>1, SavedFacts
  <1> HIDE DEF h
  <1>3. canonical' = {c \in canonical : Number[c] # Number[h]} \cup {h}
    BY Zenon, <1>2 DEF SaveCanonical, SetCanonical
  <1>4. Types'
    <2>1. canonical' \in SUBSET Block
      BY <1>0, <1>2, <1>3 DEF Types
    <2> QED
      BY Zenon, <1>0, <1>1, <2>1 DEF Types
  <1>5. RootedInv'
    BY Zenon, <1>0, <1>1 DEF RootedInv
  <1>6. LineInv'
    <2>1. SUFFICES ASSUME OneChain(left.blocks) PROVE LineInv'
      BY Zenon, <1>1 DEF LineInv
    <2>2. h \in ChainOf[node] /\ canonical \subseteq ChainOf[node] /\ Segment(best) \subseteq canonical
      BY Zenon, <1>0, <1>2, <2>1 DEF LineInv, h
    <2>3. canonical' \subseteq ChainOf[node] /\ Segment(best) \subseteq canonical' /\ h \in canonical'
      BY Zenon, <1>2, <1>3, <2>2
    <2> QED
      BY Zenon, <1>0, <1>1, <2>1, <2>3 DEF LineInv, h
  <1>7. StoreInv'
    <2>1. SUFFICES ASSUME ~left.stopped PROVE StoreInv'
      BY Zenon, <1>1 DEF StoreInv
    <2>2. canonical = Segment(best)
      BY Zenon, <1>0, <1>1, <1>2, <2>1 DEF StoreInv
    <2>3. canonical' = Segment(h)
      BY Zenon, <1>2, <1>3, <2>2
    <2> QED
      BY Zenon, <1>0, <1>1, <1>2, <2>1, <2>3 DEF StoreInv, h
  <1>8. FeedInv'
    BY Zenon, <1>0, <1>1 DEF FeedInv
  <1> QED
    BY <1>4, <1>5, <1>6, <1>7, <1>8 DEF Good

(* Its second write moves the best block to the end of it. *)
LEMMA SaveBestStep ==
    ASSUME Good, SaveBest
    PROVE  Good'
  <1>0. Types /\ RootedInv /\ LineInv /\ StoreInv /\ FeedInv
    BY DEF Good
  <1>1. /\ pc = "save_best" /\ pc' = "listen" /\ best' = Head(heads) /\ heads' = Tail(heads)
        /\ UNCHANGED <<node, canonical, checkpoint, round, sync, channel, subscribed, canon, left>>
    BY DEF SaveBest, link
  <1> DEFINE h == heads[1]
  <1>2. /\ heads \in Seq(Block) /\ heads # <<>> /\ best' = h /\ 1 \in DOMAIN heads /\ h \in Block /\ best # NoBlock
        /\ Rooted(h) /\ Segment(h) = Segment(best) \cup {h}
    BY <1>1, SavedFacts
  <1>3. heads' \in Seq(Block) /\ \A i \in DOMAIN heads' : i + 1 \in DOMAIN heads /\ heads'[i] = heads[i + 1]
    BY <1>1, <1>2
  <1>4. Number[h] <= Number[node] /\ h # NoBlock
    BY Zenon, <1>0, <1>2, BlockIndexerAssumption DEF RootedInv
  <1> HIDE DEF h
  <1>5. Types'
    BY Zenon, <1>0, <1>1, <1>2, <1>3 DEF Types
  <1>6. RootedInv'
    BY Zenon, <1>0, <1>1, <1>2, <1>3, <1>4 DEF RootedInv
  <1>7. LineInv'
    <2>1. SUFFICES ASSUME OneChain(left.blocks) PROVE LineInv'
      BY Zenon, <1>1 DEF LineInv
    <2>2. h \in ChainOf[node] /\ Segment(best) \subseteq canonical /\ h \in canonical
      BY Zenon, <1>0, <1>1, <1>2, <2>1 DEF LineInv, h
    <2>3. Segment(h) \subseteq canonical
      BY Zenon, <1>2, <2>2
    <2> QED
      BY Zenon, <1>0, <1>1, <1>2, <1>3, <2>1, <2>2, <2>3 DEF LineInv
  <1>8. StoreInv'
    BY Zenon, <1>0, <1>1, <1>2, <1>4 DEF StoreInv, h
  <1>9. FeedInv'
    BY Zenon, <1>0, <1>1, <1>2 DEF FeedInv, h
  <1> QED
    BY <1>5, <1>6, <1>7, <1>8, <1>9 DEF Good

(* What a backward sync that goes on has found. *)
LEMMA SyncFacts ==
    ASSUME Good, Calm, pc = "sync"
    PROVE  /\ Rooted(sync.start) /\ Rooted(sync.cur) /\ sync.cur \in ChainOf[sync.start]
           /\ sync.start \in ChainOf[node] /\ sync.cur \in ChainOf[node] /\ Rooted(node)
           /\ best # NoBlock /\ Rooted(best)
           /\ (~(sync.cur \in canonical) \/ Number[sync.cur] > Number[best]) => sync.cur # InitialBlock
  <1>1. /\ Rooted(sync.start) /\ Rooted(sync.cur) /\ sync.cur \in ChainOf[sync.start]
        /\ sync.start \in ChainOf[node] /\ Rooted(node) /\ best # NoBlock /\ Rooted(best)
    BY Zenon DEF Good, RootedInv
  <1>2. sync.cur \in ChainOf[node]
    BY Zenon, <1>1, ChainDown DEF Rooted
  <1>3. InitialBlock \in Segment(best) /\ Number[InitialBlock] <= Number[best] /\ Number[best] \in Nat
    BY <1>1, RootedFacts
  <1>4. ASSUME sync.cur = InitialBlock PROVE sync.cur \in canonical
    <2>1. CASE OneChain(left.blocks)
      BY Zenon, <1>1, <1>3, <1>4, <2>1 DEF Good, LineInv
    <2>2. CASE ~left.stopped
      <3>1. {c \in Segment(best) : Number[c] <= Number[sync.cur]} \subseteq canonical
        BY Zenon, <2>2 DEF Good, StoreInv
      <3>2. Number[InitialBlock] <= Number[InitialBlock]
        BY BlockIndexerAssumption, NumberFacts
      <3> QED
        BY Zenon, <1>3, <1>4, <3>1, <3>2
    <2> QED
      BY Zenon, <2>1, <2>2 DEF Calm
  <1>5. ~(Number[InitialBlock] > Number[best])
    BY <1>3, BlockIndexerAssumption, NumberFacts
  <1> QED
    BY Zenon, <1>1, <1>2, <1>4, <1>5

(* A block of the sync in the store, on one chain: nothing is lost. *)
LEMMA SyncStoresLine ==
    ASSUME Good, Calm, pc = "sync", OneChain(left.blocks), sync.cur # InitialBlock
    PROVE  LET stored == SetCanonical(sync.cur)
           IN /\ stored \subseteq ChainOf[node] /\ Segment(best) \subseteq stored
              /\ {c \in ChainOf[sync.start] : Number[c] > Number[Parent[sync.cur]]} \subseteq stored
  <1> DEFINE b == sync.cur
             stored == SetCanonical(b)
  <1>1. stored = {c \in canonical : Number[c] # Number[b]} \cup {b}
    BY Zenon DEF SetCanonical
  <1>2. /\ canonical \subseteq ChainOf[node] /\ best \in ChainOf[node] /\ Segment(best) \subseteq canonical
        /\ {c \in ChainOf[sync.start] : Number[c] > Number[b]} \subseteq canonical
    BY Zenon, SyncFacts DEF Good, LineInv
  <1>3. b \in ChainOf[node] /\ b \in ChainOf[sync.start] /\ sync.start \in Block /\ node \in Block /\ Rooted(b) /\ b \in Block
    BY Zenon, SyncFacts DEF Rooted
  <1> HIDE DEF b
  <1>4. Number[Parent[b]] = Number[b] - 1 /\ Number[b] \in Nat
    BY <1>3, RootedParent, NumberFacts DEF b
  <1>5. stored \subseteq ChainOf[node]
    BY Zenon, <1>1, <1>2, <1>3
  <1>6. ASSUME NEW c \in Segment(best) PROVE c \in stored
    <2>1. c \in ChainOf[node]
      BY Zenon, <1>2
    <2>2. Number[c] = Number[b] => c = b
      BY Zenon, <1>3, <2>1, ChainUnique
    <2> QED
      BY Zenon, <1>1, <1>2, <2>2
  <1>7. ASSUME NEW c \in ChainOf[sync.start], Number[c] > Number[Parent[b]] PROVE c \in stored
    <2>1. CASE Number[c] = Number[b]
      BY Zenon, <1>1, <1>3, <2>1, ChainUnique
    <2>2. CASE Number[c] # Number[b]
      <3>1. Number[c] \in Nat
        BY Zenon, <1>3, ChainNumbers
      <3>2. Number[c] > Number[b]
        BY <1>4, <1>7, <2>2, <3>1
      <3> QED
        BY Zenon, <1>1, <1>2, <2>2, <3>2
    <2> QED
      BY <2>1, <2>2
  <1> QED
    BY Zenon, <1>5, <1>6, <1>7 DEF b

(* And until a stop: it is new, and the store is that of two chains. *)
LEMMA SyncStoresFork ==
    ASSUME Good, Calm, pc = "sync", ~left.stopped, sync.cur # InitialBlock,
           ~(sync.cur \in canonical) \/ Number[sync.cur] > Number[best]
    PROVE  /\ sync.cur \notin canonical /\ sync.cur \notin ChainOf[best]
           /\ SetCanonical(sync.cur) = {c \in Segment(best) : Number[c] <= Number[Parent[sync.cur]]}
                                       \cup {c \in ChainOf[sync.start] : Number[c] > Number[Parent[sync.cur]]}
  <1> DEFINE b == sync.cur
             A == {c \in Segment(best) : Number[c] <= Number[b]}
             B == {c \in ChainOf[sync.start] : Number[c] > Number[b]}
             p == Parent[b]
  <1>1. canonical = A \cup B
    BY Zenon DEF Good, StoreInv
  <1>2. /\ b \in ChainOf[sync.start] /\ sync.start \in Block /\ Rooted(b) /\ b \in Block /\ Rooted(best)
        /\ best \in Block
    BY Zenon, SyncFacts DEF Rooted
  <1> HIDE DEF b
  <1>3. Number[p] = Number[b] - 1 /\ Number[b] \in Nat /\ Number[b] >= Number[InitialBlock] /\ Number[best] \in Nat
    <2>1. Number[p] = Number[b] - 1
      BY <1>2, RootedParent DEF b
    <2> QED
      BY <1>2, <2>1, RootedFacts, NumberFacts, BlockIndexerAssumption
  <1>4. \A c \in Segment(best) : Number[c] \in Nat /\ Number[c] <= Number[best]
    BY <1>2, <1>3, RootedFacts
  <1>5. \A c \in ChainOf[sync.start] : Number[c] \in Nat /\ (Number[c] = Number[b] => c = b)
    BY Zenon, <1>2, ChainNumbers, ChainUnique
  <1>6. b \notin B /\ (b \in Segment(best) => b \in A /\ ~(Number[b] > Number[best]))
    BY <1>3, <1>4
  <1>7. b \notin canonical /\ b \notin Segment(best)
    BY Zenon, <1>1, <1>6 DEF b
  <1>8. b \notin ChainOf[best]
    BY Zenon, <1>3, <1>7 DEF Segment
  <1> DEFINE A1 == {c \in Segment(best) : Number[c] <= Number[p]}
             B1 == {c \in ChainOf[sync.start] : Number[c] > Number[p]}
             stored == {c \in canonical : Number[c] # Number[b]} \cup {b}
  <1>9. ASSUME NEW c \in stored PROVE c \in A1 \cup B1
    <2>1. CASE c = b
      BY <1>2, <1>3, <2>1
    <2>2. CASE c \in A /\ Number[c] # Number[b]
      BY <1>3, <1>4, <2>2
    <2>3. CASE c \in B
      BY <1>3, <1>5, <2>3
    <2> QED
      BY Zenon, <1>1, <2>1, <2>2, <2>3
  <1>10. ASSUME NEW c \in A1 \cup B1 PROVE c \in stored
    <2>1. CASE c \in A1
      <3>1. c \in A /\ Number[c] # Number[b]
        BY <1>3, <1>4, <2>1
      <3> QED
        BY Zenon, <1>1, <3>1
    <2>2. CASE c \in B1 /\ Number[c] = Number[b]
      BY Zenon, <1>5, <2>2
    <2>3. CASE c \in B1 /\ Number[c] # Number[b]
      <3>1. c \in B
        BY <1>3, <1>5, <2>3
      <3> QED
        BY Zenon, <1>1, <2>3, <3>1
    <2> QED
      BY Zenon, <1>10, <2>1, <2>2, <2>3
  <1>11. stored = A1 \cup B1
    BY Zenon, <1>9, <1>10
  <1>12. SetCanonical(b) = stored
    BY Zenon DEF SetCanonical
  <1> QED
    BY Zenon, <1>7, <1>8, <1>11, <1>12 DEF b

(* An iteration of backward_sync stores one block more of the chain it adopts. *)
LEMMA SyncBlockStep ==
    ASSUME LeftType, Good, Calm, SyncBlock
    PROVE  Good'
  <1>0. Types /\ RootedInv /\ LineInv /\ StoreInv /\ FeedInv
    BY DEF Good
  <1> DEFINE b == sync.cur
             known == b \in canonical
  <1>1. /\ pc = "sync" /\ (~known \/ Number[b] > Number[best])
        /\ canonical' = SetCanonical(b) /\ UNCHANGED <<node, best, canon>>
    BY Zenon DEF SyncBlock
  <1>2. b # InitialBlock /\ Rooted(b) /\ b \in Block /\ b \in ChainOf[node] /\ Rooted(best) /\ best # NoBlock
    BY Zenon, <1>1, SyncFacts DEF Rooted
  <1>3. canonical' \in SUBSET Block
    BY Zenon, <1>0, <1>1, <1>2 DEF Types, SetCanonical
  <1>4. CASE /\ Stops /\ checkpoint' = b /\ pc' = "down" /\ round' = 0 /\ sync' = NoSync
             /\ heads' = <<>> /\ channel' = <<>> /\ subscribed' = FALSE
    <2>1. left'.blocks = left.blocks /\ left'.stopped = TRUE
      BY Zenon, <1>4, StopsFacts
    <2>2. 0 \in 0..MaxRounds /\ <<>> \in Seq(Block) /\ DOMAIN <<>> = {} /\ "down" # "sync"
      BY BlockIndexerAssumption
    <2>3. Types'
      BY Zenon, <1>0, <1>1, <1>2, <1>3, <1>4, <2>2 DEF Types
    <2>4. RootedInv'
      BY Zenon, <1>0, <1>1, <1>4, <2>1, <2>2 DEF RootedInv
    <2>5. LineInv'
      <3>1. SUFFICES ASSUME OneChain(left.blocks) PROVE LineInv'
        BY Zenon, <2>1 DEF LineInv
      <3>2. canonical' \subseteq ChainOf[node] /\ Segment(best) \subseteq canonical'
        BY Zenon, <1>1, <1>2, <3>1, SyncStoresLine
      <3>3. best \in ChainOf[node]
        BY Zenon, <1>0, <1>2, <3>1 DEF LineInv
      <3> QED
        BY Zenon, <1>1, <1>2, <1>4, <2>2, <3>2, <3>3 DEF LineInv
    <2>6. StoreInv' /\ FeedInv'
      BY Zenon, <2>1 DEF StoreInv, FeedInv
    <2> QED
      BY <2>3, <2>4, <2>5, <2>6 DEF Good
  <1>5. CASE /\ b \notin {InitialBlock, Genesis}
             /\ sync' = [sync EXCEPT !.cur = NextSyncBlock(Number[b] - 1),
                                     !.found = IF known THEN @ ELSE <<b>> \o @]
             /\ UNCHANGED pc /\ UNCHANGED <<heads, checkpoint, round, channel, subscribed, left>>
    <2> DEFINE p == Parent[b]
               f == IF known THEN sync.found ELSE <<b>> \o sync.found
    <2>1. /\ NextSyncBlock(Number[b] - 1) = p /\ Rooted(p) /\ p \in ChainOf[sync.start]
          /\ Number[p] = Number[b] - 1
      BY Zenon, <1>1, <1>2, NextIsParent
    <2>2. p \in Block
      BY Zenon, <2>1 DEF Rooted
    <2>3. sync \in [start : Block, cur : Block, found : Seq(Block), return : {"rounds", "listen"}]
      BY Zenon, <1>0, <1>1 DEF Types
    <2>4. sync.found \in Seq(Block) /\ <<b>> \o sync.found \in Seq(Block)
      BY <1>2, <2>3
    <2>5. f \in Seq(Block)
      BY Zenon, <2>4
    <2>6. sync' = [sync EXCEPT !.cur = p, !.found = f]
      BY Zenon, <1>5, <2>1
    <2> HIDE DEF f, p, b
    <2>7. /\ sync' \in [start : Block, cur : Block, found : Seq(Block), return : {"rounds", "listen"}]
          /\ sync'.start = sync.start /\ sync'.cur = p /\ sync'.found = f
      BY Zenon, <2>2, <2>3, <2>5, <2>6
    <2>8. sync' # NoSync
      BY <2>7, BlockIndexerAssumption DEF NoSync
    <2>9. Types'
      BY Zenon, <1>0, <1>1, <1>3, <1>5, <2>7, <2>8 DEF Types
    <2>10. RootedInv'
      BY Zenon, <1>0, <1>1, <1>5, <2>1, <2>7 DEF RootedInv
    <2>11. LineInv'
      <3>1. SUFFICES ASSUME OneChain(left.blocks) PROVE LineInv'
        BY Zenon, <1>5 DEF LineInv
      <3>2. /\ canonical' \subseteq ChainOf[node] /\ Segment(best) \subseteq canonical'
            /\ {c \in ChainOf[sync.start] : Number[c] > Number[p]} \subseteq canonical'
        BY Zenon, <1>1, <1>2, <3>1, SyncStoresLine DEF b, p
      <3>3. pc' # "save_best"
        BY <1>1, <1>5
      <3> QED
        BY Zenon, <1>0, <1>1, <1>5, <2>7, <3>1, <3>2, <3>3 DEF LineInv
    <2>12. StoreInv' /\ FeedInv'
      <3>1. SUFFICES ASSUME ~left.stopped PROVE StoreInv' /\ FeedInv'
        BY Zenon, <1>5 DEF StoreInv, FeedInv
      <3>2. /\ ~known /\ b \notin ChainOf[best]
            /\ canonical' = {c \in Segment(best) : Number[c] <= Number[p]}
                            \cup {c \in ChainOf[sync.start] : Number[c] > Number[p]}
        BY Zenon, <1>1, <1>2, <3>1, SyncStoresFork DEF b, p
      <3>3. pc' = "sync" /\ pc' # "save_best" /\ pc' # "down" /\ pc' \notin {"save_canonical", "save_best", "down"}
            /\ pc' \notin {"save_canonical", "save_best"} /\ pc \notin {"save_canonical", "save_best", "down"}
        BY <1>1, <1>5
      <3>4. StoreInv'
        BY Zenon, <1>0, <1>1, <1>2, <1>5, <2>7, <3>1, <3>2, <3>3 DEF StoreInv
      <3>5. f = <<b>> \o sync.found
        BY Zenon, <3>2 DEF f
      <3>6. /\ Len(sync.found) = Number[sync.start] - Number[b]
            /\ \A i \in DOMAIN sync.found :
                  /\ sync.found[i] \in ChainOf[sync.start] /\ sync.found[i] \notin ChainOf[best]
                  /\ Number[sync.found[i]] = Number[b] + i
        BY Zenon, <1>0, <1>1, <3>1 DEF FeedInv, Found, b
      <3>7. Number[b] \in Nat /\ Number[sync.start] \in Nat /\ b \in ChainOf[sync.start]
        BY Zenon, <1>1, <1>2, <2>3, SyncFacts, NumberFacts, RootedFacts DEF b
      <3>8. Len(f) = Number[sync.start] - Number[p]
        <4>1. Len(f) = 1 + Len(sync.found)
          BY <2>4, <3>5
        <4>2. Len(f) = 1 + (Number[sync.start] - Number[b])
          BY Zenon, <3>6, <4>1
        <4> QED
          BY <2>1, <3>7, <4>2
      <3>9. ASSUME NEW i \in DOMAIN f
            PROVE  f[i] \in ChainOf[sync.start] /\ f[i] \notin ChainOf[best] /\ Number[f[i]] = Number[p] + i
        <4>1. CASE i = 1
          <5>1. f[i] = b
            BY <2>4, <3>5, <4>1
          <5>2. Number[b] = Number[p] + i
            BY <2>1, <3>7, <4>1
          <5> QED
            BY Zenon, <3>2, <3>7, <5>1, <5>2
        <4>2. CASE i # 1
          <5>1. i - 1 \in DOMAIN sync.found /\ f[i] = sync.found[i - 1] /\ i \in Nat
            BY <2>4, <3>5, <4>2
          <5>2. Number[b] + (i - 1) = Number[p] + i
            BY <2>1, <3>7, <5>1
          <5> QED
            BY Zenon, <3>6, <5>1, <5>2
        <4> QED
          BY <4>1, <4>2
      <3>10. FeedInv'
        BY Zenon, <1>0, <1>1, <1>5, <2>7, <3>1, <3>3, <3>8, <3>9 DEF FeedInv, Found
      <3> QED
        BY <3>4, <3>10
    <2> QED
      BY <2>9, <2>10, <2>11, <2>12 DEF Good
  <1>6. b \notin {InitialBlock, Genesis}
    BY Zenon, <1>2, RootedParent
  <1> QED
    BY Zenon, <1>4, <1>5, <1>6 DEF SyncBlock

(* The blocks found by a sync, in the order of the chain that it adopts. *)
LEMMA FoundIsChained ==
    ASSUME NEW s \in Block, NEW b \in ChainOf[s], NEW t \in Block, b \in ChainOf[t],
           NEW f \in Seq(Block), f # <<>>, Found(f, s, b, t)
    PROVE  Chained(f) /\ Follows(t, f[1]) /\ f[Len(f)] = s
  <1>0. /\ Len(f) = Number[s] - Number[b]
        /\ \A i \in DOMAIN f : f[i] \in ChainOf[s] /\ f[i] \notin ChainOf[t] /\ Number[f[i]] = Number[b] + i
    BY Zenon DEF Found
  <1>1. b \in Block /\ Number[b] \in Nat /\ Number[s] \in Nat
    BY Zenon, ChainNumbers, NumberFacts
  <1>2. ASSUME NEW c \in ChainOf[s], NEW d \in ChainOf[s], Number[d] = Number[c] + 1
        PROVE  d # Genesis /\ Parent[d] = c /\ d \notin ChainOf[c]
    <2>1. c \in Block /\ d \in Block /\ Number[c] \in Nat /\ Number[d] \in Nat
      BY Zenon, ChainNumbers
    <2>2. d # Genesis
      BY <1>2, <2>1, BlockTreeAssumption
    <2>3. Number[Parent[d]] = Number[c]
      BY <1>2, <2>1, <2>2, NumberFacts
    <2>4. Parent[d] \in ChainOf[s]
      BY Zenon, <2>2, ChainFacts
    <2>5. Parent[d] = c
      BY Zenon, <2>3, <2>4, ChainUnique
    <2> QED
      BY Zenon, <2>1, <2>2, <2>5, ChainStep
  <1>3. /\ 1 \in DOMAIN f /\ Len(f) \in DOMAIN f
        /\ \A i \in 1..(Len(f) - 1) : i \in DOMAIN f /\ i + 1 \in DOMAIN f /\ i \in Nat
    OBVIOUS
  <1>4. ASSUME NEW i \in 1..(Len(f) - 1) PROVE Follows(f[i], f[i + 1])
    <2>1. /\ f[i] \in ChainOf[s] /\ f[i + 1] \in ChainOf[s]
          /\ Number[f[i]] = Number[b] + i /\ Number[f[i + 1]] = Number[b] + (i + 1) /\ i \in Nat
      BY Zenon, <1>0, <1>3
    <2>2. Number[b] + (i + 1) = (Number[b] + i) + 1
      BY <1>1, <2>1
    <2>3. f[i] \in ChainOf[f[i]]
      BY Zenon, <2>1, ChainNumbers, ChainFacts
    <2>4. f[i + 1] # Genesis /\ Parent[f[i + 1]] = f[i] /\ f[i + 1] \notin ChainOf[f[i]]
      BY Zenon, <1>2, <2>1, <2>2
    <2> QED
      BY Zenon, <2>3, <2>4 DEF Follows
  <1>5. Follows(t, f[1])
    <2>1. f[1] \in ChainOf[s] /\ f[1] \notin ChainOf[t] /\ Number[f[1]] = Number[b] + 1
      BY Zenon, <1>0, <1>3
    <2>2. f[1] # Genesis /\ Parent[f[1]] = b
      BY Zenon, <1>2, <2>1
    <2> QED
      BY Zenon, <2>1, <2>2 DEF Follows
  <1>6. f[Len(f)] = s
    <2>1. f[Len(f)] \in ChainOf[s] /\ Number[f[Len(f)]] = Number[b] + Len(f)
      BY Zenon, <1>0, <1>3
    <2>2. Number[f[Len(f)]] = Number[s]
      BY <1>0, <1>1, <2>1
    <2> QED
      BY Zenon, <2>1, <2>2, ChainFacts, ChainUnique
  <1> QED
    BY Zenon, <1>4, <1>5, <1>6 DEF Chained

(* The last iteration makes that chain the chain of the store and sends what was found. *)
LEMMA SyncCompletedStep ==
    ASSUME Good, Calm, SyncCompleted
    PROVE  Good'
  <1>0. Types /\ RootedInv /\ LineInv /\ StoreInv /\ FeedInv
    BY DEF Good
  <1> DEFINE b == sync.cur
             s == sync.start
  <1>1. /\ pc = "sync" /\ b \in canonical /\ Number[b] <= Number[best] /\ checkpoint' = NoBlock /\ best' = s
        /\ channel' = channel \o sync.found /\ pc' = sync.return /\ sync' = NoSync
        /\ UNCHANGED <<node, heads, canonical, round, subscribed, canon, left>>
    BY Zenon DEF SyncCompleted
  <1>2. /\ Rooted(s) /\ Rooted(b) /\ b \in ChainOf[s] /\ s \in ChainOf[node] /\ b \in ChainOf[node]
        /\ Rooted(node) /\ best # NoBlock /\ Rooted(best)
    BY Zenon, <1>1, SyncFacts
  <1>3. b \in Block /\ s \in Block /\ node \in Block /\ best \in Block
    BY Zenon, <1>2 DEF Rooted
  <1>4. sync \in [start : Block, cur : Block, found : Seq(Block), return : {"rounds", "listen"}]
    BY Zenon, <1>0, <1>1 DEF Types
  <1>5. sync.found \in Seq(Block) /\ channel \in Seq(Block) /\ sync.return \in {"rounds", "listen"}
    BY Zenon, <1>0, <1>4 DEF Types
  <1>6. channel' \in Seq(Block)
    BY <1>1, <1>5
  <1>7. pc' \in {"rounds", "listen"} /\ s # NoBlock
    BY Zenon, <1>1, <1>3, <1>5, BlockIndexerAssumption
  <1>8. /\ pc' # "sync" /\ pc' # "down" /\ pc' # "save_best" /\ pc' \notin {"save_canonical", "save_best"}
        /\ pc' \notin {"save_canonical", "save_best", "down"} /\ pc' \notin {"sync", "save_best"}
        /\ pc' \in {"down", "resume", "rounds", "subscribe", "listen", "save_canonical", "save_best", "sync"}
    BY <1>7
  <1>9. Types'
    BY Zenon, <1>0, <1>1, <1>3, <1>6, <1>8 DEF Types
  <1>10. RootedInv'
    BY Zenon, <1>0, <1>1, <1>2, <1>7, <1>8 DEF RootedInv
  <1> HIDE DEF b, s
  <1>11. /\ Number[b] \in Nat /\ Number[best] \in Nat /\ Number[s] \in Nat /\ Number[InitialBlock] \in Nat
         /\ Number[b] >= Number[InitialBlock] /\ \A c \in ChainOf[s] : Number[c] \in Nat
         /\ \A c \in ChainOf[best] : Number[c] \in Nat
    BY <1>2, <1>3, RootedFacts, ChainNumbers, NumberFacts, BlockIndexerAssumption
  (* The chain that is adopted leaves the old one at the block known. *)
  <1>12. ASSUME b \in ChainOf[best]
         PROVE  Segment(s) = {c \in Segment(best) : Number[c] <= Number[b]} \cup {c \in ChainOf[s] : Number[c] > Number[b]}
    <2>1. ASSUME NEW c \in Segment(s), ~(Number[c] > Number[b])
          PROVE  c \in Segment(best) /\ Number[c] <= Number[b]
      <3>1. c \in ChainOf[s] /\ Number[c] >= Number[InitialBlock]
        BY Zenon DEF Segment
      <3>2. Number[c] <= Number[b]
        BY <1>11, <2>1, <3>1
      <3>3. c \in ChainOf[b]
        BY Zenon, <1>2, <1>3, <3>1, <3>2, ChainOrder DEF b, s
      <3>4. c \in ChainOf[best]
        BY Zenon, <1>3, <1>12, <3>3, ChainDown
      <3> QED
        BY Zenon, <3>1, <3>2, <3>4 DEF Segment
    <2>2. ASSUME NEW c \in Segment(best), Number[c] <= Number[b]
          PROVE  c \in Segment(s)
      <3>1. c \in ChainOf[best] /\ Number[c] >= Number[InitialBlock]
        BY Zenon DEF Segment
      <3>2. c \in ChainOf[b]
        BY Zenon, <1>3, <1>12, <2>2, <3>1, ChainOrder
      <3>3. c \in ChainOf[s]
        BY Zenon, <1>2, <1>3, <3>2, ChainDown DEF b, s
      <3> QED
        BY Zenon, <3>1, <3>3 DEF Segment
    <2>3. ASSUME NEW c \in ChainOf[s], Number[c] > Number[b]
          PROVE  c \in Segment(s)
      <3>1. Number[c] >= Number[InitialBlock]
        BY <1>11, <2>3
      <3> QED
        BY Zenon, <3>1 DEF Segment
    <2>4. Segment(s) \subseteq ChainOf[s]
      BY Zenon DEF Segment
    <2> QED
      BY Zenon, <2>1, <2>2, <2>3, <2>4
  <1>13. LineInv'
    <2>1. SUFFICES ASSUME OneChain(left.blocks) PROVE LineInv'
      BY Zenon, <1>1 DEF LineInv
    <2>2. /\ best \in ChainOf[node] /\ Segment(best) \subseteq canonical
          /\ {c \in ChainOf[s] : Number[c] > Number[b]} \subseteq canonical
      BY Zenon, <1>0, <1>1, <1>2, <2>1 DEF LineInv, b, s
    <2>3. b \in ChainOf[best]
      BY Zenon, <1>1, <1>2, <1>3, <2>2, ChainOrder DEF b
    <2>4. Segment(s) \subseteq canonical
      BY Zenon, <1>12, <2>2, <2>3
    <2> QED
      BY Zenon, <1>0, <1>1, <1>2, <1>8, <2>1, <2>4 DEF LineInv, s
  <1>14. StoreInv' /\ FeedInv'
    <2>1. SUFFICES ASSUME ~left.stopped PROVE StoreInv' /\ FeedInv'
      BY Zenon, <1>1 DEF StoreInv, FeedInv
    <2>2. /\ Number[best] <= Number[s]
          /\ canonical = {c \in Segment(best) : Number[c] <= Number[b]} \cup {c \in ChainOf[s] : Number[c] > Number[b]}
      BY Zenon, <1>0, <1>1, <2>1 DEF StoreInv, b, s
    <2>3. ~(Number[b] > Number[b])
      BY <1>11
    <2>4. b \in ChainOf[best]
      BY Zenon, <1>1, <2>2, <2>3 DEF Segment, b
    <2>5. canonical = Segment(s)
      BY Zenon, <1>12, <2>2, <2>4
    <2>6. Number[s] <= Number[node]
      BY <1>2, <1>3, ChainNumbers, NumberFacts DEF s
    <2>7. StoreInv'
      BY Zenon, <1>1, <1>7, <1>8, <2>5, <2>6 DEF StoreInv, s
    <2> DEFINE f == sync.found
    <2>8. /\ Chained(channel) /\ Linked(channel, subscribed, canon) /\ EndsIn(channel, subscribed, canon, best)
          /\ Found(f, s, b, best)
      <3>1. pc \notin {"save_canonical", "save_best", "down"}
        BY <1>1
      <3> QED
        BY Zenon, <1>0, <1>1, <2>1, <3>1 DEF FeedInv, b, s
    <2> HIDE DEF f
    <2>9. f \in Seq(Block) /\ channel' = channel \o f
      BY Zenon, <1>1, <1>5 DEF f
    <2>10. Chained(channel') /\ Linked(channel', subscribed, canon) /\ EndsIn(channel', subscribed, canon, s)
      <3>1. CASE f = <<>>
        <4>1. Len(f) = 0 /\ channel \o f = channel
          BY <1>5, <3>1
        <4>2. Number[s] = Number[b] /\ Number[b] = Number[best]
          BY <1>1, <1>11, <2>2, <2>8, <4>1 DEF b, Found
        <4>3. s = b
          BY Zenon, <1>2, <1>3, <4>2, ChainFacts, ChainUnique DEF b, s
        <4>4. b = best
          BY Zenon, <1>3, <2>4, <4>2, ChainFacts, ChainUnique
        <4> QED
          BY Zenon, <2>8, <2>9, <4>1, <4>3, <4>4
      <3>2. CASE f # <<>>
        <4>0. b \in ChainOf[s] /\ s \in Block
          BY Zenon, <1>2, <1>3 DEF b, s
        <4>1. Chained(f) /\ Follows(best, f[1]) /\ f[Len(f)] = s
          BY Zenon, <1>3, <2>4, <2>8, <2>9, <3>2, <4>0, FoundIsChained
        <4>2. /\ Chained(channel \o f) /\ Linked(channel \o f, subscribed, canon)
              /\ EndsIn(channel \o f, subscribed, canon, f[Len(f)])
          BY Zenon, <1>3, <1>5, <2>8, <2>9, <3>2, <4>1, ConcatFeed
        <4> QED
          BY Zenon, <2>9, <4>1, <4>2
      <3> QED
        BY <3>1, <3>2
    <2>11. FeedInv'
      BY Zenon, <1>1, <1>8, <2>10 DEF FeedInv, s
    <2> QED
      BY <2>7, <2>11
  <1> QED
    BY <1>9, <1>10, <1>13, <1>14 DEF Good

-----------------------------------------------------------------------------
(* What the consumer is told. *)

(* The first block a consumer hears of. *)
LEMMA FirstTold ==
    ASSUME NEW b \in Block
    PROVE  Told(Adopt({}, b), b) /\ Feed!Below({}, b) = {}
  <1>1. Adopt({}, b) = {b} /\ Feed!Below({}, b) = {}
    BY Zenon DEF Adopt, Below, Feed!Below
  <1>2. b \in ChainOf[b] /\ Number[b] \in Nat
    BY Zenon, ChainFacts, NumberFacts
  <1>3. \A c \in ChainOf[b] : Number[c] >= Number[b] => c = b
    BY <1>2, ChainNumbers
  <1>4. Number[b] \in 0..Number[b] /\ Number[b] >= Number[b]
    BY <1>2
  <1>5. {b} = {c \in ChainOf[b] : Number[c] >= Number[b]}
    BY Zenon, <1>2, <1>3, <1>4
  <1> QED
    BY Zenon, <1>1, <1>4, <1>5 DEF Told

(* A block that follows what it was told is one it may be told of. *)
LEMMA NextTold ==
    ASSUME NEW S, NEW t \in Block, Told(S, t), NEW b \in Block, Follows(t, b)
    PROVE  /\ Told(Adopt(S, b), b)
           /\ Feed!IsTip(b, S) \/ (b \notin S /\ (Feed!Below(S, b) = {} \/ Parent[b] \in S))
  <1>1. PICK m \in 0..Number[t] : S = {c \in ChainOf[t] : Number[c] >= m}
    BY Zenon DEF Told
  <1>2. m \in Nat /\ m <= Number[t] /\ Number[t] \in Nat /\ Number[b] \in Nat
    BY NumberFacts
  <1>3. Adopt(S, b) = {c \in S : Number[c] < Number[b]} \cup {b}
    BY Zenon DEF Adopt, Below
  <1>4. CASE b = t
    <2>1. \A c \in S : c = b \/ Number[c] < Number[b]
      BY Zenon, <1>1, <1>4, ChainNumbers
    <2>2. b \in S
      <3>1. Number[t] >= m
        BY <1>2
      <3> QED
        BY Zenon, <1>1, <1>4, <3>1, ChainFacts
    <2>3. Adopt(S, b) = S
      BY Zenon, <1>3, <2>1, <2>2
    <2>4. \A c \in S : Number[c] <= Number[b]
      <3>1. \A c \in S : Number[c] \in Nat
        BY Zenon, <1>1, ChainNumbers
      <3> QED
        BY <1>2, <2>1, <3>1
    <2> QED
      BY Zenon, <1>4, <2>2, <2>3, <2>4 DEF Feed!IsTip
  <1>5. CASE b # Genesis /\ Parent[b] \in ChainOf[t] /\ b \notin ChainOf[t]
    <2> DEFINE p == Parent[b]
    <2>1. /\ ChainOf[b] = {b} \cup ChainOf[p] /\ p \in Block /\ Number[b] = Number[p] + 1 /\ Number[p] \in Nat
          /\ p \in ChainOf[t]
      BY Zenon, <1>5, ChainStep, NumberFacts
    <2>2. b \notin S
      BY Zenon, <1>1, <1>5
    <2>3. \A c \in ChainOf[t] : Number[c] \in Nat
      BY Zenon, ChainNumbers
    <2>4. \A c \in ChainOf[p] : c \in ChainOf[t] /\ Number[c] < Number[b] /\ Number[c] \in Nat
      <3>1. \A c \in ChainOf[p] : c \in ChainOf[t] /\ Number[c] \in Nat /\ (c = p \/ Number[c] < Number[p])
        BY Zenon, <2>1, ChainDown, ChainNumbers
      <3> QED
        BY <2>1, <3>1
    <2>5. \A c \in ChainOf[t] : Number[c] < Number[b] => c \in ChainOf[p]
      <3>1. \A c \in ChainOf[t] : Number[c] < Number[b] => Number[c] <= Number[p]
        BY <2>1, <2>3
      <3> QED
        BY Zenon, <2>1, <3>1, ChainOrder
    <2> HIDE DEF p
    <2>6. CASE m <= Number[p]
      <3>1. p \in S
        <4>1. Number[p] >= m
          BY <1>2, <2>1, <2>6
        <4> QED
          BY Zenon, <1>1, <2>1, <4>1
      <3>2. m \in 0..Number[b] /\ Number[b] >= m
        BY <1>2, <2>1, <2>6
      <3>3. Adopt(S, b) = {c \in ChainOf[b] : Number[c] >= m}
        BY Zenon, <1>1, <1>3, <2>1, <2>4, <2>5, <3>2
      <3> QED
        BY Zenon, <2>2, <3>1, <3>2, <3>3 DEF Told, p
    <2>7. CASE ~(m <= Number[p])
      <3>1. \A c \in S : ~(Number[c] < Number[b])
        <4>1. \A c \in S : Number[c] >= m /\ Number[c] \in Nat
          BY Zenon, <1>1, <2>3
        <4> QED
          BY <1>2, <2>1, <2>7, <4>1
      <3>2. Adopt(S, b) = Adopt({}, b) /\ Feed!Below(S, b) = {}
        BY Zenon, <3>1 DEF Adopt, Below, Feed!Below
      <3> QED
        BY Zenon, <2>2, <3>2, FirstTold
    <2> QED
      BY <2>6, <2>7
  <1> QED
    BY Zenon, <1>4, <1>5 DEF Follows

(* The block the notifier hands out. *)
LEMMA NotifyFacts ==
    ASSUME Good, ~left.stopped, NotifyConsumers, subscribed
    PROVE  /\ channel[1] \in Block /\ canon' = Adopt(canon, channel[1]) /\ Told(canon', channel[1])
           /\ Feed!MayNotify(channel[1])
  <1>1. channel # <<>> /\ channel \in Seq(Block) /\ canon' = Adopt(canon, Head(channel))
    BY Zenon DEF NotifyConsumers, Good, Types
  <1>2. Head(channel) = channel[1] /\ channel[1] \in Block
    BY <1>1
  <1>3. CASE canon = {}
    BY Zenon, <1>1, <1>2, <1>3, FirstTold DEF Feed!MayNotify
  <1>4. CASE canon # {}
    <2>1. \E t \in Block : Told(canon, t) /\ Follows(t, channel[1])
      BY Zenon, <1>1, <1>4 DEF Good, FeedInv, Linked
    <2> QED
      BY Zenon, <1>1, <1>2, <2>1, NextTold DEF Feed!MayNotify
  <1> QED
    BY <1>3, <1>4

(* The notifier takes one block from the channel. *)
LEMMA NotifyConsumersStep ==
    ASSUME Good, NotifyConsumers
    PROVE  Good'
  <1>0. Types /\ RootedInv /\ LineInv /\ StoreInv /\ FeedInv
    BY DEF Good
  <1>1. /\ channel # <<>> /\ channel' = Tail(channel) /\ canon' = (IF subscribed THEN Adopt(canon, Head(channel)) ELSE canon)
        /\ UNCHANGED <<node, heads, best, canonical, checkpoint, pc, round, sync, subscribed, left>>
    BY DEF NotifyConsumers, store, thread
  <1>2. channel \in Seq(Block) /\ channel' \in Seq(Block) /\ Head(channel) \in Block /\ Head(channel) = channel[1]
    BY <1>0, <1>1 DEF Types
  <1>3. canon' \in SUBSET Block
    BY Zenon, <1>0, <1>1, <1>2 DEF Types, Adopt, Below
  <1>4. Types'
    BY Zenon, <1>0, <1>1, <1>2, <1>3 DEF Types
  <1>5. RootedInv' /\ LineInv' /\ StoreInv'
    BY Zenon, <1>0, <1>1 DEF RootedInv, LineInv, StoreInv
  <1>6. FeedInv'
    <2>1. SUFFICES ASSUME ~left.stopped PROVE FeedInv'
      BY Zenon, <1>1 DEF FeedInv
    <2> DEFINE s == channel
               u == Tail(channel)
    <2>2. Chained(s) /\ pc # "down"
      BY Zenon, <1>0, <1>1, <2>1 DEF FeedInv
    <2>3. subscribed => Told(canon', s[1])
      BY Zenon, <2>1, NotifyFacts
    <2>4. /\ u \in Seq(Block) /\ Len(u) = Len(s) - 1 /\ \A i \in 1..Len(u) : u[i] = s[i + 1]
           /\ s \in Seq(Block)
      BY <1>1, <1>2
    <2> HIDE DEF u, s
    <2>5. /\ \A i \in 1..(Len(u) - 1) : i + 1 \in 1..(Len(s) - 1) /\ u[i] = s[i + 1] /\ u[i + 1] = s[(i + 1) + 1]
          /\ u # <<>> => 1 \in 1..(Len(s) - 1) /\ u[1] = s[1 + 1] /\ u[Len(u)] = s[Len(s)]
          /\ u = <<>> => s[Len(s)] = s[1]
      <3>1. ASSUME NEW i \in 1..(Len(u) - 1)
            PROVE  i + 1 \in 1..(Len(s) - 1) /\ u[i] = s[i + 1] /\ u[i + 1] = s[(i + 1) + 1]
        <4>1. i \in 1..Len(u) /\ i + 1 \in 1..Len(u) /\ i + 1 \in 1..(Len(s) - 1)
          BY <2>4
        <4> QED
          BY Zenon, <2>4, <4>1
      <3>2. ASSUME u # <<>> PROVE 1 \in 1..(Len(s) - 1) /\ u[1] = s[1 + 1] /\ u[Len(u)] = s[Len(s)]
        <4>1. 1 \in 1..Len(u) /\ Len(u) \in 1..Len(u) /\ Len(u) + 1 = Len(s) /\ 1 \in 1..(Len(s) - 1)
          BY <2>4, <3>2
        <4> QED
          BY Zenon, <2>4, <4>1
      <3>3. ASSUME u = <<>> PROVE s[Len(s)] = s[1]
        <4>1. Len(s) = 1
          BY <2>4, <3>3
        <4> QED
          BY Zenon, <4>1
      <3> QED
        BY Zenon, <3>1, <3>2, <3>3
    <2>6. Chained(u)
      BY Zenon, <2>2, <2>5 DEF Chained
    <2>7. Linked(u, subscribed, canon')
      BY Zenon, <1>2, <2>2, <2>3, <2>5 DEF Chained, Linked, s
    <2>8. ASSUME NEW b, EndsIn(s, subscribed, canon, b)
          PROVE  EndsIn(u, subscribed, canon', b)
      BY Zenon, <1>1, <2>3, <2>5, <2>8 DEF EndsIn, s
    <2>9. channel' = u /\ channel = s
      BY Zenon, <1>1 DEF u, s
    <2> QED
      BY Zenon, <1>0, <1>1, <2>1, <2>2, <2>6, <2>7, <2>8, <2>9 DEF FeedInv
  <1> QED
    BY <1>4, <1>5, <1>6 DEF Good

-----------------------------------------------------------------------------
(* The invariant. *)

(* An empty store. *)
LEMMA InitInv ==
    ASSUME Init
    PROVE  Inv /\ (StopsOnOneChain => StopInv)
  <1>1. PICK b \in Budgets : left = [stops |-> b.stops, blocks |-> b.blocks, stopped |-> FALSE]
    BY Zenon DEF Init
  <1>2. b.stops \in Nat /\ b.blocks \subseteq Block
    BY Zenon, BlockIndexerAssumption
  <1>3. LeftType /\ left.stops = b.stops /\ left.blocks = b.blocks /\ left.stopped = FALSE
    BY <1>1, <1>2 DEF LeftType
  <1>4. StopsOnOneChain => StopInv
    <2>1. b.stops > 0 => b.stops # 0
      BY <1>2
    <2> QED
      BY Zenon, <1>3, <2>1 DEF StopsOnOneChain, StopInv
  <1>5. Rooted(node) /\ node \in left.blocks /\ node \in Block
    BY Zenon, <1>2, <1>3 DEF Init, Rooted
  <1>6. /\ heads = <<>> /\ best = NoBlock /\ canonical = {} /\ checkpoint = NoBlock /\ pc = "down" /\ round = 0
        /\ sync = NoSync /\ channel = <<>> /\ subscribed = FALSE /\ canon = {}
    BY Zenon DEF Init
  <1>7. /\ <<>> \in Seq(Block) /\ DOMAIN <<>> = {} /\ 0 \in 0..MaxRounds /\ "down" # "sync"
        /\ "down" \notin {"save_canonical", "save_best"} /\ 1..(Len(<<>>) - 1) = {} /\ "down" # "save_best"
    BY BlockIndexerAssumption
  <1>8. Types /\ RootedInv
    BY Zenon, <1>5, <1>6, <1>7 DEF Types, RootedInv
  <1>9. LineInv /\ StoreInv
    BY Zenon, <1>6, <1>7 DEF LineInv, StoreInv
  <1>10. FeedInv
    BY Zenon, <1>6, <1>7 DEF FeedInv, Chained, Linked
  <1> QED
    BY <1>3, <1>4, <1>8, <1>9, <1>10 DEF Inv, Good

(* What may still happen: less and less, and of the same blocks. *)
LEMMA LeftStep ==
    ASSUME LeftType, Next
    PROVE  LeftType' /\ (Calm' => Calm) /\ (StopInv => StopInv')
  <1>1. CASE left' = left
    BY Zenon, <1>1 DEF LeftType, Calm, StopInv
  <1>2. CASE Stops
    <2>1. LeftType' /\ left'.blocks = left.blocks /\ left'.stopped = TRUE
      BY Zenon, <1>2, StopsFacts
    <2>2. left.stops > 0
      BY Zenon, <1>2 DEF Stops
    <2> QED
      BY Zenon, <2>1, <2>2 DEF Calm, StopInv
  <1> QED
    BY Zenon, <1>1, <1>2 DEF Next, NewHead, SkipHead, Crash, IndexerStep, Start, Resume, FullSyncRound, Subscribe,
       ListenBlocks, SaveCanonical, SaveBest, SyncBlock, SyncCompleted, NotifyConsumers, UpdateConsumers

(* Every step keeps the invariant. *)
LEMMA NextInv ==
    ASSUME OrderlyNode, Inv, Next
    PROVE  Inv'
  <1>1. LeftType /\ LeftType'
    BY LeftStep DEF Inv
  <1>2. SUFFICES ASSUME Calm' PROVE Good'
    BY Zenon, <1>1 DEF Inv
  <1>3. Calm /\ Good
    BY Zenon, <1>1, <1>2, LeftStep DEF Inv
  <1>4. CASE NewHead
    BY Zenon, <1>1, <1>3, <1>4, NewHeadStep
  <1>5. CASE SkipHead
    BY Zenon, <1>3, <1>5, SkipHeadStep
  <1>6. CASE Crash
    BY Zenon, <1>1, <1>3, <1>6, CrashStep
  <1>7. CASE Start
    BY Zenon, <1>3, <1>7, StartStep
  <1>8. CASE Resume
    BY Zenon, <1>3, <1>8, ResumeStep
  <1>9. CASE FullSyncRound
    BY Zenon, <1>3, <1>9, FullSyncRoundStep
  <1>10. CASE Subscribe
    BY Zenon, <1>3, <1>10, SubscribeStep
  <1>11. CASE ListenBlocks
    BY Zenon, <1>3, <1>11, ListenBlocksStep
  <1>12. CASE SaveCanonical
    BY Zenon, <1>3, <1>12, SaveCanonicalStep
  <1>13. CASE SaveBest
    BY Zenon, <1>3, <1>13, SaveBestStep
  <1>14. CASE SyncBlock
    BY Zenon, <1>1, <1>3, <1>14, SyncBlockStep
  <1>15. CASE SyncCompleted
    BY Zenon, <1>3, <1>15, SyncCompletedStep
  <1>16. CASE NotifyConsumers
    BY Zenon, <1>3, <1>16, NotifyConsumersStep
  <1>17. CASE UpdateConsumers
    BY Zenon, <1>3, <1>17, UpdateConsumersStep
  <1> QED
    BY Zenon, <1>4, <1>5, <1>6, <1>7, <1>8, <1>9, <1>10, <1>11, <1>12, <1>13, <1>14, <1>15, <1>16, <1>17
       DEF Next, IndexerStep

(* And so does a step that changes nothing. *)
LEMMA StutterInv ==
    ASSUME UNCHANGED vars
    PROVE  (Inv => Inv') /\ (StopInv => StopInv')
  <1>1. UNCHANGED <<node, heads, best, canonical, checkpoint, pc, round, sync, channel, subscribed, canon, left>>
    BY DEF vars, store, thread, link
  <1>2. (Types => Types') /\ (RootedInv => RootedInv')
    BY Zenon, <1>1 DEF Types, RootedInv
  <1>3. (LineInv => LineInv') /\ (StoreInv => StoreInv')
    BY Zenon, <1>1 DEF LineInv, StoreInv
  <1>4. FeedInv => FeedInv'
    BY Zenon, <1>1 DEF FeedInv
  <1>5. (LeftType => LeftType') /\ (Calm' => Calm) /\ (StopInv => StopInv')
    BY Zenon, <1>1 DEF LeftType, Calm, StopInv
  <1> QED
    BY Zenon, <1>2, <1>3, <1>4, <1>5 DEF Inv, Good

(* The inductive invariant of an indexer beside an orderly node. *)
LEMMA InvHolds ==
    ASSUME OrderlyNode
    PROVE  Spec => []Inv
  <1>1. Init => Inv
    BY InitInv
  <1>2. Inv /\ [Next]_vars => Inv'
    BY Zenon, NextInv, StutterInv
  <1> QED
    BY <1>1, <1>2, PTL DEF Spec

(* A node whose indexer stops has one chain. *)
LEMMA StopInvHolds ==
    ASSUME OrderlyNode, StopsOnOneChain
    PROVE  Spec => []StopInv
  <1>1. Init => StopInv
    BY InitInv
  <1>2. Inv /\ StopInv /\ [Next]_vars => StopInv'
    BY Zenon, LeftStep, StutterInv DEF Inv
  <1> QED
    BY <1>1, <1>2, InvHolds, PTL DEF Spec

-----------------------------------------------------------------------------
(* Whenever the indexer waits for heads, the canonical blocks of its store *)
(* connect its best block to the initial block, for every tree of blocks,  *)
(* every number of rounds and every sequence of crashes and shutdowns      *)
(* between the writes of init_db_if_required, save_as_best_block and       *)
(* backward_sync (indexer.rs:257-356).  The node is orderly, and one whose *)
(* indexer may stop follows one chain: on forks a stop in the middle of a  *)
(* sync leaves a store that the code does not mend.                        *)
THEOREM Connected ==
    ASSUME OrderlyNode, StopsOnOneChain
    PROVE  Spec => []StoreConnected
  <1>1. Inv /\ StopInv => StoreConnected
    <2>1. SUFFICES ASSUME Inv, StopInv, pc \in {"subscribe", "listen"} PROVE Segment(best) \subseteq canonical
      BY Zenon DEF StoreConnected, Segment
    <2>2. Calm /\ Good
      BY Zenon, <2>1 DEF Inv, Calm, StopInv
    <2>3. pc # "down" /\ pc \notin {"sync", "save_best"} /\ best # NoBlock
      <3>1. pc # "down" /\ pc \notin {"sync", "save_best"}
        BY <2>1
      <3> QED
        BY Zenon, <2>2, <3>1 DEF Good, RootedInv
    <2>4. CASE OneChain(left.blocks)
      BY Zenon, <2>2, <2>3, <2>4 DEF Good, LineInv
    <2>5. CASE ~left.stopped
      BY Zenon, <2>2, <2>3, <2>5 DEF Good, StoreInv
    <2> QED
      BY Zenon, <2>2, <2>4, <2>5 DEF Calm
  <1> QED
    BY <1>1, InvHolds, StopInvHolds, PTL

(* Until the indexer is stopped, the last block its consumer was told of   *)
(* is the best block of the store whenever the notifier has caught up,     *)
(* across reorganisations, heads lost by the subscription and consumers    *)
(* that subscribe late (indexer.rs:299-304).                               *)
THEOREM ConsumerAgrees ==
    ASSUME OrderlyNode
    PROVE  Spec => []ConsumerFollowsStore
  <1>1. Inv => ConsumerFollowsStore
    <2>1. SUFFICES ASSUME Inv, ~left.stopped, pc = "listen", channel = <<>>, subscribed, canon # {}
                   PROVE  IsTip(best, canon)
      BY Zenon DEF ConsumerFollowsStore
    <2>2. Good
      BY Zenon, <2>1 DEF Inv, Calm
    <2>3. pc \notin {"save_canonical", "save_best", "down"} /\ pc # "down"
      BY <2>1
    <2>4. best \in Block
      BY Zenon, <2>2, <2>3 DEF Good, RootedInv, Rooted
    <2>5. Told(canon, best)
      BY Zenon, <2>1, <2>2, <2>3 DEF Good, FeedInv, EndsIn
    <2>6. PICK m \in 0..Number[best] : canon = {c \in ChainOf[best] : Number[c] >= m}
      BY Zenon, <2>5 DEF Told
    <2>7. Number[best] >= m /\ \A c \in ChainOf[best] : Number[c] <= Number[best]
      BY <2>4, <2>6, ChainNumbers, NumberFacts
    <2> QED
      BY Zenon, <2>4, <2>6, <2>7, ChainFacts DEF IsTip
  <1> QED
    BY <1>1, InvHolds, PTL

(* Until the indexer is stopped, its notifications keep the contract of    *)
(* BlockFeed, the assumption under which BlockchainView rebuilds the chain *)
(* (blockchain_tracker.rs:206-208): every step of the indexer is a step of *)
(* the feed or leaves the feed alone.                                      *)
THEOREM FeedKept ==
    ASSUME OrderlyNode
    PROVE  Spec => KeepsFeedUntilStopped
  <1>1. Init => Feed!FeedInit
    BY Zenon DEF Init, Feed!FeedInit
  <1>2. Inv /\ [Next]_vars => [left.stopped \/ Feed!FeedNext]_canon
    <2>1. SUFFICES ASSUME Inv, Next, ~left.stopped PROVE Feed!FeedNext \/ canon' = canon
      BY Zenon DEF vars, link
    <2>2. Good
      BY Zenon, <2>1 DEF Inv, Calm
    <2>3. CASE NotifyConsumers
      <3>1. CASE subscribed
        BY Zenon, <2>1, <2>2, <2>3, <3>1, NotifyFacts DEF Feed!FeedNext, Feed!Notify, Feed!Adopt, Feed!Below, Adopt, Below
      <3>2. CASE ~subscribed
        BY Zenon, <2>3, <3>2 DEF NotifyConsumers
      <3> QED
        BY <3>1, <3>2
    <2>4. CASE UpdateConsumers
      BY Zenon, <2>4 DEF UpdateConsumers, Feed!FeedNext, Feed!Resubscribe
    <2>5. CASE NewHead \/ SkipHead \/ Crash \/ IndexerStep
      BY Zenon, <2>5 DEF NewHead, SkipHead, Crash, IndexerStep, Start, Resume, FullSyncRound, Subscribe,
         ListenBlocks, SaveCanonical, SaveBest, SyncBlock, SyncCompleted, link
    <2> QED
      BY Zenon, <2>1, <2>3, <2>4, <2>5 DEF Next
  <1> QED
    BY <1>1, <1>2, InvHolds, PTL DEF Spec, KeepsFeedUntilStopped

=============================================================================
