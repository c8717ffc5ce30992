---------------------------- MODULE BlockIndexer ----------------------------
(***************************************************************************)
(* The block indexer process (crates/block-indexer) with start_from =      *)
(* "hash": it follows the best chain of an Rootstock node, keeps its own   *)
(* view of it in a database and notifies every new canonical block.        *)
(*                                                                         *)
(* The indexer thread runs `run`: initialise the database, finish an       *)
(* interrupted backward sync, sync backwards from the provider's best      *)
(* block until level with it, subscribe, handle the subscribed heads.  It  *)
(* hands blocks to the notifier thread over an in-memory channel; the      *)
(* notifier sends them to the subscribed consumer.                         *)
(***************************************************************************)
EXTENDS BlockTree, Sequences, FiniteSets

CONSTANTS
    InitialBlock,        \* IndexerConfig::initial_block_hash
    NoBlock,             \* an Option<RskBlock> that is None
    MaxRounds,           \* rounds of full_sync_backward_syncs
    ReorgDuringSync,     \* may the node change forks while a sync runs?
    Budgets              \* [stops : bound on crashes and shutdowns, blocks : those the node may get]

ASSUME BlockIndexerAssumption ==
    /\ InitialBlock \in Block
    /\ NoBlock \notin Block
    /\ MaxRounds \in Nat \ {0}
    /\ ReorgDuringSync \in BOOLEAN
    /\ \A b \in Budgets : b.stops \in Nat /\ b.blocks \subseteq Block

VARIABLES
    node,        \* the provider's best block
    heads,       \* heads the subscription holds for listen_blocks
    best,        \* meta/best_block
    canonical,   \* block/height/*: at most one block per height
    checkpoint,  \* meta/tmp_back_sync_checkpoint
    pc,          \* where the indexer thread is
    round,       \* rounds left in full_sync_backward_syncs
    sync,        \* the running backward_sync: [start, cur, found, return]
    channel,     \* blocks sent to the notifier and not yet handled
    subscribed,  \* the coordinator is in the notifier's consumers
    canon,       \* what the consumer was told since it subscribed
    left         \* what may still happen, and whether a stop has: [stops, blocks, stopped]

store  == <<best, canonical, checkpoint>>
thread == <<pc, round, sync>>
link   == <<channel, subscribed, canon>>
vars   == <<node, heads, store, thread, link, left>>

NoSync == [start |-> NoBlock, cur |-> NoBlock, found |-> <<>>, return |-> "none"]

TypeOK ==
    /\ node \in Block
    /\ heads \in Seq(Block)
    /\ best \in Block \cup {NoBlock}
    /\ canonical \subseteq Block
    /\ checkpoint \in Block \cup {NoBlock}
    /\ pc \in {"down", "resume", "rounds", "subscribe", "listen",
               "save_canonical", "save_best", "sync"}
    /\ round \in 0..MaxRounds
    /\ sync = NoSync \/ sync \in [start : Block, cur : Block, found : Seq(Block),
                                  return : {"rounds", "listen"}]
    /\ channel \in Seq(Block)
    /\ subscribed \in BOOLEAN
    /\ canon \subseteq Block
    /\ left.stops \in Nat /\ left.blocks \subseteq Block /\ left.stopped \in BOOLEAN

Init ==
    /\ left \in {[stops |-> b.stops, blocks |-> b.blocks, stopped |-> FALSE] : b \in Budgets}
    /\ node \in {b \in left.blocks : InitialBlock \in ChainOf[b]}
    /\ heads = <<>>
    /\ best = NoBlock /\ canonical = {} /\ checkpoint = NoBlock
    /\ pc = "down" /\ round = 0 /\ sync = NoSync
    /\ channel = <<>> /\ subscribed = FALSE /\ canon = {}

-----------------------------------------------------------------------------
(* The store and the provider. *)

(* Defect: a fork is stored beside the blocks it replaces. *)
SetCanonicalKeepsBoth(b) == canonical \cup {b}

SetCanonical(b) == {c \in canonical : Number[c] # Number[b]} \cup {b}

(* Defect: one height is skipped on the way down. *)
NextSyncBlockSkips(n) ==
    CHOOSE b \in ChainOf[node] : Number[b] = IF n = 0 THEN 0 ELSE n - 1

(* get_next_backward_sync_block: the block of the provider's chain at a    *)
(* height, or its best block when the chain does not reach that high.      *)
NextSyncBlock(n) ==
    IF n > Number[node] THEN node
    ELSE CHOOSE b \in ChainOf[node] : Number[b] = n

BackwardSync(b, return) ==
    /\ pc' = "sync"
    /\ sync' = [start |-> b, cur |-> b, found |-> <<>>, return |-> return]

(* Between subscribe_blocks and the end of listen_blocks. *)
Listening ==
    \/ pc \in {"listen", "save_canonical", "save_best"}
    \/ pc = "sync" /\ sync.return = "listen"

(* The node adopts a chain of more total difficulty and the subscription,  *)
(* if there is one, hears of its tip.  The initial block is deep enough    *)
(* never to be reorganised away.                                           *)
NewHead ==
    \E b \in left.blocks :
        /\ TotalDifficulty[b] > TotalDifficulty[node]
        /\ InitialBlock \in ChainOf[b]
        /\ pc = "sync" /\ ~ReorgDuringSync => node \in ChainOf[b]
        /\ node' = b
        /\ heads' = IF Listening THEN Append(heads, b) ELSE heads
        /\ UNCHANGED <<store, thread, link, left>>

-----------------------------------------------------------------------------
(* The indexer thread. *)

Stops == left.stops > 0 /\ left' = [left EXCEPT !.stops = @ - 1, !.stopped = TRUE]

(* run up to init_db_if_required: an empty database gets the initial block. *)
Start ==
    /\ pc = "down"
    /\ pc' = "resume"
    /\ IF best = NoBlock
       THEN canonical' = SetCanonical(InitialBlock) /\ best' = InitialBlock
       ELSE UNCHANGED <<canonical, best>>
    /\ UNCHANGED <<node, heads, checkpoint, round, sync, link, left>>

(* resume_pending_backward_sync.  The provider answers a query by hash for *)
(* every block of its chain, and for a block off its chain it may or may   *)
(* not.                                                                    *)
Resume ==
    /\ pc = "resume"
    /\ round' = MaxRounds
    /\ \/ /\ checkpoint \notin {NoBlock, Genesis}
          /\ BackwardSync(Parent[checkpoint], "rounds")
       \/ /\ checkpoint \notin {NoBlock, Genesis} => Parent[checkpoint] \notin ChainOf[node]
          /\ pc' = "rounds"
          /\ UNCHANGED sync
    /\ UNCHANGED <<node, heads, store, link, left>>

(* One round of full_sync_backward_syncs; it bails out of the process when *)
(* the rounds are used up.                                                 *)
FullSyncRound ==
    /\ pc = "rounds"
    /\ \/ /\ round = 0
          /\ pc' = "down"
          /\ UNCHANGED <<round, sync>>
       \/ /\ round > 0 /\ node = best
          /\ pc' = "subscribe"
          /\ UNCHANGED <<round, sync>>
       \/ /\ round > 0 /\ node # best
          /\ round' = round - 1
          /\ BackwardSync(node, "rounds")
    /\ channel' = IF pc' = "down" THEN <<>> ELSE channel
    /\ subscribed' = (subscribed /\ pc' # "down")
    /\ UNCHANGED <<node, heads, store, canon, left>>

Subscribe ==
    /\ pc = "subscribe"
    /\ pc' = "listen"
    /\ UNCHANGED <<node, heads, store, round, sync, link, left>>

(* One head of listen_blocks: notify and then save a block that extends    *)
(* the local best, sync to the provider's best block from one that is      *)
(* taller or heavier, and only store any other.                            *)
ListenBlocks ==
    /\ pc = "listen"
    /\ heads # <<>>
    /\ LET b == Head(heads) IN
       \/ /\ Parent[b] = best /\ b # Genesis
          /\ channel' = Append(channel, b)
          /\ pc' = "save_canonical"
          /\ UNCHANGED <<heads, sync>>
       \/ /\ Parent[b] # best
          /\ Number[b] > Number[best] \/ TotalDifficulty[b] > TotalDifficulty[best]
          /\ heads' = Tail(heads)
          /\ BackwardSync(node, "listen")
          /\ UNCHANGED channel
       \/ /\ Parent[b] # best
          /\ Number[b] <= Number[best] /\ TotalDifficulty[b] <= TotalDifficulty[best]
          /\ heads' = Tail(heads)
          /\ UNCHANGED <<pc, sync, channel>>
    /\ UNCHANGED <<node, store, round, subscribed, canon, left>>

(* save_as_best_block, two writes: the canonical block of the height, then *)
(* the best block.                                                         *)
SaveCanonical ==
    /\ pc = "save_canonical"
    /\ canonical' = SetCanonical(Head(heads))
    /\ pc' = "save_best"
    /\ UNCHANGED <<node, heads, best, checkpoint, round, sync, link, left>>

(* Defect: the best block is not moved. *)
SaveBestForgotten ==
    /\ pc = "save_best"
    /\ heads' = Tail(heads)
    /\ pc' = "listen"
    /\ UNCHANGED <<node, store, round, sync, link, left>>

SaveBest ==
    /\ pc = "save_best"
    /\ best' = Head(heads)
    /\ heads' = Tail(heads)
    /\ pc' = "listen"
    /\ UNCHANGED <<node, canonical, checkpoint, round, sync, link, left>>

(* A head the subscription reports as Transient or Lagged is skipped. *)
SkipHead ==
    /\ pc = "listen"
    /\ heads # <<>>
    /\ heads' = Tail(heads)
    /\ UNCHANGED <<node, store, thread, link, left>>

(* One iteration of the loop of backward_sync that does not complete it: a *)
(* new or replaced block is collected and stored, a known block above the  *)
(* local best skipped; then a requested shutdown leaves a checkpoint, the  *)
(* initial block and the genesis end the sync without result, and          *)
(* otherwise the block below is next.                                      *)
SyncBlock ==
    /\ pc = "sync"
    /\ LET b == sync.cur
           known == b \in canonical
       IN /\ ~known \/ Number[b] > Number[best]
          /\ canonical' = SetCanonical(b)
          /\ \/ /\ Stops
                /\ checkpoint' = b
                /\ pc' = "down" /\ round' = 0 /\ sync' = NoSync
                /\ heads' = <<>> /\ channel' = <<>> /\ subscribed' = FALSE
             \/ /\ IF b \in {InitialBlock, Genesis}
                   THEN pc' = sync.return /\ sync' = NoSync
                   ELSE /\ sync' = [sync EXCEPT !.cur = NextSyncBlock(Number[b] - 1),
                                               !.found = IF known THEN @ ELSE <<b>> \o @]
                        /\ UNCHANGED pc
                /\ UNCHANGED <<heads, checkpoint, round, channel, subscribed, left>>
    /\ UNCHANGED <<node, best, canon>>

(* The iteration that reaches a known block at or below the local best:    *)
(* the blocks found are sent in ascending order.                           *)
SyncCompleted ==
    /\ pc = "sync"
    /\ sync.cur \in canonical
    /\ Number[sync.cur] <= Number[best]
    /\ checkpoint' = NoBlock
    /\ best' = sync.start
    /\ channel' = channel \o sync.found
    /\ pc' = sync.return
    /\ sync' = NoSync
    /\ UNCHANGED <<node, heads, canonical, round, subscribed, canon, left>>

-----------------------------------------------------------------------------
(* The notifier thread. *)

(* Defect: what waits behind a block is dropped with it. *)
NotifyConsumersDrops ==
    /\ channel # <<>>
    /\ channel' = <<>>
    /\ canon' = IF subscribed THEN Adopt(canon, Head(channel)) ELSE canon
    /\ UNCHANGED <<node, heads, store, thread, subscribed, left>>

(* notify_consumers: a block without a consumer goes nowhere. *)
NotifyConsumers ==
    /\ channel # <<>>
    /\ channel' = Tail(channel)
    /\ canon' = IF subscribed THEN Adopt(canon, Head(channel)) ELSE canon
    /\ UNCHANGED <<node, heads, store, thread, subscribed, left>>

(* update_consumers: the coordinator asks for blocks when it starts; the   *)
(* consumers are kept in memory only.                                      *)
UpdateConsumers ==
    /\ pc # "down"
    /\ ~subscribed
    /\ subscribed' = TRUE
    /\ canon' = {}
    /\ UNCHANGED <<node, heads, store, thread, channel, left>>

(* The process dies between any two writes: what is in memory is gone. *)
Crash ==
    /\ pc # "down"
    /\ Stops
    /\ pc' = "down" /\ round' = 0 /\ sync' = NoSync
    /\ heads' = <<>> /\ channel' = <<>> /\ subscribed' = FALSE
    /\ UNCHANGED <<node, store, canon>>

-----------------------------------------------------------------------------
IndexerStep ==
    \/ Start \/ Resume \/ FullSyncRound \/ Subscribe
    \/ ListenBlocks \/ SaveCanonical \/ SaveBest
    \/ SyncBlock \/ SyncCompleted

Next ==
    \/ NewHead \/ SkipHead \/ Crash
    \/ IndexerStep
    \/ NotifyConsumers \/ UpdateConsumers

(* Both threads run whenever they can; the node and failures need not. *)
Fairness == WF_vars(IndexerStep) /\ WF_vars(NotifyConsumers)

Spec == Init /\ [][Next]_vars /\ Fairness

-----------------------------------------------------------------------------
(* When the properties below hold: the node does not change forks while a  *)
(* sync runs, and it changes only to forks that are not shorter.           *)
OrderlyNode ==
    /\ ~ReorgDuringSync
    /\ \A b, c \in Block : TotalDifficulty[b] > TotalDifficulty[c] => Number[b] >= Number[c]

(* The blocks of one chain. *)
OneChain(blocks) == \A b, c \in blocks : b \in ChainOf[c] \/ c \in ChainOf[b]

(* And a node whose indexer may stop does not change forks at all. *)
StopsOnOneChain == \A b \in Budgets : b.stops = 0 \/ OneChain(b.blocks)

(* backward_sync writes a chain into the store from its tip down and moves *)
(* the best block last.  Whatever was interrupted before, while the        *)
(* indexer waits for heads the canonical blocks connect the best block to  *)
(* the initial one (indexer.rs:257-356).                                   *)
StoreConnected ==
    pc \in {"subscribe", "listen"} =>
        {b \in ChainOf[best] : Number[b] >= Number[InitialBlock]} \subseteq canonical

(* Once everything sent is handled, the last block a consumer was told of  *)
(* is the best block of the store: notifying and storing, which the code   *)
(* orders with care (indexer.rs:299-304), do not drift apart as long as    *)
(* nothing stops the indexer.                                              *)
ConsumerFollowsStore ==
    ~left.stopped /\ pc = "listen" /\ channel = <<>> /\ subscribed /\ canon # {} => IsTip(best, canon)

(* The notifications keep the contract BlockchainView relies on            *)
(* (blockchain_tracker.rs:206-208).                                        *)
Feed == INSTANCE BlockFeed

KeepsFeedContract == Feed!FeedSpec

(* As long as nothing stops the indexer, its notifications keep the        *)
(* contract that BlockchainView relies on (blockchain_tracker.rs:206-208), *)
(* whatever the node reorganises between two syncs.                        *)
KeepsFeedUntilStopped == Feed!FeedInit /\ [][left.stopped \/ Feed!FeedNext]_canon

(* A head the subscription hands to listen_blocks is not forgotten: the    *)
(* store gets at least as high, whatever fork or gap the head reveals      *)
(* (indexer.rs:190-237).                                                   *)
HeadsAreFollowed ==
    \A b \in Block :
        (pc = "save_canonical" /\ Head(heads) = b) \/ (pc = "sync" /\ sync.start = b)
            ~> best # NoBlock /\ Number[best] >= Number[b]

=============================================================================
