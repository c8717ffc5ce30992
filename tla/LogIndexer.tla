----------------------------- MODULE LogIndexer -----------------------------
(***************************************************************************)
(* The log indexer (LogIndexer, RawLogStore, Notifier): it recovers the    *)
(* logs of the managed contracts in batches, subscribes to new ones, saves *)
(* each with a checkpoint and passes it to the notifier thread, which      *)
(* tells the consumers of its contract.                                    *)
(*                                                                         *)
(* The Rootstock node has the chain that ends in head.  When head changes  *)
(* it sends the logs of the blocks that left the chain as removed, the     *)
(* highest first, then those of the blocks that came to it.  A log is      *)
(* saved under its key: the same transaction may be mined in two forks.    *)
(***************************************************************************)
EXTENDS BlockTree, FiniteSets, Sequences, SequencesExt

CONSTANTS
    Key,          \* address, transaction hash and index of the logs
    ContractOf,   \* the contract of each
    LogsIn,       \* the logs of each block, in order
    Contract,     \* the managed contracts
    InitialHash,  \* initial_block_hash
    BatchSize,    \* sync.batch_size
    Finality,     \* sync.finality_depth
    MaxAttempts,  \* of recover_logs
    Budgets       \* what may happen in a behaviour, see Budget

Budget ==
    [from    : {"hash", "best"},  \* indexer.start_from
     reorgs  : Nat,               \* reorganisations while the indexer listens or is down
     races   : Nat,               \* reorganisations while it recovers
     lost    : Nat,               \* logs lost by a lagging subscription or a transient error
     crashes : Nat,
     changes : Nat]               \* subscriptions that end again

ASSUME LogIndexerAssumption ==
    /\ InitialHash \in Block
    /\ ContractOf \in [Key -> Contract]
    /\ \A b \in Block : LogsIn[b] \in Seq(Key)
    /\ {BatchSize, MaxAttempts} \subseteq Nat \ {0} /\ Finality \in Nat
    /\ \A b \in Budgets : b \in Budget

VARIABLES
    head,      \* the node's best block
    feed,      \* logs the subscription holds for the indexer
    pc,        \* "down" or the place in run
    from,      \* recover_logs: the next block to fetch
    end,       \* and the last
    attempt,
    todo,      \* logs that were fetched or received and are not saved yet
    initial,   \* initial_block_number
    store,     \* the logs saved, by key
    mark,      \* the sync checkpoint: a block number, or -1
    channel,   \* logs on their way to the notifier
    subs,      \* contracts_with_consumers, of one consumer
    told,      \* what the consumer was told, see LogFeed
    gap,       \* history: a log was lost or a reorganisation raced the recovery
    left       \* what is left of the budget

node     == <<head, feed>>
indexer  == <<pc, from, end, attempt, todo, initial, store, mark>>
notifier == <<subs, told>>
vars     == <<node, indexer, channel, notifier, gap, left>>

Log  == Key \X Block \X BOOLEAN   \* the last is LogInfo::removed
None == <<>>

TypeOK ==
    /\ head \in Block
    /\ \A s \in {feed, todo, channel} : Range(s) \subseteq Log
    /\ pc \in {"down", "fetch", "save", "checkpoint", "subscribe", "listen", "received", "saved"}
    /\ from \in Nat /\ end \in Nat /\ attempt \in 1..MaxAttempts + 1 /\ initial \in Nat
    /\ \A k \in Key : store[k] = None \/ (store[k] \in Log /\ store[k][1] = k)
    /\ mark \in Nat \cup {-1}
    /\ subs \subseteq Contract /\ told \subseteq Key \X Block
    /\ gap \in BOOLEAN /\ left \in Budget

Init ==
    /\ head = Genesis /\ feed = <<>>
    /\ pc = "down" /\ from = 0 /\ end = 0 /\ attempt = 1 /\ todo = <<>> /\ initial = 0
    /\ store = [k \in Key |-> None] /\ mark = -1
    /\ channel = <<>> /\ subs = {} /\ told = {}
    /\ gap = FALSE /\ left \in Budgets

-----------------------------------------------------------------------------
(* The node. *)

(* The logs of the blocks of a chain, from the lowest to the highest. *)
LogsOf(blocks, removed) ==
    LET at(n) == {b \in blocks : Number[b] = n}
        in(b) == [i \in DOMAIN LogsIn[b] |-> <<LogsIn[b][i], b, removed>>]
    IN FlattenSeq([i \in 1..Cardinality(Block) |->
                      IF at(i - 1) = {} THEN <<>> ELSE in(CHOOSE b \in at(i - 1) : TRUE)])

Subscribed == pc \in {"listen", "received", "saved"}
Recovering == pc \in {"fetch", "save", "checkpoint", "subscribe"}

(* A new best block; a reorganisation is not deeper than Finality. *)
NewHead(b) ==
    LET gone == ChainOf[head] \ ChainOf[b]
        new  == ChainOf[b] \ ChainOf[head]
    IN /\ b # head /\ Number[b] >= Number[head]
       /\ \A c \in gone : Number[head] - Number[c] < Finality
       /\ head' = b
       /\ feed' = IF Subscribed THEN feed \o Reverse(LogsOf(gone, TRUE)) \o LogsOf(new, FALSE)
                  ELSE feed
       /\ IF gone = {} THEN UNCHANGED <<left, gap>>
          ELSE IF Recovering
          THEN left.races > 0 /\ left' = [left EXCEPT !.races = @ - 1] /\ gap' = TRUE
          ELSE left.reorgs > 0 /\ left' = [left EXCEPT !.reorgs = @ - 1] /\ UNCHANGED gap
       /\ UNCHANGED <<indexer, channel, notifier>>

-----------------------------------------------------------------------------
(* The indexer thread. *)

Larger(a, b) == IF a > b THEN a ELSE b

(* Defect: the blocks that may have been reorganised are not fetched again. *)
FirstBlockAtCheckpoint(start) == start

(* The start of a recovery, Finality blocks below. *)
FirstBlock(start) == Larger(start - Finality, 0)

(* new_with_notifier and the beginning of run. *)
Start ==
    /\ pc = "down"
    /\ initial' = Number[IF left.from = "best" THEN head ELSE InitialHash]
    /\ end' = Number[head] /\ attempt' = 1
    /\ IF left.from = "best"
       THEN pc' = "subscribe" /\ from' = initial'
       ELSE pc' = "fetch" /\ from' = FirstBlock(IF mark = -1 THEN initial' ELSE mark)
    /\ UNCHANGED <<node, todo, store, mark, channel, notifier, gap, left>>

(* One round of the loop of recover_logs: the logs of a batch.  When no    *)
(* block is left the subscription follows; when the best block kept        *)
(* changing the indexer gives up, and the process ends.                    *)
RecoverLogs ==
    /\ pc = "fetch"
    /\ IF from > end
       THEN pc' = "subscribe" /\ UNCHANGED <<todo, subs, told>>
       ELSE IF attempt > MaxAttempts
       THEN pc' = "down" /\ todo' = <<>> /\ subs' = {} /\ told' = {}
       ELSE LET to == IF from + BatchSize < end THEN from + BatchSize ELSE end
                logs == LogsOf({b \in ChainOf[head] : Number[b] \in from..to}, FALSE)
            IN pc' = "save" /\ todo' = logs /\ UNCHANGED <<subs, told>>
    /\ UNCHANGED <<node, from, end, attempt, initial, store, mark, channel, gap, left>>

(* save_logs, one log after the other. *)
SaveLog ==
    /\ pc = "save" /\ todo # <<>>
    /\ store' = [store EXCEPT ![Head(todo)[1]] = Head(todo)]
    /\ IF Len(todo) = 1 THEN pc' = "checkpoint" /\ UNCHANGED todo ELSE UNCHANGED pc /\ todo' = Tail(todo)
    /\ UNCHANGED <<node, from, end, attempt, initial, mark, channel, notifier, gap, left>>

(* Defect: a block between two batches is skipped. *)
NextBatchSkips ==
    LET to == IF from + BatchSize < end THEN from + BatchSize ELSE end
    IN /\ pc' = "fetch" /\ from' = to + 2
       /\ IF to = end /\ end < Number[head]
          THEN end' = Number[head] /\ attempt' = attempt + 1
          ELSE UNCHANGED <<end, attempt>>

(* The end of a round.  New blocks that came up to now are fetched too. *)
NextBatch ==
    LET to == IF from + BatchSize < end THEN from + BatchSize ELSE end
    IN /\ pc' = "fetch" /\ from' = to + 1
       /\ IF to = end /\ end < Number[head]
          THEN end' = Number[head] /\ attempt' = attempt + 1
          ELSE UNCHANGED <<end, attempt>>

(* set_sync_checkpoint; a batch without logs leaves the checkpoint alone. *)
SetSyncCheckpoint ==
    /\ \/ pc = "save" /\ todo = <<>> /\ UNCHANGED mark
       \/ pc = "checkpoint" /\ mark' = Number[Head(todo)[2]]
    /\ NextBatch
    /\ todo' = <<>>
    /\ UNCHANGED <<node, initial, store, channel, notifier, gap, left>>

(* subscribe_logs: the node sends the logs from the last block on. *)
SubscribeLogs ==
    /\ pc = "subscribe" /\ pc' = "listen"
    /\ feed' = LogsOf({b \in ChainOf[head] : Number[b] >= IF left.from = "best" THEN from ELSE end}, FALSE)
    /\ UNCHANGED <<head, from, end, attempt, todo, initial, store, mark, channel, notifier, gap, left>>

(* One round of listen_logs: a log from below the initial block is         *)
(* skipped, any other is saved, marked and sent, one step each.            *)
ListenLogs ==
    /\ pc = "listen" /\ feed # <<>>
    /\ feed' = Tail(feed)
    /\ IF Number[Head(feed)[2]] < initial
       THEN UNCHANGED <<pc, todo, store>>
       ELSE /\ pc' = "received" /\ todo' = <<Head(feed)>>
            /\ store' = [store EXCEPT ![Head(feed)[1]] = Head(feed)]
    /\ UNCHANGED <<head, from, end, attempt, initial, mark, channel, notifier, gap, left>>

(* A Lagged or Transient error: the loop goes on without the log. *)
LoseLog ==
    /\ pc = "listen" /\ feed # <<>>
    /\ left.lost > 0 /\ left' = [left EXCEPT !.lost = @ - 1]
    /\ feed' = Tail(feed) /\ gap' = TRUE
    /\ UNCHANGED <<head, indexer, channel, notifier>>

MarkLog ==
    /\ pc = "received" /\ pc' = "saved"
    /\ mark' = Number[Head(todo)[2]]
    /\ UNCHANGED <<node, from, end, attempt, todo, initial, store, channel, notifier, gap, left>>

(* Defect: the channel has room for one log that was added. *)
SendLogDrops ==
    /\ pc = "saved" /\ pc' = "listen"
    /\ channel' = IF channel = <<>> \/ Head(todo)[3] THEN channel \o todo ELSE channel
    /\ todo' = <<>>
    /\ UNCHANGED <<node, from, end, attempt, initial, store, mark, notifier, gap, left>>

(* The log is sent to the notifier. *)
SendLog ==
    /\ pc = "saved" /\ pc' = "listen"
    /\ channel' = channel \o todo /\ todo' = <<>>
    /\ UNCHANGED <<node, from, end, attempt, initial, store, mark, notifier, gap, left>>

(* A crash, a shutdown, a closed connection or a failure of either thread: *)
(* the process ends and with it the channel and the subscriptions.         *)
Crash ==
    /\ pc # "down" /\ pc' = "down"
    /\ left.crashes > 0 /\ left' = [left EXCEPT !.crashes = @ - 1]
    /\ feed' = <<>> /\ todo' = <<>> /\ channel' = <<>> /\ subs' = {} /\ told' = {}
    /\ UNCHANGED <<head, from, end, attempt, initial, store, mark, gap>>

-----------------------------------------------------------------------------
(* The notifier thread. *)

(* What the consumer still believes of the contracts in cs. *)
ToldOf(cs) == {m \in told : ContractOf[m[1]] \in cs}

(* update_consumers: SubscribeLogs, which is ignored for a contract that   *)
(* has the consumer already.                                               *)
SubscribeConsumer(c) ==
    /\ pc # "down" /\ c \notin subs
    /\ subs' = subs \cup {c}
    /\ UNCHANGED <<node, indexer, channel, told, gap, left>>

(* UnsubscribeLogs, or any other request, which ends all subscriptions. *)
UnsubscribeConsumer(cs) ==
    /\ pc # "down" /\ cs \subseteq subs
    /\ left.changes > 0 /\ left' = [left EXCEPT !.changes = @ - 1]
    /\ subs' = subs \ cs /\ told' = told \ ToldOf(cs)
    /\ UNCHANGED <<node, indexer, channel, gap>>

(* Defect: a removed log is passed on as an added one. *)
NotifyConsumersAdds ==
    /\ pc # "down" /\ channel # <<>>
    /\ channel' = Tail(channel)
    /\ LET log == Head(channel)
       IN told' = IF ContractOf[log[1]] \in subs THEN told \cup {<<log[1], log[2]>>} ELSE told
    /\ UNCHANGED <<node, indexer, subs, gap, left>>

(* wait_for_log and notify_consumers. *)
NotifyConsumers ==
    /\ pc # "down" /\ channel # <<>>
    /\ channel' = Tail(channel)
    /\ LET log == Head(channel)
           m == <<log[1], log[2]>>
       IN told' = IF ContractOf[log[1]] \notin subs THEN told
                  ELSE IF log[3] THEN told \ {m} ELSE told \cup {m}
    /\ UNCHANGED <<node, indexer, subs, gap, left>>

-----------------------------------------------------------------------------
IndexerStep ==
    \/ RecoverLogs \/ SaveLog \/ SetSyncCheckpoint \/ SubscribeLogs \/ ListenLogs \/ MarkLog \/ SendLog

Next ==
    \/ \E b \in Block : NewHead(b)
    \/ Start \/ IndexerStep \/ LoseLog \/ Crash
    \/ \E c \in Contract : SubscribeConsumer(c)
    \/ \E cs \in SUBSET Contract \ {{}} : UnsubscribeConsumer(cs)
    \/ NotifyConsumers

(* Both threads run; the node delivers what the subscription holds. *)
Fairness == WF_vars(IndexerStep) /\ WF_vars(NotifyConsumers)

Spec == Init /\ [][Next]_vars /\ Fairness

-----------------------------------------------------------------------------
(* What the store says of a key once the logs on their way are saved. *)
Eventual(k) ==
    LET mine == SelectSeq(todo \o feed, LAMBDA l : l[1] = k)
    IN IF mine = <<>> THEN store[k] ELSE Last(mine)

OnChain == UNION {{<<k, b, FALSE>> : k \in Range(LogsIn[b])} : b \in ChainOf[head]}

(* While the indexer listens, every log of the node's chain is saved or on *)
(* its way, under the block that now holds it, whatever was reorganised    *)
(* while the indexer listened or was down (recover_logs, listen_logs).     *)
ListensToAll ==
    Subscribed /\ ~gap => \A l \in OnChain : Number[l[2]] >= initial => Eventual(l[1]) = l

(* Wherever the indexer is stopped, the next recovery begins low enough:   *)
(* a log of the chain that is not saved is not below the first block it    *)
(* fetches (recover_logs with its checkpoint and finality depth).          *)
NothingSkipped ==
    ~gap /\ left.from = "hash" => \A l \in OnChain :
        \/ store[l[1]] = l
        \/ Number[l[2]] >= FirstBlock(IF mark = -1 THEN Number[InitialHash] ELSE mark)

(* What a consumer is told is a log feed: no log twice, none in two blocks *)
(* (listen_logs and notify_consumers, over the channel between them).      *)
Feed == INSTANCE LogFeed
KeepsFeed == [][gap \/ Feed!FeedNext]_told

(* A recovery ends, however often the best block changes. *)
Recovers == pc = "fetch" ~> pc \in {"listen", "down"}

(* A log that the node sends reaches a subscribed consumer, unless the     *)
(* indexer stops or loses it.                                              *)
Delivered ==
    \A b \in Block : \A k \in Range(LogsIn[b]) :
        <<k, b, FALSE>> \in Range(feed) /\ ContractOf[k] \in subs
            ~> <<k, b>> \in told \/ ContractOf[k] \notin subs \/ gap \/ Number[b] < initial

(* Recoveries end and logs are delivered. *)
LogsArrive == Recovers /\ Delivered

=============================================================================
