-------------------------- MODULE EventConfirmation --------------------------
(***************************************************************************)
(* How the coordinator decides that a Rootstock event is final.  Every     *)
(* flow processor repeats the same protocol on the types of                *)
(* blockchain_tracker.rs: an event starts confirming when its log arrives, *)
(* stops when the log is reported as removed, and is processed once        *)
(* `required` blocks, counted by height from its own, have arrived.        *)
(*                                                                         *)
(* Logs and blocks come from two indexers over two queues, so the          *)
(* coordinator may see the log of a reorganisation before or after its     *)
(* blocks.  The processor saves a snapshot of the events that are          *)
(* confirming at the end of a handler; the view of the chain is not saved. *)
(***************************************************************************)
EXTENDS BlockTree, Sequences

CONSTANTS
    Event,                 \* event ids: the kind and the transaction hash
    EventsIn,              \* the events each block emits
    Required,              \* rsk_confirmations
    MaxReorg,              \* most blocks below the highest a fork replaces
    MaxSent,               \* bound on block notifications
    MaxCrashes,            \* bound on crashes between two handlers
    MaxLost,               \* bound on crashes inside a handler
    LogsFirst,             \* a block never overtakes an earlier log
    EarlierStagesMayFail   \* see ProcessNewBlock

ASSUME EventConfirmationAssumption ==
    /\ EventsIn \in [Block -> SUBSET Event]
    /\ Required \in Nat /\ Required >= 2
    /\ MaxReorg \in Nat /\ MaxSent \in Nat
    /\ MaxCrashes \in Nat /\ MaxLost \in Nat
    /\ LogsFirst \in BOOLEAN
    /\ EarlierStagesMayFail \in BOOLEAN

VARIABLES
    chain,       \* the chain the block indexer has notified
    peak,        \* its greatest height so far
    sent,        \* block notifications sent so far
    blocks,      \* queue of blocks: [block, chain once it is adopted, seq]
    logs,        \* queue of logs, one batch per block sent
    canon,       \* the chain of the blocks taken from the queue
    status,      \* of the coordinator: "up", "down" or "panicked"
    view,        \* BlockchainView::blocks
    confirming,  \* events_confirming: event -> [block, last]
    snapshot,    \* the saved events_confirming: event -> block
    processed,   \* pairs given to process_confirmed_rsk_event with success
    crashes, lost

network == <<chain, peak, sent, blocks, logs>>
faults  == <<crashes, lost>>
vars    == <<network, canon, status, view, confirming, snapshot, processed, faults>>

Occurrence == Event \X Block
BlockMsg   == [block : Block, chain : SUBSET Block, seq : Nat]
LogBatch   == [removed : SUBSET Occurrence, added : SUBSET Occurrence, seq : Nat]

Counter    == [block : Block, last : Nat]

IsMapTo(f, S) == DOMAIN f \subseteq Event /\ f \in [DOMAIN f -> S]

TypeOK ==
    /\ chain \in SUBSET Block /\ canon \in SUBSET Block /\ view \in SUBSET Block
    /\ peak \in Nat /\ sent \in Nat
    /\ blocks \in Seq(BlockMsg)
    /\ logs \in Seq(LogBatch)
    /\ status \in {"up", "down", "panicked"}
    /\ IsMapTo(confirming, Counter)
    /\ IsMapTo(snapshot, Block)
    /\ processed \in SUBSET Occurrence
    /\ crashes \in Nat /\ lost \in Nat

NoneConfirming == [e \in {} |-> 0]

Init ==
    /\ chain = {} /\ peak = 0 /\ sent = 0 /\ blocks = <<>> /\ logs = <<>>
    /\ canon = {} /\ status = "up" /\ view = {}
    /\ confirming = NoneConfirming /\ snapshot = NoneConfirming
    /\ processed = {}
    /\ crashes = 0 /\ lost = 0

-----------------------------------------------------------------------------
(* The indexers: a block is notified as BlockFeed promises, the log        *)
(* indexer reports the logs of the blocks it replaces as removed and its   *)
(* own as added.                                                           *)

Feed == INSTANCE BlockFeed WITH canon <- chain

OccurrencesIn(S) == {o \in Occurrence : o[2] \in S /\ o[1] \in EventsIn[o[2]]}

NotifyBlock(b) ==
    /\ sent < MaxSent
    /\ Number[b] + MaxReorg > peak
    /\ Feed!Notify(b)
    /\ peak' = IF Number[b] > peak THEN Number[b] ELSE peak
    /\ sent' = sent + 1
    /\ blocks' = Append(blocks, [block |-> b, chain |-> chain', seq |-> sent'])
    /\ LET removed == OccurrencesIn(chain \ chain')
           added   == OccurrencesIn(chain' \ chain)
       IN logs' = IF removed \cup added = {} THEN logs
                  ELSE Append(logs, [removed |-> removed, added |-> added, seq |-> sent'])
    /\ UNCHANGED <<canon, status, view, confirming, snapshot, processed, faults>>

-----------------------------------------------------------------------------
(* blockchain_tracker.rs *)

(* BlockchainView::update panics on a block that does not connect to the   *)
(* block the view holds below it (validate_consecutive_block).             *)
Connects(b) == b \in view \/ Below(view, b) = {} \/ Parent[b] \in view

(* Defect: the view is not rolled back. *)
UpdatedViewKeeps(b) == view \cup {b}

(* BlockchainView::update and rollback_to: a known block is ignored.  The  *)
(* blocks at and above its height are dropped, and every observer ends     *)
(* with the height of the new block as its last one.                       *)
UpdatedView(b) == IF b \in view THEN view ELSE Adopt(view, b)

Updated(b) ==
    IF b \in view THEN confirming
    ELSE [e \in DOMAIN confirming |-> [confirming[e] EXCEPT !.last = Number[b]]]

(* Defect: the block of the event counts twice. *)
AccumOneMore(c) == IF c.last < Number[c.block] THEN 0 ELSE c.last - Number[c.block] + 2

(* BlockConfirmations::accum and is_confirmed. *)
Accum(c) == IF c.last < Number[c.block] THEN 0 ELSE c.last - Number[c.block] + 1

(* Defect: one confirmation too few is enough. *)
IsConfirmedEarly(c) == Accum(c) + 1 >= Required

IsConfirmed(c) == Accum(c) >= Required

(* stop_confirming_event for the events of S. *)
StopConfirming(c, S) == [e \in DOMAIN c \ S |-> c[e]]

(* Defect: the view is not cleared with the last event. *)
ViewAfterKept(v, c) == v

ViewAfter(v, c) == IF DOMAIN c = {} THEN {} ELSE v

(* snapshot_confirmable_events and restore_confirmable_events: only the    *)
(* block an event started at is kept, and counting starts anew.            *)
Snapshot(c) == [e \in DOMAIN c |-> c[e].block]

Restored(s) == [e \in DOMAIN s |-> [block |-> s[e], last |-> Number[s[e]]]]

-----------------------------------------------------------------------------
(* The coordinator loop and a processor. *)

(* The log at the front: a batch lists removed logs before added ones. *)
TakeLog(e, b, removed) ==
    /\ logs # <<>>
    /\ LET l == Head(logs)
           rest == IF removed THEN [l EXCEPT !.removed = @ \ {<<e, b>>}]
                              ELSE [l EXCEPT !.added = @ \ {<<e, b>>}]
       IN /\ removed => <<e, b>> \in l.removed
          /\ ~removed => l.removed = {} /\ <<e, b>> \in l.added
          /\ logs' = IF rest.removed \cup rest.added = {} THEN Tail(logs)
                     ELSE <<rest>> \o Tail(logs)
    /\ UNCHANGED <<chain, peak, sent, blocks, canon>>

(* process_new_rsk_event.  A removed event stops confirming, and the view  *)
(* is cleared with the last one; an added event starts confirming at its   *)
(* block, a previous start of the same id replaced.                        *)
ProcessNewRskEvent ==
    /\ status = "up"
    /\ \E e \in Event, b \in Block, removed \in BOOLEAN :
        /\ TakeLog(e, b, removed)
        /\ confirming' =
               IF removed THEN StopConfirming(confirming, {e})
               ELSE [f \in DOMAIN confirming \cup {e} |->
                        IF f = e THEN [block |-> b, last |-> Number[b]] ELSE confirming[f]]
        /\ view' = IF e \in DOMAIN confirming THEN ViewAfter(view, confirming') ELSE view
    /\ snapshot' = Snapshot(confirming')
    /\ UNCHANGED <<status, processed, faults>>

TakeBlock ==
    /\ status = "up"
    /\ blocks # <<>>
    /\ LogsFirst /\ logs # <<>> => Head(logs).seq > Head(blocks).seq
    /\ blocks' = Tail(blocks)
    /\ canon' = Head(blocks).chain
    /\ UNCHANGED <<chain, peak, sent, logs>>

(* The events process_block_confirmations finds confirmed with block b. *)
Due(b) == {e \in DOMAIN confirming : Connects(b) /\ IsConfirmed(Updated(b)[e])}

Process(S) == processed' = processed \cup {<<e, confirming[e].block>> : e \in S}

(* process_block_confirmations: the events due are processed in the order  *)
(* of a hash map.  The first failure ends the loop, its event dropped and  *)
(* those not reached left for the next block, and the snapshot is not      *)
(* saved.                                                                  *)
ConfirmEvents(b) ==
    \/ /\ Process(Due(b))
       /\ confirming' = StopConfirming(Updated(b), Due(b))
       /\ view' = ViewAfter(UpdatedView(b), confirming')
       /\ snapshot' = Snapshot(confirming')
    \/ \E failed \in Due(b) : \E ok \in SUBSET (Due(b) \ {failed}) :
           /\ Process(ok)
           /\ confirming' = StopConfirming(Updated(b), ok \cup {failed})
           /\ view' = ViewAfter(UpdatedView(b), confirming')
           /\ UNCHANGED snapshot

(* The process is gone, and with it everything in memory. *)
Die(how) == status' = how /\ view' = {} /\ confirming' = NoneConfirming

(* process_new_block.  The advance-funds processor confirms events first;  *)
(* the peg-in and peg-out processors first run signature flows and timers, *)
(* whose error returns before the view sees the block.                     *)
ProcessNewBlock ==
    /\ TakeBlock
    /\ LET b == Head(blocks).block IN
       \/ /\ EarlierStagesMayFail
          /\ UNCHANGED <<status, view, confirming, snapshot, processed>>
       \/ /\ DOMAIN confirming = {}
          /\ snapshot' = Snapshot(confirming)
          /\ UNCHANGED <<status, view, confirming, processed>>
       \/ /\ DOMAIN confirming # {} /\ Connects(b)
          /\ ConfirmEvents(b)
          /\ UNCHANGED status
       \/ /\ DOMAIN confirming # {} /\ ~Connects(b)
          /\ Die("panicked")
          /\ UNCHANGED <<snapshot, processed>>
    /\ UNCHANGED faults

-----------------------------------------------------------------------------
(* Crashes.  A message is gone from its queue once it is received, so a    *)
(* crash inside a handler loses it and the handler's changes in memory,    *)
(* but not what it made of the events it had already processed.            *)

Crash ==
    /\ status = "up" /\ crashes < MaxCrashes
    /\ crashes' = crashes + 1
    /\ Die("down")
    /\ UNCHANGED <<network, canon, snapshot, processed, lost>>

CrashInHandler ==
    /\ status = "up" /\ lost < MaxLost
    /\ lost' = lost + 1
    /\ Die("down")
    /\ \/ /\ TakeBlock
          /\ \E ok \in SUBSET Due(Head(blocks).block) : Process(ok)
       \/ /\ \E e \in Event, b \in Block, removed \in BOOLEAN : TakeLog(e, b, removed)
          /\ UNCHANGED processed
    /\ UNCHANGED <<snapshot, crashes>>

Restart ==
    /\ status \in {"down", "panicked"}
    /\ status' = "up"
    /\ view' = {}
    /\ confirming' = Restored(snapshot)
    /\ UNCHANGED <<network, canon, snapshot, processed, faults>>

Next ==
    \/ \E b \in Block : NotifyBlock(b)
    \/ ProcessNewRskEvent
    \/ ProcessNewBlock
    \/ Crash
    \/ CrashInHandler
    \/ Restart

Spec == Init /\ [][Next]_vars

-----------------------------------------------------------------------------
(* The view of a processor is the end of the chain notified so far, with   *)
(* no block missing: what the checks in BlockchainView::update assume of   *)
(* the order of the handlers (blockchain_tracker.rs:145-247).              *)
ViewIsSuffix ==
    /\ view \subseteq canon
    /\ \A v \in view, c \in canon : Number[c] >= Number[v] => c \in view

(* validate_consecutive_block, which takes the coordinator down, never     *)
(* fails on the blocks the indexer notifies (blockchain_tracker.rs:306).   *)
NoPanic == status # "panicked"

(* The chain the coordinator was told of reaches Required blocks, counted  *)
(* from the event's own, whenever an event is processed: across restarts,  *)
(* which forget the count, and reorgs, which roll it back                  *)
(* (blockchain_tracker.rs:41-48, 209-247).                                 *)
ConfirmedDepth ==
    [][\A r \in processed' \ processed :
          \E c \in canon' : Number[c] + 1 >= Number[r[2]] + Required]_vars

(* What confirmations are for: as long as forks are shorter than Required, *)
(* no event the coordinator acted on is ever reorganised away.             *)
ProcessedIsFinal == \A r \in processed : r[2] \in chain

=============================================================================
