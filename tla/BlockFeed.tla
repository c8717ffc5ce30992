------------------------------ MODULE BlockFeed ------------------------------
(***************************************************************************)
(* What the block indexer promises a subscribed consumer, as the           *)
(* coordinator's BlockchainView relies on it: "the indexer emits canonical *)
(* tip blocks only, and reorgs are replayed in order from the first        *)
(* divergent height" (blockchain_tracker.rs:207-208).  The consumer also   *)
(* tolerates the last block once more (indexer.rs:302).                    *)
(*                                                                         *)
(* canon is the chain the notifications of this subscription describe.     *)
(***************************************************************************)
EXTENDS BlockTree

VARIABLE canon

FeedInit == canon = {}

(* b may come next: the first notification, or the tip once more, or a new *)
(* child of a block of the described chain (it extends the chain or        *)
(* replaces its end), or a fork from below where this subscription began.  *)
MayNotify(b) ==
    \/ IsTip(b, canon)
    \/ b \notin canon /\ (Below(canon, b) = {} \/ Parent[b] \in canon)

Notify(b) ==
    /\ MayNotify(b)
    /\ canon' = Adopt(canon, b)

(* A consumer that (re)starts subscribes with no knowledge of the chain. *)
Resubscribe == canon' = {}

FeedNext == Resubscribe \/ \E b \in Block : Notify(b)

FeedSpec == FeedInit /\ [][FeedNext]_canon

=============================================================================
