------------------------------- MODULE LogFeed -------------------------------
(***************************************************************************)
(* What the log indexer promises a consumer while it stays subscribed, as  *)
(* the coordinator's ConfirmableEvents rely on it: a log is added once for *)
(* each time it is mined, and a log that moves to another block is removed *)
(* before it is added again.  A log is a key (contract, transaction and    *)
(* index) in a block.                                                      *)
(***************************************************************************)

CONSTANTS Key, Block

VARIABLE told   \* logs the consumer takes to be on the chain

FeedInit == told = {}

Added(k, b) == (\A m \in told : m[1] # k) /\ told' = told \cup {<<k, b>>}

Removed(k, b) == told' = told \ {<<k, b>>}

(* A subscription that begins or ends knows nothing of its contract's logs. *)
Forgotten == told' \in SUBSET told

FeedNext == Forgotten \/ \E k \in Key, b \in Block : Added(k, b) \/ Removed(k, b)

FeedSpec == FeedInit /\ [][FeedNext]_told

=============================================================================
