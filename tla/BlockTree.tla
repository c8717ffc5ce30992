------------------------------ MODULE BlockTree ------------------------------
(***************************************************************************)
(* The Rootstock blocks both indexers and the coordinator talk about.  A   *)
(* block is an opaque identity (its hash); the code reads its height, its  *)
(* parent hash and its total difficulty and nothing else of it.  Blocks    *)
(* of competing forks have the same height and different identities.       *)
(***************************************************************************)
EXTENDS Integers

CONSTANTS
    Block,            \* the hashes of the blocks of the tree
    Genesis,          \* its root: block number 0
    Number,           \* RskBlock::number
    Parent,           \* RskBlock::parent_hash
    TotalDifficulty   \* RskBlock::total_difficulty

ASSUME BlockTreeAssumption ==
    /\ Genesis \in Block
    /\ Number \in [Block -> Nat]
    /\ Parent \in [Block -> Block]
    /\ TotalDifficulty \in [Block -> Nat]
    /\ Number[Genesis] = 0
    /\ \A b \in Block \ {Genesis} : Number[b] = Number[Parent[b]] + 1

(* The blocks of S below the height of b. *)
Below(S, b) == {c \in S : Number[c] < Number[b]}

(* S once b became its highest block: what b replaces is dropped, and what *)
(* was on top of what b replaces.                                          *)
Adopt(S, b) == Below(S, b) \cup {b}

(* b is the highest block of S. *)
IsTip(b, S) == b \in S /\ \A c \in S : Number[c] <= Number[b]

(* S holds the parents of its blocks. *)
HasParents(S) == \A b \in S \ {Genesis} : Parent[b] \in S

(* The chain that ends in b: b, its parent, and so on down to the genesis. *)
ChainOf ==
    [b \in Block |-> {c \in Block : \A S \in SUBSET Block : b \in S /\ HasParents(S) => c \in S}]

=============================================================================
