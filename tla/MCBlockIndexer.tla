--------------------------- MODULE MCBlockIndexer ---------------------------
(***************************************************************************)
(* Block trees for the block indexer; the digit is the height.  Two forks  *)
(* without a stop, and one longer chain with one.                          *)
(***************************************************************************)
EXTENDS BlockIndexer

TreeParent ==
    [a0 |-> "a0", a1 |-> "a0", a2 |-> "a1", a3 |-> "a2", a4 |-> "a3", a5 |-> "a4",
     b2 |-> "a1", b3 |-> "b2", b4 |-> "b3"]
TreeNumber ==
    [a0 |-> 0, a1 |-> 1, a2 |-> 2, a3 |-> 3, a4 |-> 4, a5 |-> 5, b2 |-> 2, b3 |-> 3, b4 |-> 4]
Tree  == DOMAIN TreeParent

(* At the same height the fork b is the heavier one. *)
TreeDifficulty == [x \in Tree |-> 2 * TreeNumber[x] + (IF x \in {"b2", "b3", "b4"} THEN 1 ELSE 0)]

Forks == Tree \ {"a5"}
Line  == Tree \ {"b2", "b3", "b4"}

Stopping  == {[stops |-> 1, blocks |-> Line]}
MCBudgets == Stopping \cup {[stops |-> 0, blocks |-> Forks]}

ASSUME InScope == OrderlyNode /\ StopsOnOneChain

=============================================================================
