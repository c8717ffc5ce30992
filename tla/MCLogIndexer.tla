---------------------------- MODULE MCLogIndexer ----------------------------
(***************************************************************************)
(* An instance of LogIndexer: a fork at block 1, with a transaction that   *)
(* is mined in both branches.                                              *)
(***************************************************************************)
EXTENDS LogIndexer

CONSTANTS g, a1, a2, a3, b2, b3, k1, k2, k3, A, B

MCBlock  == {g, a1, a2, a3, b2, b3}
MCNumber == [b \in MCBlock |-> CASE b = g -> 0 [] b = a1 -> 1 [] b \in {a2, b2} -> 2 [] OTHER -> 3]
MCParent == [b \in MCBlock |-> CASE b \in {g, a1} -> g [] b \in {a2, b2} -> a1 [] b = a3 -> a2 [] OTHER -> b2]

MCKey      == {k1, k2, k3}
MCContract == {A, B}
MCContractOf == [k \in MCKey |-> IF k = k3 THEN B ELSE A]
MCLogsIn == [b \in MCBlock |-> CASE b = a1 -> <<k3>> [] b = a2 -> <<k1, k2>> [] b = b2 -> <<k2>>
                                 [] b = b3 -> <<k1>> [] OTHER -> <<>>]

Quiet == [from |-> "hash", reorgs |-> 2, races |-> 0, lost |-> 0, crashes |-> 2, changes |-> 0]
Lossy == [Quiet EXCEPT !.reorgs = 0, !.races = 1, !.lost = 1, !.crashes = 1]
Best  == [Quiet EXCEPT !.from = "best", !.reorgs = 1, !.crashes = 1, !.changes = 1]
MCBudgets == {Quiet, Lossy, Best}

=============================================================================
