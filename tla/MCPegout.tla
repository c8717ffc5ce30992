------------------------------ MODULE MCPegout ------------------------------
(***************************************************************************)
(* Instances of Pegout.                                                    *)
(***************************************************************************)
EXTENDS Pegout

CONSTANTS p1, p2

MCOne == {p1}
MCTwo == {p1, p2}

Quiet == [missing |-> 1, errors |-> 0, reorgs |-> 1, crashes |-> 1, lossy |-> FALSE,
          fails |-> MCOne, torn |-> {}]

\* With an administrator and without losses; with losses and no
\* administrator.
MCBudgets == {Quiet, [Quiet EXCEPT !.errors = 2, !.reorgs = 2, !.crashes = 2, !.lossy = TRUE, !.fails = {}]}

\* One call that fails.
FailingBudgets == {[Quiet EXCEPT !.errors = 1, !.reorgs = 0, !.crashes = 0, !.lossy = TRUE, !.fails = {}]}

=============================================================================
