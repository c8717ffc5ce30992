--------------------------- MODULE MCOperatorTake ---------------------------
(***************************************************************************)
(* Instances of OperatorTake: one flow this node was selected for and one  *)
(* of another operator.                                                    *)
(***************************************************************************)
EXTENDS OperatorTake

CONSTANTS ours, theirs

MCFlow == {ours, theirs}
MCOurs == {ours}

Quiet == [takes |-> 1, missing |-> 1, errors |-> 0, crashes |-> 1, lossy |-> FALSE, fails |-> {}]
Lossy == [Quiet EXCEPT !.errors = 1, !.lossy = TRUE]

\* One flow, with a retry, a crash and an administrator, without and with losses;
\* both flows, with a retry or with losses; one flow with several crashes.
MCBudgets ==
    {[Quiet EXCEPT !.fails = {theirs}], [Lossy EXCEPT !.fails = {ours}],
     [Quiet EXCEPT !.takes = 2, !.crashes = 0],
     [Lossy EXCEPT !.takes = 2, !.missing = 0, !.crashes = 0, !.errors = 0],
     [Lossy EXCEPT !.crashes = 3, !.missing = 0, !.errors = 0]}

=============================================================================
