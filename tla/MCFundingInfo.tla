---------------------------- MODULE MCFundingInfo ---------------------------
(***************************************************************************)
(* Instances of FundingInfo: three requests of which two callers go away;  *)
(* two with a fault, with a restart of the coordinator, with a BitVMX that *)
(* repeats answers or stops.                                               *)
(***************************************************************************)
EXTENDS FundingInfo

CONSTANTS r1, r2, r3

Calm == [reqs |-> 2, faults |-> 0, crashes |-> 0, hangups |-> 0, dups |-> 0, posts |-> 0, silent |-> FALSE]

MCBudgets ==
    {[Calm EXCEPT !.faults = 1], [Calm EXCEPT !.hangups = 2, !.reqs = 3],
     [Calm EXCEPT !.crashes = 1], [Calm EXCEPT !.faults = 1, !.dups = 1],
     [Calm EXCEPT !.silent = TRUE], [Calm EXCEPT !.posts = 1]}
=============================================================================
