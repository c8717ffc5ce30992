------------------------------ MODULE MCPegin -------------------------------
(***************************************************************************)
(* An instance of Pegin: one peg-in with every fault, as an operator and   *)
(* as a verifier, and two peg-ins of one Bitcoin block.                    *)
(***************************************************************************)
EXTENDS Pegin

CONSTANTS p1, p2

MCPeg == {p1, p2}
MCBlockOf == [p \in MCPeg |-> 1]

NoFaults ==
    [pegs |-> {p1}, upto |-> 5, provers |-> {p1}, fails |-> {}, reports |-> 0, missing |-> 1,
     errors |-> 0, reorgs |-> 0, crashes |-> 0, points |-> Points]

Verifier(b) == [b EXCEPT !.provers = {}]
Shared   == [NoFaults EXCEPT !.pegs = MCPeg, !.upto = 1, !.missing = 2, !.provers = MCPeg]

\* A failed call, a crash at any point, a reorganisation: two at a time.
Failing  == [NoFaults EXCEPT !.errors = 1, !.crashes = 1]
Reorged  == [NoFaults EXCEPT !.reorgs = 1, !.crashes = 1]
Repeated == [NoFaults EXCEPT !.reports = 1, !.crashes = 1, !.fails = {p1}, !.points = {"idle"}]

MCBudgets == {Failing, Reorged, Repeated, Verifier(Failing), Verifier(Reorged), Shared}

=============================================================================
