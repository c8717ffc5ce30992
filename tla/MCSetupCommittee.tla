-------------------------- MODULE MCSetupCommittee --------------------------
(***************************************************************************)
(* Instances of SetupCommittee: one flow in a committee of three with a    *)
(* failure, one with a reorganization and a crash, and two flows for the   *)
(* two committees of a stream.                                             *)
(***************************************************************************)
EXTENDS SetupCommittee, TLC

CONSTANTS f1, f2, s1, c1, c2

MCOfFlow == (f1 :> s1) @@ (f2 :> s1)
MCOf == (c1 :> s1) @@ (c2 :> s1)

Base == [flows |-> {f1}, admin |-> {}, roles |-> 0 :> "Prover" @@ 1 :> "Prover" @@ 2 :> "Verifier",
         faults |-> 0, reorgs |-> 0, crashes |-> 0]

MCRoles == UNION {[0..n -> ParticipantRole] : n \in 1..2}

MCBudgets ==
    {[Base EXCEPT !.faults = 1, !.admin = {f1}],
     [Base EXCEPT !.roles = 0 :> "Verifier" @@ 1 :> "Prover", !.reorgs = 1, !.crashes = 1],
     [Base EXCEPT !.flows = {f1, f2}, !.roles = 0 :> "Prover" @@ 1 :> "Verifier"]}
=============================================================================
