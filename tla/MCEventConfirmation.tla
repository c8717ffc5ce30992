------------------------- MODULE MCEventConfirmation -------------------------
(* The forks a1-a2-a3-a4-a5 and a1-b2-b3-b4-b5.  The transaction of event x *)
(* is in both forks, at different heights, that of y only in one.           *)
EXTENDS EventConfirmation

ForkParent ==
    [a1 |-> "a1", a2 |-> "a1", a3 |-> "a2", a4 |-> "a3", a5 |-> "a4",
     b2 |-> "a1", b3 |-> "b2", b4 |-> "b3", b5 |-> "b4"]
ForkNumber ==
    [a1 |-> 0, a2 |-> 1, a3 |-> 2, a4 |-> 3, a5 |-> 4,
     b2 |-> 1, b3 |-> 2, b4 |-> 3, b5 |-> 4]
Forks == DOMAIN ForkParent

ForkEvents ==
    [b \in Forks |-> CASE b = "a2" -> {"x"}
                       [] b = "a3" -> {"y"}
                       [] b = "b3" -> {"x"}
                       [] OTHER    -> {}]

=============================================================================
