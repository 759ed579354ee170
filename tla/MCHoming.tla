------------------------------ MODULE MCHoming ------------------------------
(* Homing for TLC, with X and Z: MoveHomeY is MoveHomeX for another axis.   *)
EXTENDS Homing

XAndZ == {"X", "Z"}
SomeEndStops == {[X |-> "works", Z |-> "works"], [X |-> "dead", Z |-> "works"],
                 [X |-> "works", Z |-> "absent"]}
SomeJogs == {<<"X", 2>>, <<"Z", 2>>}
=============================================================================
