------------------------------ MODULE MCSnifer ------------------------------
(* Instances of Snifer for TLC. *)
EXTENDS Snifer

CONSTANT c1

OneCaller == {c1}
=============================================================================
