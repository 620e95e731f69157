-------------------------------- MODULE MCFraming ------------------------------
(* Instances of Framing for TLC: the values are in the configurations. *)
EXTENDS Framing
================================================================================
