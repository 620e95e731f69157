---------------------------- MODULE MCClientSession ----------------------------
(* Instances of ClientSession for TLC: the defaults of the configurations. *)
EXTENDS ClientSession
================================================================================
