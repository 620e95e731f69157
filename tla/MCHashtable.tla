------------------------------ MODULE MCHashtable ------------------------------
(* Instances of Hashtable for TLC: one text in upper and in lower case. *)
EXTENDS Hashtable, TLC

CONSTANTS Upper, Small

MCLower == [t \in {Upper, Small} |-> Small]
MCCrc == Upper :> 11 @@ Small :> 5
Values == Permutations(Value)
MCNoText == [t \in {} |-> 0]
================================================================================
