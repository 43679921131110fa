---------------------------- MODULE MCEventStream ----------------------------
(* Constants for TLC: the second event carries two bodies, or none does.   *)
EXTENDS EventStream

MCNBodies == [e \in 1..MaxPosted |-> IF e = 2 THEN 2 ELSE 1]
OneBody   == [e \in 1..MaxPosted |-> 1]
=============================================================================
