------------------------------- MODULE MCTable -------------------------------
(* Instances of the order table for TLC. *)
EXTENDS TableSpec

(* Keys that share a home slot, and one whose home the others spill into. *)
Crowded == [k \in Keys |-> IF k < 3 THEN 0 ELSE k % Size]
==============================================================================
