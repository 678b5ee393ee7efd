------------------------------- MODULE MCBooks -------------------------------
(* Orders 1..3; the keys 1 and 3 collide in the order table. *)
EXTENDS BookParity

(* A small pool meets loss and refusal; a pool with room for every order has   *)
(* queues of three.                                                          *)
OneFaultInSmallPool == [c \in OrderCapacities |-> IF c = 2 THEN 1 ELSE 0]

MCHash == [k \in Keys |-> k % 2]
==============================================================================
