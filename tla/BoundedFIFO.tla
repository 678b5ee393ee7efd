----------------------------- MODULE BoundedFIFO -----------------------------
(***************************************************************************)
(* What a queue between one producer and one consumer promises: items, named *)
(* by the order in which they are offered, come out in that order, each      *)
(* once, and at most Capacity of them are inside.                            *)
(***************************************************************************)
EXTENDS Integers

CONSTANTS Capacity, MaxItems

VARIABLES pushed,      \* number of items that went in: items 0 .. pushed - 1
          popped,      \* number of items that came out
          received     \* the item that came out last, -1 before the first

vars == <<pushed, popped, received>>

Init == pushed = 0 /\ popped = 0 /\ received = -1

Push == /\ pushed < MaxItems
        /\ pushed - popped < Capacity
        /\ pushed' = pushed + 1
        /\ UNCHANGED <<popped, received>>

Pop == /\ popped < pushed
       /\ received' = popped
       /\ popped' = popped + 1
       /\ UNCHANGED pushed

Next == Push \/ Pop

Spec == Init /\ [][Next]_vars
==============================================================================
