------------------------------- MODULE OrderMap -------------------------------
(***************************************************************************)
(* What the order table promises: a map from order keys to orders that      *)
(* forgets nothing it took, and may refuse to take an order.                *)
(***************************************************************************)
CONSTANTS Keys, Values

VARIABLES map,         \* a function on the keys it holds
          called       \* the last call

Init == map = [k \in {} |-> 0] /\ called = <<>>

Put(k, v) == /\ called' = <<"put", k, v>>
             /\ map' = [x \in DOMAIN map \cup {k} |-> IF x = k THEN v ELSE map[x]]

Refuse(k, v) == /\ called' = <<"put", k, v>>
                /\ UNCHANGED map

Erase(k) == /\ called' = <<"erase", k>>
            /\ map' = [x \in DOMAIN map \ {k} |-> map[x]]

Next == \/ \E k \in Keys, v \in Values : Put(k, v) \/ Refuse(k, v)
        \/ \E k \in Keys : Erase(k)

Spec == Init /\ [][Next]_<<map, called>>
==============================================================================
