------------------------------ MODULE MCBitfinex ------------------------------
(* Two orders: one that moves to another price and quantity and on to a price  *)
(* that does not fit, and whose amount is first printed with an exponent; one   *)
(* that the exchange may print unreadably.                                   *)
EXTENDS BitfinexFeed

Row(id, price, amount) == [order_id |-> id, price |-> price, amount |-> amount]

SmallRows == {Row(1, 10, 6), Row(1, 20, 16), Row(1, 9000, 6), Row(2, 10, -14), Row(2, 10, 1)}
SmallHash == [k \in Keys |-> 0]
==============================================================================
