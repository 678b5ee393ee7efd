----------------------------- MODULE MCBacktest -----------------------------
(* A small tape for TLC: quotes of either side of the book, an ask that goes,  *)
(* and prints of either side that reach one quote, part of one, or none.      *)
EXTENDS Experiment

Quoting(side, price, qty, ts) ==
    [type |-> "Replace", symbol |-> "s", side |-> side, price |-> price, qty |-> qty,
     ts |-> ts, best |-> <<[price |-> price, qty |-> qty]>>]

TapePrint(type, side, price, qty, ts) ==
    [type |-> type, symbol |-> "s", side |-> side, price |-> price, qty |-> qty,
     ts |-> ts, best |-> <<>>]

SmallTape ==
    {Quoting("Buy", 3, 1, 1), Quoting("Buy", 4, 2, 2), Quoting("Sell", 5, 1, 1),
     [Quoting("Sell", 0, 0, 1) EXCEPT !.type = "Delete"],
     TapePrint("Trade", "Sell", 3, 6, 1), TapePrint("Trade", "Sell", 2, 4, 0),
     TapePrint("Trade", "Buy", 5, 4, 1), TapePrint("CrossTrade", "Buy", 6, 7, -1),
     TapePrint("ExecutePrice", "Buy", 5, 2, 1), TapePrint("Trade", "Unknown", 4, 6, 0)}
==============================================================================
