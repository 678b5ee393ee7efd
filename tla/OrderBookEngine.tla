--------------------------- MODULE OrderBookEngine ---------------------------
(***************************************************************************)
(* OrderBookEngine, the reference order book: per symbol the quantity at     *)
(* each price, and the table of the live orders. One venue; as operators on  *)
(* an engine record, so that BookParity can feed it and the intrusive book   *)
(* the same events.                                                          *)
(*                                                                          *)
(* A side's sorted vector of levels is the function from a price to its      *)
(* quantity; a price without a level has quantity 0.                         *)
(***************************************************************************)
EXTENDS OrderTable

CONSTANTS Symbols, Prices

ASSUME BookAssumption == Prices \subseteq Nat \ {0}

(* The key of an event whose parser found no symbol in its message. *)
NoSymbol == "no symbol"

BookSymbols == Symbols \cup {NoSymbol}
BookSides == {"Buy", "Sell"}
Side == BookSides \cup {"Unknown"}

NewEngine ==
    [levels |-> [s \in BookSymbols |-> [d \in BookSides |-> [p \in Prices |-> 0]]],
     table  |-> EmptyTable]

(* add_qty. A level of quantity 0, which an Add of 0 leaves behind, is not told  *)
(* from no level: only a snapshot shows the difference, and the books compared   *)
(* by their snapshots get no Add of 0.                                        *)
AddQty(levels, symbol, side, price, qty) ==
    IF side \in BookSides THEN [levels EXCEPT ![symbol][side][price] = @ + qty] ELSE levels

(* reduce_qty: the level goes when nothing would be left of it. *)
ReduceQty(levels, symbol, side, price, qty) ==
    IF side \in BookSides
    THEN [levels EXCEPT ![symbol][side][price] = IF @ > qty THEN @ - qty ELSE 0]
    ELSE levels

OrderRef(ev) == [symbol |-> ev.symbol, side |-> ev.side, price |-> ev.price, qty |-> ev.qty]

(* on_event for Add and AddMpid. *)
EngineAdd(e, ev) ==
    [levels |-> AddQty(e.levels, ev.symbol, ev.side, ev.price, ev.qty),
     table  |-> IF ev.order_id = 0 THEN e.table
                ELSE PutOrder(e.table, ev.order_id, OrderRef(ev))]

(* Mutant of EngineReduce: a reduced order keeps its quantity. *)
EngineReduceKeepsQty(e, ev) ==
    IF ~Found(e.table, ev.order_id) THEN e
    ELSE LET o   == OrderOf(e.table, ev.order_id)
             dec == IF ev.qty = 0 \/ ev.qty > o.qty THEN o.qty ELSE ev.qty
         IN [levels |-> ReduceQty(e.levels, ev.symbol, o.side, o.price, dec),
             table  |-> IF dec >= o.qty \/ ev.type = "Delete" THEN EraseOrder(e.table, ev.order_id)
                        ELSE e.table]

(* on_event for Execute, ExecutePrice, Cancel and Delete: the level is looked  *)
(* for in the book of the event's symbol, not of the order's.                *)
EngineReduce(e, ev) ==
    IF ~Found(e.table, ev.order_id) THEN e
    ELSE LET o   == OrderOf(e.table, ev.order_id)
             dec == IF ev.qty = 0 \/ ev.qty > o.qty THEN o.qty ELSE ev.qty
         IN [levels |-> ReduceQty(e.levels, ev.symbol, o.side, o.price, dec),
             table  |-> IF dec >= o.qty \/ ev.type = "Delete" THEN EraseOrder(e.table, ev.order_id)
                        ELSE SetOrder(e.table, ev.order_id, [o EXCEPT !.qty = @ - dec])]

(* on_event for Replace: take the old order out, then an Add.                *)
EngineReplace(e, ev) ==
    LET old == ev.reference_order_id IN
    IF ~Found(e.table, old) THEN EngineAdd(e, ev)
    ELSE LET o == OrderOf(e.table, old) IN
         EngineAdd([levels |-> ReduceQty(e.levels, ev.symbol, o.side, o.price, o.qty),
                    table  |-> EraseOrder(e.table, old)], ev)

Reductions == {"Execute", "Cancel", "Delete"}

(* on_event; any other type of event leaves the book alone.                  *)
EngineOnEvent(e, ev) ==
    CASE ev.type = "Add"         -> EngineAdd(e, ev)
      [] ev.type = "Replace"     -> EngineReplace(e, ev)
      [] ev.type \in Reductions -> EngineReduce(e, ev)
      [] OTHER                   -> e

(* snapshot: the levels of a symbol that have a quantity, each with it.       *)
EngineSnapshot(e, symbol) ==
    [d \in BookSides |-> {<<p, e.levels[symbol][d][p]>> :
                            p \in {q \in Prices : e.levels[symbol][d][q] > 0}}]

(* The best level of a side, and its absence.                                *)
NoPrice == 0
BestPrice(side, prices) ==
    IF prices = {} THEN NoPrice
    ELSE CHOOSE p \in prices : \A q \in prices : IF side = "Buy" THEN p >= q ELSE p <= q
==============================================================================
