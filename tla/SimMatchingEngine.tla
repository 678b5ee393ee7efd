-------------------------- MODULE SimMatchingEngine --------------------------
(***************************************************************************)
(* SimMatchingEngine, the private book in which a strategy's orders rest     *)
(* until a print of the tape fills them, as operators on an engine record:   *)
(* symbolOf is order_to_symbol_, books the two vectors of each symbol.       *)
(*                                                                          *)
(* The participation cap is the fraction CapNum / CapDen.                    *)
(***************************************************************************)
EXTENDS Integers, SequencesExt, FiniteSetsExt

CONSTANTS Symbols, CapNum, CapDen

ASSUME EngineAssumption == CapNum \in Nat /\ CapDen \in Nat \ {0}

OrderSides == {"Buy", "Sell"}

NewMatching == [symbolOf |-> <<>>, books |-> [s \in Symbols |-> [d \in OrderSides |-> <<>>]]]

Without(f, x) == [y \in DOMAIN f \ {x} |-> f[y]]
With(f, x, v) == [y \in DOMAIN f \cup {x} |-> IF y = x THEN v ELSE f[y]]

BindOrderSymbol(e, id, symbol) ==
    IF id = 0 THEN e ELSE [e EXCEPT !.symbolOf = With(@, id, symbol)]

(* bid_better and ask_better: price, then time. *)
BetterOrder(side, a, b) ==
    IF a.price # b.price THEN (IF side = "Buy" THEN a.price > b.price ELSE a.price < b.price)
    ELSE a.ts < b.ts

(* submit: the order goes to the end of its side, which is then sorted; the   *)
(* others were, so it comes behind those than which it is not better.        *)
Submit(e, side, order) ==
    LET place(book) == 1 + Cardinality({i \in DOMAIN book : ~BetterOrder(side, order, book[i])})
    IN IF order.id = 0 \/ order.qty = 0 \/ order.id \notin DOMAIN e.symbolOf THEN e
       ELSE [e EXCEPT !.books[e.symbolOf[order.id]][side] = InsertAt(@, place(@), order)]

(* An order is submitted once, so it has one place at most. *)
Rests(book, id) == \E i \in DOMAIN book : book[i].id = id
PlaceOf(book, id) == CHOOSE i \in DOMAIN book : book[i].id = id

CancelOrder(e, id) ==
    LET remaining(book) == IF Rests(book, id) THEN RemoveAt(book, PlaceOf(book, id)) ELSE book
    IN IF id \notin DOMAIN e.symbolOf THEN e
       ELSE [symbolOf |-> Without(e.symbolOf, id),
             books    |-> [e.books EXCEPT ![e.symbolOf[id]] =
                              [d \in OrderSides |-> remaining(@[d])]]]

(* The types of event that print a trade. *)
Prints == {"Trade", "ExecutePrice", "CrossTrade"}

(* How much of a print the strategy may have: the cap, rounded down. *)
FillBudget(ev) == (ev.qty * CapNum) \div CapDen

(* The side whose orders a print fills; an unknown side fills none. *)
FilledSide(ev) == IF ev.side = "Sell" THEN "Buy" ELSE "Sell"

Reaches(side, order, price) == IF side = "Buy" THEN order.price >= price ELSE order.price <= price

(* The quantity that rests. *)
QtyOf(book) == FoldLeft(LAMBDA sum, o : sum + o.qty, 0, book)

(* What fill_bids and fill_asks take from the i-th order of the book: the loop *)
(* ends at the first order the print does not reach, or with the budget.      *)
Taken(book, side, price, budget, i) ==
    LET ahead == QtyOf(SubSeq(book, 1, i - 1))
    IN IF (\E j \in 1 .. i : ~Reaches(side, book[j], price)) \/ budget <= ahead THEN 0
       ELSE Min({book[i].qty, budget - ahead})

(* The orders on_market_event fills, in the order of their calls of on_fill_:  *)
(* the first ones of the book.                                               *)
FillsOf(e, ev) ==
    LET side   == FilledSide(ev)
        book   == e.books[ev.symbol][side]
        budget == IF ev.type \in Prints /\ ev.side \in OrderSides THEN FillBudget(ev) ELSE 0
        take(i) == Taken(book, side, ev.price, budget, i)
        hit    == {i \in DOMAIN book : take(i) > 0}
    IN [i \in 1 .. Cardinality(hit) |->
           [id |-> book[i].id, symbol |-> ev.symbol, side |-> side, price |-> ev.price,
            qty |-> take(i), partial |-> take(i) < book[i].qty]]

(* What one fill leaves of its order: less of it, or nothing. *)
TakeFill(e, fill) ==
    LET book == e.books[fill.symbol][fill.side]
        at   == PlaceOf(book, fill.id)
    IN [symbolOf |-> IF fill.partial THEN e.symbolOf ELSE Without(e.symbolOf, fill.id),
        books    |-> [e.books EXCEPT ![fill.symbol][fill.side] =
                         IF fill.partial THEN [book EXCEPT ![at].qty = @ - fill.qty]
                         ELSE RemoveAt(book, at)]]
==============================================================================
