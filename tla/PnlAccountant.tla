---------------------------- MODULE PnlAccountant ----------------------------
(***************************************************************************)
(* PnlAccountant for one symbol, as operators on its account: position, cash,*)
(* average cost and realised profit. Average cost and profit are the exact   *)
(* fractions of which the code's doubles are approximations.                 *)
(***************************************************************************)
EXTENDS Integers, FiniteSetsExt

(* Fractions in lowest terms. *)
Frac(n, d) ==
    LET g == Max({k \in 1 .. d : n % k = 0 /\ d % k = 0}) IN [n |-> n \div g, d |-> d \div g]
Whole(n)   == [n |-> n, d |-> 1]
Plus(a, b) == Frac(a.n * b.d + b.n * a.d, a.d * b.d)
Times(a, k) == Frac(a.n * k, a.d)
Minus(a, b) == Plus(a, Times(b, -1))
Less(a, b) == a.n * b.d < b.n * a.d
Same(a, b) == a.n * b.d = b.n * a.d

Size(n) == IF n < 0 THEN -n ELSE n

NewAccount == [position |-> 0, cash |-> 0, avg_cost |-> Whole(0), realized |-> Whole(0),
               mid2 |-> 0, unrealized |-> Whole(0), fills |-> 0, volume |-> 0]

SignedQty(fill) == IF fill.side = "Buy" THEN fill.qty ELSE -fill.qty

SameSide(a, b) == (a > 0) = (b > 0)

(* on_fill for a fill that opens a position or adds to it. *)
Increase(acc, fill) ==
    LET after    == acc.position + SignedQty(fill)
        notional == Plus(Times(acc.avg_cost, Size(acc.position)), Whole(fill.price * fill.qty))
    IN [acc EXCEPT !.position = after, !.avg_cost = Frac(notional.n, notional.d * Size(after))]

ClosedQty(acc, fill) == Min({Size(acc.position), fill.qty})

(* A fill that turns the position round and leaves no more than it closed: the *)
(* average cost of the position it closed stays on the one it opened.         *)
KeepsOldCost(acc, fill) ==
    LET after == acc.position + SignedQty(fill) IN
    /\ acc.position # 0 /\ after # 0
    /\ ~SameSide(acc.position, SignedQty(fill)) /\ SameSide(after, SignedQty(fill))
    /\ Size(after) <= ClosedQty(acc, fill)

(* Mutant of Reduce: the profit of a short position has the sign of a long. *)
ReduceLongOnly(acc, fill) ==
    LET after  == acc.position + SignedQty(fill)
        closed == ClosedQty(acc, fill)
        gain   == Times(Minus(Whole(fill.price), acc.avg_cost), closed)
    IN [acc EXCEPT !.position = after, !.realized = Plus(@, gain),
                   !.avg_cost = IF after = 0 THEN Whole(0)
                                ELSE IF SameSide(after, SignedQty(fill)) /\ Size(after) > closed
                                THEN Whole(fill.price) ELSE @]

(* on_fill for a fill against the position. *)
Reduce(acc, fill) ==
    LET after  == acc.position + SignedQty(fill)
        closed == ClosedQty(acc, fill)
        gain   == Times(Minus(Whole(fill.price), acc.avg_cost),
                        IF acc.position > 0 THEN closed ELSE -closed)
    IN [acc EXCEPT !.position = after, !.realized = Plus(@, gain),
                   !.avg_cost = IF after = 0 THEN Whole(0)
                                ELSE IF SameSide(after, SignedQty(fill)) /\ Size(after) > closed
                                THEN Whole(fill.price) ELSE @]

(* on_fill; the runner never says that a fill took liquidity, so a fill earns *)
(* the rebate, which nothing but the final report reads.                     *)
BookFill(acc, fill) ==
    LET moved == IF acc.position = 0 \/ SameSide(acc.position, SignedQty(fill))
                 THEN Increase(acc, fill) ELSE Reduce(acc, fill)
    IN [moved EXCEPT !.cash = @ - SignedQty(fill) * fill.price,
                     !.volume = @ + fill.qty * fill.price, !.fills = @ + 1]

(* on_feature: twice the mid price, 0 while there is none. *)
MarkMid(acc, bid, ask) == IF bid = 0 \/ ask = 0 THEN acc ELSE [acc EXCEPT !.mid2 = bid + ask]

(* on_tick_end for one account, and its share of the equity. *)
MarkToMid(acc) ==
    [acc EXCEPT !.unrealized =
        IF acc.mid2 = 0 THEN Whole(0)
        ELSE Times(Minus(Frac(acc.mid2, 2), acc.avg_cost), acc.position)]

EquityOf(acc) == Plus(Whole(acc.cash), Plus(acc.realized, acc.unrealized))
==============================================================================
