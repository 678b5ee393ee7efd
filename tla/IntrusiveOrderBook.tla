-------------------------- MODULE IntrusiveOrderBook --------------------------
(***************************************************************************)
(* IntrusiveOrderBook, the fast order book: orders are nodes of a fixed      *)
(* pool, linked through each other into the queue of their price level; a    *)
(* side caches its best price. One venue; as operators on a book record.     *)
(***************************************************************************)
EXTENDS OrderBookEngine, Sequences

Null == -1           \* kNull

NoNode == [order |-> NoOrder, key |-> 0, prev |-> Null, next |-> Null, live |-> FALSE]

(* The pool hands out node 0 first: the last of the free list. *)
NewIntrusive(order_capacity) ==
    [nodes |-> [i \in 0 .. order_capacity - 1 |-> NoNode],
     free_list |-> [i \in 1 .. order_capacity |-> order_capacity - i],
     order_index |-> [k \in {} |-> Null],
     levels |-> [s \in BookSymbols |-> [d \in BookSides |-> [p \in {} |-> 0]]],
     best_price |-> [s \in BookSymbols |-> [d \in BookSides |-> NoPrice]],
     live_order_count |-> 0, dropped_order_inserts |-> 0]

Restricted(f, S) == [x \in S |-> f[x]]
Extended(f, x, y) == [z \in DOMAIN f \cup {x} |-> IF z = x THEN y ELSE f[z]]

LevelsOf(b, o) == b.levels[o.symbol][o.side]

(* Mutant of RemoveLevelIfEmpty: the best price is not recomputed. *)
RemoveLevelKeepsBest(b, o) ==
    LET levels == LevelsOf(b, o) IN
    IF o.price \notin DOMAIN levels \/ levels[o.price].qty # 0 \/ levels[o.price].head # Null
    THEN b
    ELSE [b EXCEPT !.levels[o.symbol][o.side] = Restricted(levels, DOMAIN levels \ {o.price})]

(* remove_level_if_empty, with recompute_best over the levels that are left.  *)
RemoveLevelIfEmpty(b, o) ==
    LET levels == LevelsOf(b, o)
        left   == Restricted(levels, DOMAIN levels \ {o.price})
    IN IF o.price \notin DOMAIN levels \/ levels[o.price].qty # 0 \/ levels[o.price].head # Null
       THEN b
       ELSE [b EXCEPT !.levels[o.symbol][o.side] = left,
                      !.best_price[o.symbol][o.side] =
                          IF @ = o.price
                          THEN BestPrice(o.side, {p \in DOMAIN left : left[p].qty # 0}) ELSE @]

ReleaseNode(b, idx) ==
    IF ~b.nodes[idx].live THEN b
    ELSE [b EXCEPT !.nodes[idx] = NoNode, !.free_list = Append(@, idx),
                   !.live_order_count = IF @ > 0 THEN @ - 1 ELSE @]

(* add_order: allocate_node, find_or_add_level, link at the tail. *)
AddOrder(b, ev) ==
    IF ev.side \notin BookSides THEN b
    ELSE IF b.free_list = <<>> THEN [b EXCEPT !.dropped_order_inserts = @ + 1]
    ELSE
    LET o      == OrderRef(ev)
        idx    == b.free_list[Len(b.free_list)]
        levels == LevelsOf(b, o)
        is_new == o.price \notin DOMAIN levels
        level  == IF is_new THEN [qty |-> 0, head |-> Null, tail |-> Null] ELSE levels[o.price]
        node   == [order |-> o, key |-> ev.order_id, prev |-> level.tail, next |-> Null,
                   live |-> TRUE]
    IN [b EXCEPT
          !.free_list = SubSeq(@, 1, Len(@) - 1),
          !.nodes = [i \in DOMAIN @ |-> IF i = idx THEN node
                                    ELSE IF i = level.tail THEN [@[i] EXCEPT !.next = idx]
                                    ELSE @[i]],
          !.levels[o.symbol][o.side] =
              Extended(@, o.price, [qty  |-> level.qty + o.qty, tail |-> idx,
                                    head |-> IF level.tail = Null THEN idx ELSE level.head]),
          !.best_price[o.symbol][o.side] =
              IF is_new THEN BestPrice(o.side, {o.price} \cup ({@} \ {NoPrice})) ELSE @,
          !.order_index = Extended(@, ev.order_id, idx),
          !.live_order_count = @ + 1]

(* Mutant of Unlink: the tail of the level is left alone. *)
UnlinkKeepsTail(b, idx) ==
    LET n == b.nodes[idx]
        o == n.order
    IN [b EXCEPT
          !.nodes = [i \in DOMAIN @ |-> IF i = n.prev THEN [@[i] EXCEPT !.next = n.next]
                                    ELSE IF i = n.next THEN [@[i] EXCEPT !.prev = n.prev]
                                    ELSE @[i]],
          !.levels[o.symbol][o.side][o.price] =
              [@ EXCEPT !.head = IF n.prev = Null THEN n.next ELSE @]]

(* Take node idx out of its level's queue. *)
Unlink(b, idx) ==
    LET n == b.nodes[idx]
        o == n.order
    IN [b EXCEPT
          !.nodes = [i \in DOMAIN @ |-> IF i = n.prev THEN [@[i] EXCEPT !.next = n.next]
                                    ELSE IF i = n.next THEN [@[i] EXCEPT !.prev = n.prev]
                                    ELSE @[i]],
          !.levels[o.symbol][o.side][o.price] =
              [@ EXCEPT !.head = IF n.prev = Null THEN n.next ELSE @,
                        !.tail = IF n.next = Null THEN n.prev ELSE @]]

Forget(b, key) == [b EXCEPT !.order_index = Restricted(@, DOMAIN @ \ {key})]

(* reduce_order: in the book of the order's symbol, whatever the event says.  *)
ReduceOrder(b, key, qty, delete_all) ==
    IF key \notin DOMAIN b.order_index THEN b
    ELSE
    LET idx == b.order_index[key]
        o   == b.nodes[idx].order
        dec == IF delete_all \/ qty = 0 \/ qty > o.qty THEN o.qty ELSE qty
    IN IF o.price \notin DOMAIN LevelsOf(b, o) THEN ReleaseNode(Forget(b, key), idx)
       ELSE LET reduced == [b EXCEPT !.levels[o.symbol][o.side][o.price].qty =
                                         IF @ > dec THEN @ - dec ELSE 0,
                                     !.nodes[idx].order.qty = @ - dec]
            IN IF o.qty - dec = 0 \/ delete_all
               THEN RemoveLevelIfEmpty(ReleaseNode(Forget(Unlink(reduced, idx), key), idx), o)
               ELSE reduced

(* replace_order: an unknown side is taken from the order replaced. *)
ReplaceOrder(b, ev) ==
    LET old == ev.reference_order_id IN
    IF old \notin DOMAIN b.order_index THEN AddOrder(b, ev)
    ELSE AddOrder(ReduceOrder(b, old, 0, TRUE),
                  [ev EXCEPT !.side = IF @ = "Unknown"
                                      THEN b.nodes[b.order_index[old]].order.side ELSE @])

IntrusiveOnEvent(b, ev) ==
    CASE ev.type = "Add"         -> IF ev.order_id = 0 THEN b ELSE AddOrder(b, ev)
      [] ev.type = "Replace"     -> ReplaceOrder(b, ev)
      [] ev.type \in Reductions -> ReduceOrder(b, ev.order_id, ev.qty, ev.type = "Delete")
      [] OTHER                   -> b

IntrusiveSnapshot(b, symbol) ==
    [d \in BookSides |-> {<<p, b.levels[symbol][d][p].qty>> : p \in DOMAIN b.levels[symbol][d]}]
==============================================================================
