------------------------------ MODULE BookParity ------------------------------
(***************************************************************************)
(* An exchange, its feed, and the two order books that follow it: the       *)
(* reference OrderBookEngine and the IntrusiveOrderBook. The exchange keeps  *)
(* its open orders in time priority; each of its steps is one message of the *)
(* feed, which reaches both books or is lost (a gap that the sequence        *)
(* tracker forced the stream across).                                        *)
(***************************************************************************)
EXTENDS IntrusiveOrderBook, FiniteSets, SequencesExt

CONSTANTS Sides,     \* sides of new orders
          OrderCapacities, \* sizes of the intrusive book's pool, one per behaviour
          Feed,      \* "Full" or "ITCH": which fields a message carries
          Qtys,      \* quantities of new orders
          MaxFaults  \* bound on messages lost and orders refused, for each size of pool

ASSUME FeedAssumption ==
    /\ Sides \subseteq BookSides /\ Feed \in {"Full", "ITCH"}
    /\ OrderCapacities \subseteq Nat
    /\ Qtys \subseteq Nat \ {0} /\ MaxFaults \in [OrderCapacities -> Nat]

VARIABLES exchange,    \* open orders, oldest first
          used,        \* ids given out so far
          lost,        \* messages lost
          engine, intrusive

parityVars == <<exchange, used, lost, engine, intrusive>>

ParityInit ==
    /\ exchange = <<>> /\ used = {} /\ lost = 0
    /\ engine = NewEngine
    /\ \E order_capacity \in OrderCapacities : intrusive = NewIntrusive(order_capacity)

(* What the parser makes of a message. Every message of the full feed names   *)
(* the symbol, and a replacement its side; an ITCH message about an order     *)
(* that is there already (E, C, X, D, U) names neither.                       *)
Parsed(ev) ==
    IF Feed = "Full" \/ ev.type = "Add" THEN ev
    ELSE [ev EXCEPT !.symbol = NoSymbol, !.side = "Unknown"]

(* Bound on what has gone wrong: the messages lost, and the orders refused by  *)
(* the book that refused more of them.                                       *)
WithinFaults ==
    lost + Max({engine.table.dropped_order_inserts, intrusive.dropped_order_inserts})
        <= MaxFaults[Cardinality(DOMAIN intrusive.nodes)]

(* A message for both books, or for neither. *)
Deliver(ev) ==
    \/ /\ engine' = EngineOnEvent(engine, Parsed(ev))
       /\ intrusive' = IntrusiveOnEvent(intrusive, Parsed(ev))
       /\ UNCHANGED lost
       /\ WithinFaults'
    \/ /\ lost' = lost + 1
       /\ UNCHANGED <<engine, intrusive>>
       /\ WithinFaults'

Event(type, id, ref, o, qty) ==
    [type |-> type, order_id |-> id, reference_order_id |-> ref,
     symbol |-> o.symbol, side |-> o.side, price |-> o.price, qty |-> qty]

Order(id, symbol, side, price, qty) ==
    [id |-> id, symbol |-> symbol, side |-> side, price |-> price, qty |-> qty]

(* The exchange gives out its order reference numbers in ascending order.     *)
Fresh == {id \in (Keys \ {0}) \ used : \A k \in (Keys \ {0}) \ used : id <= k}

(* A new order. *)
AddMessage ==
    \E id \in Fresh, symbol \in Symbols, side \in Sides, price \in Prices, qty \in Qtys :
        LET o == Order(id, symbol, side, price, qty) IN
        /\ exchange' = Append(exchange, o)
        /\ used' = used \cup {id}
        /\ Deliver(Event("Add", id, 0, o, qty))

(* Execute, ExecutePrice and Cancel take qty off an order. *)
ReduceMessage ==
    \E i \in DOMAIN exchange : \E qty \in 1 .. exchange[i].qty :
        LET o == exchange[i] IN
        /\ exchange' = IF qty = o.qty THEN RemoveAt(exchange, i)
                       ELSE [exchange EXCEPT ![i].qty = @ - qty]
        /\ Deliver(Event("Execute", o.id, 0, o, qty))
        /\ UNCHANGED used

(* Delete, and the Cancel of Bitfinex, carry no quantity. *)
DeleteMessage ==
    \E i \in DOMAIN exchange, type \in {"Delete", "Cancel"} :
        /\ exchange' = RemoveAt(exchange, i)
        /\ Deliver(Event(type, exchange[i].id, 0, exchange[i], 0))
        /\ UNCHANGED used

(* A replacement goes to the back of its queue, under a new id or, on         *)
(* Bitfinex, under the old one.                                              *)
ReplaceMessage ==
    \E i \in DOMAIN exchange, price \in Prices, qty \in Qtys :
        LET old == exchange[i] IN
        \E id \in Fresh \cup (IF Feed = "Full" THEN {old.id} ELSE {}) :
            LET o == Order(id, old.symbol, old.side, price, qty) IN
            /\ exchange' = Append(RemoveAt(exchange, i), o)
            /\ used' = used \cup {id}
            /\ Deliver(Event("Replace", id, old.id, o, qty))

ParityNext == AddMessage \/ ReduceMessage \/ DeleteMessage \/ ReplaceMessage

ParitySpec == ParityInit /\ [][ParityNext]_parityVars

------------------------------------------------------------------------------

(* The live nodes that rest at a level, and the queue its links spell out.    *)
NodesAt(symbol, side, price) ==
    {i \in DOMAIN intrusive.nodes : LET n == intrusive.nodes[i] IN
        n.live /\ n.order.symbol = symbol /\ n.order.side = side /\ n.order.price = price}

(* queue[k] is the k-th node of the level's list, from its head.              *)
Follow(level, n) ==
    LET at[k \in 1 .. n] == IF k = 1 THEN level.head ELSE intrusive.nodes[at[k - 1]].next
    IN [k \in 1 .. n |-> at[k]]

SumQty(seq) == FoldLeft(LAMBDA sum, o : sum + o.qty, 0, seq)

(* What the exchange has at a level, in time priority. *)
Resting(symbol, side, price) ==
    SelectSeq(exchange, LAMBDA o : o.symbol = symbol /\ o.side = side /\ o.price = price)

ExchangeSnapshot(symbol) ==
    [d \in BookSides |->
        {<<p, SumQty(Resting(symbol, d, p))>> :
            p \in {q \in Prices : Resting(symbol, d, q) # <<>>}}]

NothingDropped == engine.table.dropped_order_inserts = 0 /\ intrusive.dropped_order_inserts = 0

(* The two books tell the same of every symbol, every level and the best      *)
(* prices, as test_phase3_intrusive_order_book asserts after one fixed stream: *)
(* whatever the exchange did and whichever messages were lost, as long as     *)
(* neither has run out of room. The intrusive book answers top_of_book from   *)
(* its cached best price.                                                    *)
SnapshotsAgree ==
    NothingDropped =>
        \A s \in BookSymbols :
            /\ EngineSnapshot(engine, s) = IntrusiveSnapshot(intrusive, s)
            /\ \A d \in BookSides :
                 intrusive.best_price[s][d] =
                     BestPrice(d, {p \in Prices : engine.levels[s][d][p] > 0})

(* With nothing lost and nothing dropped, on_event keeps the reference book   *)
(* equal to the exchange's, level by level, through partial fills, deletes    *)
(* and replacements under the same id.                                       *)
MirrorsExchange ==
    NothingDropped /\ lost = 0 =>
        \A s \in Symbols : EngineSnapshot(engine, s) = ExchangeSnapshot(s)

(* The links of every level run from head to tail through exactly its live    *)
(* nodes and back, its quantity is theirs, and with nothing lost or dropped   *)
(* the nodes stand in the exchange's time priority: add_order at the tail and *)
(* the unlinking of reduce_order never tear or reorder a queue, even once the *)
(* pool has been exhausted.                                                  *)
QueuesIntact ==
    \A s \in Symbols, d \in BookSides, p \in Prices :
        LET here   == NodesAt(s, d, p)
            levels == intrusive.levels[s][d]
        IN /\ p \in DOMAIN levels <=> here # {}
           /\ p \in DOMAIN levels =>
                LET level == levels[p]
                    queue == Follow(level, Cardinality(here))
                    rests == [k \in DOMAIN queue |-> intrusive.nodes[queue[k]].order]
                IN /\ ToSet(queue) = here
                   /\ level.tail = Last(queue)
                   /\ \A k \in DOMAIN queue :
                        intrusive.nodes[queue[k]].prev = IF k = 1 THEN Null ELSE queue[k - 1]
                   /\ level.qty = SumQty(rests)
                   /\ (NothingDropped /\ lost = 0) =>
                        [k \in DOMAIN queue |-> intrusive.nodes[queue[k]].key]
                            = [k \in DOMAIN Resting(s, d, p) |-> Resting(s, d, p)[k].id]

(* No node of the pool is lost or handed out twice: a node is on the free     *)
(* list exactly once or live and found under its key, through exhaustion and  *)
(* reuse.                                                                    *)
PoolAccounted ==
    LET live == {i \in DOMAIN intrusive.nodes : intrusive.nodes[i].live}
        free == DOMAIN intrusive.nodes \ live
    IN
    /\ ToSet(intrusive.free_list) = free
    /\ Len(intrusive.free_list) = Cardinality(free)
    /\ intrusive.live_order_count = Cardinality(live)
    /\ {intrusive.order_index[k] : k \in DOMAIN intrusive.order_index} = live
    /\ \A k \in DOMAIN intrusive.order_index :
         intrusive.nodes[intrusive.order_index[k]].key = k

(* What the intrusive book is built of stays whole, queues and pool. *)
BookIntact == QueuesIntact /\ PoolAccounted

==============================================================================
