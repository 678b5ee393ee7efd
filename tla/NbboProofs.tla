----------------------------- MODULE NbboProofs -----------------------------
(***************************************************************************)
(* NbboJournal for every finite set of venues and every set of quotes: the    *)
(* consolidated quote is the best of the tops that the books have now. And     *)
(* BookParity, for every size of pool: the intrusive book loses no node.       *)
(***************************************************************************)
EXTENDS NbboJournal, BookParity, ArithmeticLemmas, FiniteSetTheorems, SequenceTheorems, TLAPS

(* A venue's quote on a side, and what NbboAssumption says of it. *)
Tops == [VenueSlots -> VenueTop]

LEMMA QuoteFacts ==
    ASSUME NEW tops \in Tops, NEW v \in VenueSlots, NEW side \in {"bid", "ask"}
    PROVE  /\ tops[v][side] \in BidQuote \cup AskQuote /\ v \in Nat
           /\ tops[v][side] # NoQuote => tops[v][side].price \in Nat \ {0}
  <1>1. tops[v] \in VenueTop  BY DEF Tops
  <1>2. tops[v][side] \in BidQuote \cup AskQuote  BY <1>1 DEF VenueTop
  <1>3. v \in Nat  BY NbboAssumption
  <1>4. tops[v][side] # NoQuote => tops[v][side] \in BidQuotes \cup AskQuotes
    BY <1>2 DEF BidQuote, AskQuote
  <1> QED  BY <1>2, <1>3, <1>4, NbboAssumption

(* The venues that quote a side, and the test by which compute's loop keeps    *)
(* one of them.                                                              *)
Quoting(tops, side) == {v \in VenueSlots : tops[v][side] # NoQuote}

Kept(tops, side, v) ==
    \A u \in Quoting(tops, side) \ {v} :
        IF u > v THEN ~Better(side, tops[u][side].price, tops[v][side].price)
        ELSE Better(side, tops[v][side].price, tops[u][side].price)

(* The venues at the best price, of which the first is kept. *)
LEMMA SomeVenueKept ==
    ASSUME NEW tops \in Tops, NEW side \in {"bid", "ask"}, Quoting(tops, side) # {}
    PROVE  \E v \in Quoting(tops, side) : Kept(tops, side, v)
  <1> DEFINE Q == Quoting(tops, side)
             price(v) == tops[v][side].price
             P == {price(v) : v \in Q}
  <1>1. /\ Q \subseteq VenueSlots /\ IsFiniteSet(Q) /\ Q \subseteq Nat
        /\ \A v \in Q : price(v) \in Nat
    <2>1. Q \subseteq VenueSlots /\ IsFiniteSet(VenueSlots) /\ VenueSlots \subseteq Nat
      BY NbboAssumption DEF Quoting
    <2>2. IsFiniteSet(Q)  BY <2>1, FS_Subset
    <2>3. \A v \in Q : price(v) \in Nat  BY QuoteFacts DEF Quoting
    <2> QED  BY <2>1, <2>2, <2>3
  <1>2. P \in SUBSET Nat /\ P # {} /\ IsFiniteSet(P)
    <2> DEFINE f == [v \in Q |-> price(v)]
    <2>1. f \in Surjection(Q, P)  BY DEF Surjection
    <2>2. IsFiniteSet(P)  BY <1>1, <2>1, FS_Surjection
    <2> QED  BY <1>1, <2>2
  <1>3. PICK b \in P : \A p \in P : ~Better(side, p, b)
    <2> HIDE DEF P
    <2>1. CASE side = "bid"
      <3>1. PICK b \in P : \A p \in P : p <= b  BY <1>2, GreatestMember
      <3>2. \A p \in P : ~(p > b)  BY <1>2, <3>1
      <3> QED  BY <2>1, <3>2 DEF Better
    <2>2. CASE side = "ask"
      <3>1. PICK b \in P : \A p \in P : b <= p  BY <1>2, LeastMember
      <3>2. \A p \in P : ~(p < b)  BY <1>2, <3>1
      <3> QED  BY <2>2, <3>2 DEF Better
    <2> QED  BY <2>1, <2>2
  <1> DEFINE At == {v \in Q : price(v) = b}
  <1>4. At # {} /\ At \subseteq Nat  BY <1>1, <1>3
  <1>5. PICK v \in At : \A u \in At : v <= u  BY <1>4, LeastMember
  <1>6. v \in Q /\ price(v) = b /\ v \in Nat  BY <1>4, <1>5
  <1>7. ASSUME NEW u \in Q \ {v}
        PROVE  IF u > v THEN ~Better(side, price(u), price(v)) ELSE Better(side, price(v), price(u))
    <2>1. u \in Nat /\ price(u) \in P /\ price(u) \in Nat /\ b \in Nat /\ u # v  BY <1>1, <1>2, <1>3
    <2>2. ~Better(side, price(u), price(v))  BY <1>3, <1>6, <2>1
    <2>3. ASSUME ~(u > v) PROVE price(u) # b
      <3>1. ~(v <= u)  BY <1>6, <2>1, <2>3
      <3>2. u \notin At  BY <1>5, <3>1
      <3> QED  BY <3>2
    <2>4. ~(u > v) => Better(side, price(v), price(u))  BY <1>6, <2>1, <2>2, <2>3 DEF Better
    <2> QED  BY <2>2, <2>4
  <1>8. Kept(tops, side, v)  BY <1>7 DEF Kept
  <1> QED  BY <1>6, <1>8

(* compute for one side: the venue it keeps. *)
LEMMA ComputeSideFacts ==
    ASSUME NEW tops \in Tops, NEW side \in {"bid", "ask"}
    PROVE  LET best == ComputeSide(tops, side) IN
           /\ best \in Best
           /\ Quoting(tops, side) = {} => best = NoBest
           /\ Quoting(tops, side) # {} =>
                 /\ best.venue \in Quoting(tops, side) /\ Kept(tops, side, best.venue)
                 /\ best.quote = tops[best.venue][side]
  <1> DEFINE Q == Quoting(tops, side)
             w == CHOOSE v \in Q : Kept(tops, side, v)
             seq == IF side = "bid" THEN tops[w].bid_sequence ELSE tops[w].ask_sequence
  <1>1. ComputeSide(tops, side) = IF Q = {} THEN NoBest
                                  ELSE [quote |-> tops[w][side], venue |-> w, sequence |-> seq]
    BY Zenon DEF ComputeSide, Quoting, Kept
  <1>2. CASE Q = {}
    BY <1>1, <1>2 DEF Best, NoBest, BidQuote
  <1>3. CASE Q # {}
    <2>1. w \in Q /\ Kept(tops, side, w)  BY <1>3, SomeVenueKept
    <2>2. w \in VenueSlots /\ w \in Nat /\ tops[w][side] \in BidQuote \cup AskQuote
      BY <2>1, QuoteFacts DEF Quoting
    <2>3. seq \in Nat
      <3>1. tops[w] \in VenueTop  BY <2>2 DEF Tops
      <3> QED  BY <3>1 DEF VenueTop
    <2> HIDE DEF w, seq, Q
    <2>4. ComputeSide(tops, side) = [quote |-> tops[w][side], venue |-> w, sequence |-> seq]
      BY <1>1, <1>3
    <2> QED  BY <1>3, <2>1, <2>2, <2>3, <2>4 DEF Best, Q
  <1> QED  BY <1>2, <1>3

LEMMA ComputeType == ASSUME NEW tops \in Tops PROVE Compute(tops) \in Nbbo
  BY ComputeSideFacts DEF Compute, Nbbo

(* The venue that was kept has the best price; on a tie the lowest slot. *)
LEMMA KeptIsBest ==
    ASSUME NEW tops \in Tops, NEW side \in {"bid", "ask"}, NEW w \in Quoting(tops, side),
           Kept(tops, side, w), NEW v \in Quoting(tops, side)
    PROVE  /\ IF side = "bid" THEN tops[v][side].price <= tops[w][side].price
              ELSE tops[v][side].price >= tops[w][side].price
           /\ tops[v][side].price = tops[w][side].price => w <= v
  <1> DEFINE a == tops[w][side].price
             b == tops[v][side].price
  <1>1. v \in Nat /\ w \in Nat /\ a \in Nat /\ b \in Nat  BY QuoteFacts DEF Quoting
  <1>2. v # w => IF v > w THEN ~Better(side, b, a) ELSE Better(side, a, b)  BY DEF Kept
  <1> HIDE DEF a, b
  <1>3. CASE v = w  BY <1>1, <1>3 DEF a, b
  <1>4. CASE v # w
    <2>1. CASE side = "bid"
      <3>1. IF v > w THEN ~(b > a) ELSE a > b  BY <1>2, <1>4, <2>1 DEF Better
      <3>2. b <= a /\ (b = a => w <= v)  BY <1>1, <3>1
      <3> QED  BY <2>1, <3>2 DEF a, b
    <2>2. CASE side = "ask"
      <3>1. IF v > w THEN ~(b < a) ELSE a < b  BY <1>2, <1>4, <2>2 DEF Better
      <3>2. b >= a /\ (b = a => w <= v)  BY <1>1, <3>1
      <3> QED  BY <2>2, <3>2 DEF a, b
    <2> QED  BY <2>1, <2>2
  <1> QED  BY <1>3, <1>4
------------------------------------------------------------------------------
(* Before the replay and after it nobody quotes. *)
LEMMA NoneQuoted ==
    /\ NoTops \in [VenueSlots -> Top] /\ NoVenues \in Tops
    /\ Compute(NoVenues) = NoNbbo /\ NoNbbo \in Nbbo
  <1>1. NoTops \in [VenueSlots -> Top] /\ NoVenues \in Tops
    BY DEF NoTops, NoVenues, Top, Tops, VenueTop, BidQuote, AskQuote
  <1>2. Compute(NoVenues) = NoNbbo
    <2>1. ASSUME NEW side \in {"bid", "ask"} PROVE Quoting(NoVenues, side) = {}
      BY DEF Quoting, NoVenues
    <2>2. \A side \in {"bid", "ask"} : ComputeSide(NoVenues, side) = NoBest
      BY <1>1, <2>1, ComputeSideFacts
    <2> QED  BY <2>2 DEF Compute, NoNbbo
  <1> QED  BY <1>1, <1>2, ComputeType

LEMMA NbboInit == Init => ConsolidatorInv
  <1> SUFFICES ASSUME Init PROVE ConsolidatorInv  OBVIOUS
  <1>1. writer \in [fd : {"none", "open", "closed"}, buffer : Seq(Unit)]
        /\ failed \in BOOLEAN /\ history \in Seq(LogRow)
    <2>1. <<>> \in Seq(Unit) /\ <<>> \in Seq(LogRow)  BY EmptySeq
    <2> QED  BY <2>1 DEF Init
  <1>2. \A v \in VenueSlots : venue_top[v].bid = top[v].bid /\ venue_top[v].ask = top[v].ask
    BY DEF Init, NoTops, NoVenues
  <1>3. TypeOK  BY <1>1, NoneQuoted DEF Init, TypeOK, Tops
  <1> QED  BY NoneQuoted, <1>2, <1>3 DEF Init, ConsolidatorInv

(* The writer's part of a step. *)
LEMMA AppendRowType ==
    ASSUME TypeOK, NEW row \in LogRow, AppendRow(row)
    PROVE  writer' \in [fd : {"none", "open", "closed"}, buffer : Seq(Unit)]
           /\ failed' \in BOOLEAN
  <1>1. RowRecord(row) \in Seq(Unit)
    <2>1. RowRecord(row) \in [1 .. RowUnits -> Unit]  BY DEF RowRecord, Unit
    <2> QED  BY <2>1, FunctionIsSeq DEF RowUnits
  <1>2. writer.buffer \o RowRecord(row) \in Seq(Unit)  BY <1>1 DEF TypeOK
  <1> QED  BY <1>1, <1>2 DEF AppendRow, TypeOK, Written

LEMMA NbboStep == ConsolidatorInv /\ [Next]_vars => ConsolidatorInv'
  <1> SUFFICES ASSUME ConsolidatorInv, [Next]_vars PROVE ConsolidatorInv'  OBVIOUS
  <1>t. TypeOK  BY DEF ConsolidatorInv
  <1>1. CASE OpenJournal  BY <1>1, <1>t DEF OpenJournal, ConsolidatorInv, TypeOK
  <1>2. CASE CloseJournal
    <2>1. top' = NoTops /\ venue_top' = NoVenues /\ nbbo' = NoNbbo /\ history' = history
      BY <1>2 DEF CloseJournal
    <2>2. writer' = [fd |-> "closed", buffer |-> <<>>] /\ failed' \in BOOLEAN
      BY <1>2, <1>t DEF CloseJournal, Written, TypeOK
    <2>3. NoTops \in [VenueSlots -> Top] /\ NoVenues \in Tops /\ Compute(NoVenues) = NoNbbo
          /\ NoNbbo \in Nbbo
      BY NoneQuoted
    <2>4. \A v \in VenueSlots : NoVenues[v].bid = NoTops[v].bid /\ NoVenues[v].ask = NoTops[v].ask
      BY DEF NoTops, NoVenues
    <2> QED  BY <1>t, <2>1, <2>2, <2>3, <2>4 DEF ConsolidatorInv, TypeOK, Tops
  <1>3. CASE StartService  BY <1>3, <1>t DEF StartService, ConsolidatorInv, TypeOK
  <1>4. ASSUME NEW v \in VenueSlots, NEW t \in Top, NEW ts \in Times, ReplayEvent(v, t, ts)
        PROVE  ConsolidatorInv'
    <2>0. Len(history) + 1 \in Nat  BY <1>t DEF TypeOK
    <2> DEFINE seq == Len(history) + 1
    <2> HIDE DEF seq
    <2>1. top' = [top EXCEPT ![v] = t] /\ top' \in [VenueSlots -> Top]
      BY <1>4, <1>t DEF ReplayEvent, TypeOK
    <2>2. venue_top' \in Tops /\ nbbo' = Compute(venue_top')
          /\ \A u \in VenueSlots : venue_top'[u].bid = top'[u].bid /\ venue_top'[u].ask = top'[u].ask
      <3>1. CASE t = top[v]
        BY <1>4, <1>t, <2>1, <3>1 DEF ReplayEvent, TypeOK, ConsolidatorInv, Tops
      <3>2. CASE t # top[v]
        <4>1. venue_top' = [venue_top EXCEPT ![v] = Updated(@, t, seq)] /\ nbbo' = Compute(venue_top')
          BY <1>4, <3>2 DEF ReplayEvent, seq
        <4>2. Updated(venue_top[v], t, seq) \in VenueTop
              /\ Updated(venue_top[v], t, seq).bid = t.bid /\ Updated(venue_top[v], t, seq).ask = t.ask
          <5>1. venue_top[v] \in VenueTop /\ seq \in Nat  BY <1>t, <2>0 DEF TypeOK, seq
          <5> QED  BY <5>1 DEF Updated, VenueTop, Top, BidQuote, AskQuote
        <4> QED  BY <1>t, <2>1, <4>1, <4>2 DEF TypeOK, ConsolidatorInv, Tops
      <3> QED  BY <3>1, <3>2
    <2>3. nbbo' \in Nbbo  BY <2>2, ComputeType
    <2>4. Row(Followed, ts, nbbo') \in LogRow  BY <2>3 DEF Row, LogRow
    <2>5. history' \in Seq(LogRow)  BY <1>4, <1>t, <2>4 DEF ReplayEvent, TypeOK
    <2>6. writer' \in [fd : {"none", "open", "closed"}, buffer : Seq(Unit)] /\ failed' \in BOOLEAN
      <3>1. AppendRow(Row(Followed, ts, nbbo')) \/ UNCHANGED <<writer, failed>>
        BY <1>4 DEF ReplayEvent
      <3>2. CASE AppendRow(Row(Followed, ts, nbbo'))
        BY <1>t, <2>4, <3>2, AppendRowType
      <3> QED  BY <1>t, <3>1, <3>2 DEF TypeOK
    <2> QED  BY <2>1, <2>2, <2>3, <2>5, <2>6 DEF ConsolidatorInv, TypeOK, Tops
  <1>5. ASSUME NEW ts \in Times, ReplayOther(ts) PROVE ConsolidatorInv'
    <2>1. Row(Other, ts, NoNbbo) \in LogRow
      BY DEF Row, LogRow, NoNbbo, Nbbo, NoBest, Best, BidQuote
    <2>2. writer' \in [fd : {"none", "open", "closed"}, buffer : Seq(Unit)] /\ failed' \in BOOLEAN
      BY <1>5, <1>t, <2>1, AppendRowType DEF ReplayOther
    <2>3. history' \in Seq(LogRow)  BY <1>5, <1>t, <2>1 DEF ReplayOther, TypeOK
    <2> QED  BY <1>5, <1>t, <2>2, <2>3 DEF ReplayOther, ConsolidatorInv, TypeOK
  <1>6. CASE UNCHANGED vars  BY <1>6, <1>t DEF vars, ConsolidatorInv, TypeOK
  <1> QED  BY <1>1, <1>2, <1>3, <1>4, <1>5, <1>6 DEF Next

(* The consolidator's copy of the tops and the quote computed from it are      *)
(* never behind the books, whatever events are passed over.                   *)
THEOREM ConsolidatorInvariant == Spec => []ConsolidatorInv
  BY NbboInit, NbboStep, PTL DEF Spec

(* The NBBO that is journaled and served is the best of the books' tops, and   *)
(* a tie goes to the lowest venue slot.                                      *)
THEOREM NbboIsBest == Spec => []NbboIsBestOfBooks
  <1>1. ASSUME ConsolidatorInv PROVE NbboIsBestOfBooks
    <2>0. venue_top \in Tops /\ nbbo = Compute(venue_top)  BY <1>1 DEF ConsolidatorInv, TypeOK, Tops
    <2> SUFFICES ASSUME NEW side \in {"bid", "ask"}
                 PROVE  LET best    == nbbo[side]
                            quoting == {v \in VenueSlots : top[v][side] # NoQuote}
                        IN IF quoting = {} THEN best = NoBest
                           ELSE /\ top[best.venue][side] = best.quote
                                /\ \A v \in quoting :
                                     /\ IF side = "bid" THEN top[v].bid.price <= best.quote.price
                                        ELSE top[v].ask.price >= best.quote.price
                                     /\ top[v][side].price = best.quote.price => best.venue <= v
      BY DEF NbboIsBestOfBooks
    <2>1. \A v \in VenueSlots : venue_top[v][side] = top[v][side]  BY <1>1 DEF ConsolidatorInv
    <2>2. {v \in VenueSlots : top[v][side] # NoQuote} = Quoting(venue_top, side)
      BY <2>1 DEF Quoting
    <2>3. nbbo[side] = ComputeSide(venue_top, side)  BY <2>0 DEF Compute
    <2> DEFINE best == nbbo[side]
    <2>4. CASE Quoting(venue_top, side) = {}  BY <2>0, <2>2, <2>3, <2>4, ComputeSideFacts
    <2>5. CASE Quoting(venue_top, side) # {}
      <3>1. best.venue \in Quoting(venue_top, side) /\ Kept(venue_top, side, best.venue)
            /\ best.quote = venue_top[best.venue][side]
        BY <2>0, <2>3, <2>5, ComputeSideFacts
      <3>2. best.quote = top[best.venue][side]  BY <2>1, <3>1 DEF Quoting
      <3> HIDE DEF best
      <3>3. ASSUME NEW v \in Quoting(venue_top, side)
            PROVE  /\ IF side = "bid" THEN top[v].bid.price <= best.quote.price
                      ELSE top[v].ask.price >= best.quote.price
                   /\ top[v][side].price = best.quote.price => best.venue <= v
        <4>1. venue_top[v][side] = top[v][side]  BY <2>1 DEF Quoting
        <4>2. /\ IF side = "bid" THEN top[v][side].price <= best.quote.price
                 ELSE top[v][side].price >= best.quote.price
              /\ top[v][side].price = best.quote.price => best.venue <= v
          BY <2>0, <3>1, <4>1, KeptIsBest
        <4> QED  BY <4>2
      <3> QED  BY <2>2, <2>5, <3>2, <3>3 DEF best
    <2> QED  BY <2>4, <2>5
  <1> QED  BY <1>1, ConsolidatorInvariant, PTL

------------------------------------------------------------------------------

(* The fields of an intrusive book and of a node of its pool. *)
BookFields == {"nodes", "free_list", "order_index", "levels", "best_price", "live_order_count",
               "dropped_order_inserts"}
NodeFields == {"order", "key", "prev", "next", "live"}

(* The nodes that hold an order, and the others. *)
LiveNodes(b) == {i \in DOMAIN b.nodes : b.nodes[i].live}
FreeNodes(b) == DOMAIN b.nodes \ LiveNodes(b)

(* What the nodes, the free list and the index of a book owe each other. The   *)
(* levels do not come into it.                                               *)
NodesOK(b) ==
    /\ DOMAIN b = BookFields /\ IsFiniteSet(DOMAIN b.nodes)
    /\ \A i \in DOMAIN b.nodes : DOMAIN b.nodes[i] = NodeFields

FreeOK(b) ==
    /\ b.free_list \in Seq(FreeNodes(b))
    /\ \A i, j \in DOMAIN b.free_list : b.free_list[i] = b.free_list[j] => i = j
    /\ \A n \in FreeNodes(b) : \E i \in DOMAIN b.free_list : b.free_list[i] = n
    /\ Len(b.free_list) = Cardinality(FreeNodes(b))

IndexOK(b) ==
    /\ b.live_order_count = Cardinality(LiveNodes(b))
    /\ \A k \in DOMAIN b.order_index : /\ b.order_index[k] \in LiveNodes(b)
                                       /\ b.nodes[b.order_index[k]].key = k
    /\ \A i \in LiveNodes(b) : /\ b.nodes[i].key \in DOMAIN b.order_index
                               /\ b.order_index[b.nodes[i].key] = i

PoolOK(b) == NodesOK(b) /\ FreeOK(b) /\ IndexOK(b)

(* A book of the same pool: links, quantities and levels apart. *)
SamePool(r, b) ==
    /\ DOMAIN r = BookFields /\ DOMAIN r.nodes = DOMAIN b.nodes
    /\ \A i \in DOMAIN b.nodes : /\ DOMAIN r.nodes[i] = NodeFields
                                 /\ r.nodes[i].live = b.nodes[i].live /\ r.nodes[i].key = b.nodes[i].key
    /\ r.free_list = b.free_list /\ r.order_index = b.order_index
    /\ r.live_order_count = b.live_order_count

(* A book of the same pool has a pool that is as well kept. *)
LEMMA SamePoolOK ==
    ASSUME NEW b, PoolOK(b), NEW r, SamePool(r, b) PROVE PoolOK(r)
  <1>1. LiveNodes(r) = LiveNodes(b)  BY DEF LiveNodes, SamePool
  <1>2. FreeNodes(r) = FreeNodes(b)  BY <1>1 DEF FreeNodes, SamePool
  <1>3. NodesOK(r)  BY DEF PoolOK, NodesOK, SamePool
  <1>4. FreeOK(r)  BY <1>2 DEF PoolOK, FreeOK, SamePool
  <1>5. ASSUME NEW i \in LiveNodes(b) PROVE r.nodes[i].key = b.nodes[i].key
    BY DEF SamePool, LiveNodes
  <1>6. IndexOK(r)  BY <1>1, <1>5 DEF PoolOK, IndexOK, SamePool
  <1> QED  BY <1>3, <1>4, <1>6 DEF PoolOK

(* Having the same pool is transitive. *)
LEMMA SamePoolTwice ==
    ASSUME NEW b, NEW r, NEW x, SamePool(r, b), SamePool(x, r) PROVE SamePool(x, b)
  BY DEF SamePool

(* A node that is forgotten under its key and released. *)
LEMMA ReleasePool ==
    ASSUME NEW b, PoolOK(b), NEW key \in DOMAIN b.order_index, NEW idx, idx = b.order_index[key],
           NEW r, r = ReleaseNode(Forget(b, key), idx)
    PROVE  PoolOK(r) /\ DOMAIN r.order_index = DOMAIN b.order_index \ {key}
  <1> DEFINE f == Forget(b, key)
             index == Restricted(b.order_index, DOMAIN b.order_index \ {key})
             N == DOMAIN b.nodes
             L == LiveNodes(b)
             F == FreeNodes(b)
             n == b.live_order_count
             s == b.free_list
  <1>1. /\ DOMAIN b = BookFields /\ IsFiniteSet(N)
        /\ \A i \in N : DOMAIN b.nodes[i] = NodeFields
    BY DEF PoolOK, NodesOK
  <1>2. idx \in L /\ idx \in N /\ b.nodes[idx].live /\ b.nodes[idx].key = key
    BY DEF PoolOK, IndexOK, LiveNodes
  <1>3. f = [b EXCEPT !.order_index = index]  BY DEF Forget
  <1> HIDE DEF f
  <1>4. /\ DOMAIN f = BookFields /\ f.nodes = b.nodes /\ f.free_list = s
        /\ f.live_order_count = n /\ f.order_index = index
    BY <1>1, <1>3 DEF BookFields
  <1>5. r = [f EXCEPT !.nodes[idx] = NoNode, !.free_list = Append(s, idx),
                      !.live_order_count = IF n > 0 THEN n - 1 ELSE n]
    <2>1. f.nodes[idx].live  BY <1>2, <1>4
    <2>2. r = [f EXCEPT !.nodes[idx] = NoNode, !.free_list = Append(f.free_list, idx),
                 !.live_order_count = IF f.live_order_count > 0 THEN f.live_order_count - 1
                                      ELSE f.live_order_count]
      BY <2>1, Zenon DEF ReleaseNode, f
    <2> QED  BY <1>4, <2>2
  <1>6. /\ DOMAIN r = BookFields /\ r.nodes = [b.nodes EXCEPT ![idx] = NoNode]
        /\ r.free_list = Append(s, idx) /\ r.order_index = index
        /\ r.live_order_count = IF n > 0 THEN n - 1 ELSE n
    <2> HIDE DEF index, n, s
    <2> QED  BY <1>4, <1>5 DEF BookFields
  <1>7. DOMAIN index = DOMAIN b.order_index \ {key} /\ \A k \in DOMAIN index : index[k] = b.order_index[k]
    BY DEF Restricted
  <1>8. DOMAIN NoNode = NodeFields /\ ~NoNode.live  BY DEF NoNode, NodeFields
  <1>9. /\ DOMAIN r.nodes = N /\ r.nodes[idx] = NoNode
        /\ \A i \in N : i # idx => r.nodes[i] = b.nodes[i]
    BY <1>2, <1>6
  <1>10. LiveNodes(r) = L \ {idx}  BY <1>8, <1>9 DEF LiveNodes
  <1>11. FreeNodes(r) = F \cup {idx} /\ idx \notin F  BY <1>2, <1>9, <1>10 DEF FreeNodes
  <1>12. NodesOK(r)  BY <1>1, <1>6, <1>8, <1>9 DEF NodesOK
  <1>13. IsFiniteSet(L) /\ IsFiniteSet(F)
    BY <1>1, FS_Subset DEF LiveNodes, FreeNodes
  <1>14. FreeOK(r)
    <2>1. /\ s \in Seq(F) /\ Len(s) = Cardinality(F)
          /\ \A i, j \in DOMAIN s : s[i] = s[j] => i = j
          /\ \A m \in F : \E i \in DOMAIN s : s[i] = m
      BY DEF PoolOK, FreeOK
    <2> DEFINE t == Append(s, idx)  G == F \cup {idx}
    <2>2. Cardinality(G) = Cardinality(F) + 1  BY <1>11, <1>13, FS_AddElement
    <2> HIDE DEF s, F
    <2>3. Len(s) \in Nat /\ DOMAIN s = 1 .. Len(s) /\ \A i \in DOMAIN s : s[i] \in F
      BY <2>1
    <2>4. /\ t \in Seq(G) /\ Len(t) = Len(s) + 1 /\ DOMAIN t = 1 .. Len(s) + 1
          /\ t[Len(s) + 1] = idx /\ \A i \in 1 .. Len(s) : t[i] = s[i]
      <3>1. s \in Seq(G)  BY <2>1, <2>3
      <3> HIDE DEF G
      <3>2. idx \in G  BY DEF G
      <3> QED  BY <2>3, <3>1, <3>2, AppendProperties
    <2> HIDE DEF t
    <2>5. \A i, j \in DOMAIN t : t[i] = t[j] => i = j
      BY <1>11, <2>1, <2>3, <2>4
    <2>6. \A m \in G : \E i \in DOMAIN t : t[i] = m
      BY <2>1, <2>3, <2>4
    <2>7. Len(t) = Cardinality(G)  BY <2>1, <2>2, <2>4
    <2>8. r.free_list = t /\ FreeNodes(r) = G  BY <1>6, <1>11 DEF t
    <2> HIDE DEF G
    <2> QED  BY <2>4, <2>5, <2>6, <2>7, <2>8 DEF FreeOK
  <1>15. IndexOK(r)
    <2>1. r.live_order_count = Cardinality(LiveNodes(r))
      <3>1. n = Cardinality(L)  BY DEF PoolOK, IndexOK
      <3>2. Cardinality(L \ {idx}) = Cardinality(L) - 1 /\ Cardinality(L) \in Nat
            /\ Cardinality(L \ {idx}) \in Nat
        BY <1>2, <1>13, FS_RemoveElement, FS_CardinalityType, FS_Subset
      <3> HIDE DEF n, L
      <3> QED  BY <1>6, <1>10, <3>1, <3>2
    <2>2. ASSUME NEW k \in DOMAIN r.order_index
          PROVE  r.order_index[k] \in LiveNodes(r) /\ r.nodes[r.order_index[k]].key = k
      <3>1. k \in DOMAIN b.order_index /\ k # key /\ r.order_index[k] = b.order_index[k]
        BY <1>6, <1>7
      <3>2. b.order_index[k] \in L /\ b.nodes[b.order_index[k]].key = k
        BY <3>1 DEF PoolOK, IndexOK
      <3>3. b.order_index[k] # idx  BY <1>2, <3>1, <3>2
      <3>4. b.order_index[k] \in N  BY <3>2 DEF LiveNodes
      <3> QED  BY <1>9, <1>10, <3>1, <3>2, <3>3, <3>4
    <2>3. ASSUME NEW i \in LiveNodes(r)
          PROVE  r.nodes[i].key \in DOMAIN r.order_index /\ r.order_index[r.nodes[i].key] = i
      <3>1. i \in L /\ i # idx /\ i \in N  BY <1>10 DEF LiveNodes
      <3>2. b.nodes[i].key \in DOMAIN b.order_index /\ b.order_index[b.nodes[i].key] = i
        BY <3>1 DEF PoolOK, IndexOK
      <3>3. b.nodes[i].key # key  BY <3>1, <3>2, Zenon
      <3>4. r.nodes[i] = b.nodes[i]  BY <1>9, <3>1
      <3> HIDE DEF index
      <3>5. b.nodes[i].key \in DOMAIN index /\ index[b.nodes[i].key] = i  BY <1>7, <3>2, <3>3
      <3> QED  BY <1>6, <3>4, <3>5
    <2> QED  BY <2>1, <2>2, <2>3 DEF IndexOK
  <1> QED  BY <1>6, <1>7, <1>12, <1>14, <1>15 DEF PoolOK

(* A node that is taken from the free list and entered under a new key. *)
Entered(r, b, key, node, tail, levels, best) ==
    LET s == b.free_list
        idx == s[Len(s)]
    IN /\ s # <<>> /\ DOMAIN node = NodeFields /\ node.live /\ node.key = key
       /\ r = [b EXCEPT
                 !.free_list = SubSeq(s, 1, Len(s) - 1),
                 !.nodes = [i \in DOMAIN b.nodes |-> IF i = idx THEN node
                               ELSE IF i = tail THEN [b.nodes[i] EXCEPT !.next = idx]
                               ELSE b.nodes[i]],
                 !.levels = levels, !.best_price = best,
                 !.order_index = Extended(b.order_index, key, idx),
                 !.live_order_count = b.live_order_count + 1]

(* Such a node leaves the free list and becomes live under its key: nothing else
   of the pool changes. *)
LEMMA EnterPool ==
    ASSUME NEW b, PoolOK(b), NEW key, key \notin DOMAIN b.order_index, NEW r, NEW node, NEW tail,
           NEW levels, NEW best, Entered(r, b, key, node, tail, levels, best)
    PROVE  PoolOK(r) /\ DOMAIN r.order_index \subseteq DOMAIN b.order_index \cup {key}
  <1> DEFINE s == b.free_list
             idx == s[Len(s)]
             N == DOMAIN b.nodes
             L == LiveNodes(b)
             F == FreeNodes(b)
  <1>0. /\ DOMAIN b = BookFields /\ IsFiniteSet(N)
        /\ \A i \in N : DOMAIN b.nodes[i] = NodeFields
    BY DEF PoolOK, NodesOK
  <1>1. /\ DOMAIN node = NodeFields /\ node.live /\ node.key = key
        /\ r = [b EXCEPT
                  !.free_list = SubSeq(s, 1, Len(s) - 1),
                  !.nodes = [i \in N |-> IF i = idx THEN node
                                ELSE IF i = tail THEN [b.nodes[i] EXCEPT !.next = idx]
                                ELSE b.nodes[i]],
                  !.levels = levels, !.best_price = best,
                  !.order_index = Extended(b.order_index, key, idx),
                  !.live_order_count = b.live_order_count + 1]
    BY Zenon DEF Entered
  <1>b. s # <<>>  BY Zenon DEF Entered
  <1>2. /\ s \in Seq(F) /\ Len(s) = Cardinality(F)
        /\ \A i, j \in DOMAIN s : s[i] = s[j] => i = j
        /\ \A m \in F : \E i \in DOMAIN s : s[i] = m
    BY DEF PoolOK, FreeOK
  <1> DEFINE nodes == [i \in N |-> IF i = idx THEN node
                                   ELSE IF i = tail THEN [b.nodes[i] EXCEPT !.next = idx]
                                   ELSE b.nodes[i]]
             index == Extended(b.order_index, key, idx)
             t == SubSeq(s, 1, Len(s) - 1)
             G == F \ {idx}
  <1>3. /\ DOMAIN r = BookFields /\ r.nodes = nodes /\ r.free_list = t /\ r.order_index = index
        /\ r.live_order_count = b.live_order_count + 1
    <2> HIDE DEF nodes, index, t
    <2>1. r = [b EXCEPT !.free_list = t, !.nodes = nodes, !.levels = levels, !.best_price = best,
                        !.order_index = index, !.live_order_count = b.live_order_count + 1]
      BY <1>1, Zenon DEF nodes, index, t
    <2> QED  BY <1>0, <2>1 DEF BookFields
  <1>4. Len(s) \in Nat \ {0} /\ DOMAIN s = 1 .. Len(s) /\ idx \in F
    <2> HIDE DEF F
    <2>1. Len(s) \in Nat /\ DOMAIN s = 1 .. Len(s) /\ Len(s) # 0
      BY <1>b, <1>2, EmptySeq, LenProperties
    <2> QED  BY <1>2, <2>1, ElementOfSeq
  <1>5. /\ DOMAIN t = 1 .. Len(s) - 1 /\ Len(t) = Len(s) - 1
        /\ \A i \in 1 .. Len(s) - 1 : t[i] = s[i]
    <2> HIDE DEF F
    <2> QED  BY <1>2, <1>4
  <1>6. idx \in N /\ idx \notin L  BY <1>4 DEF FreeNodes
  <1>7. /\ DOMAIN nodes = N /\ nodes[idx] = node
        /\ \A i \in N : i # idx => /\ DOMAIN nodes[i] = NodeFields
                                   /\ nodes[i].live = b.nodes[i].live /\ nodes[i].key = b.nodes[i].key
    <2> HIDE DEF idx
    <2>1. DOMAIN nodes = N /\ nodes[idx] = node  BY <1>6
    <2>2. ASSUME NEW i \in N, i # idx
          PROVE  /\ DOMAIN nodes[i] = NodeFields
                 /\ nodes[i].live = b.nodes[i].live /\ nodes[i].key = b.nodes[i].key
      <3>1. nodes[i] = b.nodes[i] \/ nodes[i] = [b.nodes[i] EXCEPT !.next = idx]  BY <2>2
      <3>2. DOMAIN b.nodes[i] = NodeFields  BY <1>0
      <3> HIDE DEF nodes
      <3> QED  BY <3>1, <3>2 DEF NodeFields
    <2> QED  BY <2>1, <2>2
  <1>8. DOMAIN index = DOMAIN b.order_index \cup {key} /\ index[key] = idx
        /\ \A k \in DOMAIN b.order_index : index[k] = b.order_index[k]
    BY DEF Extended
  <1> HIDE DEF nodes, index, t, idx, s
  <1>9. LiveNodes(r) = L \cup {idx}  BY <1>1, <1>3, <1>6, <1>7 DEF LiveNodes
  <1>10. FreeNodes(r) = G  BY <1>3, <1>6, <1>7, <1>9 DEF FreeNodes
  <1>11. NodesOK(r)  BY <1>0, <1>1, <1>3, <1>7 DEF NodesOK
  <1>12. IsFiniteSet(L) /\ IsFiniteSet(F)  BY <1>0, FS_Subset DEF LiveNodes, FreeNodes
  <1>13. FreeOK(r)
    <2>1. Cardinality(G) = Cardinality(F) - 1  BY <1>4, <1>12, FS_RemoveElement
    <2> HIDE DEF F, G
    <2>2. s[Len(s)] = idx  BY DEF idx
    <2>3. \A i \in 1 .. Len(s) - 1 : t[i] \in G
      <3>1. ASSUME NEW i \in 1 .. Len(s) - 1 PROVE s[i] \in F /\ s[i] # idx
        <4>0. Len(s) \in Nat \ {0} /\ DOMAIN s = 1 .. Len(s)  BY <1>4
        <4>1. i \in DOMAIN s /\ Len(s) \in DOMAIN s /\ i # Len(s)
          <5> DEFINE n == Len(s)  D == DOMAIN s
          <5>1. n \in Nat \ {0} /\ D = 1 .. n /\ i \in 1 .. n - 1  BY <4>0, <3>1
          <5> HIDE DEF n, D
          <5>2. i \in D /\ n \in D /\ i # n  BY <5>1
          <5> QED  BY <5>2 DEF n, D
        <4> QED  BY <1>2, <1>4, <2>2, <4>1
      <3> QED  BY <1>5, <3>1 DEF G
    <2>4. t \in Seq(G)
      <3>1. t = [i \in 1 .. Len(s) - 1 |-> t[i]]  BY <1>4, <1>5 DEF t
      <3>2. Len(s) - 1 \in Nat  BY <1>4
      <3> QED  BY <2>3, <3>1, <3>2
    <2>5. \A i, j \in DOMAIN t : t[i] = t[j] => i = j  BY <1>2, <1>4, <1>5
    <2>6. \A m \in G : \E i \in DOMAIN t : t[i] = m
      <3>1. ASSUME NEW m \in G PROVE \E i \in DOMAIN t : t[i] = m
        <4>1. m \in F /\ m # idx  BY DEF G
        <4>2. PICK i \in DOMAIN s : s[i] = m  BY <1>2, <4>1
        <4>3. i \in 1 .. Len(s) - 1  BY <1>4, <2>2, <4>1, <4>2
        <4> QED  BY <1>5, <4>2, <4>3
      <3> QED  BY <3>1
    <2>7. Len(t) = Cardinality(G)  BY <1>2, <1>5, <2>1
    <2> QED  BY <1>3, <1>10, <2>4, <2>5, <2>6, <2>7 DEF FreeOK
  <1>14. IndexOK(r)
    <2>1. r.live_order_count = Cardinality(LiveNodes(r))
      <3>1. b.live_order_count = Cardinality(L)  BY DEF PoolOK, IndexOK
      <3>2. Cardinality(L \cup {idx}) = Cardinality(L) + 1  BY <1>6, <1>12, FS_AddElement
      <3> QED  BY <1>3, <1>9, <3>1, <3>2
    <2>2. ASSUME NEW k \in DOMAIN index
          PROVE  index[k] \in L \cup {idx} /\ nodes[index[k]].key = k
      <3>1. CASE k = key  BY <1>1, <1>7, <1>8, <3>1
      <3>2. CASE k # key
        <4>1. k \in DOMAIN b.order_index /\ index[k] = b.order_index[k]  BY <1>8, <3>2
        <4>2. b.order_index[k] \in L /\ b.nodes[b.order_index[k]].key = k
          BY <4>1 DEF PoolOK, IndexOK
        <4>3. b.order_index[k] \in N /\ b.order_index[k] # idx  BY <1>6, <4>2 DEF LiveNodes
        <4> QED  BY <1>7, <4>1, <4>2, <4>3
      <3> QED  BY <3>1, <3>2
    <2>3. ASSUME NEW i \in L \cup {idx}
          PROVE  nodes[i].key \in DOMAIN index /\ index[nodes[i].key] = i
      <3>1. CASE i = idx  BY <1>1, <1>7, <1>8, <3>1
      <3>2. CASE i # idx
        <4>1. i \in L /\ i \in N  BY <3>2 DEF LiveNodes
        <4>2. b.nodes[i].key \in DOMAIN b.order_index /\ b.order_index[b.nodes[i].key] = i
          BY <4>1 DEF PoolOK, IndexOK
        <4>3. nodes[i].key = b.nodes[i].key  BY <1>7, <3>2, <4>1
        <4> QED  BY <1>8, <4>2, <4>3
      <3> QED  BY <3>1, <3>2
    <2> QED  BY <1>3, <1>9, <2>1, <2>2, <2>3 DEF IndexOK
  <1> QED  BY <1>3, <1>8, <1>11, <1>13, <1>14 DEF PoolOK

(* add_order, with or without a node left for it. *)
LEMMA AddPool ==
    ASSUME NEW b, PoolOK(b), NEW ev, ev.order_id \notin DOMAIN b.order_index, NEW r, r = AddOrder(b, ev)
    PROVE  PoolOK(r) /\ DOMAIN r.order_index \subseteq DOMAIN b.order_index \cup {ev.order_id}
  <1> DEFINE s == b.free_list
             idx == s[Len(s)]
             key == ev.order_id
  <1>1. DOMAIN b = BookFields /\ \A i \in DOMAIN b.nodes : DOMAIN b.nodes[i] = NodeFields
    BY DEF PoolOK, NodesOK
  <1>2. ASSUME r = b \/ \E d : r = [b EXCEPT !.dropped_order_inserts = d]
        PROVE  PoolOK(r) /\ DOMAIN r.order_index \subseteq DOMAIN b.order_index
    <2>1. SamePool(r, b)  BY <1>1, <1>2 DEF SamePool, BookFields
    <2>2. PoolOK(r)  BY <2>1, SamePoolOK
    <2> QED  BY <2>1, <2>2 DEF SamePool
  <1>3. CASE ev.side \notin BookSides  BY <1>2, <1>3 DEF AddOrder
  <1>4. CASE s = <<>>
    <2>1. r = b \/ r = [b EXCEPT !.dropped_order_inserts = b.dropped_order_inserts + 1]
      BY <1>4, Zenon DEF AddOrder
    <2> QED  BY <1>2, <2>1
  <1>5. CASE ev.side \in BookSides /\ s # <<>>
    <2> DEFINE o      == OrderRef(ev)
               levels == LevelsOf(b, o)
               is_new == o.price \notin DOMAIN levels
               level  == IF is_new THEN [qty |-> 0, head |-> Null, tail |-> Null] ELSE levels[o.price]
               node   == [order |-> o, key |-> ev.order_id, prev |-> level.tail, next |-> Null,
                          live |-> TRUE]
               tail   == level.tail
               lv     == [b.levels EXCEPT ![o.symbol][o.side] =
                            Extended(@, o.price, [qty  |-> level.qty + o.qty, tail |-> idx,
                                  head |-> IF level.tail = Null THEN idx ELSE level.head])]
               best   == [b.best_price EXCEPT ![o.symbol][o.side] =
                            IF is_new THEN BestPrice(o.side, {o.price} \cup ({@} \ {NoPrice})) ELSE @]
    <2>1. DOMAIN node = NodeFields /\ node.live /\ node.key = key  BY DEF NodeFields
    <2>2. r = [b EXCEPT
                 !.free_list = SubSeq(s, 1, Len(s) - 1),
                 !.nodes = [i \in DOMAIN b.nodes |-> IF i = idx THEN node
                               ELSE IF i = tail THEN [b.nodes[i] EXCEPT !.next = idx]
                               ELSE b.nodes[i]],
                 !.levels = lv, !.best_price = best,
                 !.order_index = Extended(b.order_index, key, idx),
                 !.live_order_count = b.live_order_count + 1]
      BY <1>5, Zenon DEF AddOrder
    <2>3. Entered(r, b, key, node, tail, lv, best)
      <3> HIDE DEF node, tail, lv, best, key
      <3> QED  BY <1>5, <2>1, <2>2, Zenon DEF Entered
    <2> HIDE DEF node, tail, lv, best, key
    <2>4. key \notin DOMAIN b.order_index  BY DEF key
    <2>5. PoolOK(r) /\ DOMAIN r.order_index \subseteq DOMAIN b.order_index \cup {key}
      BY <2>3, <2>4, EnterPool
    <2> QED  BY <2>5 DEF key
  <1> QED  BY <1>3, <1>4, <1>5

(* What reduce_order does to links, quantities and levels is no concern of the pool. *)
LEMMA ReducedPool ==
    ASSUME NEW b, PoolOK(b), NEW idx \in DOMAIN b.nodes, NEW levels, NEW order,
           NEW r, r = [b EXCEPT !.levels = levels, !.nodes[idx].order = order]
    PROVE  SamePool(r, b)
  <1>1. DOMAIN b = BookFields /\ \A i \in DOMAIN b.nodes : DOMAIN b.nodes[i] = NodeFields
    BY DEF PoolOK, NodesOK
  <1>2. DOMAIN r = BookFields /\ r.nodes = [b.nodes EXCEPT ![idx].order = order]
        /\ r.free_list = b.free_list /\ r.order_index = b.order_index
        /\ r.live_order_count = b.live_order_count
    BY <1>1 DEF BookFields
  <1>3. ASSUME NEW i \in DOMAIN b.nodes
        PROVE  /\ DOMAIN r.nodes[i] = NodeFields
               /\ r.nodes[i].live = b.nodes[i].live /\ r.nodes[i].key = b.nodes[i].key
    <2>1. r.nodes[i] = b.nodes[i] \/ r.nodes[i] = [b.nodes[i] EXCEPT !.order = order]  BY <1>2
    <2> QED  BY <1>1, <2>1 DEF NodeFields
  <1> QED  BY <1>2, <1>3 DEF SamePool

(* Unlinking a node changes links only. *)
LEMMA UnlinkPool ==
    ASSUME NEW b, PoolOK(b), NEW idx PROVE SamePool(Unlink(b, idx), b)
  <1> DEFINE r == Unlink(b, idx)
             n == b.nodes[idx]
             nodes == [i \in DOMAIN b.nodes |-> IF i = n.prev THEN [b.nodes[i] EXCEPT !.next = n.next]
                                                ELSE IF i = n.next THEN [b.nodes[i] EXCEPT !.prev = n.prev]
                                                ELSE b.nodes[i]]
  <1>1. DOMAIN b = BookFields /\ \A i \in DOMAIN b.nodes : DOMAIN b.nodes[i] = NodeFields
    BY DEF PoolOK, NodesOK
  <1>2. \E y : r = [b EXCEPT !.nodes = nodes, !.levels = y]
    <2> DEFINE o == n.order
               y == [b.levels EXCEPT ![o.symbol][o.side][o.price] =
                        [@ EXCEPT !.head = IF n.prev = Null THEN n.next ELSE @,
                                  !.tail = IF n.next = Null THEN n.prev ELSE @]]
    <2>1. r = [b EXCEPT !.nodes = nodes, !.levels = y]  BY Zenon DEF Unlink
    <2> HIDE DEF r, nodes, y
    <2> QED  BY <2>1
  <1>3. ASSUME NEW i \in DOMAIN b.nodes
        PROVE  /\ DOMAIN nodes[i] = NodeFields
               /\ nodes[i].live = b.nodes[i].live /\ nodes[i].key = b.nodes[i].key
    <2> DEFINE p == n.prev  x == n.next
    <2>1. \/ nodes[i] = b.nodes[i] \/ nodes[i] = [b.nodes[i] EXCEPT !.next = x]
          \/ nodes[i] = [b.nodes[i] EXCEPT !.prev = p]
      BY DEF p, x
    <2>2. DOMAIN b.nodes[i] = NodeFields  BY <1>1
    <2> HIDE DEF nodes, p, x
    <2> QED  BY <2>1, <2>2 DEF NodeFields
  <1>4. DOMAIN nodes = DOMAIN b.nodes  OBVIOUS
  <1> HIDE DEF r, nodes, n
  <1>5. SamePool(r, b)  BY <1>1, <1>2, <1>3, <1>4 DEF SamePool, BookFields
  <1> QED  BY <1>5 DEF r

(* remove_level_if_empty touches no node. *)
LEMMA RemoveLevelPool ==
    ASSUME NEW b, PoolOK(b), NEW o PROVE SamePool(RemoveLevelIfEmpty(b, o), b)
  <1> DEFINE r == RemoveLevelIfEmpty(b, o)
             levels == LevelsOf(b, o)
             left   == Restricted(levels, DOMAIN levels \ {o.price})
             x == [b.levels EXCEPT ![o.symbol][o.side] = left]
             y == [b.best_price EXCEPT ![o.symbol][o.side] =
                          IF @ = o.price
                          THEN BestPrice(o.side, {p \in DOMAIN left : left[p].qty # 0}) ELSE @]
  <1>1. DOMAIN b = BookFields /\ \A i \in DOMAIN b.nodes : DOMAIN b.nodes[i] = NodeFields
    BY DEF PoolOK, NodesOK
  <1>2. r = b \/ r = [b EXCEPT !.levels = x, !.best_price = y]
    BY Zenon DEF RemoveLevelIfEmpty
  <1> HIDE DEF r, x, y
  <1>3. SamePool(r, b)  BY <1>1, <1>2 DEF SamePool, BookFields
  <1> QED  BY <1>3 DEF r

(* reduce_order keeps the order or gives its node back; a delete always gives it
   back. *)
LEMMA ReducePool ==
    ASSUME NEW b, PoolOK(b), NEW key, NEW qty, NEW all \in BOOLEAN, NEW r,
           r = ReduceOrder(b, key, qty, all)
    PROVE  /\ PoolOK(r) /\ DOMAIN r.order_index \subseteq DOMAIN b.order_index
           /\ all => key \notin DOMAIN r.order_index
  <1>1. CASE key \notin DOMAIN b.order_index
    <2>1. r = b  BY <1>1, Zenon DEF ReduceOrder
    <2> QED  BY <1>1, <2>1
  <1>2. CASE key \in DOMAIN b.order_index
    <2> DEFINE idx == b.order_index[key]
               o   == b.nodes[idx].order
               dec == IF all \/ qty = 0 \/ qty > o.qty THEN o.qty ELSE qty
               levels == [b.levels EXCEPT ![o.symbol][o.side][o.price].qty =
                                              IF @ > dec THEN @ - dec ELSE 0]
               order == [o EXCEPT !.qty = @ - dec]
               reduced == [b EXCEPT !.levels = levels, !.nodes[idx].order = order]
               unlinked == Unlink(reduced, idx)
               released == ReleaseNode(Forget(unlinked, key), idx)
    <2>1. idx \in DOMAIN b.nodes  BY <1>2 DEF PoolOK, IndexOK, LiveNodes
    <2>2. \/ r = ReleaseNode(Forget(b, key), idx)
          \/ r = RemoveLevelIfEmpty(released, o)
          \/ r = reduced /\ ~all
      BY <1>2, Zenon DEF ReduceOrder
    <2>3. CASE r = ReleaseNode(Forget(b, key), idx)
      <3> HIDE DEF idx
      <3>1. idx = b.order_index[key]  BY DEF idx
      <3>2. PoolOK(r) /\ DOMAIN r.order_index = DOMAIN b.order_index \ {key}
        BY <1>2, <2>3, <3>1, ReleasePool
      <3> QED  BY <3>2
    <2> HIDE DEF levels, order
    <2>4. SamePool(reduced, b) /\ PoolOK(reduced)
      <3>1. SamePool(reduced, b)  BY <2>1, ReducedPool
      <3> QED  BY <3>1, SamePoolOK
    <2>5. CASE r = reduced /\ ~all  BY <2>4, <2>5 DEF SamePool
    <2> HIDE DEF reduced
    <2>6. SamePool(unlinked, b) /\ PoolOK(unlinked)
      <3>1. SamePool(unlinked, reduced)  BY <2>4, UnlinkPool
      <3> HIDE DEF unlinked
      <3>2. SamePool(unlinked, b)  BY <2>4, <3>1, SamePoolTwice
      <3> QED  BY <3>2, SamePoolOK
    <2> HIDE DEF unlinked
    <2>7. unlinked.order_index = b.order_index  BY <2>6 DEF SamePool
    <2>8. PoolOK(released) /\ DOMAIN released.order_index = DOMAIN b.order_index \ {key}
      <3> HIDE DEF idx
      <3>1. idx = unlinked.order_index[key] /\ key \in DOMAIN unlinked.order_index
        BY <1>2, <2>7 DEF idx
      <3> QED  BY <2>6, <2>7, <3>1, ReleasePool
    <2> HIDE DEF released
    <2>9. CASE r = RemoveLevelIfEmpty(released, o)
      <3>1. SamePool(r, released)  BY <2>8, <2>9, RemoveLevelPool
      <3>2. PoolOK(r)  BY <2>8, <3>1, SamePoolOK
      <3> QED  BY <2>8, <3>1, <3>2 DEF SamePool
    <2> QED  BY <2>2, <2>3, <2>5, <2>9
  <1> QED  BY <1>1, <1>2

(* A replaced order leaves the index before its successor enters it, so the   *)
(* successor may keep its id.                                                *)
LEMMA ReplacePool ==
    ASSUME NEW b, PoolOK(b), NEW ev, DOMAIN ev = {"type", "order_id", "reference_order_id",
                                                  "symbol", "side", "price", "qty"},
           ev.order_id \in DOMAIN b.order_index => ev.order_id = ev.reference_order_id,
           NEW r, r = ReplaceOrder(b, ev)
    PROVE  PoolOK(r) /\ DOMAIN r.order_index \subseteq DOMAIN b.order_index \cup {ev.order_id}
  <1> DEFINE old == ev.reference_order_id
  <1>1. CASE old \notin DOMAIN b.order_index
    <2>1. r = AddOrder(b, ev)  BY <1>1, Zenon DEF ReplaceOrder
    <2> QED  BY <1>1, <2>1, AddPool
  <1>2. CASE old \in DOMAIN b.order_index
    <2> DEFINE x == ReduceOrder(b, old, 0, TRUE)
               side == IF ev.side = "Unknown" THEN b.nodes[b.order_index[old]].order.side ELSE ev.side
               sided == [ev EXCEPT !.side = side]
    <2>1. r = AddOrder(x, sided)  BY <1>2, Zenon DEF ReplaceOrder
    <2> HIDE DEF side, x
    <2>2. sided.order_id = ev.order_id  OBVIOUS
    <2> HIDE DEF sided
    <2>3. PoolOK(x) /\ DOMAIN x.order_index \subseteq DOMAIN b.order_index /\ old \notin DOMAIN x.order_index
      <3>1. x = ReduceOrder(b, old, 0, TRUE)  BY DEF x
      <3> HIDE DEF old
      <3>2. TRUE \in BOOLEAN  OBVIOUS
      <3> QED  BY <3>1, <3>2, ReducePool
    <2>4. sided.order_id \notin DOMAIN x.order_index  BY <2>2, <2>3
    <2>5. PoolOK(r) /\ DOMAIN r.order_index \subseteq DOMAIN x.order_index \cup {sided.order_id}
      BY <2>1, <2>3, <2>4, AddPool
    <2> QED  BY <2>2, <2>3, <2>5
  <1> QED  BY <1>1, <1>2

(* on_event: an Add must bring a new key, a Replace a new one or the old one. *)
LEMMA OnEventPool ==
    ASSUME NEW b, PoolOK(b), NEW ev, DOMAIN ev = {"type", "order_id", "reference_order_id",
                                                  "symbol", "side", "price", "qty"},
           ev.type = "Add" => ev.order_id \notin DOMAIN b.order_index,
           ev.type = "Replace" /\ ev.order_id \in DOMAIN b.order_index =>
               ev.order_id = ev.reference_order_id,
           NEW r, r = IntrusiveOnEvent(b, ev)
    PROVE  /\ PoolOK(r)
           /\ DOMAIN r.order_index \subseteq
                DOMAIN b.order_index \cup (IF ev.type \in {"Add", "Replace"} THEN {ev.order_id} ELSE {})
  <1>1. CASE ev.type = "Add"
    <2>1. r = b \/ r = AddOrder(b, ev)  BY <1>1, SMT DEF IntrusiveOnEvent, Reductions
    <2>2. CASE r = b  BY <2>2
    <2>3. CASE r = AddOrder(b, ev)
      <3>1. PoolOK(r) /\ DOMAIN r.order_index \subseteq DOMAIN b.order_index \cup {ev.order_id}
        BY <1>1, <2>3, AddPool
      <3> QED  BY <1>1, <3>1
    <2> QED  BY <2>1, <2>2, <2>3
  <1>2. CASE ev.type = "Replace"
    <2>1. r = ReplaceOrder(b, ev)  BY <1>2, SMT DEF IntrusiveOnEvent, Reductions
    <2>2. PoolOK(r) /\ DOMAIN r.order_index \subseteq DOMAIN b.order_index \cup {ev.order_id}
      BY <1>2, <2>1, ReplacePool
    <2> QED  BY <1>2, <2>2
  <1>3. CASE ev.type \notin {"Add", "Replace"}
    <2>1. \/ r = ReduceOrder(b, ev.order_id, ev.qty, ev.type = "Delete")
          \/ r = b
      BY <1>3, SMT DEF IntrusiveOnEvent, Reductions
    <2>2. CASE r = ReduceOrder(b, ev.order_id, ev.qty, ev.type = "Delete")
      <3> DEFINE all == ev.type = "Delete"
      <3>1. all \in BOOLEAN  OBVIOUS
      <3>2. r = ReduceOrder(b, ev.order_id, ev.qty, all)  BY <2>2
      <3> HIDE DEF all
      <3>3. PoolOK(r) /\ DOMAIN r.order_index \subseteq DOMAIN b.order_index
        BY <3>1, <3>2, ReducePool
      <3> QED  BY <3>3
    <2>3. CASE r = b  BY <2>3
    <2> QED  BY <2>1, <2>2, <2>3
  <1> QED  BY <1>1, <1>2, <1>3

(* The intrusive book's pool, and where the keys of its index come from.      *)
PoolInv == PoolOK(intrusive) /\ DOMAIN intrusive.order_index \subseteq used

(* The constructor: every node is free. *)
LEMMA NewPool ==
    ASSUME NEW c \in Nat, NEW b, b = NewIntrusive(c)
    PROVE  PoolOK(b) /\ DOMAIN b.order_index = {}
  <1> DEFINE N == 0 .. c - 1
             s == [i \in 1 .. c |-> c - i]
  <1>1. /\ DOMAIN b = BookFields /\ b.nodes = [i \in N |-> NoNode] /\ b.free_list = s
        /\ DOMAIN b.order_index = {} /\ b.live_order_count = 0
    BY DEF NewIntrusive, BookFields
  <1>2. IsFiniteSet(N) /\ Cardinality(N) = c
    <2>1. 0 \in Int /\ c - 1 \in Int  OBVIOUS
    <2>2. IsFiniteSet(N) /\ Cardinality(N) = IF 0 > c - 1 THEN 0 ELSE (c - 1) - 0 + 1
      BY <2>1, FS_Interval
    <2> QED  BY <2>2
  <1>3. DOMAIN NoNode = NodeFields /\ ~NoNode.live  BY DEF NoNode, NodeFields
  <1>4. DOMAIN b.nodes = N /\ \A i \in N : b.nodes[i] = NoNode  BY <1>1
  <1>5. LiveNodes(b) = {}  BY <1>3, <1>4 DEF LiveNodes
  <1>6. FreeNodes(b) = N  BY <1>4, <1>5 DEF FreeNodes
  <1>7. NodesOK(b)  BY <1>1, <1>2, <1>3, <1>4 DEF NodesOK
  <1>8. FreeOK(b)
    <2>1. s \in Seq(N) /\ Len(s) = c /\ DOMAIN s = 1 .. c  OBVIOUS
    <2>2. \A i, j \in 1 .. c : s[i] = s[j] => i = j  OBVIOUS
    <2>3. ASSUME NEW n \in N PROVE \E i \in 1 .. c : s[i] = n
      <3>1. c - n \in 1 .. c /\ s[c - n] = n  OBVIOUS
      <3> QED  BY <3>1
    <2> HIDE DEF s, N
    <2> QED  BY <1>1, <1>2, <1>6, <2>1, <2>2, <2>3 DEF FreeOK
  <1>9. IndexOK(b)
    <2>1. Cardinality({}) = 0  BY FS_EmptySet
    <2> QED  BY <1>1, <1>5, <2>1 DEF IndexOK
  <1> QED  BY <1>1, <1>7, <1>8, <1>9 DEF PoolOK

(* The pool at the start, whatever its size. *)
LEMMA PoolInit == ParityInit => PoolInv
  <1> SUFFICES ASSUME ParityInit PROVE PoolInv  OBVIOUS
  <1>1. PICK c \in OrderCapacities : intrusive = NewIntrusive(c)  BY DEF ParityInit
  <1>2. c \in Nat  BY FeedAssumption
  <1>3. PoolOK(intrusive) /\ DOMAIN intrusive.order_index = {}  BY <1>1, <1>2, NewPool
  <1> QED  BY <1>3 DEF PoolInv

(* One message, delivered or lost. *)
LEMMA DeliverPool ==
    ASSUME PoolInv, NEW type, NEW id, NEW ref, NEW o, NEW qty, Deliver(Event(type, id, ref, o, qty)),
           used \subseteq used',
           type \in {"Add", "Replace"} => id \in used',
           type = "Add" => id \notin used,
           type = "Replace" => id = ref \/ id \notin used
    PROVE  PoolInv'
  <1> DEFINE ev == Event(type, id, ref, o, qty)
             pe == Parsed(ev)
  <1>1. /\ DOMAIN pe = {"type", "order_id", "reference_order_id", "symbol", "side", "price", "qty"}
        /\ pe.type = type /\ pe.order_id = id /\ pe.reference_order_id = ref
    BY DEF Parsed, Event
  <1>2. intrusive' = IntrusiveOnEvent(intrusive, pe) \/ intrusive' = intrusive
    BY Zenon DEF Deliver
  <1> HIDE DEF pe
  <1>3. PoolOK(intrusive) /\ DOMAIN intrusive.order_index \subseteq used  BY DEF PoolInv
  <1>4. CASE intrusive' = IntrusiveOnEvent(intrusive, pe)
    <2>1. pe.type = "Add" => pe.order_id \notin DOMAIN intrusive.order_index  BY <1>1, <1>3
    <2>2. pe.type = "Replace" /\ pe.order_id \in DOMAIN intrusive.order_index =>
            pe.order_id = pe.reference_order_id
      BY <1>1, <1>3
    <2>3. /\ PoolOK(intrusive')
          /\ DOMAIN intrusive'.order_index \subseteq DOMAIN intrusive.order_index
               \cup (IF pe.type \in {"Add", "Replace"} THEN {pe.order_id} ELSE {})
      BY <1>1, <1>3, <1>4, <2>1, <2>2, OnEventPool
    <2>4. PoolOK(intrusive)'  BY <2>3 DEF PoolOK, NodesOK, FreeOK, IndexOK, FreeNodes, LiveNodes
    <2> QED  BY <1>1, <1>3, <2>3, <2>4 DEF PoolInv
  <1>5. CASE intrusive' = intrusive
    <2>1. PoolOK(intrusive)'  BY <1>3, <1>5 DEF PoolOK, NodesOK, FreeOK, IndexOK, FreeNodes, LiveNodes
    <2> QED  BY <1>3, <1>5, <2>1 DEF PoolInv
  <1> QED  BY <1>2, <1>4, <1>5

(* Every message leaves the pool well kept: the exchange never gives out an id
   twice, so an Add cannot find its key in the index, even when the message that
   would have removed it was lost. *)
LEMMA PoolStep == PoolInv /\ [ParityNext]_parityVars => PoolInv'
  <1> SUFFICES ASSUME PoolInv, [ParityNext]_parityVars PROVE PoolInv'  OBVIOUS
  <1>1. CASE AddMessage
    <2>1. PICK id \in Fresh, symbol \in Symbols, side \in Sides, price \in Prices, qty \in Qtys :
             /\ used' = used \cup {id}
             /\ Deliver(Event("Add", id, 0, Order(id, symbol, side, price, qty), qty))
      BY <1>1, Zenon DEF AddMessage
    <2>2. id \notin used  BY DEF Fresh
    <2> QED  BY <2>1, <2>2, DeliverPool
  <1>2. CASE ReduceMessage
    <2>1. PICK o, qty : UNCHANGED used /\ Deliver(Event("Execute", o.id, 0, o, qty))
      BY <1>2, Zenon DEF ReduceMessage
    <2> QED  BY <2>1, DeliverPool
  <1>3. CASE DeleteMessage
    <2>1. PICK i \in DOMAIN exchange, type \in {"Delete", "Cancel"} :
            UNCHANGED used /\ Deliver(Event(type, exchange[i].id, 0, exchange[i], 0))
      BY <1>3, Zenon DEF DeleteMessage
    <2> QED  BY <2>1, DeliverPool
  <1>4. CASE ReplaceMessage
    <2>1. PICK i \in DOMAIN exchange, price \in Prices, qty \in Qtys :
            \E id \in Fresh \cup (IF Feed = "Full" THEN {exchange[i].id} ELSE {}) :
              /\ used' = used \cup {id}
              /\ Deliver(Event("Replace", id, exchange[i].id,
                               Order(id, exchange[i].symbol, exchange[i].side, price, qty), qty))
      BY <1>4, Zenon DEF ReplaceMessage
    <2>2. PICK id \in Fresh \cup {exchange[i].id} :
              /\ used' = used \cup {id}
              /\ Deliver(Event("Replace", id, exchange[i].id,
                               Order(id, exchange[i].symbol, exchange[i].side, price, qty), qty))
      BY <2>1
    <2>3. id \notin used \/ id = exchange[i].id  BY DEF Fresh
    <2> QED  BY <2>2, <2>3, DeliverPool
  <1>5. CASE UNCHANGED parityVars
    BY <1>5 DEF parityVars, PoolInv, PoolOK, NodesOK, FreeOK, IndexOK, FreeNodes, LiveNodes
  <1> QED  BY <1>1, <1>2, <1>3, <1>4, <1>5 DEF ParityNext

(* What PoolAccounted says of the pool. *)
LEMMA PoolInvAccounts == PoolInv => PoolAccounted
  <1> SUFFICES ASSUME PoolInv PROVE PoolAccounted  OBVIOUS
  <1> DEFINE b == intrusive
             L == LiveNodes(b)
             F == FreeNodes(b)
  <1>1. FreeOK(b) /\ IndexOK(b)  BY DEF PoolInv, PoolOK
  <1>2. ToSet(b.free_list) = F
    <2>1. b.free_list \in Seq(F)  BY <1>1 DEF FreeOK
    <2>2. \A i \in DOMAIN b.free_list : b.free_list[i] \in F  BY <2>1
    <2>3. \A n \in F : \E i \in DOMAIN b.free_list : b.free_list[i] = n  BY <1>1 DEF FreeOK
    <2> QED  BY <2>2, <2>3 DEF ToSet
  <1>3. {b.order_index[k] : k \in DOMAIN b.order_index} = L
    <2>1. \A k \in DOMAIN b.order_index : b.order_index[k] \in L  BY <1>1 DEF IndexOK
    <2>2. \A i \in L : \E k \in DOMAIN b.order_index : b.order_index[k] = i  BY <1>1 DEF IndexOK
    <2> QED  BY <2>1, <2>2
  <1>4. /\ Len(b.free_list) = Cardinality(F) /\ b.live_order_count = Cardinality(L)
        /\ \A k \in DOMAIN b.order_index : b.nodes[b.order_index[k]].key = k
    BY <1>1 DEF FreeOK, IndexOK
  <1> QED  BY <1>2, <1>3, <1>4, Zenon DEF PoolAccounted, LiveNodes, FreeNodes

(* allocate_node, release_node and order_index: for every size of pool, through
   exhaustion, lost messages and replacements under the same id, no node is lost or
   handed out twice, and each live one is found under its own key and no other. *)
THEOREM PoolStaysAccounted == ParitySpec => []PoolAccounted
  <1>1. ParityInit => PoolInv  BY PoolInit
  <1>2. PoolInv /\ [ParityNext]_parityVars => PoolInv'  BY PoolStep
  <1>3. PoolInv => PoolAccounted  BY PoolInvAccounts
  <1> QED  BY <1>1, <1>2, <1>3, PTL DEF ParitySpec
==============================================================================
