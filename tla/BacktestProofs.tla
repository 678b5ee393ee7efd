---------------------------- MODULE BacktestProofs ----------------------------
(***************************************************************************)
(* Proofs about the backtest and the experiments: the records of the orders  *)
(* agree, the OfiStrategy keeps its limit, no flow is lost and the profit      *)
(* that is booked is cash, for every tape and configuration.                  *)
(*                                                                          *)
(* A strategy has at most one order on each side of a symbol, so a print      *)
(* fills at most one: the folds of the model over books and fills are folds   *)
(* over at most one element. The rest is the sum of a window that slides, and *)
(* the loop that closes the buckets; and for the profit the arithmetic of      *)
(* fractions, each known by a product that cancels.                          *)
(***************************************************************************)
EXTENDS Experiment, ArithmeticLemmas, FiniteSetTheorems, SequenceTheorems, TLAPS

LEMMA MinOfTwo ==
    ASSUME NEW a \in Int, NEW b \in Int PROVE Min({a, b}) = IF a <= b THEN a ELSE b
  <1> DEFINE m == IF a <= b THEN a ELSE b
  <1>1. m \in {a, b} /\ \A y \in {a, b} : m <= y  OBVIOUS
  <1>2. \A x \in {a, b} : (\A y \in {a, b} : x <= y) => x = m  OBVIOUS
  <1> QED  BY <1>1, <1>2 DEF Min

(* Folds over at most one element. *)

LEMMA NoFills == ASSUME NEW m PROVE FoldLeft(OnFill, m, <<>>) = m
  <1> DEFINE It == [x \in SUBSET (DOMAIN <<>>) |-> m]
             Step(f) == [x \in SUBSET (DOMAIN <<>>) |->
                           IF x = {} THEN m ELSE OnFill(f[x \ {Max(x)}], <<>>[Max(x)])]
             Chosen == CHOOSE f : f = Step(f)
  <1>0. DOMAIN <<>> = {}  OBVIOUS
  <1>1. It = Step(It)  BY <1>0
  <1>2. Chosen = Step(Chosen)  BY <1>1
  <1>3. Chosen[{}] = m  BY <1>0, <1>2
  <1> QED  BY <1>0, <1>3 DEF FoldLeft, MapThenFoldSet

LEMMA EmptyQty == QtyOf(<<>>) = 0
  <1> DEFINE Step(f) == [x \in SUBSET (DOMAIN <<>>) |->
                           IF x = {} THEN 0 ELSE f[x \ {Max(x)}] + <<>>[Max(x)].qty]
             It == [x \in SUBSET (DOMAIN <<>>) |-> 0]
             Chosen == CHOOSE f : f = Step(f)
  <1>0. DOMAIN <<>> = {}  OBVIOUS
  <1>1. It = Step(It)  BY <1>0
  <1>2. Chosen = Step(Chosen)  BY <1>1
  <1>3. Chosen[{}] = 0  BY <1>0, <1>2
  <1> QED  BY <1>0, <1>3 DEF QtyOf, FoldLeft, MapThenFoldSet

LEMMA MaxOfOne == Max({1}) = 1  BY DEF Max

LEMMA OneFill == ASSUME NEW m, NEW fill PROVE FoldLeft(OnFill, m, <<fill>>) = OnFill(m, fill)
  <1> DEFINE D == DOMAIN <<fill>>
             It == [x \in SUBSET D |-> IF x = {} THEN m ELSE OnFill(m, fill)]
             Step(f) == [x \in SUBSET D |->
                           IF x = {} THEN m ELSE OnFill(f[x \ {Max(x)}], <<fill>>[Max(x)])]
             Chosen == CHOOSE f : f = Step(f)
  <1>0. D = {1} /\ <<fill>>[1] = fill  OBVIOUS
  <1>1. SUBSET D = {{}, {1}} /\ {1} \ {1} = {}  BY <1>0
  <1>2. It[{}] = m /\ It[{1}] = OnFill(It[{1} \ {Max({1})}], <<fill>>[Max({1})])
    BY <1>0, <1>1, MaxOfOne
  <1>3. It = Step(It)
    <2>1. ASSUME NEW x \in SUBSET D
          PROVE  It[x] = IF x = {} THEN m ELSE OnFill(It[x \ {Max(x)}], <<fill>>[Max(x)])
      BY <1>1, <1>2
    <2> QED  BY <2>1, Zenon
  <1>4. Chosen = Step(Chosen)  BY <1>3
  <1>a. Chosen[{}] = m  BY <1>1, <1>4
  <1>b. Chosen[{1}] = OnFill(Chosen[{1} \ {Max({1})}], <<fill>>[Max({1})])
    BY <1>1, <1>4, Zenon
  <1>5. Chosen[{1}] = OnFill(Chosen[{}], fill)  BY <1>0, <1>1, <1>b, MaxOfOne
  <1>6. Chosen[D] = OnFill(m, fill)  BY <1>0, <1>a, <1>5
  <1> QED  BY <1>6 DEF FoldLeft, MapThenFoldSet

LEMMA NoFillsExperiment == ASSUME NEW m PROVE FoldLeft(ExperimentOnFill, m, <<>>) = m
  <1> DEFINE It == [x \in SUBSET (DOMAIN <<>>) |-> m]
             Step(f) == [x \in SUBSET (DOMAIN <<>>) |->
                           IF x = {} THEN m ELSE ExperimentOnFill(f[x \ {Max(x)}], <<>>[Max(x)])]
             Chosen == CHOOSE f : f = Step(f)
  <1>0. DOMAIN <<>> = {}  OBVIOUS
  <1>1. It = Step(It)  BY <1>0
  <1>2. Chosen = Step(Chosen)  BY <1>1
  <1>3. Chosen[{}] = m  BY <1>0, <1>2
  <1> QED  BY <1>0, <1>3 DEF FoldLeft, MapThenFoldSet

LEMMA OneFillExperiment ==
    ASSUME NEW m, NEW fill
    PROVE  FoldLeft(ExperimentOnFill, m, <<fill>>) = ExperimentOnFill(m, fill)
  <1> DEFINE D == DOMAIN <<fill>>
             It == [x \in SUBSET D |-> IF x = {} THEN m ELSE ExperimentOnFill(m, fill)]
             Step(f) == [x \in SUBSET D |->
                           IF x = {} THEN m ELSE ExperimentOnFill(f[x \ {Max(x)}], <<fill>>[Max(x)])]
             Chosen == CHOOSE f : f = Step(f)
  <1>0. D = {1} /\ <<fill>>[1] = fill  OBVIOUS
  <1>1. SUBSET D = {{}, {1}} /\ {1} \ {1} = {}  BY <1>0
  <1>2. It[{}] = m /\ It[{1}] = ExperimentOnFill(It[{1} \ {Max({1})}], <<fill>>[Max({1})])
    BY <1>0, <1>1, MaxOfOne
  <1>3. It = Step(It)
    <2>1. ASSUME NEW x \in SUBSET D
          PROVE  It[x] = IF x = {} THEN m ELSE ExperimentOnFill(It[x \ {Max(x)}], <<fill>>[Max(x)])
      BY <1>1, <1>2
    <2> QED  BY <2>1, Zenon
  <1>4. Chosen = Step(Chosen)  BY <1>3
  <1>a. Chosen[{}] = m  BY <1>1, <1>4
  <1>b. Chosen[{1}] = ExperimentOnFill(Chosen[{1} \ {Max({1})}], <<fill>>[Max({1})])
    BY <1>1, <1>4, Zenon
  <1>5. Chosen[{1}] = ExperimentOnFill(Chosen[{}], fill)  BY <1>0, <1>1, <1>b, MaxOfOne
  <1>6. Chosen[D] = ExperimentOnFill(m, fill)  BY <1>0, <1>a, <1>5
  <1> QED  BY <1>6 DEF FoldLeft, MapThenFoldSet

LEMMA OneQty == ASSUME NEW o, o.qty \in Nat PROVE QtyOf(<<o>>) = o.qty
  <1> DEFINE D == DOMAIN <<o>>
             It == [x \in SUBSET D |-> IF x = {} THEN 0 ELSE 0 + o.qty]
             Step(f) == [x \in SUBSET D |->
                           IF x = {} THEN 0 ELSE f[x \ {Max(x)}] + <<o>>[Max(x)].qty]
             Chosen == CHOOSE f : f = Step(f)
  <1>0. D = {1} /\ <<o>>[1] = o  OBVIOUS
  <1>1. SUBSET D = {{}, {1}} /\ {1} \ {1} = {}  BY <1>0
  <1>2. It[{}] = 0 /\ It[{1}] = It[{1} \ {Max({1})}] + <<o>>[Max({1})].qty
    BY <1>0, <1>1, MaxOfOne
  <1>3. It = Step(It)
    <2>1. ASSUME NEW x \in SUBSET D
          PROVE  It[x] = IF x = {} THEN 0 ELSE It[x \ {Max(x)}] + <<o>>[Max(x)].qty
      BY <1>1, <1>2
    <2> QED  BY <2>1, Zenon
  <1>4. Chosen = Step(Chosen)  BY <1>3
  <1>a. Chosen[{}] = 0  BY <1>1, <1>4
  <1>b. Chosen[{1}] = Chosen[{1} \ {Max({1})}] + <<o>>[Max({1})].qty
    BY <1>1, <1>4, Zenon
  <1>5. Chosen[{1}] = Chosen[{}] + o.qty  BY <1>0, <1>1, <1>b, MaxOfOne
  <1>6. Chosen[D] = 0 + o.qty  BY <1>0, <1>a, <1>5
  <1>7. QtyOf(<<o>>) = Chosen[D]  BY DEF QtyOf, FoldLeft, MapThenFoldSet
  <1> QED  BY <1>6, <1>7

(* What the operations of the engine do on a book of one order. *)

LEMMA InsertIntoNone ==
    ASSUME NEW o, NEW side
    PROVE  InsertAt(<<>>, 1 + Cardinality({i \in DOMAIN <<>> : ~BetterOrder(side, o, <<>>[i])}), o) = <<o>>
  <1>1. {i \in DOMAIN <<>> : ~BetterOrder(side, o, <<>>[i])} = {}  OBVIOUS
  <1>2. Cardinality({i \in DOMAIN <<>> : ~BetterOrder(side, o, <<>>[i])}) = 0
    BY <1>1, FS_EmptySet
  <1>3. SubSeq(<<>>, 1, (1 + 0) - 1) = <<>> /\ SubSeq(<<>>, 1 + 0, Len(<<>>)) = <<>>  OBVIOUS
  <1>4. (<<>> \o <<o>>) \o <<>> = <<o>>  OBVIOUS
  <1>5. InsertAt(<<>>, 1 + 0, o) = <<o>>  BY <1>3, <1>4, Zenon DEF InsertAt
  <1> QED  BY <1>2, <1>5

LEMMA RemoveTheOne == ASSUME NEW o PROVE RemoveAt(<<o>>, 1) = <<>>
  BY DEF RemoveAt

LEMMA PlaceOfTheOne ==
    ASSUME NEW o PROVE PlaceOf(<<o>>, o.id) = 1 /\ Rests(<<o>>, o.id)
  <1>1. DOMAIN <<o>> = {1} /\ <<o>>[1] = o  OBVIOUS
  <1> QED  BY <1>1 DEF PlaceOf, Rests

(* The fill of an order by q shares of a print. *)
FillBy(o, ev, q) ==
    [id |-> o.id, symbol |-> ev.symbol, side |-> FilledSide(ev), price |-> ev.price,
     qty |-> q, partial |-> q < o.qty]

LEMMA BudgetNat == ASSUME NEW ev, ev.qty \in Nat PROVE FillBudget(ev) \in Nat
  BY EngineAssumption, DivMod DEF FillBudget

(* A print fills nothing in an empty book. *)
LEMMA FillsOfNone ==
    ASSUME NEW e, NEW ev, e.books[ev.symbol][FilledSide(ev)] = <<>>
    PROVE  FillsOf(e, ev) = <<>>
  <1> DEFINE budget == IF ev.type \in Prints /\ ev.side \in OrderSides THEN FillBudget(ev) ELSE 0
             take(i) == Taken(<<>>, FilledSide(ev), ev.price, budget, i)
             hit == {i \in DOMAIN <<>> : take(i) > 0}
             fill(i) == [id |-> <<>>[i].id, symbol |-> ev.symbol, side |-> FilledSide(ev),
                         price |-> ev.price, qty |-> take(i), partial |-> take(i) < <<>>[i].qty]
  <1>1. hit = {}  OBVIOUS
  <1>2. Cardinality(hit) = 0  BY <1>1, FS_EmptySet
  <1>3. FillsOf(e, ev) = [i \in 1 .. Cardinality(hit) |-> fill(i)]  BY Zenon DEF FillsOf
  <1>4. FillsOf(e, ev) = [i \in 1 .. 0 |-> fill(i)]  BY <1>2, <1>3
  <1> HIDE DEF fill
  <1> QED  BY <1>4

(* A print fills the only order of a book by some of its shares, or not. *)
LEMMA FillsOfTheOne ==
    ASSUME NEW e, NEW ev, ev.qty \in Nat, NEW o, o.qty \in Nat \ {0},
           e.books[ev.symbol][FilledSide(ev)] = <<o>>
    PROVE  \/ FillsOf(e, ev) = <<>>
           \/ \E q \in 1 .. o.qty : FillsOf(e, ev) = <<FillBy(o, ev, q)>>
  <1> DEFINE budget == IF ev.type \in Prints /\ ev.side \in OrderSides THEN FillBudget(ev) ELSE 0
             take(i) == Taken(<<o>>, FilledSide(ev), ev.price, budget, i)
             hit == {i \in DOMAIN <<o>> : take(i) > 0}
             fill(i) == [id |-> <<o>>[i].id, symbol |-> ev.symbol, side |-> FilledSide(ev),
                         price |-> ev.price, qty |-> take(i), partial |-> take(i) < <<o>>[i].qty]
  <1>0. budget \in Nat  BY BudgetNat
  <1>1. DOMAIN <<o>> = {1} /\ <<o>>[1] = o /\ SubSeq(<<o>>, 1, 1 - 1) = <<>>  OBVIOUS
  <1>2. FillsOf(e, ev) = [i \in 1 .. Cardinality(hit) |-> fill(i)]  BY Zenon DEF FillsOf
  <1>3. take(1) \in 0 .. o.qty
    <2> HIDE DEF budget
    <2>1. QtyOf(SubSeq(<<o>>, 1, 1 - 1)) = 0  BY <1>1, EmptyQty
    <2> DEFINE ahead == QtyOf(SubSeq(<<o>>, 1, 1 - 1))
               beyond == \E j \in 1 .. 1 : ~Reaches(FilledSide(ev), <<o>>[j], ev.price)
    <2>a. take(1) = IF beyond \/ budget <= ahead THEN 0 ELSE Min({<<o>>[1].qty, budget - ahead})
      BY Zenon DEF Taken
    <2> HIDE DEF ahead, beyond, take
    <2>b. ahead = 0  BY <2>1 DEF ahead
    <2>2. take(1) = 0 \/ (budget > 0 /\ take(1) = Min({o.qty, budget - 0}))
      BY <1>0, <1>1, <2>a, <2>b
    <2>3. budget > 0 => Min({o.qty, budget - 0}) \in 1 .. o.qty  BY <1>0, MinOfTwo
    <2> QED  BY <2>2, <2>3
  <1>4. CASE take(1) = 0
    <2>1. hit = {}  BY <1>1, <1>4
    <2>2. FillsOf(e, ev) = [i \in 1 .. 0 |-> fill(i)]  BY <1>2, <2>1, FS_EmptySet
    <2> HIDE DEF fill
    <2> QED  BY <2>2
  <1>5. CASE take(1) # 0
    <2>1. hit = {1}  BY <1>1, <1>3, <1>5
    <2>2. Cardinality(hit) = 1  BY <2>1, FS_Singleton
    <2>3. FillsOf(e, ev) = [i \in 1 .. 1 |-> fill(i)]  BY <1>2, <2>2
    <2>4. fill(1) = FillBy(o, ev, take(1))  BY <1>1 DEF FillBy
    <2> HIDE DEF fill
    <2>5. FillsOf(e, ev) = <<fill(1)>>  BY <2>3
    <2> HIDE DEF take
    <2>6. take(1) \in 1 .. o.qty  BY <1>3, <1>5
    <2> QED  BY <2>4, <2>5, <2>6
  <1> QED  BY <1>4, <1>5

(* How the records of the orders change together. *)

(* They agree as well on strategies whose quotes are the same. *)
LEMMA KeepQuotes ==
    ASSUME NEW st, NEW st2, NEW books, NEW map, NEW n \in Nat, NEW n2 \in Nat, n <= n2,
           QuotesHeld(st, books, map, n),
           \A t \in Symbols, e \in OrderSides : st2[t][e] = st[t][e]
    PROVE  QuotesHeld(st2, books, map, n2)
  <1>1. \A t \in Symbols : st2[t].Buy = st[t].Buy /\ st2[t].Sell = st[t].Sell  BY DEF OrderSides
  <1> QED  BY <1>1 DEF QuotesHeld

(* A quote is forgotten when its order has left the book and the map. *)
LEMMA DropQuote ==
    ASSUME NEW st, NEW st2, NEW books, NEW books2, NEW map, NEW n \in Nat,
           NEW s \in Symbols, NEW d \in OrderSides,
           QuotesHeld(st, books, map, n), st[s][d] # NoQuote,
           \A t \in Symbols, e \in OrderSides :
               (t # s \/ e # d) => st2[t][e] = st[t][e] /\ books2[t][e] = books[t][e],
           st2[s][d] = NoQuote, books2[s][d] = <<>>
    PROVE  QuotesHeld(st2, books2, Without(map, st[s][d].id), n)
  <1> DEFINE map2 == Without(map, st[s][d].id)
  <1>0. NoQuote.id = 0  BY DEF NoQuote
  <1>1. \A id : id \in DOMAIN map2 <=> id \in DOMAIN map /\ id # st[s][d].id  BY DEF Without
  <1>2. \A id \in DOMAIN map2 : map2[id] = map[id]  BY DEF Without
  <1> HIDE DEF map2
  <1>3. ASSUME NEW t \in Symbols, NEW e \in OrderSides, t # s \/ e # d, st[t][e] # NoQuote
        PROVE  st[t][e].id # st[s][d].id
    <2>1. t # s => st[t][e].id # st[s][d].id  BY <1>3 DEF QuotesHeld
    <2>2. (t = s /\ e # d) => st[t][e].id # st[s][d].id  BY <1>3 DEF QuotesHeld, OrderSides
    <2> QED  BY <1>3, <2>1, <2>2
  <1>4. ASSUME NEW t \in Symbols, NEW e \in OrderSides
        PROVE  \/ st2[t][e] = NoQuote /\ books2[t][e] = <<>>
               \/ /\ st2[t][e] # NoQuote /\ st2[t][e].id \in 1 .. n - 1
                  /\ st2[t][e].id \in DOMAIN map2 /\ map2[st2[t][e].id] = t
                  /\ HeldBy(books2[t][e], st2[t][e])
    BY <1>1, <1>2, <1>3 DEF QuotesHeld
  <1>5. ASSUME NEW t \in Symbols, st2[t].Buy.id = st2[t].Sell.id PROVE st2[t].Buy.id = 0
    <2>1. CASE t = s
      BY <1>0, <1>5, <2>1 DEF OrderSides
    <2>2. CASE t # s
      BY <1>5, <2>2 DEF OrderSides, QuotesHeld
    <2> QED  BY <2>1, <2>2
  <1>6. ASSUME NEW id \in DOMAIN map2
        PROVE  \E t \in Symbols, e \in OrderSides : st2[t][e] # NoQuote /\ st2[t][e].id = id
    <2>1. PICK t \in Symbols, e \in OrderSides : st[t][e] # NoQuote /\ st[t][e].id = id
      BY <1>1 DEF QuotesHeld
    <2>2. t # s \/ e # d  BY <1>1, <2>1
    <2> QED  BY <2>1, <2>2
  <1>7. QuotesHeld(st2, books2, map2, n)  BY <1>4, <1>5, <1>6 DEF QuotesHeld
  <1> QED  BY <1>7 DEF map2

(* A quote and its order as they are submitted. *)
NewQuote(id, price) == [id |-> id, price |-> price]
NewOrder(id, price, ts) == [id |-> id, price |-> price, qty |-> QuoteSize, ts |-> ts]

(* A new quote, of a number not given out before, with its order in the book. *)
Added(st2, st, books2, books, s, d, id, price, ts) ==
    /\ st[s][d] = NoQuote
    /\ \A t \in Symbols, e \in OrderSides :
           (t # s \/ e # d) => st2[t][e] = st[t][e] /\ books2[t][e] = books[t][e]
    /\ st2[s][d] = NewQuote(id, price) /\ books2[s][d] = <<NewOrder(id, price, ts)>>

LEMMA AddQuote ==
    ASSUME NEW st, NEW st2, NEW books, NEW books2, NEW map, NEW id \in Nat \ {0},
           NEW s \in Symbols, NEW d \in OrderSides, NEW price, NEW ts,
           QuotesHeld(st, books, map, id), Added(st2, st, books2, books, s, d, id, price, ts)
    PROVE  QuotesHeld(st2, books2, With(map, id, s), id + 1)
  <1> DEFINE map2 == With(map, id, s)
  <1> USE DEF Added
  <1>0. st2[s][d].id = id /\ st2[s][d].price = price /\ NoQuote.id = 0 /\ id # 0
    BY DEF NoQuote, NewQuote
  <1>1. \A x : x \in DOMAIN map2 <=> x \in DOMAIN map \/ x = id  BY DEF With
  <1>2. map2[id] = s /\ \A x \in DOMAIN map : x # id => map2[x] = map[x]  BY DEF With
  <1> HIDE DEF map2
  <1>3. ASSUME NEW t \in Symbols, NEW e \in OrderSides, st[t][e] # NoQuote
        PROVE  st[t][e].id # id /\ st[t][e].id \in 1 .. id /\ st[t][e].id \in DOMAIN map
    BY <1>3 DEF QuotesHeld
  <1>4. HeldBy(books2[s][d], st2[s][d])
    <2> DEFINE o == [id |-> id, price |-> price, qty |-> QuoteSize, ts |-> ts]
    <2>1. books2[s][d] = <<o>> /\ o.qty = QuoteSize /\ o.ts = ts  BY DEF NewOrder
    <2>2. books2[s][d][1] = o  BY <2>1
    <2> QED  BY <1>0, <2>1, <2>2, BacktestAssumption DEF HeldBy
  <1>5. ASSUME NEW t \in Symbols, NEW e \in OrderSides
        PROVE  \/ st2[t][e] = NoQuote /\ books2[t][e] = <<>>
               \/ /\ st2[t][e] # NoQuote /\ st2[t][e].id \in 1 .. (id + 1) - 1
                  /\ st2[t][e].id \in DOMAIN map2 /\ map2[st2[t][e].id] = t
                  /\ HeldBy(books2[t][e], st2[t][e])
    <2>1. CASE t = s /\ e = d  BY <1>0, <1>1, <1>2, <1>4, <2>1
    <2>2. CASE t # s \/ e # d  BY <1>1, <1>2, <1>3, <2>2 DEF QuotesHeld
    <2> QED  BY <2>1, <2>2
  <1>6. ASSUME NEW t \in Symbols, st2[t].Buy.id = st2[t].Sell.id PROVE st2[t].Buy.id = 0
    <2>1. CASE t = s
      BY <1>0, <1>3, <1>6, <2>1 DEF OrderSides
    <2>2. CASE t # s
      BY <1>6, <2>2 DEF OrderSides, QuotesHeld
    <2> QED  BY <2>1, <2>2
  <1>7. ASSUME NEW x \in DOMAIN map2
        PROVE  \E t \in Symbols, e \in OrderSides : st2[t][e] # NoQuote /\ st2[t][e].id = x
    <2>1. CASE x = id  BY <1>0, <2>1
    <2>2. CASE x # id
      <3>1. PICK t \in Symbols, e \in OrderSides : st[t][e] # NoQuote /\ st[t][e].id = x
        BY <1>1, <2>2 DEF QuotesHeld
      <3> QED  BY <3>1
    <2> QED  BY <2>1, <2>2
  <1>8. QuotesHeld(st2, books2, map2, id + 1)  BY <1>5, <1>6, <1>7 DEF QuotesHeld
  <1> QED  BY <1>8 DEF map2

(* A quote of which part is filled. *)
LEMMA PartQuote ==
    ASSUME NEW st, NEW st2, NEW books, NEW books2, NEW map, NEW n \in Nat,
           NEW s \in Symbols, NEW d \in OrderSides, NEW o,
           QuotesHeld(st, books, map, n), st[s][d] # NoQuote,
           \A t \in Symbols, e \in OrderSides : st2[t][e] = st[t][e],
           \A t \in Symbols, e \in OrderSides : (t # s \/ e # d) => books2[t][e] = books[t][e],
           books2[s][d] = <<o>>,
           o = [id |-> st[s][d].id, price |-> st[s][d].price, qty |-> o.qty, ts |-> o.ts],
           o.qty \in 1 .. QuoteSize
    PROVE  QuotesHeld(st2, books2, map, n)
  <1>1. QuotesHeld(st2, books, map, n)  BY KeepQuotes
  <1>2. books2[s][d][1] = o /\ st2[s][d] = st[s][d]  OBVIOUS
  <1>3. HeldBy(books2[s][d], st2[s][d])  BY <1>2 DEF HeldBy
  <1>4. ASSUME NEW t \in Symbols, NEW e \in OrderSides
        PROVE  \/ st2[t][e] = NoQuote /\ books2[t][e] = <<>>
               \/ /\ st2[t][e] # NoQuote /\ st2[t][e].id \in 1 .. n - 1
                  /\ st2[t][e].id \in DOMAIN map /\ map[st2[t][e].id] = t
                  /\ HeldBy(books2[t][e], st2[t][e])
    <2>1. CASE t = s /\ e = d  BY <1>1, <1>2, <1>3, <2>1 DEF QuotesHeld
    <2>2. CASE t # s \/ e # d  BY <1>1, <2>2 DEF QuotesHeld
    <2> QED  BY <2>1, <2>2
  <1> QED  BY <1>1, <1>4 DEF QuotesHeld

LEMMA TheOrder ==
    ASSUME NEW book, NEW quote, HeldBy(book, quote)
    PROVE  /\ book = <<book[1]>> /\ book[1].id = quote.id /\ book[1].qty \in 1 .. QuoteSize
           /\ book[1] = [id |-> quote.id, price |-> quote.price, qty |-> book[1].qty, ts |-> book[1].ts]
  <1> DEFINE o == [id |-> quote.id, price |-> quote.price, qty |-> book[1].qty, ts |-> book[1].ts]
  <1>1. book = <<o>> /\ o.id = quote.id /\ book[1].qty \in 1 .. QuoteSize  BY DEF HeldBy
  <1> HIDE DEF o
  <1>2. book[1] = o  BY <1>1
  <1> QED  BY <1>1, <1>2 DEF o

LEMMA NoQuoteIsQuote == IsQuote(NoQuote) /\ NoQuote.id = 0
  BY DEF IsQuote, NoQuote

(* What CancelOrder leaves of the books. *)
LEMMA CancelOrderDoes ==
    ASSUME NEW m, SimInv(m), NEW s \in Symbols, NEW d \in OrderSides, m.strategy[s][d] # NoQuote,
           NEW e1, e1 = CancelOrder(m.engine, m.strategy[s][d].id)
    PROVE  /\ DOMAIN e1 = {"symbolOf", "books"}
           /\ e1.symbolOf = Without(m.symbolOf, m.strategy[s][d].id)
           /\ DOMAIN e1.books = Symbols
           /\ \A t \in Symbols : DOMAIN e1.books[t] = OrderSides
           /\ e1.books[s][d] = <<>>
           /\ \A t \in Symbols, e \in OrderSides :
                  (t # s \/ e # d) => e1.books[t][e] = m.engine.books[t][e]
  <1> DEFINE id == m.strategy[s][d].id
             left(book) == IF Rests(book, id) THEN RemoveAt(book, PlaceOf(book, id)) ELSE book
             books == m.engine.books
  <1>1. id \in DOMAIN m.engine.symbolOf /\ m.engine.symbolOf[id] = s /\ id # 0
    BY DEF SimInv, QuotesHeld
  <1>2. e1 = [symbolOf |-> Without(m.engine.symbolOf, id),
              books    |-> [books EXCEPT ![s] = [e \in OrderSides |-> left(books[s][e])]]]
    BY <1>1, Zenon DEF CancelOrder
  <1>3. DOMAIN books = Symbols /\ \A t \in Symbols : DOMAIN books[t] = OrderSides
    BY DEF SimInv, SimShape
  <1>4. left(books[s][d]) = <<>>
    <2> DEFINE o == books[s][d][1]
    <2>0. HeldBy(books[s][d], m.strategy[s][d])  BY DEF SimInv, QuotesHeld
    <2>1. books[s][d] = <<o>> /\ o.id = id  BY <2>0, TheOrder
    <2> HIDE DEF o, id
    <2>2. PlaceOf(<<o>>, id) = 1 /\ Rests(<<o>>, id)  BY <2>1, PlaceOfTheOne
    <2> QED  BY <2>1, <2>2, RemoveTheOne
  <1>5. ASSUME NEW e \in OrderSides, e # d PROVE left(books[s][e]) = books[s][e]
    <2>1. CASE m.strategy[s][e] = NoQuote
      <3>1. books[s][e] = <<>>  BY <2>1 DEF SimInv, QuotesHeld
      <3>2. ~Rests(books[s][e], id)  BY <3>1 DEF Rests
      <3> QED  BY <3>2
    <2>2. CASE m.strategy[s][e] # NoQuote
      <3> DEFINE o == books[s][e][1]
      <3>0. HeldBy(books[s][e], m.strategy[s][e])  BY <2>2 DEF SimInv, QuotesHeld
      <3>1. books[s][e] = <<o>> /\ o.id = m.strategy[s][e].id  BY <3>0, TheOrder
      <3>2. m.strategy[s][e].id # id  BY <1>1, <1>5 DEF SimInv, QuotesHeld, OrderSides
      <3>3. ~Rests(books[s][e], id)
        <4> HIDE DEF o, id
        <4>1. o.id # id  BY <3>1, <3>2
        <4>2. ~Rests(<<o>>, id)  BY <4>1 DEF Rests
        <4> QED  BY <3>1, <4>2
      <3> QED  BY <3>3
    <2> QED  BY <2>1, <2>2
  <1> HIDE DEF left, books
  <1>6. /\ DOMAIN e1 = {"symbolOf", "books"}
        /\ e1.symbolOf = Without(m.engine.symbolOf, id)
        /\ e1.books = [books EXCEPT ![s] = [e \in OrderSides |-> left(books[s][e])]]
    BY <1>2
  <1>7. m.engine.symbolOf = m.symbolOf  BY DEF SimInv
  <1> HIDE DEF id
  <1>8. DOMAIN e1.books = Symbols /\ \A t \in Symbols : DOMAIN e1.books[t] = OrderSides
    BY <1>3, <1>6
  <1>9. e1.books[s][d] = <<>>  BY <1>3, <1>4, <1>6
  <1>10. ASSUME NEW t \in Symbols, NEW e \in OrderSides, t # s \/ e # d
         PROVE  e1.books[t][e] = books[t][e]
    BY <1>3, <1>5, <1>6, <1>10
  <1> QED  BY <1>6, <1>7, <1>8, <1>9, <1>10 DEF id, books

Cancelled(r, m, s, d) ==
    /\ SimInv(r) /\ r.strategy[s][d] = NoQuote
    /\ r.account = m.account /\ r.next_order_id = m.next_order_id
    /\ \A t \in Symbols : r.strategy[t].inventory = m.strategy[t].inventory
    /\ \A t \in Symbols, e \in OrderSides :
           (t # s \/ e # d) => /\ r.strategy[t][e] = m.strategy[t][e]
                               /\ r.engine.books[t][e] = m.engine.books[t][e]

(* A quote that is cancelled is gone from all the records, and the others stay. *)
LEMMA CancelQuoteInv ==
    ASSUME NEW m, SimInv(m), NEW s \in Symbols, NEW d \in OrderSides,
           NEW r, r = CancelQuote(m, s, d)
    PROVE  Cancelled(r, m, s, d)
  <1>1. CASE m.strategy[s][d] = NoQuote
    BY <1>1 DEF CancelQuote, Cancelled
  <1>2. CASE m.strategy[s][d] # NoQuote
    <2> DEFINE id == m.strategy[s][d].id
               e1 == CancelOrder(m.engine, id)
               c  == RouterCancel(m, id)
    <2>0. /\ DOMAIN m = {"engine", "strategy", "account", "symbolOf", "next_order_id", "submitted"}
          /\ DOMAIN m.strategy = Symbols
          /\ \A t \in Symbols : DOMAIN m.strategy[t] = DOMAIN NewStrategy
          /\ DOMAIN NewStrategy = {"inventory", "Buy", "Sell", "center", "has_center", "last_requote"}
      BY DEF SimInv, SimShape, NewStrategy
    <2>1. r = [c EXCEPT !.strategy[s][d] = NoQuote]  BY <1>2 DEF CancelQuote
    <2>2. c = [m EXCEPT !.engine = e1, !.symbolOf = Without(m.symbolOf, id)]  BY DEF RouterCancel
    <2>3. /\ DOMAIN e1 = {"symbolOf", "books"}
          /\ e1.symbolOf = Without(m.symbolOf, id)
          /\ DOMAIN e1.books = Symbols
          /\ \A t \in Symbols : DOMAIN e1.books[t] = OrderSides
          /\ e1.books[s][d] = <<>>
          /\ \A t \in Symbols, e \in OrderSides :
                 (t # s \/ e # d) => e1.books[t][e] = m.engine.books[t][e]
      BY <1>2, CancelOrderDoes
    <2> HIDE DEF e1, c
    <2>4. /\ DOMAIN c = DOMAIN m /\ c.engine = e1 /\ c.strategy = m.strategy
          /\ c.account = m.account /\ c.symbolOf = Without(m.symbolOf, id)
          /\ c.next_order_id = m.next_order_id
      BY <2>0, <2>2
    <2>5. /\ DOMAIN r = DOMAIN m /\ r.engine = e1
          /\ r.account = m.account /\ r.symbolOf = Without(m.symbolOf, id)
          /\ r.next_order_id = m.next_order_id
          /\ r.strategy = [m.strategy EXCEPT ![s][d] = NoQuote]
      BY <2>0, <2>1, <2>4
    <2>6. /\ DOMAIN r.strategy = Symbols
          /\ \A t \in Symbols : DOMAIN r.strategy[t] = DOMAIN m.strategy[t]
          /\ \A t \in Symbols : r.strategy[t].inventory = m.strategy[t].inventory
          /\ \A t \in Symbols, e \in OrderSides :
                 (t # s \/ e # d) => r.strategy[t][e] = m.strategy[t][e]
          /\ r.strategy[s][d] = NoQuote
      BY <2>0, <2>5 DEF OrderSides
    <2>7. QuotesHeld(r.strategy, r.engine.books, r.symbolOf, r.next_order_id)
      <3>1. QuotesHeld(m.strategy, m.engine.books, m.symbolOf, m.next_order_id)
            /\ m.next_order_id \in Nat
        BY DEF SimInv, SimShape
      <3>2. /\ \A t \in Symbols, e \in OrderSides : (t # s \/ e # d) =>
                   r.strategy[t][e] = m.strategy[t][e] /\ r.engine.books[t][e] = m.engine.books[t][e]
            /\ r.strategy[s][d] = NoQuote /\ r.engine.books[s][d] = <<>>
        BY <2>3, <2>5, <2>6
      <3>3. QuotesHeld(r.strategy, r.engine.books, Without(m.symbolOf, id), m.next_order_id)
        <4> DEFINE st == m.strategy  st2 == r.strategy  books == m.engine.books
                   books2 == r.engine.books  map == m.symbolOf  n == m.next_order_id
        <4>1. /\ QuotesHeld(st, books, map, n) /\ n \in Nat /\ st[s][d] # NoQuote
              /\ \A t \in Symbols, e \in OrderSides :
                     (t # s \/ e # d) => st2[t][e] = st[t][e] /\ books2[t][e] = books[t][e]
              /\ st2[s][d] = NoQuote /\ books2[s][d] = <<>>
          BY <1>2, <3>1, <3>2
        <4>2. id = st[s][d].id  OBVIOUS
        <4> HIDE DEF st, st2, books, books2, map, n
        <4>3. QuotesHeld(st2, books2, Without(map, st[s][d].id), n)  BY <4>1, DropQuote
        <4> QED  BY <4>2, <4>3 DEF st, st2, books, books2, map, n
      <3> QED  BY <2>5, <3>3
    <2>8. \A t \in Symbols : IsQuote(r.strategy[t].Buy) /\ IsQuote(r.strategy[t].Sell)
      <3>1. \A t \in Symbols : IsQuote(m.strategy[t].Buy) /\ IsQuote(m.strategy[t].Sell)
        BY DEF SimInv, SimShape
      <3>2. ASSUME NEW t \in Symbols, NEW e \in OrderSides PROVE IsQuote(r.strategy[t][e])
        BY <2>6, <3>1, NoQuoteIsQuote DEF OrderSides
      <3> QED  BY <3>2 DEF OrderSides
    <2>9. SimShape(r)
      BY <2>3, <2>5, <2>6, <2>8 DEF SimInv, SimShape
    <2>10. SimInv(r)  BY <2>3, <2>5, <2>6, <2>7, <2>9 DEF SimInv
    <2> QED  BY <2>3, <2>5, <2>6, <2>10 DEF Cancelled
  <1> QED  BY <1>1, <1>2

(* An order that is submitted goes to the book and to both maps. *)
LEMMA RouterSubmitDoes ==
    ASSUME NEW m, SimShape(m), NEW s \in Symbols, NEW d \in OrderSides, NEW price, NEW ts,
           NEW id \in Nat \ {0}, m.engine.books[s][d] = <<>>,
           NEW r, r = RouterSubmit(m, s, d, price, ts, id)
    PROVE  /\ SimShape(r) /\ r.strategy = m.strategy /\ r.account = m.account
           /\ r.next_order_id = m.next_order_id
           /\ r.symbolOf = With(m.symbolOf, id, s)
           /\ r.engine.symbolOf = With(m.engine.symbolOf, id, s)
           /\ r.engine.books[s][d] = <<NewOrder(id, price, ts)>>
           /\ \A t \in Symbols, e \in OrderSides :
                  (t # s \/ e # d) => r.engine.books[t][e] = m.engine.books[t][e]
  <1> DEFINE o  == NewOrder(id, price, ts)
             e0 == m.engine
             e1 == BindOrderSymbol(e0, id, s)
             e2 == Submit(e1, d, o)
             place(book) == 1 + Cardinality({i \in DOMAIN book : ~BetterOrder(d, o, book[i])})
  <1>0. /\ DOMAIN m = {"engine", "strategy", "account", "symbolOf", "next_order_id", "submitted"}
        /\ DOMAIN e0 = {"symbolOf", "books"} /\ DOMAIN e0.books = Symbols
        /\ \A t \in Symbols : DOMAIN e0.books[t] = OrderSides
    BY DEF SimShape
  <1>1. o.id = id /\ o.qty = QuoteSize /\ o.qty # 0  BY BacktestAssumption DEF NewOrder
  <1>2. e1 = [e0 EXCEPT !.symbolOf = With(e0.symbolOf, id, s)]  BY DEF BindOrderSymbol
  <1> HIDE DEF o, e0, e1
  <1>3. DOMAIN e1 = DOMAIN e0 /\ e1.symbolOf = With(e0.symbolOf, id, s) /\ e1.books = e0.books
    BY <1>0, <1>2
  <1>4. id \in DOMAIN e1.symbolOf /\ e1.symbolOf[id] = s  BY <1>3 DEF With
  <1>5. e2 = [e1 EXCEPT !.books[e1.symbolOf[o.id]][d] = InsertAt(@, place(@), o)]
    BY <1>1, <1>4, Zenon DEF Submit
  <1>6. e2 = [e1 EXCEPT !.books[s][d] = InsertAt(e1.books[s][d], place(e1.books[s][d]), o)]
    BY <1>1, <1>4, <1>5
  <1>7. InsertAt(e1.books[s][d], place(e1.books[s][d]), o) = <<o>>
    BY <1>3, InsertIntoNone DEF e0
  <1>8. e2 = [e1 EXCEPT !.books[s][d] = <<o>>]  BY <1>6, <1>7
  <1>9. r = [m EXCEPT !.symbolOf = With(m.symbolOf, id, s), !.submitted = m.submitted + 1,
                      !.engine = e2]
    BY Zenon DEF RouterSubmit, o, e0, e1, NewOrder
  <1> HIDE DEF e2, place
  <1>10. /\ DOMAIN e2 = DOMAIN e1 /\ e2.symbolOf = e1.symbolOf
         /\ e2.books = [e1.books EXCEPT ![s][d] = <<o>>]
    BY <1>0, <1>3, <1>8
  <1>11. /\ DOMAIN e2.books = Symbols /\ \A t \in Symbols : DOMAIN e2.books[t] = OrderSides
         /\ e2.books[s][d] = <<o>>
         /\ \A t \in Symbols, e \in OrderSides : (t # s \/ e # d) => e2.books[t][e] = e0.books[t][e]
    BY <1>0, <1>3, <1>10
  <1>12. /\ DOMAIN r = DOMAIN m /\ r.engine = e2 /\ r.strategy = m.strategy
         /\ r.account = m.account /\ r.next_order_id = m.next_order_id
         /\ r.symbolOf = With(m.symbolOf, id, s)
    BY <1>0, <1>9
  <1>13. SimShape(r)  BY <1>0, <1>3, <1>10, <1>11, <1>12 DEF SimShape
  <1> QED  BY <1>3, <1>10, <1>11, <1>12, <1>13 DEF o, e0

(* One new order of the OfiStrategy. *)
LEMMA OfiSubmitInv ==
    ASSUME NEW m, SimInv(m), NEW s \in Symbols, NEW d \in OrderSides, NEW price, NEW ts,
           m.strategy[s][d] = NoQuote, NEW r, r = OfiSubmit(m, s, d, price, ts)
    PROVE  /\ SimInv(r) /\ r.account = m.account
           /\ \A t \in Symbols : r.strategy[t].inventory = m.strategy[t].inventory
           /\ r.engine.books[s][d] = <<NewOrder(m.next_order_id, price, ts)>>
           /\ \A t \in Symbols, e \in OrderSides :
                  (t # s \/ e # d) => /\ r.strategy[t][e] = m.strategy[t][e]
                                      /\ r.engine.books[t][e] = m.engine.books[t][e]
  <1> DEFINE id == m.next_order_id
             q  == [id |-> id, price |-> price]
             c  == [m EXCEPT !.next_order_id = id + 1, !.strategy[s][d] = q]
  <1>0. /\ DOMAIN m = {"engine", "strategy", "account", "symbolOf", "next_order_id", "submitted"}
        /\ DOMAIN m.strategy = Symbols
        /\ \A t \in Symbols : DOMAIN m.strategy[t] = DOMAIN NewStrategy
        /\ DOMAIN NewStrategy = {"inventory", "Buy", "Sell", "center", "has_center", "last_requote"}
        /\ id \in Nat \ {0}
    BY DEF SimInv, SimShape, NewStrategy
  <1>1. r = RouterSubmit(c, s, d, price, ts, id)  BY Zenon DEF OfiSubmit, OnIntent
  <1>2. IsQuote(q) /\ q.id = id /\ q.price = price  BY <1>0 DEF IsQuote
  <1>q. q = [id |-> id, price |-> price]  OBVIOUS
  <1> HIDE DEF q
  <1>3. /\ DOMAIN c = DOMAIN m /\ c.engine = m.engine /\ c.account = m.account
        /\ c.symbolOf = m.symbolOf /\ c.next_order_id = id + 1
        /\ c.strategy = [m.strategy EXCEPT ![s][d] = q]
    BY <1>0
  <1> HIDE DEF c
  <1>4. /\ DOMAIN c.strategy = Symbols
        /\ \A t \in Symbols : DOMAIN c.strategy[t] = DOMAIN m.strategy[t]
        /\ \A t \in Symbols : c.strategy[t].inventory = m.strategy[t].inventory
        /\ \A t \in Symbols, e \in OrderSides :
               (t # s \/ e # d) => c.strategy[t][e] = m.strategy[t][e]
        /\ c.strategy[s][d] = q
    BY <1>0, <1>3 DEF OrderSides
  <1>5. \A t \in Symbols : IsQuote(c.strategy[t].Buy) /\ IsQuote(c.strategy[t].Sell)
    <2>1. \A t \in Symbols : IsQuote(m.strategy[t].Buy) /\ IsQuote(m.strategy[t].Sell)
      BY DEF SimInv, SimShape
    <2>2. ASSUME NEW t \in Symbols, NEW e \in OrderSides PROVE IsQuote(c.strategy[t][e])
      BY <1>2, <1>4, <2>1 DEF OrderSides
    <2> QED  BY <2>2 DEF OrderSides
  <1>6. SimShape(c)  BY <1>0, <1>3, <1>4, <1>5 DEF SimInv, SimShape
  <1>7. m.engine.books[s][d] = <<>>  BY DEF SimInv, QuotesHeld
  <1>8. /\ SimShape(r) /\ r.strategy = c.strategy /\ r.account = c.account
        /\ r.next_order_id = c.next_order_id
        /\ r.symbolOf = With(c.symbolOf, id, s)
        /\ r.engine.symbolOf = With(c.engine.symbolOf, id, s)
        /\ r.engine.books[s][d] = <<NewOrder(id, price, ts)>>
        /\ \A t \in Symbols, e \in OrderSides :
               (t # s \/ e # d) => r.engine.books[t][e] = c.engine.books[t][e]
    BY <1>0, <1>1, <1>3, <1>6, <1>7, RouterSubmitDoes
  <1>9. QuotesHeld(r.strategy, r.engine.books, r.symbolOf, r.next_order_id)
    <2> DEFINE st == m.strategy  st2 == r.strategy  books == m.engine.books
               books2 == r.engine.books  map == m.symbolOf
    <2>1. /\ QuotesHeld(st, books, map, id) /\ st[s][d] = NoQuote
          /\ \A t \in Symbols, e \in OrderSides :
                 (t # s \/ e # d) => st2[t][e] = st[t][e] /\ books2[t][e] = books[t][e]
          /\ st2[s][d] = NewQuote(id, price) /\ books2[s][d] = <<NewOrder(id, price, ts)>>
      BY <1>3, <1>4, <1>8, <1>q DEF SimInv, NewQuote
    <2>2. id \in Nat \ {0}  BY <1>0
    <2>a. c.symbolOf = map /\ c.next_order_id = id + 1  BY <1>3
    <2> HIDE DEF st, st2, books, books2, map, id
    <2>3. With(map, id, s) = r.symbolOf /\ r.next_order_id = id + 1  BY <1>8, <2>a, Zenon
    <2>b. Added(st2, st, books2, books, s, d, id, price, ts)  BY <2>1 DEF Added
    <2>4. QuotesHeld(st2, books2, With(map, id, s), id + 1)  BY <2>1, <2>2, <2>b, AddQuote
    <2> QED  BY <2>3, <2>4 DEF st, st2, books, books2
  <1>10. SimInv(r)  BY <1>3, <1>4, <1>8, <1>9 DEF SimInv
  <1> QED  BY <1>3, <1>4, <1>8, <1>10

(* Both new orders of the market making strategy. *)
LEMMA RequoteInv ==
    ASSUME NEW m, SimInv(m), NEW s \in Symbols, NEW center, NEW ts,
           NEW r, r = Requote(m, s, center, ts)
    PROVE  SimInv(r)
  <1> DEFINE b   == CancelQuote(m, s, "Buy")
             c   == CancelQuote(b, s, "Sell")
             id  == m.next_order_id
             low == center - HalfSpread
             top == center + HalfSpread
             bid == NewQuote(id, low)
             ask == NewQuote(id + 1, top)
             q   == [c EXCEPT !.next_order_id = c.next_order_id + 2, !.strategy[s].Buy = bid,
                              !.strategy[s].Sell = ask, !.strategy[s].last_requote = ts]
             r1  == RouterSubmit(q, s, "Buy", low, ts, id)
  <1>0. "Buy" \in OrderSides /\ "Sell" \in OrderSides  BY DEF OrderSides
  <1>1. Cancelled(b, m, s, "Buy")  BY <1>0, CancelQuoteInv
  <1> HIDE DEF b
  <1>a. SimInv(b)  BY <1>1 DEF Cancelled
  <1>b. Cancelled(c, b, s, "Sell")  BY <1>0, <1>a, CancelQuoteInv
  <1>2. SimInv(c) /\ c.strategy[s]["Sell"] = NoQuote /\ c.next_order_id = id
    BY <1>1, <1>b DEF Cancelled
  <1>3. c.strategy[s]["Buy"] = NoQuote  BY <1>0, <1>1, <1>b DEF Cancelled
  <1>4. r = RouterSubmit(r1, s, "Sell", top, ts, id + 1)
    BY Zenon DEF Requote, NewQuote, b
  <1> HIDE DEF c
  <1>5. /\ DOMAIN c = {"engine", "strategy", "account", "symbolOf", "next_order_id", "submitted"}
        /\ DOMAIN c.strategy = Symbols
        /\ \A t \in Symbols : DOMAIN c.strategy[t] = DOMAIN NewStrategy
        /\ DOMAIN NewStrategy = {"inventory", "Buy", "Sell", "center", "has_center", "last_requote"}
        /\ id \in Nat \ {0}
    BY <1>2 DEF SimInv, SimShape, NewStrategy
  <1>6. /\ IsQuote(bid) /\ IsQuote(ask) /\ NewQuote(id, low) = bid /\ NewQuote(id + 1, top) = ask
    BY <1>5 DEF IsQuote, NewQuote
  <1> HIDE DEF bid, ask, low, top
  <1>7. /\ DOMAIN q = DOMAIN c /\ q.engine = c.engine /\ q.account = c.account
        /\ q.symbolOf = c.symbolOf /\ q.next_order_id = id + 2
        /\ q.strategy = [c.strategy EXCEPT ![s].Buy = bid, ![s].Sell = ask, ![s].last_requote = ts]
    BY <1>2, <1>5
  <1> HIDE DEF q, id
  <1>8. /\ DOMAIN q.strategy = Symbols
        /\ \A t \in Symbols : DOMAIN q.strategy[t] = DOMAIN c.strategy[t]
        /\ \A t \in Symbols : q.strategy[t].inventory = c.strategy[t].inventory
        /\ \A t \in Symbols : t # s => q.strategy[t] = c.strategy[t]
        /\ q.strategy[s].Buy = bid /\ q.strategy[s].Sell = ask
    BY <1>5, <1>7
  <1>9. SimShape(q)
    <2>1. \A t \in Symbols : IsQuote(q.strategy[t].Buy) /\ IsQuote(q.strategy[t].Sell)
      BY <1>2, <1>6, <1>8 DEF SimInv, SimShape
    <2> QED  BY <1>2, <1>5, <1>7, <1>8, <2>1 DEF SimInv, SimShape
  <1>10. c.engine.books[s]["Buy"] = <<>> /\ c.engine.books[s]["Sell"] = <<>>
    BY <1>0, <1>2, <1>3 DEF SimInv, QuotesHeld
  <1>11. /\ SimShape(r1) /\ r1.strategy = q.strategy /\ r1.account = q.account
         /\ r1.next_order_id = q.next_order_id
         /\ r1.symbolOf = With(q.symbolOf, id, s)
         /\ r1.engine.symbolOf = With(q.engine.symbolOf, id, s)
         /\ r1.engine.books[s]["Buy"] = <<NewOrder(id, low, ts)>>
         /\ \A t \in Symbols, e \in OrderSides :
                (t # s \/ e # "Buy") => r1.engine.books[t][e] = q.engine.books[t][e]
    <2>1. PICK x \in OrderSides : x = "Buy"  BY <1>0
    <2>2. q.engine.books[s][x] = <<>> /\ r1 = RouterSubmit(q, s, x, low, ts, id)
      BY <1>7, <1>10, <2>1
    <2> HIDE DEF r1
    <2>3. /\ SimShape(r1) /\ r1.strategy = q.strategy /\ r1.account = q.account
          /\ r1.next_order_id = q.next_order_id
          /\ r1.symbolOf = With(q.symbolOf, id, s)
          /\ r1.engine.symbolOf = With(q.engine.symbolOf, id, s)
          /\ r1.engine.books[s][x] = <<NewOrder(id, low, ts)>>
          /\ \A t \in Symbols, e \in OrderSides :
                 (t # s \/ e # x) => r1.engine.books[t][e] = q.engine.books[t][e]
      BY <1>5, <1>9, <2>2, RouterSubmitDoes
    <2> QED  BY <2>1, <2>3
  <1> HIDE DEF r1
  <1>12. r1.engine.books[s]["Sell"] = <<>>  BY <1>0, <1>7, <1>10, <1>11
  <1>13. /\ SimShape(r) /\ r.strategy = r1.strategy /\ r.account = r1.account
         /\ r.next_order_id = r1.next_order_id
         /\ r.symbolOf = With(r1.symbolOf, id + 1, s)
         /\ r.engine.symbolOf = With(r1.engine.symbolOf, id + 1, s)
         /\ r.engine.books[s]["Sell"] = <<NewOrder(id + 1, top, ts)>>
         /\ \A t \in Symbols, e \in OrderSides :
                (t # s \/ e # "Sell") => r.engine.books[t][e] = r1.engine.books[t][e]
    <2>1. id + 1 \in Nat \ {0}  BY <1>5
    <2> QED  BY <1>0, <1>4, <1>11, <1>12, <2>1, RouterSubmitDoes
  <1>14. QuotesHeld(r.strategy, r.engine.books, r.symbolOf, r.next_order_id)
    <2> DEFINE st == c.strategy
               st1 == [c.strategy EXCEPT ![s].Buy = bid]
               st2 == r.strategy
               books == c.engine.books  books1 == r1.engine.books  books2 == r.engine.books
               map == c.symbolOf
               map1 == With(map, id, s)
    <2>1. /\ QuotesHeld(st, books, map, id)
          /\ st[s]["Buy"] = NoQuote /\ st[s]["Sell"] = NoQuote
      BY <1>2, <1>3 DEF SimInv
    <2>2. /\ \A t \in Symbols, e \in OrderSides :
                 (t # s \/ e # "Buy") => st1[t][e] = st[t][e]
          /\ st1[s]["Buy"] = bid
      BY <1>5 DEF OrderSides
    <2>3. /\ \A t \in Symbols, e \in OrderSides :
                 (t # s \/ e # "Sell") => st2[t][e] = st1[t][e]
          /\ st2[s]["Sell"] = ask
      BY <1>5, <1>8, <1>11, <1>13 DEF OrderSides
    <2>4. map1 = r1.symbolOf /\ r.symbolOf = With(map1, id + 1, s) /\ r.next_order_id = id + 2
      BY <1>7, <1>11, <1>13
    <2>5. /\ books1[s]["Buy"] = <<NewOrder(id, low, ts)>>
          /\ books2[s]["Sell"] = <<NewOrder(id + 1, top, ts)>>
          /\ \A t \in Symbols, e \in OrderSides :
                 /\ (t # s \/ e # "Buy") => books1[t][e] = books[t][e]
                 /\ (t # s \/ e # "Sell") => books2[t][e] = books1[t][e]
      BY <1>7, <1>11, <1>13
    <2> HIDE DEF st, st1, st2, books, books1, books2, map
    <2>6. QuotesHeld(st1, books1, With(map, id, s), id + 1)
      <3>1. \A t \in Symbols, e \in OrderSides :
                (t # s \/ e # "Buy") => st1[t][e] = st[t][e] /\ books1[t][e] = books[t][e]
        BY <2>2, <2>5
      <3>2. st1[s]["Buy"] = NewQuote(id, low)  BY <1>6, <2>2
      <3>3. PICK x \in OrderSides : x = "Buy"  BY <1>0
      <3>4. /\ \A t \in Symbols, e \in OrderSides :
                   (t # s \/ e # x) => st1[t][e] = st[t][e] /\ books1[t][e] = books[t][e]
            /\ st[s][x] = NoQuote /\ st1[s][x] = NewQuote(id, low)
            /\ books1[s][x] = <<NewOrder(id, low, ts)>>
        BY <2>1, <2>5, <3>1, <3>2, <3>3
      <3>5. Added(st1, st, books1, books, s, x, id, low, ts)  BY <3>4 DEF Added
      <3> QED  BY <1>5, <2>1, <3>5, AddQuote
    <2> HIDE DEF map1
    <2>7. QuotesHeld(st2, books2, With(map1, id + 1, s), (id + 1) + 1)
      <3>1. \A t \in Symbols, e \in OrderSides :
                (t # s \/ e # "Sell") => st2[t][e] = st1[t][e] /\ books2[t][e] = books1[t][e]
        BY <2>3, <2>5
      <3>2. st2[s]["Sell"] = NewQuote(id + 1, top) /\ id + 1 \in Nat \ {0}  BY <1>5, <1>6, <2>3
      <3>3. QuotesHeld(st1, books1, map1, id + 1)  BY <2>6 DEF map1
      <3>4. st1[s]["Sell"] = NoQuote  BY <1>0, <2>1, <2>2
      <3> DEFINE n == id + 1
      <3>5. /\ n \in Nat \ {0} /\ st2[s]["Sell"] = NewQuote(n, top)
            /\ books2[s]["Sell"] = <<NewOrder(n, top, ts)>> /\ QuotesHeld(st1, books1, map1, n)
        BY <2>5, <3>2, <3>3
      <3> HIDE DEF n
      <3>6. QuotesHeld(st2, books2, With(map1, n, s), n + 1)
        <4>1. PICK x \in OrderSides : x = "Sell"  BY <1>0
        <4>2. /\ \A t \in Symbols, e \in OrderSides :
                     (t # s \/ e # x) => st2[t][e] = st1[t][e] /\ books2[t][e] = books1[t][e]
              /\ st1[s][x] = NoQuote /\ st2[s][x] = NewQuote(n, top)
              /\ books2[s][x] = <<NewOrder(n, top, ts)>>
          BY <3>1, <3>4, <3>5, <4>1
        <4>3. Added(st2, st1, books2, books1, s, x, n, top, ts)  BY <4>2 DEF Added
        <4> QED  BY <3>5, <4>3, AddQuote
      <3> QED  BY <3>6 DEF n
    <2>8. (id + 1) + 1 = id + 2  BY <1>5
    <2> QED  BY <2>4, <2>7, <2>8 DEF st2, books2
  <1>15. r.engine.symbolOf = r.symbolOf
    <2>1. c.engine.symbolOf = c.symbolOf  BY <1>2 DEF SimInv
    <2> QED  BY <1>7, <1>11, <1>13, <2>1
  <1>16. \A t \in Symbols : r.strategy[t].inventory = r.account[t].position
    <2>1. \A t \in Symbols : c.strategy[t].inventory = c.account[t].position  BY <1>2 DEF SimInv
    <2> QED  BY <1>7, <1>8, <1>11, <1>13, <2>1
  <1> QED  BY <1>13, <1>14, <1>15, <1>16 DEF SimInv

(* Booking a fill moves the position by it. *)
LEMMA BookFillMoves ==
    ASSUME NEW acc, DOMAIN acc = DOMAIN NewAccount, NEW fill
    PROVE  /\ DOMAIN BookFill(acc, fill) = DOMAIN NewAccount
           /\ BookFill(acc, fill).position = acc.position + SignedQty(fill)
  <1>0. DOMAIN NewAccount = {"position", "cash", "avg_cost", "realized", "mid2", "unrealized",
                             "fills", "volume"}
    BY DEF NewAccount
  <1> DEFINE after == acc.position + SignedQty(fill)
             up   == Increase(acc, fill)
             down == Reduce(acc, fill)
             moved == IF acc.position = 0 \/ SameSide(acc.position, SignedQty(fill)) THEN up ELSE down
  <1>1. DOMAIN up = DOMAIN acc /\ up.position = after
    <2>1. \E cost : up = [acc EXCEPT !.position = after, !.avg_cost = cost]  BY Zenon DEF Increase
    <2> HIDE DEF up, after
    <2> QED  BY <1>0, <2>1
  <1>2. DOMAIN down = DOMAIN acc /\ down.position = after
    <2>1. \E cost, gain : down = [acc EXCEPT !.position = after, !.realized = gain, !.avg_cost = cost]
      BY Zenon DEF Reduce
    <2> HIDE DEF down, after
    <2> QED  BY <1>0, <2>1
  <1> HIDE DEF up, down, after
  <1>3. DOMAIN moved = DOMAIN acc /\ moved.position = after  BY <1>1, <1>2
  <1>4. \E cash, vol, n : BookFill(acc, fill) = [moved EXCEPT !.cash = cash, !.volume = vol, !.fills = n]
    BY Zenon DEF BookFill, up, down
  <1> HIDE DEF moved
  <1> QED  BY <1>0, <1>3, <1>4 DEF after

(* A fill of the order of a quote by q shares. *)
Fills(fill, s, d, o, q) ==
    /\ fill.id = o.id /\ fill.symbol = s /\ fill.side = d /\ fill.qty = q
    /\ fill.partial = (q < o.qty) /\ q \in 1 .. o.qty /\ fill.price \in Nat

(* What is left of an order. *)
RestOf(o, q) == [o EXCEPT !.qty = o.qty - q]

LEMMA RestIs ==
    ASSUME NEW o, NEW q, NEW a, NEW b, NEW c, NEW t,
           o = [id |-> a, price |-> b, qty |-> c, ts |-> t]
    PROVE  /\ RestOf(o, q) = [id |-> a, price |-> b, qty |-> RestOf(o, q).qty, ts |-> RestOf(o, q).ts]
           /\ RestOf(o, q).qty = o.qty - q
  <1>1. RestOf(o, q) = [id |-> a, price |-> b, qty |-> c - q, ts |-> t]  BY DEF RestOf
  <1>2. o.qty = c  OBVIOUS
  <1>3. RestOf(o, q).qty = c - q /\ RestOf(o, q).ts = t  BY <1>1
  <1> QED  BY <1>1, <1>2, <1>3

(* What TakeFill leaves of the engine. *)
Took(e1, m, s, d, o, q) ==
    /\ DOMAIN e1 = {"symbolOf", "books"}
    /\ e1.symbolOf = IF q < o.qty THEN m.symbolOf ELSE Without(m.symbolOf, m.strategy[s][d].id)
    /\ DOMAIN e1.books = Symbols
    /\ \A t \in Symbols : DOMAIN e1.books[t] = OrderSides
    /\ e1.books[s][d] = IF q < o.qty THEN <<RestOf(o, q)>> ELSE <<>>
    /\ \A t \in Symbols, e \in OrderSides :
           (t # s \/ e # d) => e1.books[t][e] = m.engine.books[t][e]

LEMMA TakeFillDoes ==
    ASSUME NEW m, SimInv(m), NEW s \in Symbols, NEW d \in OrderSides, m.strategy[s][d] # NoQuote,
           NEW q \in Nat, NEW fill, NEW o, o = m.engine.books[s][d][1], Fills(fill, s, d, o, q),
           NEW e1, e1 = TakeFill(m.engine, fill)
    PROVE  Took(e1, m, s, d, o, q)
  <1> DEFINE books == m.engine.books
             book  == books[s][d]
             at    == PlaceOf(book, fill.id)
             left  == IF fill.partial THEN [book EXCEPT ![at].qty = @ - fill.qty] ELSE RemoveAt(book, at)
  <1>1. HeldBy(book, m.strategy[s][d])  BY DEF SimInv, QuotesHeld
  <1>2. book = <<o>> /\ o.id = m.strategy[s][d].id /\ o.qty \in 1 .. QuoteSize  BY <1>1, TheOrder
  <1>3. /\ fill.id = o.id /\ fill.symbol = s /\ fill.side = d /\ fill.qty = q
        /\ fill.partial = (q < o.qty)
    BY DEF Fills
  <1>4. e1 = [symbolOf |-> IF fill.partial THEN m.engine.symbolOf
                           ELSE Without(m.engine.symbolOf, fill.id),
              books    |-> [books EXCEPT ![s][d] = left]]
    BY <1>3, Zenon DEF TakeFill
  <1>5. DOMAIN books = Symbols /\ \A t \in Symbols : DOMAIN books[t] = OrderSides
    BY DEF SimInv, SimShape
  <1>6. left = IF q < o.qty THEN <<RestOf(o, q)>> ELSE <<>>
    <2>1. at = 1  BY <1>2, <1>3, PlaceOfTheOne
    <2>2. RemoveAt(book, at) = <<>>  BY <1>2, <2>1, RemoveTheOne
    <2>3. [book EXCEPT ![at].qty = @ - fill.qty] = <<RestOf(o, q)>>
      <3> HIDE DEF book, at
      <3>1. [<<o>> EXCEPT ![1].qty = @ - q] = <<RestOf(o, q)>>  BY DEF RestOf
      <3> QED  BY <1>2, <1>3, <2>1, <3>1
    <2> QED  BY <1>3, <2>2, <2>3
  <1> HIDE DEF left, book, books
  <1>7. /\ DOMAIN e1 = {"symbolOf", "books"}
        /\ e1.symbolOf = IF fill.partial THEN m.engine.symbolOf ELSE Without(m.engine.symbolOf, fill.id)
        /\ e1.books = [books EXCEPT ![s][d] = left]
    BY <1>4
  <1>8. e1.symbolOf = IF q < o.qty THEN m.symbolOf ELSE Without(m.symbolOf, m.strategy[s][d].id)
    <2>1. m.engine.symbolOf = m.symbolOf  BY DEF SimInv
    <2> QED  BY <1>2, <1>3, <1>7, <2>1
  <1>9. /\ DOMAIN e1.books = Symbols /\ \A t \in Symbols : DOMAIN e1.books[t] = OrderSides
        /\ e1.books[s][d] = left
        /\ \A t \in Symbols, e \in OrderSides : (t # s \/ e # d) => e1.books[t][e] = books[t][e]
    BY <1>5, <1>7
  <1> QED  BY <1>6, <1>7, <1>8, <1>9 DEF book, books, Took

(* A strategy's state after a fill of its quote on side d. *)
FilledState(new, old, d, fill) ==
    /\ DOMAIN new = DOMAIN NewStrategy
    /\ new.inventory = old.inventory + SignedQty(fill)
    /\ new[d] = IF fill.partial THEN old[d] ELSE NoQuote
    /\ \A e \in OrderSides : e # d => new[e] = old[e]

Traded(r, m, s, d, q, fill) ==
    /\ SimInv(r)
    /\ r.account[s].position = m.account[s].position + SignedQty(fill)
    /\ \A t \in Symbols : t # s => r.account[t] = m.account[t]
    /\ QtyOf(r.engine.books[s][d]) = QtyOf(m.engine.books[s][d]) - q
    /\ \A t \in Symbols, e \in OrderSides :
           (t # s \/ e # d) => r.engine.books[t][e] = m.engine.books[t][e]

(* A fill keeps the records in agreement; the position grows by what the book  *)
(* loses.                                                                    *)
LEMMA FillInv ==
    ASSUME NEW m, SimInv(m), NEW s \in Symbols, NEW d \in OrderSides, m.strategy[s][d] # NoQuote,
           NEW q \in Nat, NEW fill, Fills(fill, s, d, m.engine.books[s][d][1], q),
           NEW st, FilledState(st, m.strategy[s], d, fill), NEW r,
           r = [m EXCEPT !.engine = TakeFill(m.engine, fill),
                         !.account[s] = BookFill(m.account[s], fill),
                         !.strategy[s] = st,
                         !.symbolOf = IF fill.partial THEN m.symbolOf ELSE Without(m.symbolOf, fill.id)]
    PROVE  Traded(r, m, s, d, q, fill)
  <1> DEFINE book == m.engine.books[s][d]
             o    == book[1]
             e1   == TakeFill(m.engine, fill)
             acc  == BookFill(m.account[s], fill)
             map2 == IF fill.partial THEN m.symbolOf ELSE Without(m.symbolOf, fill.id)
             rest == RestOf(o, q)
  <1>1. HeldBy(book, m.strategy[s][d])  BY DEF SimInv, QuotesHeld
  <1>2. /\ book = <<o>> /\ o.id = m.strategy[s][d].id /\ o.qty \in 1 .. QuoteSize
        /\ o = [id |-> m.strategy[s][d].id, price |-> m.strategy[s][d].price,
                qty |-> o.qty, ts |-> o.ts]
    BY <1>1, TheOrder
  <1>3. /\ fill.id = o.id /\ fill.symbol = s /\ fill.side = d /\ fill.qty = q
        /\ fill.partial = (q < o.qty) /\ q \in 1 .. o.qty
    BY DEF Fills
  <1>e. e1 = TakeFill(m.engine, fill) /\ o = m.engine.books[s][d][1] /\ Fills(fill, s, d, o, q)
    OBVIOUS
  <1> HIDE DEF e1, o, rest
  <1>4. /\ DOMAIN e1 = {"symbolOf", "books"}
        /\ e1.symbolOf = IF q < o.qty THEN m.symbolOf ELSE Without(m.symbolOf, m.strategy[s][d].id)
        /\ DOMAIN e1.books = Symbols
        /\ \A t \in Symbols : DOMAIN e1.books[t] = OrderSides
        /\ e1.books[s][d] = IF q < o.qty THEN <<rest>> ELSE <<>>
        /\ \A t \in Symbols, e \in OrderSides :
               (t # s \/ e # d) => e1.books[t][e] = m.engine.books[t][e]
    <2>1. Took(e1, m, s, d, o, q)  BY <1>e, TakeFillDoes
    <2> QED  BY <2>1 DEF Took, rest
  <1>5. /\ DOMAIN m = {"engine", "strategy", "account", "symbolOf", "next_order_id", "submitted"}
        /\ DOMAIN m.strategy = Symbols /\ DOMAIN m.account = Symbols
        /\ DOMAIN m.account[s] = DOMAIN NewAccount
        /\ m.account[s].position \in Int /\ m.strategy[s].inventory \in Int
        /\ m.strategy[s].inventory = m.account[s].position
    BY DEF SimInv, SimShape
  <1>6. DOMAIN acc = DOMAIN NewAccount /\ acc.position = m.account[s].position + SignedQty(fill)
    BY <1>5, BookFillMoves
  <1>7. SignedQty(fill) \in Int  BY <1>3 DEF SignedQty
  <1> HIDE DEF acc, map2
  <1>8. /\ DOMAIN r = DOMAIN m /\ r.engine = e1 /\ r.symbolOf = map2
        /\ r.next_order_id = m.next_order_id
        /\ r.account = [m.account EXCEPT ![s] = acc] /\ r.strategy = [m.strategy EXCEPT ![s] = st]
    BY <1>5 DEF e1, acc, map2
  <1>9. /\ DOMAIN r.account = Symbols /\ DOMAIN r.strategy = Symbols
        /\ r.account[s] = acc /\ r.strategy[s] = st
        /\ \A t \in Symbols : t # s => r.account[t] = m.account[t] /\ r.strategy[t] = m.strategy[t]
    BY <1>5, <1>8
  <1>10. /\ DOMAIN st = DOMAIN NewStrategy /\ st.inventory = m.strategy[s].inventory + SignedQty(fill)
         /\ st[d] = IF fill.partial THEN m.strategy[s][d] ELSE NoQuote
         /\ \A e \in OrderSides : e # d => st[e] = m.strategy[s][e]
    BY DEF FilledState
  <1>11. map2 = e1.symbolOf
    BY <1>2, <1>3, <1>4 DEF map2
  <1>12. IsQuote(st.Buy) /\ IsQuote(st.Sell)
    <2>1. IsQuote(m.strategy[s].Buy) /\ IsQuote(m.strategy[s].Sell)  BY DEF SimInv, SimShape
    <2>2. \A e \in OrderSides : IsQuote(st[e])  BY <1>10, <2>1, NoQuoteIsQuote DEF OrderSides
    <2> QED  BY <2>2 DEF OrderSides
  <1>13. SimShape(r)
    <2>1. ASSUME NEW t \in Symbols
          PROVE  /\ DOMAIN r.strategy[t] = DOMAIN NewStrategy /\ r.strategy[t].inventory \in Int
                 /\ IsQuote(r.strategy[t].Buy) /\ IsQuote(r.strategy[t].Sell)
                 /\ DOMAIN r.account[t] = DOMAIN NewAccount /\ r.account[t].position \in Int
      <3>1. CASE t = s  BY <1>5, <1>6, <1>7, <1>9, <1>10, <1>12, <3>1
      <3>2. CASE t # s  BY <1>9, <3>2 DEF SimInv, SimShape
      <3> QED  BY <3>1, <3>2
    <2> QED  BY <1>4, <1>5, <1>8, <1>9, <2>1 DEF SimInv, SimShape
  <1>14. \A t \in Symbols, e \in OrderSides : (t # s \/ e # d) => r.strategy[t][e] = m.strategy[t][e]
    BY <1>9, <1>10
  <1>15. QuotesHeld(r.strategy, r.engine.books, r.symbolOf, r.next_order_id)
    <2> DEFINE old == m.strategy  new == r.strategy  books == m.engine.books
               books2 == r.engine.books  map == m.symbolOf  n == m.next_order_id
    <2>1. QuotesHeld(old, books, map, n) /\ n \in Nat /\ old[s][d] # NoQuote
      BY DEF SimInv, SimShape
    <2>2. /\ \A t \in Symbols, e \in OrderSides :
                 (t # s \/ e # d) => new[t][e] = old[t][e] /\ books2[t][e] = books[t][e]
          /\ books2[s][d] = IF q < o.qty THEN <<rest>> ELSE <<>>
          /\ new[s][d] = IF q < o.qty THEN old[s][d] ELSE NoQuote
      <3>1. r.engine.books = e1.books /\ r.strategy[s][d] = st[d]  BY <1>8, <1>9
      <3>2. st[d] = IF q < o.qty THEN m.strategy[s][d] ELSE NoQuote  BY <1>3, <1>10
      <3> QED  BY <1>4, <1>14, <3>1, <3>2
    <2>3. r.symbolOf = (IF q < o.qty THEN map ELSE Without(map, old[s][d].id))
      BY <1>4, <1>8, <1>11
    <2>4. o = [id |-> old[s][d].id, price |-> old[s][d].price, qty |-> o.qty, ts |-> o.ts]
      BY <1>2
    <2>5. r.next_order_id = n  BY <1>8
    <2> HIDE DEF old, new, books, books2, map, n, o
    <2>6. CASE q < o.qty
      <3>1. /\ rest.qty \in 1 .. QuoteSize
            /\ rest = [id |-> old[s][d].id, price |-> old[s][d].price, qty |-> rest.qty, ts |-> rest.ts]
        <4>1. rest.qty = o.qty - q /\
              rest = [id |-> old[s][d].id, price |-> old[s][d].price, qty |-> rest.qty, ts |-> rest.ts]
          BY <2>4, RestIs DEF rest
        <4>2. o.qty \in 1 .. QuoteSize /\ QuoteSize \in Nat  BY <1>2, BacktestAssumption
        <4>3. o.qty - q \in 1 .. QuoteSize  BY <1>3, <2>6, <4>2
        <4> QED  BY <4>1, <4>3
      <3> HIDE DEF rest
      <3>2. books2[s][d] = <<rest>> /\ \A t \in Symbols, e \in OrderSides : new[t][e] = old[t][e]
        BY <2>2, <2>6
      <3>3. QuotesHeld(new, books2, map, n)  BY <2>1, <2>2, <3>1, <3>2, PartQuote
      <3> QED  BY <2>3, <2>5, <2>6, <3>3 DEF new, books2
    <2>7. CASE ~(q < o.qty)
      <3>1. books2[s][d] = <<>> /\ new[s][d] = NoQuote  BY <2>2, <2>7
      <3>2. QuotesHeld(new, books2, Without(map, old[s][d].id), n)  BY <2>1, <2>2, <3>1, DropQuote
      <3> QED  BY <2>3, <2>5, <2>7, <3>2 DEF new, books2
    <2> QED  BY <2>6, <2>7
  <1>16. \A t \in Symbols : r.strategy[t].inventory = r.account[t].position
    BY <1>5, <1>6, <1>9, <1>10 DEF SimInv
  <1>17. SimInv(r)  BY <1>8, <1>11, <1>13, <1>15, <1>16 DEF SimInv
  <1>18. QtyOf(r.engine.books[s][d]) = QtyOf(book) - q
    <2>1. QtyOf(book) = o.qty
      <3> HIDE DEF book, o
      <3> QED  BY <1>2, OneQty
    <2>2. CASE q < o.qty
      <3>1. rest.qty = o.qty - q /\ rest.qty \in Nat
        <4> HIDE DEF o
        <4>1. rest.qty = o.qty - q  BY <1>2, RestIs DEF rest
        <4> QED  BY <1>2, <1>3, <2>2, <4>1
      <3> HIDE DEF rest, book
      <3>2. r.engine.books[s][d] = <<rest>>  BY <1>4, <1>8, <2>2
      <3> QED  BY <2>1, <3>1, <3>2, OneQty
    <2>3. CASE ~(q < o.qty)
      <3>1. r.engine.books[s][d] = <<>>  BY <1>4, <1>8, <2>3
      <3>2. o.qty - q = 0  BY <1>2, <1>3, <2>3
      <3> HIDE DEF book
      <3> QED  BY <2>1, <3>1, <3>2, EmptyQty
    <2> QED  BY <2>2, <2>3
  <1> QED  BY <1>4, <1>6, <1>8, <1>9, <1>17, <1>18 DEF Traded

(* What a side of the book holds: nothing, or at most one quote. *)
LEMMA QtyBound ==
    ASSUME NEW m, SimInv(m), NEW s \in Symbols, NEW d \in OrderSides
    PROVE  /\ QtyOf(m.engine.books[s][d]) \in 0 .. QuoteSize
           /\ m.strategy[s][d] = NoQuote => QtyOf(m.engine.books[s][d]) = 0
  <1> DEFINE book == m.engine.books[s][d]
  <1>1. CASE m.strategy[s][d] = NoQuote
    <2>1. book = <<>>  BY <1>1 DEF SimInv, QuotesHeld
    <2> QED  BY <2>1, EmptyQty, BacktestAssumption
  <1>2. CASE m.strategy[s][d] # NoQuote
    <2>1. HeldBy(book, m.strategy[s][d])  BY <1>2 DEF SimInv, QuotesHeld
    <2>2. book = <<book[1]>> /\ book[1].qty \in 1 .. QuoteSize  BY <2>1, TheOrder
    <2> HIDE DEF book
    <2> DEFINE o == book[1]
    <2>3. book = <<o>> /\ o.qty \in 1 .. QuoteSize  BY <2>2
    <2> HIDE DEF o
    <2>4. QtyOf(<<o>>) = o.qty  BY <2>3, OneQty
    <2> QED  BY <1>2, <2>3, <2>4, BacktestAssumption DEF book
  <1> QED  BY <1>1, <1>2

(* The position and what may add to it, within one quote of the limit. *)
Bounded(m, s) ==
    /\ m.account[s].position + QtyOf(m.engine.books[s]["Buy"]) < MaxPosition + QuoteSize
    /\ QtyOf(m.engine.books[s]["Sell"]) - m.account[s].position < MaxPosition + QuoteSize

(* A state that a fill leads to. *)
FilledTo(r, m) ==
    /\ SimInv(r)
    /\ \A s \in Symbols : Bounded(m, s) => Bounded(r, s)

LEMMA FillBounded ==
    ASSUME NEW m, SimInv(m), NEW s \in Symbols, NEW d \in OrderSides, m.strategy[s][d] # NoQuote,
           NEW q \in Nat, NEW fill, Fills(fill, s, d, m.engine.books[s][d][1], q),
           NEW st, FilledState(st, m.strategy[s], d, fill), NEW r,
           r = [m EXCEPT !.engine = TakeFill(m.engine, fill),
                         !.account[s] = BookFill(m.account[s], fill),
                         !.strategy[s] = st,
                         !.symbolOf = IF fill.partial THEN m.symbolOf ELSE Without(m.symbolOf, fill.id)]
    PROVE  FilledTo(r, m)
  <1>1. /\ SimInv(r)
        /\ r.account[s].position = m.account[s].position + SignedQty(fill)
        /\ \A t \in Symbols : t # s => r.account[t] = m.account[t]
        /\ QtyOf(r.engine.books[s][d]) = QtyOf(m.engine.books[s][d]) - q
        /\ \A t \in Symbols, e \in OrderSides :
               (t # s \/ e # d) => r.engine.books[t][e] = m.engine.books[t][e]
    <2>1. Traded(r, m, s, d, q, fill)  BY FillInv
    <2> QED  BY <2>1 DEF Traded
  <1>2. SignedQty(fill) = IF d = "Buy" THEN q ELSE -q  BY DEF SignedQty, Fills
  <1>3. "Buy" \in OrderSides /\ "Sell" \in OrderSides  BY DEF OrderSides
  <1>4. m.account[s].position \in Int  BY DEF SimInv, SimShape
  <1>5. ASSUME NEW t \in Symbols, Bounded(m, t) PROVE Bounded(r, t)
    <2>1. CASE t # s  BY <1>1, <1>3, <1>5, <2>1 DEF Bounded
    <2>2. CASE t = s
      <3> DEFINE p == m.account[s].position  p2 == r.account[s].position
                 b == QtyOf(m.engine.books[s]["Buy"])  b2 == QtyOf(r.engine.books[s]["Buy"])
                 a == QtyOf(m.engine.books[s]["Sell"]) a2 == QtyOf(r.engine.books[s]["Sell"])
                 top == MaxPosition + QuoteSize
      <3>1. p + b < top /\ a - p < top  BY <1>5, <2>2 DEF Bounded
      <3>2. b \in Nat /\ a \in Nat /\ p \in Int  BY <1>3, <1>4, QtyBound, BacktestAssumption
      <3>3. top \in Int  BY BacktestAssumption, ExperimentAssumption
      <3>4. CASE d = "Buy"
        <4>1. p2 = p + q /\ b2 = b - q /\ a2 = a  BY <1>1, <1>2, <1>3, <3>4
        <4> HIDE DEF p, p2, a, a2, b, b2, top
        <4>2. p2 + b2 < top /\ a2 - p2 < top  BY <3>1, <3>2, <3>3, <4>1
        <4> QED  BY <2>2, <4>2 DEF Bounded, p, p2, a, a2, b, b2, top
      <3>5. CASE d = "Sell"
        <4>1. p2 = p + (-q) /\ a2 = a - q /\ b2 = b  BY <1>1, <1>2, <1>3, <3>5
        <4> HIDE DEF p, p2, a, a2, b, b2, top
        <4>2. p2 + b2 < top /\ a2 - p2 < top  BY <3>1, <3>2, <3>3, <4>1
        <4> QED  BY <2>2, <4>2 DEF Bounded, p, p2, a, a2, b, b2, top
      <3> QED  BY <3>4, <3>5 DEF OrderSides
    <2> QED  BY <2>1, <2>2
  <1> QED  BY <1>1, <1>5 DEF FilledTo

LEMMA OnFillDoes ==
    ASSUME NEW m, SimInv(m), NEW s \in Symbols, NEW d \in OrderSides, m.strategy[s][d] # NoQuote,
           NEW q \in Nat, NEW fill, Fills(fill, s, d, m.engine.books[s][d][1], q)
    PROVE  FilledTo(OnFill(m, fill), m)
  <1> DEFINE old == m.strategy[s]
             st  == StrategyOnFill(old, fill)
  <1>1. HeldBy(m.engine.books[s][d], old[d])  BY DEF SimInv, QuotesHeld
  <1>2. fill.id = old[d].id /\ fill.side = d  BY <1>1, TheOrder DEF Fills
  <1>3. fill.id \in DOMAIN m.symbolOf /\ m.symbolOf[fill.id] = s  BY <1>2 DEF SimInv, QuotesHeld
  <1>4. OnFill(m, fill) = [m EXCEPT !.engine = TakeFill(m.engine, fill),
                         !.account[s] = BookFill(m.account[s], fill), !.strategy[s] = st,
                         !.symbolOf = IF fill.partial THEN m.symbolOf ELSE Without(m.symbolOf, fill.id)]
    BY <1>3 DEF OnFill
  <1>5. st = [old EXCEPT !.inventory = old.inventory + SignedQty(fill), !.has_center = FALSE,
                         ![d] = IF fill.partial THEN old[d] ELSE NoQuote]
    BY <1>2 DEF StrategyOnFill, OrderSides
  <1>6. DOMAIN old = {"inventory", "Buy", "Sell", "center", "has_center", "last_requote"}
    BY DEF SimInv, SimShape, NewStrategy
  <1> HIDE DEF st
  <1>7. FilledState(st, old, d, fill)
    BY <1>5, <1>6 DEF FilledState, OrderSides, NewStrategy
  <1> QED  BY <1>4, <1>7, FillBounded

LEMMA ExperimentOnFillDoes ==
    ASSUME NEW m, SimInv(m), NEW s \in Symbols, NEW d \in OrderSides, m.strategy[s][d] # NoQuote,
           NEW q \in Nat, NEW fill, Fills(fill, s, d, m.engine.books[s][d][1], q)
    PROVE  FilledTo(ExperimentOnFill(m, fill), m)
  <1> DEFINE old == m.strategy[s]
             st  == OfiOnFill(old, fill)
             gone(x) == IF ~fill.partial /\ x.id = fill.id THEN NoQuote ELSE x
  <1>1. HeldBy(m.engine.books[s][d], old[d])  BY DEF SimInv, QuotesHeld
  <1>2. fill.id = old[d].id /\ fill.side = d  BY <1>1, TheOrder DEF Fills
  <1>3. fill.id \in DOMAIN m.symbolOf /\ m.symbolOf[fill.id] = s /\ fill.id # 0
    BY <1>2 DEF SimInv, QuotesHeld
  <1>4. ExperimentOnFill(m, fill) = [m EXCEPT !.engine = TakeFill(m.engine, fill),
                         !.account[s] = BookFill(m.account[s], fill), !.strategy[s] = st,
                         !.symbolOf = IF fill.partial THEN m.symbolOf ELSE Without(m.symbolOf, fill.id)]
    BY <1>3 DEF ExperimentOnFill
  <1>5. st = [old EXCEPT !.inventory = old.inventory + SignedQty(fill),
                         !.Buy = gone(old.Buy), !.Sell = gone(old.Sell)]
    BY DEF OfiOnFill
  <1>6. DOMAIN old = {"inventory", "Buy", "Sell", "center", "has_center", "last_requote"}
    BY DEF SimInv, SimShape, NewStrategy
  <1>7. \A e \in OrderSides : e # d => gone(old[e]) = old[e]
    BY <1>2, <1>3 DEF SimInv, QuotesHeld, OrderSides
  <1>8. gone(old[d]) = IF fill.partial THEN old[d] ELSE NoQuote  BY <1>2
  <1> HIDE DEF gone, st
  <1>9. \A e \in OrderSides : st[e] = gone(old[e])  BY <1>5, <1>6 DEF OrderSides
  <1>10. DOMAIN st = DOMAIN old /\ st.inventory = old.inventory + SignedQty(fill)  BY <1>5, <1>6
  <1>11. FilledState(st, old, d, fill)
    BY <1>6, <1>7, <1>8, <1>9, <1>10 DEF FilledState, NewStrategy
  <1> QED  BY <1>4, <1>11, FillBounded

LEMMA FilledSame == ASSUME NEW m, SimInv(m) PROVE FilledTo(m, m)
  BY DEF FilledTo

LEMMA FilledTwice ==
    ASSUME NEW m, NEW r, NEW x, FilledTo(r, m), FilledTo(x, r) PROVE FilledTo(x, m)
  BY DEF FilledTo

(* The print of an event fills nothing, or the one order of the side it fills. *)
LEMMA ThePrint ==
    ASSUME NEW m, SimInv(m), NEW ev, ev.symbol \in Symbols, ev.qty \in Nat, ev.price \in Nat
    PROVE  \/ FillsOf(m.engine, ev) = <<>>
           \/ \E fill : \E d \in OrderSides, q \in Nat :
                 /\ FillsOf(m.engine, ev) = <<fill>> /\ m.strategy[ev.symbol][d] # NoQuote
                 /\ Fills(fill, ev.symbol, d, m.engine.books[ev.symbol][d][1], q)
  <1> DEFINE s == ev.symbol
             d == FilledSide(ev)
             book == m.engine.books[s][d]
             o == book[1]
  <1>1. d \in OrderSides  BY DEF FilledSide, OrderSides
  <1>2. CASE m.strategy[s][d] = NoQuote
    <2>1. book = <<>>  BY <1>1, <1>2 DEF SimInv, QuotesHeld
    <2> QED  BY <2>1, FillsOfNone
  <1>3. CASE m.strategy[s][d] # NoQuote
    <2>1. HeldBy(book, m.strategy[s][d])  BY <1>1, <1>3 DEF SimInv, QuotesHeld
    <2>2. book = <<o>> /\ o.qty \in 1 .. QuoteSize  BY <2>1, TheOrder
    <2> HIDE DEF o
    <2>3. o.qty \in Nat \ {0}  BY <2>2, BacktestAssumption
    <2>4. \/ FillsOf(m.engine, ev) = <<>>
          \/ \E q \in 1 .. o.qty : FillsOf(m.engine, ev) = <<FillBy(o, ev, q)>>
      BY <2>2, <2>3, FillsOfTheOne
    <2>5. ASSUME NEW q \in 1 .. o.qty PROVE Fills(FillBy(o, ev, q), s, d, o, q) /\ q \in Nat
      BY <2>3 DEF Fills, FillBy
    <2>6. o = m.engine.books[s][d][1]  BY DEF o
    <2> HIDE DEF d
    <2> QED  BY <1>1, <1>3, <2>4, <2>5, <2>6
  <1> QED  BY <1>2, <1>3

LEMMA FillsHandled ==
    ASSUME NEW m, SimInv(m), NEW ev, ev.symbol \in Symbols, ev.qty \in Nat, ev.price \in Nat
    PROVE  /\ FilledTo(FoldLeft(OnFill, m, FillsOf(m.engine, ev)), m)
           /\ FilledTo(FoldLeft(ExperimentOnFill, m, FillsOf(m.engine, ev)), m)
  <1>1. CASE FillsOf(m.engine, ev) = <<>>
    BY <1>1, NoFills, NoFillsExperiment, FilledSame
  <1>2. CASE \E fill : \E d \in OrderSides, q \in Nat :
                 /\ FillsOf(m.engine, ev) = <<fill>> /\ m.strategy[ev.symbol][d] # NoQuote
                 /\ Fills(fill, ev.symbol, d, m.engine.books[ev.symbol][d][1], q)
    <2>1. PICK fill, d, q :
                 /\ d \in OrderSides /\ q \in Nat
                 /\ FillsOf(m.engine, ev) = <<fill>> /\ m.strategy[ev.symbol][d] # NoQuote
                 /\ Fills(fill, ev.symbol, d, m.engine.books[ev.symbol][d][1], q)
      BY <1>2
    <2>2. FilledTo(OnFill(m, fill), m)  BY <2>1, OnFillDoes
    <2>3. FilledTo(ExperimentOnFill(m, fill), m)  BY <2>1, ExperimentOnFillDoes
    <2> QED  BY <2>1, <2>2, <2>3, OneFill, OneFillExperiment
  <1> QED  BY <1>1, <1>2, ThePrint

(* Accounts that differ in their marks alone. *)
LEMMA MarksKeep ==
    ASSUME NEW m, SimInv(m), NEW accounts, DOMAIN accounts = Symbols,
           \A t \in Symbols : /\ DOMAIN accounts[t] = DOMAIN NewAccount
                              /\ accounts[t].position = m.account[t].position,
           NEW r, r = [m EXCEPT !.account = accounts]
    PROVE  FilledTo(r, m)
  <1>1. DOMAIN m = {"engine", "strategy", "account", "symbolOf", "next_order_id", "submitted"}
    BY DEF SimInv, SimShape
  <1>2. /\ DOMAIN r = DOMAIN m /\ r.engine = m.engine /\ r.strategy = m.strategy
        /\ r.symbolOf = m.symbolOf /\ r.next_order_id = m.next_order_id /\ r.account = accounts
    BY <1>1
  <1>3. SimShape(r)  BY <1>2 DEF SimInv, SimShape
  <1>4. SimInv(r)  BY <1>2, <1>3 DEF SimInv
  <1>5. ASSUME NEW t \in Symbols, Bounded(m, t) PROVE Bounded(r, t)
    BY <1>2, <1>5 DEF Bounded
  <1> QED  BY <1>4, <1>5 DEF FilledTo

(* Strategies that differ neither in their quotes nor in their inventory. *)
LEMMA CentersKeep ==
    ASSUME NEW m, SimInv(m), NEW st, DOMAIN st = Symbols,
           \A t \in Symbols : /\ DOMAIN st[t] = DOMAIN NewStrategy
                              /\ st[t].inventory = m.strategy[t].inventory
                              /\ st[t].Buy = m.strategy[t].Buy /\ st[t].Sell = m.strategy[t].Sell,
           NEW r, r = [m EXCEPT !.strategy = st]
    PROVE  SimInv(r)
  <1>1. DOMAIN m = {"engine", "strategy", "account", "symbolOf", "next_order_id", "submitted"}
    BY DEF SimInv, SimShape
  <1>2. /\ DOMAIN r = DOMAIN m /\ r.engine = m.engine /\ r.strategy = st
        /\ r.symbolOf = m.symbolOf /\ r.next_order_id = m.next_order_id /\ r.account = m.account
    BY <1>1
  <1>3. SimShape(r)  BY <1>2 DEF SimInv, SimShape
  <1>4. QuotesHeld(st, m.engine.books, m.symbolOf, m.next_order_id)
    <2>1. \A t \in Symbols, e \in OrderSides : st[t][e] = m.strategy[t][e]  BY DEF OrderSides
    <2>2. /\ QuotesHeld(m.strategy, m.engine.books, m.symbolOf, m.next_order_id)
          /\ m.next_order_id \in Nat
      BY DEF SimInv, SimShape
    <2> DEFINE n == m.next_order_id
    <2>3. n \in Nat /\ n <= n  BY <2>2
    <2> HIDE DEF n
    <2>4. QuotesHeld(st, m.engine.books, m.symbolOf, n)
      BY <2>1, <2>2, <2>3, KeepQuotes DEF n
    <2> QED  BY <2>4 DEF n
  <1> QED  BY <1>2, <1>3, <1>4 DEF SimInv

LEMMA MarkMidKeeps ==
    ASSUME NEW acc, DOMAIN acc = DOMAIN NewAccount, NEW bid, NEW ask
    PROVE  /\ DOMAIN MarkMid(acc, bid, ask) = DOMAIN NewAccount
           /\ MarkMid(acc, bid, ask).position = acc.position
  <1>1. DOMAIN NewAccount = {"position", "cash", "avg_cost", "realized", "mid2", "unrealized",
                             "fills", "volume"}
    BY DEF NewAccount
  <1> QED  BY <1>1 DEF MarkMid

LEMMA MarkToMidKeeps ==
    ASSUME NEW acc, DOMAIN acc = DOMAIN NewAccount
    PROVE  /\ DOMAIN MarkToMid(acc) = DOMAIN NewAccount
           /\ MarkToMid(acc).position = acc.position
  <1>1. DOMAIN NewAccount = {"position", "cash", "avg_cost", "realized", "mid2", "unrealized",
                             "fills", "volume"}
    BY DEF NewAccount
  <1>2. \E u : MarkToMid(acc) = [acc EXCEPT !.unrealized = u]  BY Zenon DEF MarkToMid
  <1> QED  BY <1>1, <1>2

(* A mark of one account. *)
LEMMA MarkOne ==
    ASSUME NEW m, SimInv(m), NEW s \in Symbols, NEW bid, NEW ask, NEW r,
           r = [m EXCEPT !.account[s] = MarkMid(m.account[s], bid, ask)]
    PROVE  FilledTo(r, m)
  <1> DEFINE acc == MarkMid(m.account[s], bid, ask)
             accounts == [m.account EXCEPT ![s] = acc]
  <1>1. /\ DOMAIN m = {"engine", "strategy", "account", "symbolOf", "next_order_id", "submitted"}
        /\ DOMAIN m.account = Symbols
        /\ \A t \in Symbols : DOMAIN m.account[t] = DOMAIN NewAccount
    BY DEF SimInv, SimShape
  <1>2. DOMAIN acc = DOMAIN NewAccount /\ acc.position = m.account[s].position
    BY <1>1, MarkMidKeeps
  <1> HIDE DEF acc
  <1>3. /\ DOMAIN accounts = Symbols
        /\ \A t \in Symbols : /\ DOMAIN accounts[t] = DOMAIN NewAccount
                              /\ accounts[t].position = m.account[t].position
    BY <1>1, <1>2
  <1>4. r = [m EXCEPT !.account = accounts]  BY <1>1 DEF acc
  <1> HIDE DEF accounts
  <1> QED  BY <1>3, <1>4, MarksKeep

(* The mark of all accounts that ends an event. *)
LEMMA MarkAll ==
    ASSUME NEW m, SimInv(m), NEW r,
           r = [m EXCEPT !.account = [x \in Symbols |-> MarkToMid(m.account[x])]]
    PROVE  FilledTo(r, m)
  <1> DEFINE accounts == [x \in Symbols |-> MarkToMid(m.account[x])]
  <1>1. \A t \in Symbols : DOMAIN m.account[t] = DOMAIN NewAccount
    BY DEF SimInv, SimShape
  <1>2. /\ DOMAIN accounts = Symbols
        /\ \A t \in Symbols : /\ DOMAIN accounts[t] = DOMAIN NewAccount
                              /\ accounts[t].position = m.account[t].position
    BY <1>1, MarkToMidKeeps
  <1>3. r = [m EXCEPT !.account = accounts]  OBVIOUS
  <1> HIDE DEF accounts
  <1> QED  BY <1>2, <1>3, MarksKeep

LEMMA OnFeatureInv ==
    ASSUME NEW m, SimInv(m), NEW s \in Symbols, NEW quote, NEW flow, NEW ts
    PROVE  SimInv(OnFeature(m, s, quote, flow, ts))
  <1> DEFINE center == Center(m.strategy[s], quote, flow)
             x  == Requote(m, s, center, ts)
             r  == [x EXCEPT !.strategy[s].center = center, !.strategy[s].has_center = TRUE]
             st == [x.strategy EXCEPT ![s].center = center, ![s].has_center = TRUE]
  <1>1. OnFeature(m, s, quote, flow, ts) = m \/ OnFeature(m, s, quote, flow, ts) = r
    BY Zenon DEF OnFeature
  <1> HIDE DEF center
  <1>2. SimInv(x)  BY RequoteInv
  <1> HIDE DEF x
  <1>3. /\ DOMAIN x = {"engine", "strategy", "account", "symbolOf", "next_order_id", "submitted"}
        /\ DOMAIN x.strategy = Symbols
        /\ \A t \in Symbols : DOMAIN x.strategy[t] = DOMAIN NewStrategy
        /\ DOMAIN NewStrategy = {"inventory", "Buy", "Sell", "center", "has_center", "last_requote"}
    BY <1>2 DEF SimInv, SimShape, NewStrategy
  <1>4. /\ DOMAIN st = Symbols
        /\ \A t \in Symbols : /\ DOMAIN st[t] = DOMAIN NewStrategy
                              /\ st[t].inventory = x.strategy[t].inventory
                              /\ st[t].Buy = x.strategy[t].Buy /\ st[t].Sell = x.strategy[t].Sell
    BY <1>3
  <1>5. r = [x EXCEPT !.strategy = st]  BY <1>3
  <1> HIDE DEF st
  <1>6. SimInv(r)  BY <1>2, <1>4, <1>5, CentersKeep
  <1> QED  BY <1>1, <1>6

LEMMA PublishInv ==
    ASSUME NEW m, SimInv(m), NEW ev, ev.symbol \in Symbols, NEW quote, NEW f
    PROVE  SimInv(Publish(m, ev, quote, f))
  <1> DEFINE s == ev.symbol
             x == [m EXCEPT !.account[s] = MarkMid(m.account[s], quote.bid, quote.ask)]
  <1>1. FilledTo(x, m)  BY MarkOne
  <1>2. SimInv(x)  BY <1>1 DEF FilledTo
  <1>3. Publish(m, ev, quote, f) = m \/ Publish(m, ev, quote, f) = OnFeature(x, s, quote, f.ofi_sum, ev.ts)
    BY Zenon DEF Publish
  <1> HIDE DEF x
  <1> QED  BY <1>2, <1>3, OnFeatureInv

(* A side on which a new order of one quote rests. *)
LEMMA NewOrderQty ==
    ASSUME NEW id, NEW price, NEW ts PROVE QtyOf(<<NewOrder(id, price, ts)>>) = QuoteSize
  <1> DEFINE o == NewOrder(id, price, ts)
  <1>1. o.qty = QuoteSize /\ o.qty \in Nat  BY BacktestAssumption DEF NewOrder
  <1> HIDE DEF o
  <1>2. QtyOf(<<o>>) = QuoteSize  BY <1>1, OneQty
  <1> QED  BY <1>2 DEF o

(* The orders of the OfiStrategy stay within its limit. *)
LEMMA OfiRequoteKeeps ==
    ASSUME NEW m, SimInv(m), NEW s \in Symbols, NEW quote, NEW center, NEW ts, Bounded(m, s)
    PROVE  FilledTo(OfiRequote(m, s, quote, center, ts), m)
  <1> DEFINE b == CancelQuote(m, s, "Buy")
             c == CancelQuote(b, s, "Sell")
             r == OfiRequote(m, s, quote, center, ts)
             p == m.account[s].position
             n == c.next_order_id
             top == MaxPosition + QuoteSize
  <1>0. PICK B \in OrderSides, S \in OrderSides : B = "Buy" /\ S = "Sell"  BY DEF OrderSides
  <1>a. /\ b = CancelQuote(m, s, B) /\ c = CancelQuote(b, s, S)  BY <1>0
  <1>1. /\ SimInv(b) /\ b.strategy[s][B] = NoQuote /\ b.account = m.account
        /\ \A t \in Symbols, e \in OrderSides :
               (t # s \/ e # B) => b.engine.books[t][e] = m.engine.books[t][e]
    <2>1. Cancelled(b, m, s, B)  BY <1>a, CancelQuoteInv
    <2> QED  BY <2>1 DEF Cancelled
  <1> HIDE DEF b, c
  <1>2. /\ SimInv(c) /\ c.strategy[s][S] = NoQuote /\ c.account = b.account
        /\ \A t \in Symbols, e \in OrderSides :
               (t # s \/ e # S) => /\ c.strategy[t][e] = b.strategy[t][e]
                                   /\ c.engine.books[t][e] = b.engine.books[t][e]
    <2>1. SimInv(b)  BY <1>1
    <2>2. Cancelled(c, b, s, S)  BY <1>a, <2>1, CancelQuoteInv
    <2> QED  BY <2>2 DEF Cancelled
  <1>3. /\ c.strategy[s][B] = NoQuote /\ c.account = m.account
        /\ \A t \in Symbols, e \in OrderSides : t # s => c.engine.books[t][e] = m.engine.books[t][e]
    BY <1>0, <1>1, <1>2
  <1>4. /\ p \in Int /\ m.strategy[s].inventory = p
        /\ top \in Int /\ MaxPosition \in Nat \ {0} /\ QuoteSize \in Nat \ {0}
    BY BacktestAssumption, ExperimentAssumption DEF SimInv, SimShape
  <1>5. p < top /\ 0 - p < top
    <2> DEFINE x == QtyOf(m.engine.books[s]["Buy"])  y == QtyOf(m.engine.books[s]["Sell"])
    <2>1. x \in 0 .. QuoteSize /\ y \in 0 .. QuoteSize  BY <1>0, QtyBound
    <2>2. p + x < top /\ y - p < top  BY DEF Bounded
    <2> HIDE DEF x, y, p, top
    <2> QED  BY <1>4, <2>1, <2>2
  <1>6. QtyOf(c.engine.books[s][B]) = 0 /\ QtyOf(c.engine.books[s][S]) = 0
    BY <1>2, <1>3, QtyBound
  <1> DEFINE low == center - HalfSpread  high == center + HalfSpread
             sell1 == OfiSubmit(c, s, S, quote.bid - FlattenOffset, ts)
             buy1  == OfiSubmit(c, s, B, quote.ask + FlattenOffset, ts)
             buy   == OfiSubmit(c, s, B, low, ts)
             both  == OfiSubmit(buy, s, S, high, ts)
  <1>7. r = CASE m.strategy[s].inventory >= MaxPosition -> sell1
              [] m.strategy[s].inventory <= -MaxPosition -> buy1
              [] OTHER -> both
    <2>1. r = CASE m.strategy[s].inventory >= MaxPosition ->
                       OfiSubmit(c, s, "Sell", quote.bid - FlattenOffset, ts)
                [] m.strategy[s].inventory <= -MaxPosition ->
                       OfiSubmit(c, s, "Buy", quote.ask + FlattenOffset, ts)
                [] OTHER -> OfiSubmit(OfiSubmit(c, s, "Buy", low, ts), s, "Sell", high, ts)
      BY Zenon DEF OfiRequote, b, c
    <2> HIDE DEF r, low, high
    <2> QED  BY <1>0, <2>1
  <1> HIDE DEF r, top, p, low, high
  (* A result whose books are these is within the limit. *)
  <1>8. ASSUME NEW x, SimInv(x), x.account = m.account,
               \A t \in Symbols, e \in OrderSides : t # s => x.engine.books[t][e] = m.engine.books[t][e],
               p + QtyOf(x.engine.books[s][B]) < top, QtyOf(x.engine.books[s][S]) - p < top
        PROVE  FilledTo(x, m)
    <2>1. ASSUME NEW t \in Symbols, Bounded(m, t) PROVE Bounded(x, t)
      BY <1>0, <1>8, <2>1 DEF Bounded, p, top
    <2> QED  BY <1>8, <2>1 DEF FilledTo
  <1>9. CASE p >= MaxPosition
    <2>1. r = sell1  BY <1>4, <1>7, <1>9
    <2>2. /\ SimInv(sell1) /\ sell1.account = c.account
          /\ sell1.engine.books[s][S] = <<NewOrder(n, quote.bid - FlattenOffset, ts)>>
          /\ \A t \in Symbols, e \in OrderSides :
                 (t # s \/ e # S) => sell1.engine.books[t][e] = c.engine.books[t][e]
      BY <1>2, OfiSubmitInv
    <2> HIDE DEF sell1
    <2>3. QtyOf(sell1.engine.books[s][S]) = QuoteSize /\ QtyOf(sell1.engine.books[s][B]) = 0
      BY <1>0, <1>6, <2>2, NewOrderQty
    <2>4. p + 0 < top /\ QuoteSize - p < top  BY <1>4, <1>5, <1>9 DEF top
    <2>5. FilledTo(sell1, m)  BY <1>0, <1>3, <1>8, <2>2, <2>3, <2>4
    <2> QED  BY <2>1, <2>5 DEF r
  <1>10. CASE p <= -MaxPosition
    <2>1. r = buy1  BY <1>4, <1>7, <1>10
    <2>2. /\ SimInv(buy1) /\ buy1.account = c.account
          /\ buy1.engine.books[s][B] = <<NewOrder(n, quote.ask + FlattenOffset, ts)>>
          /\ \A t \in Symbols, e \in OrderSides :
                 (t # s \/ e # B) => buy1.engine.books[t][e] = c.engine.books[t][e]
      BY <1>2, <1>3, OfiSubmitInv
    <2> HIDE DEF buy1
    <2>3. QtyOf(buy1.engine.books[s][B]) = QuoteSize /\ QtyOf(buy1.engine.books[s][S]) = 0
      BY <1>0, <1>6, <2>2, NewOrderQty
    <2>4. p + QuoteSize < top /\ 0 - p < top  BY <1>4, <1>5, <1>10 DEF top
    <2>5. FilledTo(buy1, m)  BY <1>0, <1>3, <1>8, <2>2, <2>3, <2>4
    <2> QED  BY <2>1, <2>5 DEF r
  <1>11. CASE ~(p >= MaxPosition) /\ ~(p <= -MaxPosition)
    <2>1. r = both  BY <1>4, <1>7, <1>11
    <2>2. /\ SimInv(buy) /\ buy.account = c.account
          /\ buy.engine.books[s][B] = <<NewOrder(n, low, ts)>>
          /\ \A t \in Symbols, e \in OrderSides :
                 (t # s \/ e # B) => /\ buy.strategy[t][e] = c.strategy[t][e]
                                     /\ buy.engine.books[t][e] = c.engine.books[t][e]
      BY <1>2, <1>3, OfiSubmitInv
    <2> HIDE DEF buy
    <2>3. buy.strategy[s][S] = NoQuote  BY <1>0, <1>2, <2>2
    <2>4. /\ SimInv(both) /\ both.account = buy.account
          /\ both.engine.books[s][S] = <<NewOrder(buy.next_order_id, high, ts)>>
          /\ \A t \in Symbols, e \in OrderSides :
                 (t # s \/ e # S) => both.engine.books[t][e] = buy.engine.books[t][e]
      BY <2>2, <2>3, OfiSubmitInv
    <2> HIDE DEF both
    <2>5. QtyOf(both.engine.books[s][S]) = QuoteSize /\ QtyOf(both.engine.books[s][B]) = QuoteSize
      BY <1>0, <2>2, <2>4, NewOrderQty
    <2>6. p + QuoteSize < top /\ QuoteSize - p < top  BY <1>4, <1>11 DEF top
    <2>7. \A t \in Symbols, e \in OrderSides : t # s => both.engine.books[t][e] = m.engine.books[t][e]
      BY <1>3, <2>2, <2>4
    <2>8. both.account = m.account  BY <1>3, <2>2, <2>4
    <2>9. FilledTo(both, m)  BY <1>8, <2>4, <2>5, <2>6, <2>7, <2>8
    <2> QED  BY <2>1, <2>9 DEF r
  <1> QED  BY <1>9, <1>10, <1>11

------------------------------------------------------------------------------
(* The sums over a window of points, one for each of its prefixes. *)
SumsOf(points, f) ==
    f = [n \in 0 .. Len(points) |-> IF n = 0 THEN 0 ELSE f[n - 1] + points[n].value]

(* A function with the sums of the first m points. *)
Adds(points, m, f) ==
    /\ f[0] = 0 /\ \A k \in 1 .. m : f[k] = f[k - 1] + points[k].value

LEMMA SumsExist ==
    ASSUME NEW points \in Seq(Points)
    PROVE  \E f : SumsOf(points, f)
  <1> DEFINE L == Len(points)
             Good(m, f) == DOMAIN f = 0 .. m /\ Adds(points, m, f)
             T == {m \in 0 .. L : \A f : ~Good(m, f)}
  <1>1. L \in Nat  BY LenProperties
  <1> HIDE DEF L
  <1>2. T = {}
    <2> SUFFICES ASSUME T # {} PROVE FALSE  OBVIOUS
    <2>1. T \subseteq Nat  BY <1>1
    <2>2. PICK m \in T : \A y \in T : m <= y  BY <2>1, LeastMember
    <2>3. m \in 0 .. L /\ \A f : ~Good(m, f)  OBVIOUS
    <2>4. m # 0
      <3> DEFINE f0 == [n \in 0 .. 0 |-> 0]
      <3>1. Good(0, f0)  BY DEF Adds
      <3> QED  BY <2>3, <3>1
    <2>5. m - 1 \in 0 .. L /\ m - 1 \notin T  BY <1>1, <2>1, <2>2, <2>3, <2>4
    <2>6. PICK f : Good(m - 1, f)  BY <2>5
    <2> DEFINE g == [n \in 0 .. m |-> IF n = m THEN f[m - 1] + points[m].value ELSE f[n]]
    <2>7. DOMAIN g = 0 .. m /\ g[0] = 0 /\ g[m] = f[m - 1] + points[m].value
      BY <1>1, <2>3, <2>4, <2>6 DEF Adds
    <2>8. \A n \in 0 .. m - 1 : g[n] = f[n]  BY <1>1, <2>3
    <2>9. ASSUME NEW k \in 1 .. m PROVE g[k] = g[k - 1] + points[k].value
      <3>1. k - 1 \in 0 .. m - 1  BY <1>1, <2>3
      <3>2. CASE k = m  BY <2>7, <2>8, <3>1, <3>2
      <3>3. CASE k # m
        <4>1. k \in 0 .. m - 1 /\ k \in 1 .. m - 1  BY <1>1, <2>3, <3>3
        <4> HIDE DEF g
        <4> QED  BY <2>6, <2>8, <3>1, <4>1 DEF Adds
      <3> QED  BY <3>2, <3>3
    <2> HIDE DEF g
    <2> QED  BY <2>3, <2>7, <2>9 DEF Adds
  <1>3. PICK f : Good(L, f)  BY <1>1, <1>2
  <1> DEFINE g == [n \in 0 .. L |-> f[n]]
  <1>4. ASSUME NEW n \in 0 .. L
        PROVE  g[n] = IF n = 0 THEN 0 ELSE g[n - 1] + points[n].value
    <2>1. CASE n = 0  BY <1>1, <1>3, <2>1 DEF Adds
    <2>2. CASE n # 0
      <3>1. n \in 1 .. L /\ n - 1 \in 0 .. L  BY <1>1, <2>2
      <3>2. g[n] = f[n] /\ g[n - 1] = f[n - 1]  BY <3>1
      <3> HIDE DEF g
      <3> QED  BY <1>3, <2>2, <3>1, <3>2 DEF Adds
    <2> QED  BY <2>1, <2>2
  <1>5. g = [n \in 0 .. L |-> IF n = 0 THEN 0 ELSE g[n - 1] + points[n].value]
    BY <1>4
  <1> HIDE DEF g
  <1>6. SumsOf(points, g)  BY <1>5 DEF SumsOf, L
  <1> QED  BY <1>6

(* The sum of the points is the last of them. *)
LEMMA SumIsLast ==
    ASSUME NEW points \in Seq(Points)
    PROVE  \E f : /\ Adds(points, Len(points), f) /\ SumOf(points) = f[Len(points)]
                  /\ \A n \in 0 .. Len(points) : f[n] \in Int
  <1> DEFINE f == CHOOSE x : SumsOf(points, x)
             L == Len(points)
  <1>0. L \in Nat /\ \A k \in 1 .. L : points[k].value \in Int
    <2>1. \A k \in 1 .. L : points[k] \in Points  BY ElementOfSeq
    <2> QED  BY <2>1, LenProperties DEF Points
  <1>1. SumsOf(points, f)  BY SumsExist, Zenon
  <1>2. SumOf(points) = f[L]  BY Zenon DEF SumOf, SumsOf
  <1> HIDE DEF f
  <1>3. f = [n \in 0 .. L |-> IF n = 0 THEN 0 ELSE f[n - 1] + points[n].value]  BY <1>1 DEF SumsOf
  <1> HIDE DEF L
  <1>4. ASSUME NEW n \in 0 .. L PROVE f[n] = IF n = 0 THEN 0 ELSE f[n - 1] + points[n].value
    BY <1>3, Zenon
  <1>5. Adds(points, L, f)
    <2>1. f[0] = 0  BY <1>0, <1>4
    <2>2. ASSUME NEW k \in 1 .. L PROVE f[k] = f[k - 1] + points[k].value
      <3>1. k \in 0 .. L /\ k # 0  BY <1>0
      <3> QED  BY <1>4, <3>1
    <2> QED  BY <2>1, <2>2 DEF Adds
  <1>6. \A n \in 0 .. L : f[n] \in Int
    <2> DEFINE T == {n \in 0 .. L : f[n] \notin Int}
    <2> SUFFICES ASSUME T # {} PROVE FALSE  OBVIOUS
    <2>1. T \subseteq Nat  BY <1>0
    <2>2. PICK n \in T : \A y \in T : n <= y  BY <2>1, LeastMember
    <2>3. n \in 0 .. L /\ f[n] \notin Int  OBVIOUS
    <2>4. n # 0  BY <1>5, <2>3 DEF Adds
    <2>5. n - 1 \in 0 .. L /\ n - 1 \notin T /\ n \in 1 .. L  BY <1>0, <2>1, <2>2, <2>3, <2>4
    <2>6. f[n - 1] \in Int  BY <2>5
    <2>7. f[n] = f[n - 1] + points[n].value  BY <1>5, <2>5 DEF Adds
    <2> QED  BY <1>0, <2>3, <2>5, <2>6, <2>7
  <1> QED  BY <1>2, <1>5, <1>6 DEF L

(* And of any function that adds them up. *)
LEMMA SumUnique ==
    ASSUME NEW points \in Seq(Points), NEW g, Adds(points, Len(points), g)
    PROVE  SumOf(points) = g[Len(points)]
  <1> DEFINE L == Len(points)
  <1>1. PICK f : Adds(points, L, f) /\ SumOf(points) = f[L]  BY SumIsLast
  <1>2. L \in Nat  BY LenProperties
  <1>3. Adds(points, L, g)  OBVIOUS
  <1> HIDE DEF L
  <1> DEFINE T == {n \in 0 .. L : f[n] # g[n]}
  <1>4. T = {}
    <2> SUFFICES ASSUME T # {} PROVE FALSE  OBVIOUS
    <2>1. T \subseteq Nat  BY <1>2
    <2>2. PICK n \in T : \A y \in T : n <= y  BY <2>1, LeastMember
    <2>3. n \in 0 .. L /\ f[n] # g[n]  OBVIOUS
    <2>4. n # 0  BY <1>1, <1>3, <2>3 DEF Adds
    <2>5. n - 1 \in 0 .. L /\ n - 1 \notin T /\ n \in 1 .. L  BY <1>2, <2>1, <2>2, <2>3, <2>4
    <2>6. f[n - 1] = g[n - 1]  BY <2>5
    <2> QED  BY <1>1, <1>3, <2>3, <2>5, <2>6 DEF Adds
  <1>5. f[L] = g[L]  BY <1>2, <1>4
  <1> QED  BY <1>1, <1>5 DEF L

(* The sum is that of the first h points and that of the others. *)
LEMMA SumSplit ==
    ASSUME NEW points \in Seq(Points), NEW h \in 0 .. Len(points)
    PROVE  /\ SubSeq(points, 1, h) \in Seq(Points)
           /\ SubSeq(points, h + 1, Len(points)) \in Seq(Points)
           /\ SumOf(SubSeq(points, 1, h)) \in Int
           /\ SumOf(SubSeq(points, h + 1, Len(points))) \in Int
           /\ SumOf(points) = SumOf(SubSeq(points, 1, h)) + SumOf(SubSeq(points, h + 1, Len(points)))
  <1> DEFINE L == Len(points)
             a == SubSeq(points, 1, h)
             b == SubSeq(points, h + 1, L)
  <1>1. PICK f : /\ Adds(points, L, f) /\ SumOf(points) = f[L]
                 /\ \A n \in 0 .. L : f[n] \in Int
    BY SumIsLast
  <1>2. L \in Nat /\ h \in Nat /\ h <= L  BY LenProperties
  <1>3. a \in Seq(Points) /\ Len(a) = h /\ \A k \in 1 .. h : a[k] = points[k]
    BY <1>2
  <1>4. b \in Seq(Points) /\ Len(b) = L - h /\ \A k \in 1 .. L - h : b[k] = points[h + k]
    <2>1. \A i \in h + 1 .. L : points[i] \in Points  BY <1>2, ElementOfSeq
    <2> QED  BY <1>2, <2>1, SubSeqProperties
  <1> HIDE DEF L, a, b
  <1>5. SumOf(a) = f[h]
    <2>1. Adds(a, h, f)  BY <1>1, <1>2, <1>3 DEF Adds
    <2> QED  BY <1>3, <2>1, SumUnique
  <1>6. SumOf(b) = f[L] - f[h]
    <2> DEFINE g == [k \in 0 .. L - h |-> f[h + k] - f[h]]
    <2>0. f[h] \in Int /\ \A k \in 0 .. L - h : f[h + k] \in Int  BY <1>1, <1>2
    <2>1. Adds(b, L - h, g)
      <3>1. g[0] = 0  BY <1>2, <2>0
      <3>2. ASSUME NEW k \in 1 .. L - h PROVE g[k] = g[k - 1] + b[k].value
        <4>1. h + k \in 1 .. L /\ (h + k) - 1 = h + (k - 1) /\ k - 1 \in 0 .. L - h /\ k \in 0 .. L - h
          BY <1>2
        <4>2. f[h + k] = f[h + (k - 1)] + points[h + k].value  BY <1>1, <4>1 DEF Adds
        <4>3. points[h + k] \in Points  BY <4>1, ElementOfSeq DEF L
        <4>4. points[h + k].value \in Int  BY <4>3 DEF Points
        <4>5. b[k].value = points[h + k].value  BY <1>4
        <4>6. g[k] = f[h + k] - f[h] /\ g[k - 1] = f[h + (k - 1)] - f[h]  BY <4>1
        <4>7. f[h + (k - 1)] \in Int  BY <2>0, <4>1
        <4> HIDE DEF g
        <4> QED  BY <2>0, <4>2, <4>4, <4>5, <4>6, <4>7
      <3> QED  BY <3>1, <3>2 DEF Adds
    <2>2. g[L - h] = f[L] - f[h]
      <3>1. L - h \in 0 .. L - h /\ h + (L - h) = L  BY <1>2
      <3> QED  BY <3>1
    <2> HIDE DEF g
    <2>3. SumOf(b) = g[L - h]  BY <1>4, <2>1, SumUnique
    <2> QED  BY <2>2, <2>3
  <1>7. f[h] \in Int /\ f[L] \in Int  BY <1>1, <1>2
  <1>8. SumOf(points) = SumOf(a) + SumOf(b)  BY <1>1, <1>5, <1>6, <1>7
  <1>9. SumOf(a) \in Int /\ SumOf(b) \in Int  BY <1>5, <1>6, <1>7
  <1> QED  BY <1>3, <1>4, <1>8, <1>9, Zenon DEF a, b, L

LEMMA SumOfNone == SumOf(<<>>) = 0 /\ <<>> \in Seq(Points)
  <1> DEFINE g == [n \in 0 .. 0 |-> 0]
  <1>1. <<>> \in Seq(Points) /\ Len(<<>>) = 0  BY EmptySeq
  <1>2. Adds(<<>>, 0, g) /\ g[0] = 0  BY DEF Adds
  <1> HIDE DEF g
  <1> QED  BY <1>1, <1>2, SumUnique

LEMMA SumOfOne == ASSUME NEW p \in Points PROVE SumOf(<<p>>) = p.value
  <1> DEFINE g == [n \in 0 .. 1 |-> IF n = 0 THEN 0 ELSE 0 + p.value]
             one == <<p>>
  <1>1. one \in Seq(Points) /\ Len(one) = 1 /\ one[1] = p  OBVIOUS
  <1>2. p.value \in Int  BY DEF Points
  <1>3. g[0] = 0 /\ g[1] = 0 + p.value  OBVIOUS
  <1> HIDE DEF g, one
  <1>4. Adds(one, 1, g)
    <2>1. \A k \in 1 .. 1 : k = 1 /\ k - 1 = 0  OBVIOUS
    <2> QED  BY <1>1, <1>3, <2>1 DEF Adds
  <1>5. SumOf(one) = g[1]  BY <1>1, <1>4, SumUnique
  <1> QED  BY <1>2, <1>3, <1>5 DEF one

(* A window to which a point is added and that loses the first ones of its     *)
(* points keeps the sum of the others.                                       *)
LEMMA WindowSlides ==
    ASSUME NEW window \in Seq(Points), NEW p \in Points, NEW all, all = Append(window, p),
           NEW h \in 0 .. Len(all)
    PROVE  /\ SubSeq(all, h + 1, Len(all)) \in Seq(Points)
           /\ SumOf(window) + p.value - SumOf(SubSeq(all, 1, h)) = SumOf(SubSeq(all, h + 1, Len(all)))
  <1> DEFINE L == Len(window)
  <1>1. all \in Seq(Points) /\ Len(all) = L + 1 /\ L \in Nat  BY LenProperties
  <1>2. SubSeq(all, 1, L) = window /\ SubSeq(all, L + 1, Len(all)) = <<p>>
    <2>1. \A i \in 1 .. L : all[i] = window[i]  OBVIOUS
    <2>2. all[L + 1] = p  OBVIOUS
    <2> DEFINE x == SubSeq(all, 1, L)  y == SubSeq(all, L + 1, Len(all))
    <2>3. x \in Seq(Points) /\ Len(x) = L /\ \A i \in 1 .. L : x[i] = all[i]
      BY <1>1
    <2>4. x = window
      <3> HIDE DEF x
      <3> QED  BY <2>1, <2>3, SeqEqual
    <2>5. y \in Seq(Points) /\ Len(y) = 1 /\ y[1] = all[L + 1]
      BY <1>1
    <2>6. y = <<p>>
      <3> HIDE DEF y
      <3>1. <<p>> \in Seq(Points) /\ Len(<<p>>) = 1 /\ <<p>>[1] = p  OBVIOUS
      <3> QED  BY <2>2, <2>5, <3>1, SeqEqual
    <2> QED  BY <2>4, <2>6
  <1>3. SumOf(all) = SumOf(window) + p.value
    <2>1. L \in 0 .. Len(all)  BY <1>1
    <2>2. SumOf(all) = SumOf(SubSeq(all, 1, L)) + SumOf(SubSeq(all, L + 1, Len(all)))
      BY <1>1, <2>1, SumSplit
    <2> QED  BY <1>2, <2>2, SumOfOne
  <1>4. /\ SubSeq(all, h + 1, Len(all)) \in Seq(Points)
        /\ SumOf(SubSeq(all, 1, h)) \in Int
        /\ SumOf(SubSeq(all, h + 1, Len(all))) \in Int
        /\ SumOf(all) = SumOf(SubSeq(all, 1, h)) + SumOf(SubSeq(all, h + 1, Len(all)))
    BY <1>1, SumSplit
  <1>5. SumOf(window) \in Int
    <2>1. PICK f : /\ SumOf(window) = f[L] /\ \A n \in 0 .. L : f[n] \in Int  BY SumIsLast
    <2> QED  BY <1>1, <2>1
  <1>6. p.value \in Int  BY DEF Points
  <1> DEFINE x == SumOf(window)  y == SumOf(SubSeq(all, 1, h))  v == p.value
             z == SumOf(SubSeq(all, h + 1, Len(all)))
  <1>7. x + v = y + z /\ x \in Int /\ y \in Int /\ z \in Int /\ v \in Int
    BY <1>3, <1>4, <1>5, <1>6, Zenon
  <1> HIDE DEF x, y, z, v
  <1>8. x + v - y = z  BY <1>7
  <1> QED  BY <1>4, <1>8, Zenon DEF x, y, z, v

LEMMA MaxOfTwo ==
    ASSUME NEW a \in Int, NEW b \in Int PROVE Max({a, b}) = IF a >= b THEN a ELSE b
  <1> DEFINE m == IF a >= b THEN a ELSE b
  <1>1. m \in {a, b} /\ \A y \in {a, b} : m >= y  OBVIOUS
  <1>2. \A x \in {a, b} : (\A y \in {a, b} : x >= y) => x = m  OBVIOUS
  <1> QED  BY <1>1, <1>2 DEF Max

LEMMA MinIsLeast ==
    ASSUME NEW S \in SUBSET Nat, S # {}
    PROVE  Min(S) \in S /\ \A y \in S : Min(S) <= y
  <1>1. \E x \in S : \A y \in S : x <= y  BY LeastMember
  <1> QED  BY <1>1 DEF Min

(* The entries that prune takes are the first ones of the window. *)
LEMMA PrunedInWindow ==
    ASSUME NEW window \in Seq(Points), NEW ts
    PROVE  Pruned(window, ts) \in 0 .. Len(window)
  <1> DEFINE L == Len(window)
             fresh == {i \in DOMAIN window : window[i].ts + SignalWindow >= ts}
             S == fresh \cup {L + 1}
             byAge == IF SignalWindow = 0 THEN 0 ELSE Min(S) - 1
             excess == IF SignalEvents = 0 THEN 0 ELSE L - SignalEvents
  <1>1. L \in Nat /\ DOMAIN window = 1 .. L  BY LenProperties
  <1>2. S \in SUBSET Nat /\ S # {} /\ S \subseteq 1 .. L + 1  BY <1>1
  <1>3. Min(S) \in S  BY <1>2, MinIsLeast
  <1>4. Min(S) \in 1 .. L + 1  BY <1>2, <1>3
  <1>5. byAge \in 0 .. L
    <2> HIDE DEF S, L
    <2> QED  BY <1>1, <1>4
  <1>6. excess \in Int /\ excess <= L  BY <1>1, ExperimentAssumption
  <1>7. Pruned(window, ts) = Max({byAge, excess})  BY DEF Pruned
  <1> HIDE DEF L, byAge, excess
  <1>8. Max({byAge, excess}) \in 0 .. L  BY <1>1, <1>5, <1>6, MaxOfTwo
  <1> QED  BY <1>7, <1>8 DEF L

(* An event of the tape, at its time. *)
IsEvent(ev) ==
    /\ DOMAIN ev = {"type", "symbol", "side", "price", "qty", "ts", "best"}
    /\ ev.symbol \in Symbols /\ ev.price \in Nat /\ ev.qty \in Nat /\ ev.ts \in Nat
    /\ ev.best \in Seq([price : Nat, qty : Nat])

LEMMA FlowInt ==
    ASSUME NEW signal, SignalInv(signal), NEW ev, IsEvent(ev), ev.side \in OrderSides
    PROVE  FlowOf(signal, ev) \in Int
  <1> DEFINE old == signal[ev.side]
             sign == IF ev.side = "Buy" THEN 1 ELSE -1
  <1>1. ev.price \in Nat /\ ev.qty \in Nat  BY DEF IsEvent
  <1>2. old = <<>> \/ (old = <<old[1]>> /\ old[1].price \in Nat /\ old[1].qty \in Nat /\ old # <<>>)
    <2>1. old = <<>> \/ (old = <<old[1]>> /\ old[1] \in [price : Nat, qty : Nat])
      BY DEF SignalInv
    <2>2. old = <<old[1]>> => old # <<>>
      <3> DEFINE o == old[1]
      <3>1. <<o>> # <<>>  OBVIOUS
      <3> QED  BY <3>1
    <2> QED  BY <2>1, <2>2
  <1>3. FlowOf(signal, ev) = CASE old = <<>> \/ ev.price > old[1].price -> sign * ev.qty
                               [] old # <<>> /\ ev.price = old[1].price -> sign * (ev.qty - old[1].qty)
                               [] OTHER -> -sign * old[1].qty
    BY Zenon DEF FlowOf
  <1>4. sign = 1 \/ sign = -1  OBVIOUS
  <1> HIDE DEF sign, old
  <1>5. CASE old = <<>>
    <2>1. FlowOf(signal, ev) = sign * ev.qty  BY <1>3, <1>5
    <2> QED  BY <1>1, <1>4, <2>1
  <1>6. CASE old # <<>>
    <2>1. old[1].price \in Nat /\ old[1].qty \in Nat  BY <1>2, <1>6
    <2>2. CASE ev.price > old[1].price
      <3>1. FlowOf(signal, ev) = sign * ev.qty  BY <1>1, <1>3, <1>6, <2>1, <2>2
      <3> QED  BY <1>1, <1>4, <3>1
    <2>3. CASE ev.price = old[1].price
      <3>1. FlowOf(signal, ev) = sign * (ev.qty - old[1].qty)  BY <1>1, <1>3, <1>6, <2>1, <2>3
      <3> QED  BY <1>1, <1>4, <2>1, <3>1
    <2>4. CASE ev.price < old[1].price
      <3>1. FlowOf(signal, ev) = -sign * old[1].qty  BY <1>1, <1>3, <1>6, <2>1, <2>4
      <3> QED  BY <1>4, <2>1, <3>1
    <2> QED  BY <1>1, <2>1, <2>2, <2>3, <2>4
  <1> QED  BY <1>5, <1>6

(* The running sum of the signal is that of its window. *)
LEMMA SignalUpdates ==
    ASSUME NEW signal, SignalInv(signal), NEW ev, IsEvent(ev)
    PROVE  SignalInv(UpdateSignal(signal, ev))
  <1> DEFINE quotes == ev.side \in OrderSides /\ ev.price > 0
             flow == IF quotes THEN FlowOf(signal, ev) ELSE 0
             p    == [ts |-> ev.ts, value |-> flow]
             all  == Append(signal.window, p)
             gone == Pruned(all, ev.ts)
             win  == SubSeq(all, gone + 1, Len(all))
             sum  == signal.sum + flow - SumOf(SubSeq(all, 1, gone))
             slid == [signal EXCEPT !.window = win, !.sum = sum]
             top  == <<[price |-> ev.price, qty |-> ev.qty]>>
             r    == UpdateSignal(signal, ev)
  <1>1. r = IF quotes THEN [slid EXCEPT ![ev.side] = top] ELSE slid
    BY Zenon DEF UpdateSignal
  <1>2. flow \in Int  BY FlowInt
  <1>3. ev.ts \in Nat /\ ev.price \in Nat /\ ev.qty \in Nat  BY DEF IsEvent
  <1> HIDE DEF flow, quotes
  <1>4. p \in Points /\ p.value = flow  BY <1>2, <1>3 DEF Points
  <1> HIDE DEF p
  <1>5. signal.window \in Seq(Points) /\ signal.sum = SumOf(signal.window)  BY DEF SignalInv
  <1>6. all \in Seq(Points)  BY <1>4, <1>5
  <1>7. gone \in 0 .. Len(all)  BY <1>6, PrunedInWindow
  <1>8. win \in Seq(Points) /\ sum = SumOf(win)
    <2>1. all = Append(signal.window, p)  OBVIOUS
    <2> HIDE DEF all, gone
    <2> QED  BY <1>4, <1>5, <1>7, <2>1, WindowSlides
  <1> HIDE DEF win, sum
  <1>9. DOMAIN signal = {"window", "sum", "Buy", "Sell"}  BY DEF SignalInv, NewSignal
  <1>10. /\ DOMAIN slid = DOMAIN signal /\ slid.window = win /\ slid.sum = sum
         /\ \A d \in OrderSides : slid[d] = signal[d]
    BY <1>9 DEF OrderSides
  <1>11. SignalInv(slid)
    <2> HIDE DEF slid
    <2> QED  BY <1>8, <1>10 DEF SignalInv
  <1>12. CASE ~quotes  BY <1>1, <1>11, <1>12
  <1>13. CASE quotes
    <2>1. PICK d \in OrderSides : d = ev.side  BY <1>13 DEF quotes
    <2>2. r = [slid EXCEPT ![d] = top]  BY <1>1, <1>13, <2>1
    <2> HIDE DEF slid, r
    <2> DEFINE o == [price |-> ev.price, qty |-> ev.qty]
    <2>3. o \in [price : Nat, qty : Nat] /\ top = <<o>>  BY <1>3
    <2> HIDE DEF o, top
    <2>4. top = <<top[1]>> /\ top[1] \in [price : Nat, qty : Nat]  BY <2>3
    <2>5. /\ DOMAIN r = DOMAIN slid /\ r.window = slid.window /\ r.sum = slid.sum
          /\ r[d] = top /\ \A e \in OrderSides : e # d => r[e] = slid[e]
      BY <1>9, <1>10, <2>2 DEF OrderSides
    <2>6. ASSUME NEW e \in OrderSides
          PROVE  \/ r[e] = <<>>
                 \/ r[e] = <<r[e][1]>> /\ r[e][1] \in [price : Nat, qty : Nat]
      <3>1. CASE e = d  BY <2>4, <2>5, <3>1
      <3>2. CASE e # d  BY <1>11, <2>5, <3>2 DEF SignalInv
      <3> QED  BY <3>1, <3>2
    <2>7. SignalInv(r)  BY <1>11, <2>5, <2>6 DEF SignalInv
    <2> QED  BY <2>7 DEF r
  <1> QED  BY <1>12, <1>13

------------------------------------------------------------------------------
(* What the books show. *)
Nbbos == [bid : Nat, bid_qty : Nat, ask : Nat, ask_qty : Nat]

LEMMA DeltaInt == ASSUME NEW old \in Nbbos, NEW new \in Nbbos PROVE DeltaOfi(old, new) \in Int
  <1>1. /\ old.bid \in Nat /\ old.bid_qty \in Nat /\ old.ask \in Nat /\ old.ask_qty \in Nat
        /\ new.bid \in Nat /\ new.bid_qty \in Nat /\ new.ask \in Nat /\ new.ask_qty \in Nat
    BY DEF Nbbos
  <1>2. BidFlow(old, new) \in Int  BY <1>1 DEF BidFlow
  <1>3. AskFlow(old, new) \in Int  BY <1>1 DEF AskFlow
  <1> QED  BY <1>2, <1>3 DEF DeltaOfi

(* The running sum of the imbalance is that of the points in the window. *)
LEMMA SlideKeeps ==
    ASSUME NEW f, FeatureInv(f), NEW quote \in Nbbos, NEW ts \in Nat, NEW r, r = SlideOfi(f, quote, ts)
    PROVE  /\ FeatureInv(r)
           /\ r.buy = f.buy /\ r.sell = f.sell /\ r.buckets = f.buckets
  <1> DEFINE delta == DeltaOfi(f.last, quote)
             p    == [ts |-> ts, value |-> delta]
             all  == Append(f.window, p)
             S    == {i \in DOMAIN all : ~Expired(all[i], ts)}
             head == Min(S)
             win  == SubSeq(all, head, Len(all))
             sum  == f.ofi_sum + delta - SumOf(SubSeq(all, 1, head - 1))
  <1>1. r = [f EXCEPT !.last = quote, !.window = win, !.ofi_sum = sum]
    BY Zenon DEF SlideOfi
  <1>2. /\ f.last \in Nbbos /\ f.window \in Seq(Points) /\ f.ofi_sum = SumOf(f.window)
        /\ DOMAIN f = {"last", "ofi_sum", "window", "buy", "sell", "buckets"}
    BY DEF FeatureInv, Nbbos, NewFeatures
  <1>3. delta \in Int  BY <1>2, DeltaInt
  <1> HIDE DEF delta
  <1>4. p \in Points /\ p.value = delta /\ p.ts = ts  BY <1>3 DEF Points
  <1> HIDE DEF p
  <1>5. /\ all \in Seq(Points) /\ Len(all) \in Nat /\ DOMAIN all = 1 .. Len(all)
        /\ Len(all) \in 1 .. Len(all) /\ all[Len(all)] = p
    BY <1>2, <1>4, LenProperties
  <1>a. all = Append(f.window, p)  OBVIOUS
  <1> HIDE DEF all
  <1>6. ~Expired(all[Len(all)], ts)
    BY <1>4, <1>5, FeatureAssumption DEF Expired
  <1>7. S \in SUBSET Nat /\ S # {} /\ S \subseteq 1 .. Len(all)  BY <1>5, <1>6
  <1>8. head \in S  BY <1>7, MinIsLeast
  <1>9. head \in 1 .. Len(all)  BY <1>7, <1>8
  <1> HIDE DEF S, head
  <1> DEFINE h == head - 1
  <1>10. h \in 0 .. Len(all) /\ h + 1 = head  BY <1>5, <1>9
  <1> HIDE DEF h
  <1>11. /\ SubSeq(all, h + 1, Len(all)) \in Seq(Points)
         /\ SumOf(f.window) + p.value - SumOf(SubSeq(all, 1, h)) = SumOf(SubSeq(all, h + 1, Len(all)))
    BY <1>2, <1>4, <1>10, <1>a, WindowSlides
  <1>12. win \in Seq(Points) /\ sum = SumOf(win)
    BY <1>2, <1>4, <1>10, <1>11 DEF h
  <1> HIDE DEF win, sum
  <1>13. /\ DOMAIN r = DOMAIN f /\ r.last = quote /\ r.window = win /\ r.ofi_sum = sum
         /\ r.buy = f.buy /\ r.sell = f.sell /\ r.buckets = f.buckets
    BY <1>1, <1>2
  <1> QED  BY <1>12, <1>13 DEF FeatureInv, Nbbos

(* The number of buckets the ring holds after n more. *)
RingLen(len, n) == IF len + n > BucketCount THEN BucketCount ELSE len + n

ClosedOne(r, f) ==
    /\ FeatureInv(r)
    /\ r.buy + r.sell = f.buy + f.sell - BucketVolume
    /\ Len(r.buckets) = RingLen(Len(f.buckets), 1)

(* A turn of the loop takes one bucket volume off. *)
LEMMA CloseBucketDoes ==
    ASSUME NEW f, FeatureInv(f), Full(f), Len(f.buckets) <= BucketCount, NEW r, r = CloseBucket(f)
    PROVE  ClosedOne(r, f)
  <1> DEFINE excess == f.buy + f.sell - BucketVolume
             buy    == IF f.buy > excess THEN excess ELSE 0
             sell   == IF f.sell > buy THEN excess - buy ELSE 0
             ring   == Append(f.buckets, Abs(f.buy - f.sell))
             left   == IF Len(ring) > BucketCount THEN Tail(ring) ELSE ring
  <1>1. r = [f EXCEPT !.buckets = left, !.buy = buy, !.sell = sell]  BY DEF CloseBucket
  <1>2. /\ f.buy \in Nat /\ f.sell \in Nat /\ f.buckets \in Seq(Nat)
        /\ DOMAIN f = {"last", "ofi_sum", "window", "buy", "sell", "buckets"}
        /\ BucketVolume \in Nat \ {0} /\ BucketCount \in Nat \ {0}
    BY FeatureAssumption DEF FeatureInv, NewFeatures
  <1>3. excess \in Nat  BY <1>2 DEF Full
  <1>4. buy \in Nat /\ sell \in Nat /\ buy + sell = excess
    <2>1. CASE f.buy > excess
      <3>1. buy = excess /\ sell = IF f.sell > buy THEN excess - buy ELSE 0  BY <2>1
      <3> HIDE DEF buy, sell, excess
      <3> QED  BY <1>2, <1>3, <3>1
    <2>2. CASE ~(f.buy > excess)
      <3>1. f.sell > 0  BY <1>2, <1>3, <2>2
      <3>2. buy = 0 /\ sell = IF f.sell > buy THEN excess - buy ELSE 0  BY <2>2
      <3> HIDE DEF buy, sell, excess
      <3>3. sell = excess - 0  BY <1>2, <3>1, <3>2
      <3> QED  BY <1>3, <3>2, <3>3
    <2> QED  BY <2>1, <2>2
  <1>5. Abs(f.buy - f.sell) \in Nat  BY <1>2 DEF Abs
  <1>6. ring \in Seq(Nat) /\ Len(ring) = Len(f.buckets) + 1 /\ Len(f.buckets) \in Nat
    BY <1>2, <1>5, LenProperties
  <1> HIDE DEF ring
  <1>7. Len(ring) > BucketCount => Tail(ring) \in Seq(Nat) /\ Len(Tail(ring)) = Len(ring) - 1
    BY <1>2, <1>6
  <1>8. left \in Seq(Nat) /\ Len(left) = RingLen(Len(f.buckets), 1)
    BY <1>2, <1>6, <1>7 DEF RingLen
  <1> HIDE DEF left, buy, sell
  <1>9. /\ DOMAIN r = DOMAIN f /\ r.last = f.last /\ r.window = f.window /\ r.ofi_sum = f.ofi_sum
        /\ r.buy = buy /\ r.sell = sell /\ r.buckets = left
    BY <1>1, <1>2
  <1> QED  BY <1>4, <1>8, <1>9 DEF FeatureInv, ClosedOne

(* The turns of the loop that closes buckets. *)
Turn(f) == IF Full(f) THEN CloseBucket(f) ELSE f

Turns(f, last, g) == g = [n \in 0 .. last |-> IF n = 0 THEN f ELSE Turn(g[n - 1])]

LEMMA TurnsExist ==
    ASSUME NEW f, NEW L \in Nat PROVE \E g : Turns(f, L, g)
  <1> DEFINE Good(m, g) == DOMAIN g = 0 .. m /\ g[0] = f /\ \A k \in 1 .. m : g[k] = Turn(g[k - 1])
             T == {m \in 0 .. L : \A g : ~Good(m, g)}
  <1>2. T = {}
    <2> SUFFICES ASSUME T # {} PROVE FALSE  OBVIOUS
    <2>1. T \subseteq Nat  OBVIOUS
    <2>2. PICK m \in T : \A y \in T : m <= y  BY <2>1, LeastMember
    <2>3. m \in 0 .. L /\ \A g : ~Good(m, g)  OBVIOUS
    <2>4. m # 0
      <3> DEFINE g0 == [n \in 0 .. 0 |-> f]
      <3>1. Good(0, g0)  OBVIOUS
      <3> QED  BY <2>3, <3>1
    <2>5. m - 1 \in 0 .. L /\ m - 1 \notin T  BY <2>1, <2>2, <2>3, <2>4
    <2>6. PICK g : Good(m - 1, g)  BY <2>5
    <2> DEFINE x == [n \in 0 .. m |-> IF n = m THEN Turn(g[m - 1]) ELSE g[n]]
    <2>7. DOMAIN x = 0 .. m /\ x[0] = f /\ x[m] = Turn(g[m - 1])  BY <2>3, <2>4, <2>6
    <2>8. \A n \in 0 .. m - 1 : x[n] = g[n]  BY <2>3
    <2>9. ASSUME NEW k \in 1 .. m PROVE x[k] = Turn(x[k - 1])
      <3>1. k - 1 \in 0 .. m - 1  BY <2>3
      <3>2. CASE k = m  BY <2>7, <2>8, <3>1, <3>2
      <3>3. CASE k # m
        <4>1. k \in 0 .. m - 1 /\ k \in 1 .. m - 1  BY <2>3, <3>3
        <4> HIDE DEF x
        <4> QED  BY <2>6, <2>8, <3>1, <4>1
      <3> QED  BY <3>2, <3>3
    <2> HIDE DEF x
    <2> QED  BY <2>3, <2>7, <2>9
  <1>3. PICK g : Good(L, g)  BY <1>2
  <1> DEFINE x == [n \in 0 .. L |-> g[n]]
  <1>4. ASSUME NEW n \in 0 .. L PROVE x[n] = IF n = 0 THEN f ELSE Turn(x[n - 1])
    <2>1. CASE n = 0  BY <1>3, <2>1
    <2>2. CASE n # 0
      <3>1. n \in 1 .. L /\ n - 1 \in 0 .. L  BY <2>2
      <3>2. x[n] = g[n] /\ x[n - 1] = g[n - 1]  BY <3>1
      <3> HIDE DEF x
      <3> QED  BY <1>3, <2>2, <3>1, <3>2
    <2> QED  BY <2>1, <2>2
  <1>5. x = [n \in 0 .. L |-> IF n = 0 THEN f ELSE Turn(x[n - 1])]  BY <1>4
  <1> HIDE DEF x
  <1> QED  BY <1>5 DEF Turns

LEMMA AtLeastOnce == ASSUME NEW V \in Nat, NEW j \in Nat \ {0} PROVE V * j >= V
  <1>1. V * (j - 1) >= 0  OBVIOUS
  <1>2. V * j = V * (j - 1) + V  OBVIOUS
  <1>3. V * j \in Int /\ V * (j - 1) \in Int  OBVIOUS
  <1> QED  BY <1>1, <1>2, <1>3

(* After n turns n bucket volumes are gone. *)
Closed(x, f, n) ==
    /\ FeatureInv(x)
    /\ x.buy + x.sell + BucketVolume * n = f.buy + f.sell
    /\ Len(x.buckets) = RingLen(Len(f.buckets), n)

LEMMA CloseBucketsDoes ==
    ASSUME NEW f, FeatureInv(f), Len(f.buckets) <= BucketCount
    PROVE  Closed(CloseBuckets(f), f, (f.buy + f.sell) \div BucketVolume)
  <1> DEFINE V == BucketVolume
             all == f.buy + f.sell
             K == all \div V
             g == CHOOSE x : Turns(f, K, x)
             L0 == Len(f.buckets)
  <1>1. V \in Nat \ {0} /\ all \in Nat /\ f.buckets \in Seq(Nat)
        /\ BucketCount \in Nat \ {0}
    BY FeatureAssumption DEF FeatureInv
  <1>2. K \in Nat /\ all % V \in 0 .. V - 1 /\ all = V * K + (all % V)  BY <1>1, DivMod
  <1>3. L0 \in Nat  BY <1>1, LenProperties
  <1>4. Turns(f, K, g)  BY <1>2, TurnsExist, Zenon
  <1>5. CloseBuckets(f) = g[K]  BY Zenon DEF CloseBuckets, Turns, Turn
  <1> HIDE DEF g
  <1>6. g = [n \in 0 .. K |-> IF n = 0 THEN f ELSE Turn(g[n - 1])]  BY <1>4 DEF Turns
  <1> DEFINE rem == all % V
  <1>7. rem \in 0 .. V - 1 /\ all = V * K + rem  BY <1>2
  <1> HIDE DEF K, rem, L0
  <1>8. ASSUME NEW n \in 0 .. K PROVE g[n] = IF n = 0 THEN f ELSE Turn(g[n - 1])
    BY <1>6, Zenon
  <1>9. g[0] = f  BY <1>2, <1>8
  <1>10. ASSUME NEW n \in 1 .. K PROVE g[n] = Turn(g[n - 1])
    <2>1. n \in 0 .. K /\ n # 0  BY <1>2
    <2> QED  BY <1>8, <2>1
  <1>11. Closed(f, f, 0)
    <2>1. V * 0 = 0  BY <1>1
    <2>2. all + V * 0 = all  BY <1>1, <2>1
    <2>3. L0 = RingLen(L0, 0)  BY <1>1, <1>3 DEF RingLen, L0
    <2> QED  BY <2>2, <2>3 DEF Closed, L0
  <1> DEFINE Bad == {n \in 0 .. K : ~Closed(g[n], f, n)}
  <1>12. Bad = {}
    <2> SUFFICES ASSUME Bad # {} PROVE FALSE  OBVIOUS
    <2>1. Bad \subseteq Nat  BY <1>2
    <2>2. PICK n \in Bad : \A y \in Bad : n <= y  BY <2>1, LeastMember
    <2>3. n \in 0 .. K /\ ~Closed(g[n], f, n)  OBVIOUS
    <2>4. n # 0  BY <1>9, <1>11, <2>3
    <2>5. n - 1 \in 0 .. K /\ n - 1 \notin Bad /\ n \in 1 .. K  BY <1>2, <2>1, <2>2, <2>3, <2>4
    <2> DEFINE x == g[n - 1]
               y == g[n]
               tot == x.buy + x.sell
    <2>6. Closed(x, f, n - 1) /\ y = Turn(x)  BY <1>10, <2>5
    <2> HIDE DEF x, y, Bad
    <2>7. FeatureInv(x) /\ tot \in Nat /\ tot + V * (n - 1) = all /\ Len(x.buckets) = RingLen(L0, n - 1)
      BY <2>6 DEF Closed, FeatureInv, L0
    <2> HIDE DEF tot
    <2>8. tot >= V
      <3> DEFINE j == K - (n - 1)
      <3>1. j \in Nat \ {0}  BY <1>2, <2>5
      <3>2. V * K - V * (n - 1) = V * j  BY <1>1, <1>2, <2>5
      <3> HIDE DEF j
      <3>3. V * j >= V /\ V * j \in Int  BY <1>1, <3>1, AtLeastOnce
      <3>4. tot = V * j + rem
        <4> DEFINE a == V * K  b == V * (n - 1)  c == V * j
        <4>1. a \in Int /\ b \in Int /\ c \in Int  BY <1>1, <1>2, <2>5, <3>1
        <4> HIDE DEF a, b, c
        <4>2. tot + b = a + rem /\ a - b = c  BY <1>7, <2>7, <3>2 DEF a, b, c
        <4>3. tot = c + rem  BY <1>1, <1>7, <2>7, <4>1, <4>2
        <4> QED  BY <4>3 DEF c
      <3> QED  BY <1>1, <1>7, <3>3, <3>4
    <2>9. Full(x)  BY <2>8 DEF Full, tot
    <2>10. y = CloseBucket(x)  BY <2>6, <2>9 DEF Turn
    <2>11. Len(x.buckets) <= BucketCount  BY <1>1, <1>3, <2>3, <2>7 DEF RingLen
    <2>12. /\ FeatureInv(y) /\ y.buy + y.sell = tot - V
           /\ Len(y.buckets) = RingLen(Len(x.buckets), 1)
      <3>1. ClosedOne(y, x)  BY <2>7, <2>9, <2>10, <2>11, CloseBucketDoes
      <3>2. x.buy \in Nat /\ x.sell \in Nat  BY <2>7 DEF FeatureInv
      <3>3. x.buy + (x.sell - V) = tot - V  BY <1>1, <3>2 DEF tot
      <3> QED  BY <3>1, <3>3 DEF ClosedOne
    <2>13. Len(y.buckets) = RingLen(L0, n)
      BY <1>1, <1>3, <2>3, <2>5, <2>7, <2>12 DEF RingLen
    <2>14. y.buy + y.sell + V * n = all
      <3>1. V * n = V * (n - 1) + V /\ V * n \in Int /\ V * (n - 1) \in Int  BY <1>1, <2>3, <2>5
      <3> DEFINE a == V * n  b == V * (n - 1)  z == y.buy + y.sell
      <3>2. z = tot - V /\ tot + b = all /\ a = b + V /\ a \in Int /\ b \in Int
        BY <2>7, <2>12, <3>1
      <3> HIDE DEF a, b, z
      <3>3. z + a = all  BY <1>1, <2>7, <3>2
      <3> QED  BY <3>3 DEF a, z
    <2>15. Closed(y, f, n)  BY <2>12, <2>13, <2>14 DEF Closed, L0
    <2> QED  BY <2>3, <2>15 DEF y
  <1>13. Closed(g[K], f, K)  BY <1>2, <1>12
  <1> QED  BY <1>5, <1>13 DEF K

(* The volume is in closed buckets or waits, less than a bucket of it. *)
Accounted(f, vol) ==
    /\ f.buy + f.sell = vol % BucketVolume
    /\ Len(f.buckets) = Min({BucketCount, vol \div BucketVolume})

LEMMA RingLenIsMin ==
    ASSUME NEW c \in Nat, NEW a \in Nat, NEW k \in Nat, c = BucketCount
    PROVE  RingLen(Min({c, a}), k) = Min({c, a + k}) /\ Min({c, a}) <= c /\ Min({c, a}) \in Nat
  <1>1. Min({c, a}) = (IF c <= a THEN c ELSE a) /\ Min({c, a + k}) = (IF c <= a + k THEN c ELSE a + k)
    BY MinOfTwo
  <1> QED  BY <1>1 DEF RingLen

(* Adding v to the bucket and closing what is full. *)
LEMMA TradeAccounted ==
    ASSUME NEW f, FeatureInv(f), NEW vol \in Nat, Accounted(f, vol), NEW v \in Nat,
           NEW t, FeatureInv(t), t.buy + t.sell = f.buy + f.sell + v, t.buckets = f.buckets
    PROVE  FeatureInv(CloseBuckets(t)) /\ Accounted(CloseBuckets(t), vol + v)
  <1> DEFINE V == BucketVolume
             all == t.buy + t.sell
             K == all \div V
             a == vol \div V
             m == vol % V
             r == CloseBuckets(t)
             rem == all % V
             C == BucketCount
             len == Len(t.buckets)
  <1>1. V \in Nat \ {0} /\ C \in Nat \ {0} /\ f.buy \in Nat /\ f.sell \in Nat /\ all \in Nat
    <2>1. t.buy \in Nat /\ t.sell \in Nat /\ f.buy \in Nat /\ f.sell \in Nat  BY DEF FeatureInv
    <2> QED  BY <2>1, FeatureAssumption
  <1>2. a \in Nat /\ m \in 0 .. V - 1 /\ vol = V * a + m  BY <1>1, DivMod
  <1>3. K \in Nat /\ rem \in 0 .. V - 1 /\ all = V * K + rem  BY <1>1, DivMod
  <1>4. all = m + v /\ len = Min({C, a})  BY DEF Accounted
  <1>5. len <= C /\ RingLen(len, K) = Min({C, a + K})
    <2> HIDE DEF len, K, a, C
    <2>1. C \in Nat /\ C = BucketCount  BY <1>1 DEF C
    <2> QED  BY <1>2, <1>3, <1>4, <2>1, RingLenIsMin
  <1>6. Closed(r, t, K)  BY <1>5, CloseBucketsDoes
  <1> HIDE DEF r
  <1>7. r.buy \in Nat /\ r.sell \in Nat /\ r.buy + r.sell + V * K = all /\ Len(r.buckets) = RingLen(len, K)
        /\ FeatureInv(r)
    BY <1>6 DEF Closed, FeatureInv
  <1> HIDE DEF K, rem, a, m, len
  <1>8. r.buy + r.sell = rem
    <2> DEFINE x == V * K  y == r.buy + r.sell
    <2>1. y + x = all /\ all = x + rem /\ x \in Int /\ y \in Int  BY <1>1, <1>3, <1>7
    <2> HIDE DEF x, y, all
    <2>2. y = rem  BY <1>3, <2>1
    <2> QED  BY <2>2 DEF y
  <1>9. vol + v \in Nat /\ vol + v = V * (a + K) + rem
    <2> DEFINE x == V * K  y == V * a
    <2>1. V * (a + K) = y + x /\ x \in Int /\ y \in Int  BY <1>1, <1>2, <1>3
    <2>2. vol = y + m /\ m + v = x + rem  BY <1>2, <1>3, <1>4
    <2> HIDE DEF x, y
    <2>3. vol + v = (y + x) + rem  BY <1>1, <1>2, <1>3, <2>1, <2>2
    <2> QED  BY <2>1, <2>3
  <1>10. (vol + v) % V = rem /\ (vol + v) \div V = a + K
    <2>1. a + K \in Nat  BY <1>2, <1>3
    <2> QED  BY <1>1, <1>3, <1>9, <2>1, ModUnique, DivUnique
  <1>11. Accounted(r, vol + v)
    BY <1>5, <1>7, <1>8, <1>10 DEF Accounted
  <1> QED  BY <1>7, <1>11 DEF r

LEMMA FeaturesKeep ==
    ASSUME NEW f, FeatureInv(f), NEW vol \in Nat, Accounted(f, vol),
           NEW ev, IsEvent(ev), NEW quote \in Nbbos
    PROVE  /\ FeatureInv(FeaturesAfter(f, ev, quote)) /\ VolumeOf(ev, quote) \in Nat
           /\ Accounted(FeaturesAfter(f, ev, quote), vol + VolumeOf(ev, quote))
  <1> DEFINE slid == SlideOfi(f, quote, ev.ts)
             v == VolumeOf(ev, quote)
             t == [slid EXCEPT !.buy  = IF ev.side = "Buy"  THEN slid.buy + ev.qty ELSE slid.buy,
                               !.sell = IF ev.side = "Sell" THEN slid.sell + ev.qty ELSE slid.sell]
             r == FeaturesAfter(f, ev, quote)
  <1>1. ev.qty \in Nat /\ ev.ts \in Nat  BY DEF IsEvent
  <1>2. v \in Nat  BY <1>1 DEF VolumeOf
  <1>3. CASE ~BothSides(quote)
    <2>1. r = f  BY <1>3 DEF FeaturesAfter
    <2>2. vol + v = vol  BY <1>3 DEF VolumeOf
    <2> HIDE DEF r, v
    <2>3. FeatureInv(r) /\ Accounted(r, vol + v)  BY <2>1, <2>2
    <2> QED  BY <1>2, <2>3 DEF r, v
  <1>4. CASE BothSides(quote)
    <2>1. FeatureInv(slid) /\ slid.buy = f.buy /\ slid.sell = f.sell /\ slid.buckets = f.buckets
      BY <1>1, SlideKeeps
    <2>2. Accounted(slid, vol)  BY <2>1 DEF Accounted
    <2>3. r = IF ev.type \in {"Trade", "CrossTrade"} THEN OnTrade(slid, ev.side, ev.qty) ELSE slid
      BY <1>4 DEF FeaturesAfter
    <2>4. OnTrade(slid, ev.side, ev.qty) = CloseBuckets(t)  BY DEF OnTrade
    <2> HIDE DEF slid
    <2>5. CASE ev.type \notin {"Trade", "CrossTrade"}
      <3>1. v = 0  BY <2>5 DEF VolumeOf
      <3>2. r = slid /\ vol + v = vol  BY <2>3, <2>5, <3>1
      <3> HIDE DEF r, v
      <3>3. FeatureInv(r) /\ Accounted(r, vol + v)  BY <2>1, <2>2, <3>2
      <3> QED  BY <1>2, <3>3 DEF r, v
    <2>6. CASE ev.type \in {"Trade", "CrossTrade"}
      <3>1. v = IF ev.side \in OrderSides THEN ev.qty ELSE 0  BY <1>4, <2>6 DEF VolumeOf
      <3>2. /\ DOMAIN slid = {"last", "ofi_sum", "window", "buy", "sell", "buckets"}
            /\ slid.buy \in Nat /\ slid.sell \in Nat
        BY <2>1 DEF FeatureInv, NewFeatures
      <3>3. /\ DOMAIN t = DOMAIN slid /\ t.last = slid.last /\ t.window = slid.window
            /\ t.ofi_sum = slid.ofi_sum /\ t.buckets = slid.buckets
            /\ t.buy = IF ev.side = "Buy"  THEN slid.buy + ev.qty ELSE slid.buy
            /\ t.sell = IF ev.side = "Sell" THEN slid.sell + ev.qty ELSE slid.sell
        BY <3>2
      <3> HIDE DEF t, v
      <3>4. t.buy \in Nat /\ t.sell \in Nat /\ t.buy + t.sell = slid.buy + slid.sell + v
        BY <1>1, <3>1, <3>2, <3>3 DEF OrderSides
      <3>5. FeatureInv(t)  BY <2>1, <3>3, <3>4 DEF FeatureInv
      <3>6. FeatureInv(CloseBuckets(t)) /\ Accounted(CloseBuckets(t), vol + v)
        BY <1>2, <2>1, <2>2, <3>3, <3>4, <3>5, TradeAccounted
      <3>7. r = CloseBuckets(t)  BY <2>3, <2>4, <2>6 DEF t
      <3> HIDE DEF r
      <3>8. FeatureInv(r) /\ Accounted(r, vol + v)  BY <3>6, <3>7
      <3> QED  BY <1>2, <3>8 DEF r, v
    <2> QED  BY <2>5, <2>6
  <1> QED  BY <1>3, <1>4

------------------------------------------------------------------------------
(* An event of the tape, and what the books show after it. *)
LEMMA TapeEvent ==
    ASSUME NEW event \in Tape, now \in Nat
    PROVE  IsEvent([event EXCEPT !.ts = TimeOf(event)])
  <1> DEFINE ev == [event EXCEPT !.ts = TimeOf(event)]
  <1>1. event \in [type : STRING, symbol : Symbols, side : STRING, price : Nat, qty : Nat,
                   ts : Int, best : Seq([price : Nat, qty : Nat])]
    BY BacktestAssumption
  <1>2. /\ DOMAIN event = {"type", "symbol", "side", "price", "qty", "ts", "best"}
        /\ event.symbol \in Symbols /\ event.price \in Nat /\ event.qty \in Nat /\ event.ts \in Int
        /\ event.best \in Seq([price : Nat, qty : Nat])
    BY <1>1
  <1>3. TimeOf(event) \in Nat  BY <1>2 DEF TimeOf
  <1>4. /\ DOMAIN ev = DOMAIN event /\ ev.ts = TimeOf(event) /\ ev.symbol = event.symbol
        /\ ev.price = event.price /\ ev.qty = event.qty /\ ev.best = event.best
    BY <1>2
  <1> QED  BY <1>2, <1>3, <1>4 DEF IsEvent

LEMMA QuoteIsNbbo ==
    ASSUME NEW quote \in Nbbos, NEW ev, IsEvent(ev)
    PROVE  QuoteAfter(quote, ev) \in Nbbos
  <1>1. CASE ev.best = <<>>  BY <1>1 DEF QuoteAfter
  <1>2. CASE ev.best # <<>>
    <2>1. ev.best \in Seq([price : Nat, qty : Nat])  BY DEF IsEvent
    <2>2. ev.best[1] \in [price : Nat, qty : Nat]
      <3>1. 1 \in 1 .. Len(ev.best)  BY <1>2, <2>1, EmptySeq, LenProperties
      <3> QED  BY <2>1, <3>1, ElementOfSeq
    <2>3. ev.best[1].price \in Nat /\ ev.best[1].qty \in Nat  BY <2>2
    <2> DEFINE p == ev.best[1].price  q == ev.best[1].qty
    <2>4. QuoteAfter(quote, ev) = IF ev.side = "Buy" THEN [quote EXCEPT !.bid = p, !.bid_qty = q]
                                  ELSE [quote EXCEPT !.ask = p, !.ask_qty = q]
      BY <1>2 DEF QuoteAfter
    <2>5. p \in Nat /\ q \in Nat  BY <2>3
    <2> HIDE DEF p, q
    <2>6. [quote EXCEPT !.bid = p, !.bid_qty = q] \in Nbbos
          /\ [quote EXCEPT !.ask = p, !.ask_qty = q] \in Nbbos
      BY <2>5 DEF Nbbos
    <2> QED  BY <2>4, <2>6
  <1> QED  BY <1>1, <1>2

LEMMA NewSignalInv == SignalInv(NewSignal)
  <1>1. /\ NewSignal.window = <<>> /\ NewSignal.sum = 0
        /\ \A d \in OrderSides : NewSignal[d] = <<>>
    BY DEF NewSignal, OrderSides
  <1> QED  BY <1>1, SumOfNone DEF SignalInv

(* What an event makes of the OfiStrategy's state. *)
OfiKept(r, m) ==
    FilledTo(r.sim, m) /\ DOMAIN r.ofi = DOMAIN NewOfi /\ SignalInv(r.ofi.signal)

LEMMA OfiOnEventKeeps ==
    ASSUME NEW m, SimInv(m), NEW s \in Symbols, Bounded(m, s), NEW o, DOMAIN o = DOMAIN NewOfi,
           SignalInv(o.signal), NEW ev, IsEvent(ev), NEW quote
    PROVE  OfiKept(OfiOnEvent(m, o, s, ev, quote), m)
  <1> DEFINE st == m.strategy[s]
             base == IF o.signal.sum = 0 /\ st.inventory = 0 /\ ~o.has_last_quote
                        /\ st.Buy = NoQuote /\ st.Sell = NoQuote THEN NewSignal ELSE o.signal
             signal  == UpdateSignal(base, ev)
             center  == OfiCenter(quote, signal.sum)
             counted == [o EXCEPT !.signal = signal, !.events_since_quote = @ + 1]
             x1 == [sim |-> m, ofi |-> [o EXCEPT !.signal = signal]]
             x2 == [sim |-> m, ofi |-> counted]
             x3 == [sim |-> OfiRequote(m, s, quote, center, ev.ts),
                    ofi |-> [counted EXCEPT !.events_since_quote = 0, !.has_last_quote = TRUE]]
             r == OfiOnEvent(m, o, s, ev, quote)
  <1>1. r = CASE ~BothSides(quote) -> x1
              [] BothSides(quote) /\ Standing(st, counted, center) -> x2
              [] OTHER -> x3
    BY Zenon DEF OfiOnEvent
  <1>2. SignalInv(base)  BY NewSignalInv
  <1>3. SignalInv(signal)
    <2> HIDE DEF base
    <2> QED  BY <1>2, SignalUpdates
  <1>4. DOMAIN o = {"signal", "events_since_quote", "has_last_quote"}
        /\ DOMAIN NewOfi = {"signal", "events_since_quote", "has_last_quote"}
    BY DEF NewOfi
  <1> HIDE DEF signal, center
  <1>5. /\ DOMAIN x1.ofi = DOMAIN NewOfi /\ x1.ofi.signal = signal /\ x1.sim = m
        /\ DOMAIN x2.ofi = DOMAIN NewOfi /\ x2.ofi.signal = signal /\ x2.sim = m
    BY <1>4
  <1>6. /\ DOMAIN x3.ofi = DOMAIN NewOfi /\ x3.ofi.signal = signal
        /\ x3.sim = OfiRequote(m, s, quote, center, ev.ts)
    BY <1>4
  <1>7. FilledTo(m, m) /\ FilledTo(OfiRequote(m, s, quote, center, ev.ts), m)
    BY FilledSame, OfiRequoteKeeps
  <1>8. r = x1 \/ r = x2 \/ r = x3
    <2> HIDE DEF x1, x2, x3, r, counted, st
    <2> QED  BY <1>1
  <1> HIDE DEF x1, x2, x3, r
  <1>9. OfiKept(r, m)  BY <1>3, <1>5, <1>6, <1>7, <1>8 DEF OfiKept
  <1> QED  BY <1>9 DEF r

------------------------------------------------------------------------------
(* The flow side of the invariant, which every event treats alike. *)
FlowInv ==
    /\ now \in Nat /\ nbbo \in [Symbols -> Nbbos]
    /\ DOMAIN features = Symbols /\ volume \in [Symbols -> Nat]
    /\ \A s \in Symbols : FeatureInv(features[s]) /\ Accounted(features[s], volume[s])

LEMMA FlowPart == ExperimentInv => FlowInv
  BY DEF ExperimentInv, FlowInv, FlowAccounted, Accounted, Nbbos

(* What an event does to it. *)
FlowStep(ev) ==
    LET quote == QuoteAfter(nbbo[ev.symbol], ev) IN
    /\ now' = ev.ts
    /\ nbbo' = [nbbo EXCEPT ![ev.symbol] = quote]
    /\ features' = [features EXCEPT ![ev.symbol] = FeaturesAfter(features[ev.symbol], ev, quote)]
    /\ volume' = [volume EXCEPT ![ev.symbol] = volume[ev.symbol] + VolumeOf(ev, quote)]

LEMMA FlowStepInv ==
    ASSUME FlowInv, NEW ev, IsEvent(ev), FlowStep(ev)
    PROVE  FlowInv'
  <1> DEFINE s == ev.symbol
             quote == QuoteAfter(nbbo[s], ev)
             f == FeaturesAfter(features[s], ev, quote)
             v == VolumeOf(ev, quote)
  <1>1. s \in Symbols /\ ev.ts \in Nat  BY DEF IsEvent
  <1>2. nbbo[s] \in Nbbos /\ volume[s] \in Nat /\ FeatureInv(features[s])
        /\ Accounted(features[s], volume[s])
    BY <1>1 DEF FlowInv
  <1>3. quote \in Nbbos  BY <1>2, QuoteIsNbbo
  <1>4. /\ now' = ev.ts /\ nbbo' = [nbbo EXCEPT ![s] = quote]
        /\ features' = [features EXCEPT ![s] = f] /\ volume' = [volume EXCEPT ![s] = volume[s] + v]
    BY Zenon DEF FlowStep
  <1>5. FeatureInv(f) /\ v \in Nat /\ Accounted(f, volume[s] + v)
    <2> HIDE DEF quote
    <2> QED  BY <1>2, <1>3, FeaturesKeep
  <1> HIDE DEF quote, f, v
  <1>6. nbbo' \in [Symbols -> Nbbos] /\ DOMAIN features' = Symbols /\ volume' \in [Symbols -> Nat]
    BY <1>1, <1>2, <1>3, <1>4, <1>5 DEF FlowInv
  <1>7. ASSUME NEW t \in Symbols PROVE FeatureInv(features'[t]) /\ Accounted(features'[t], volume'[t])
    <2>1. CASE t = s
      <3>1. features'[t] = f /\ volume'[t] = volume[s] + v  BY <1>1, <1>4, <2>1 DEF FlowInv
      <3> QED  BY <1>5, <3>1
    <2>2. CASE t # s
      <3>1. features'[t] = features[t] /\ volume'[t] = volume[t]  BY <1>1, <1>4, <2>2 DEF FlowInv
      <3> QED  BY <3>1 DEF FlowInv
    <2> QED  BY <2>1, <2>2
  <1> QED  BY <1>1, <1>4, <1>6, <1>7 DEF FlowInv

------------------------------------------------------------------------------
(* The invariant in three parts: the flow, the simulation and the OfiStrategy. *)
OfiInv ==
    /\ DOMAIN ofi = Symbols
    /\ \A s \in Symbols : DOMAIN ofi[s] = DOMAIN NewOfi /\ SignalInv(ofi[s].signal)
    /\ runner = "Ofi" => \A s \in Symbols : Bounded(sim, s)

LEMMA OfiPart == ExperimentInv => OfiInv
  <1> SUFFICES ASSUME ExperimentInv PROVE OfiInv  OBVIOUS
  <1>1. runner = "Ofi" => \A s \in Symbols : Bounded(sim, s)
    BY DEF ExperimentInv, PositionBounded, Bounded
  <1> QED  BY <1>1 DEF ExperimentInv, OfiInv

LEMMA FromParts ==
    ASSUME FlowInv, SimInv(sim), OfiInv PROVE ExperimentInv
  <1>1. FlowAccounted
    BY DEF FlowInv, FlowAccounted, Accounted, FeatureInv
  <1>2. PositionBounded
    BY DEF OfiInv, PositionBounded, Bounded, SignalInv
  <1> QED  BY <1>1, <1>2 DEF ExperimentInv, FlowInv, OfiInv, Nbbos

LEMMA FromPartsNext ==
    ASSUME FlowInv', SimInv(sim)', OfiInv' PROVE ExperimentInv'
  <1>1. FlowAccounted'
    BY DEF FlowInv, FlowAccounted, Accounted, FeatureInv
  <1>2. PositionBounded'
    BY DEF OfiInv, PositionBounded, Bounded, SignalInv
  <1> QED  BY <1>1, <1>2 DEF ExperimentInv, FlowInv, OfiInv, Nbbos

LEMMA FlowAtFirst ==
    ASSUME Init PROVE FlowInv
  <1>1. FeatureInv(NewFeatures) /\ NoNbbo \in Nbbos
    <2>1. NoNbbo \in Nbbos  BY DEF NoNbbo, Nbbos
    <2>2. /\ NewFeatures.last = NoNbbo /\ NewFeatures.ofi_sum = 0 /\ NewFeatures.window = <<>>
          /\ NewFeatures.buy = 0 /\ NewFeatures.sell = 0 /\ NewFeatures.buckets = <<>>
      BY DEF NewFeatures
    <2>3. <<>> \in Seq(Nat)  BY EmptySeq
    <2> QED  BY <2>1, <2>2, <2>3, SumOfNone DEF FeatureInv, Nbbos
  <1>2. Accounted(NewFeatures, 0)
    <2> DEFINE V == BucketVolume
    <2>1. V \in Nat \ {0} /\ 0 = V * 0 + 0 /\ 0 \in 0 .. V - 1  BY FeatureAssumption
    <2>2. 0 % V = 0 /\ 0 \div V = 0  BY <2>1, ModUnique, DivUnique
    <2>3. Min({BucketCount, 0}) = 0  BY FeatureAssumption, MinOfTwo
    <2>4. NewFeatures.buy + NewFeatures.sell = 0 /\ Len(NewFeatures.buckets) = 0
      BY DEF NewFeatures
    <2> QED  BY <2>2, <2>3, <2>4 DEF Accounted
  <1> QED  BY <1>1, <1>2 DEF Init, FlowInv

LEMMA SimAtFirst ==
    ASSUME Init PROVE SimInv(sim) /\ \A s \in Symbols : Bounded(sim, s)
  <1>1. /\ sim.engine = NewMatching /\ sim.strategy = [s \in Symbols |-> NewStrategy]
        /\ sim.account = [s \in Symbols |-> NewAccount] /\ sim.symbolOf = <<>>
        /\ sim.next_order_id = 1
        /\ DOMAIN sim = {"engine", "strategy", "account", "symbolOf", "next_order_id", "submitted"}
    BY DEF Init
  <1>2. /\ NewMatching.symbolOf = <<>> /\ DOMAIN NewMatching = {"symbolOf", "books"}
        /\ DOMAIN NewMatching.books = Symbols
        /\ \A s \in Symbols : DOMAIN NewMatching.books[s] = OrderSides
        /\ \A s \in Symbols, d \in OrderSides : NewMatching.books[s][d] = <<>>
    BY DEF NewMatching
  <1>3. /\ NewStrategy.inventory = 0 /\ NewStrategy.Buy = NoQuote /\ NewStrategy.Sell = NoQuote
        /\ \A d \in OrderSides : NewStrategy[d] = NoQuote
        /\ NewAccount.position = 0
    BY DEF NewStrategy, NewAccount, OrderSides
  <1>4. SimShape(sim)  BY <1>1, <1>2, <1>3, NoQuoteIsQuote DEF SimShape
  <1>5. QuotesHeld(sim.strategy, sim.engine.books, sim.symbolOf, sim.next_order_id)
    BY <1>1, <1>2, <1>3, NoQuoteIsQuote DEF QuotesHeld
  <1>6. SimInv(sim)  BY <1>1, <1>2, <1>3, <1>4, <1>5 DEF SimInv
  <1>7. ASSUME NEW s \in Symbols PROVE Bounded(sim, s)
    <2>1. /\ sim.account[s].position = 0 /\ sim.engine.books[s]["Buy"] = <<>>
          /\ sim.engine.books[s]["Sell"] = <<>>
      BY <1>1, <1>2, <1>3 DEF OrderSides
    <2> QED  BY <2>1, EmptyQty, BacktestAssumption, ExperimentAssumption DEF Bounded
  <1> QED  BY <1>6, <1>7

LEMMA ExperimentInvAtFirst == InitExperiment => ExperimentInv
  <1> SUFFICES ASSUME InitExperiment PROVE ExperimentInv  OBVIOUS
  <1>1. Init /\ ofi = [s \in Symbols |-> NewOfi]  BY DEF InitExperiment
  <1>2. FlowInv  BY <1>1, FlowAtFirst
  <1>3. SimInv(sim) /\ \A s \in Symbols : Bounded(sim, s)  BY <1>1, SimAtFirst
  <1>4. NewOfi.signal = NewSignal  BY DEF NewOfi
  <1>5. OfiInv  BY <1>1, <1>3, <1>4, NewSignalInv DEF OfiInv
  <1> QED  BY <1>2, <1>3, <1>5, FromParts

------------------------------------------------------------------------------
(* The end of an event: what it filled is handled and every account marked. *)
MarkedAll(m) == [m EXCEPT !.account = [x \in Symbols |-> MarkToMid(m.account[x])]]

LEMMA SettledInv ==
    ASSUME NEW m, SimInv(m), NEW ev, IsEvent(ev)
    PROVE  /\ FilledTo(MarkedAll(FoldLeft(OnFill, m, FillsOf(m.engine, ev))), m)
           /\ FilledTo(MarkedAll(FoldLeft(ExperimentOnFill, m, FillsOf(m.engine, ev))), m)
  <1> DEFINE a == FoldLeft(OnFill, m, FillsOf(m.engine, ev))
             b == FoldLeft(ExperimentOnFill, m, FillsOf(m.engine, ev))
  <1>1. ev.symbol \in Symbols /\ ev.qty \in Nat /\ ev.price \in Nat  BY DEF IsEvent
  <1>2. FilledTo(a, m) /\ FilledTo(b, m)  BY <1>1, FillsHandled
  <1> HIDE DEF a, b
  <1>3. ASSUME NEW x, FilledTo(x, m) PROVE FilledTo(MarkedAll(x), m)
    <2>1. SimInv(x)  BY <1>3 DEF FilledTo
    <2>2. FilledTo(MarkedAll(x), x)  BY <2>1, MarkAll DEF MarkedAll
    <2> QED  BY <1>3, <2>2, FilledTwice
  <1> QED  BY <1>2, <1>3 DEF a, b

(* One event of the runner with the market making strategy. *)
LEMMA TickInv ==
    ASSUME ExperimentInv, NEW event \in Tape, Tick(event)
    PROVE  FlowInv' /\ SimInv(sim)'
  <1> DEFINE ev    == [event EXCEPT !.ts = TimeOf(event)]
             quote == QuoteAfter(nbbo[ev.symbol], ev)
             f     == FeaturesAfter(features[ev.symbol], ev, quote)
             m     == Publish(sim, ev, quote, f)
  <1>1. now \in Nat /\ SimInv(sim) /\ FlowInv  BY FlowPart DEF ExperimentInv
  <1>2. IsEvent(ev)  BY <1>1, TapeEvent
  <1>3. FlowStep(ev) /\ sim' = MarkedAll(FoldLeft(OnFill, m, FillsOf(m.engine, ev)))
    BY Zenon DEF Tick, Settle, FlowStep, MarkedAll
  <1> HIDE DEF ev
  <1>4. FlowInv'  BY <1>1, <1>2, <1>3, FlowStepInv
  <1>5. SimInv(m)
    <2>1. ev.symbol \in Symbols  BY <1>2 DEF IsEvent
    <2> HIDE DEF quote, f
    <2> QED  BY <1>1, <2>1, PublishInv
  <1> HIDE DEF m
  <1>6. FilledTo(sim', m)  BY <1>2, <1>3, <1>5, SettledInv
  <1> QED  BY <1>4, <1>6 DEF FilledTo

LEMMA OfiTickInv ==
    ASSUME ExperimentInv, NEW event \in Tape, OfiTick(event)
    PROVE  FlowInv' /\ SimInv(sim)' /\ OfiInv'
  <1> DEFINE ev     == [event EXCEPT !.ts = TimeOf(event)]
             s      == ev.symbol
             quote  == QuoteAfter(nbbo[s], ev)
             marked == [sim EXCEPT !.account[s] = MarkMid(sim.account[s], quote.bid, quote.ask)]
             after  == OfiOnEvent(marked, ofi[s], s, ev, quote)
             m      == after.sim
  <1>1. now \in Nat /\ SimInv(sim) /\ FlowInv /\ OfiInv  BY FlowPart, OfiPart DEF ExperimentInv
  <1>2. IsEvent(ev)  BY <1>1, TapeEvent
  <1>3. /\ runner = "Ofi" /\ FlowStep(ev) /\ ofi' = [ofi EXCEPT ![s] = after.ofi]
        /\ sim' = MarkedAll(FoldLeft(ExperimentOnFill, m, FillsOf(m.engine, ev)))
    BY Zenon DEF OfiTick, Settle, FlowStep, MarkedAll
  <1> HIDE DEF ev
  <1>4. FlowInv'  BY <1>1, <1>2, <1>3, FlowStepInv
  <1>5. s \in Symbols  BY <1>2 DEF IsEvent
  <1>6. FilledTo(marked, sim)
    <2> HIDE DEF quote
    <2> QED  BY <1>1, <1>5, MarkOne
  <1>7. SimInv(marked) /\ \A t \in Symbols : Bounded(marked, t)
    BY <1>1, <1>3, <1>6 DEF FilledTo, OfiInv
  <1>8. OfiKept(after, marked)
    <2>1. DOMAIN ofi[s] = DOMAIN NewOfi /\ SignalInv(ofi[s].signal)  BY <1>1, <1>5 DEF OfiInv
    <2> HIDE DEF marked, quote, s
    <2> QED  BY <1>2, <1>5, <1>7, <2>1, OfiOnEventKeeps
  <1> HIDE DEF marked, after, quote
  <1>9. FilledTo(m, marked) /\ DOMAIN after.ofi = DOMAIN NewOfi /\ SignalInv(after.ofi.signal)
    BY <1>8 DEF OfiKept
  <1>10. SimInv(m)  BY <1>9 DEF FilledTo
  <1> HIDE DEF m
  <1>11. FilledTo(sim', m)  BY <1>2, <1>3, <1>10, SettledInv
  <1>12. SimInv(sim') /\ \A t \in Symbols : Bounded(sim', t)
    BY <1>7, <1>9, <1>11 DEF FilledTo
  <1>13. DOMAIN ofi' = Symbols  BY <1>1, <1>3 DEF OfiInv
  <1>14. ASSUME NEW t \in Symbols PROVE DOMAIN ofi'[t] = DOMAIN NewOfi /\ SignalInv(ofi'[t].signal)
    <2>1. CASE t = s
      <3>1. ofi'[t] = after.ofi  BY <1>1, <1>3, <2>1 DEF OfiInv
      <3> QED  BY <1>9, <3>1
    <2>2. CASE t # s
      <3>1. ofi'[t] = ofi[t]  BY <1>1, <1>3, <2>2 DEF OfiInv
      <3> QED  BY <1>1, <3>1 DEF OfiInv
    <2> QED  BY <2>1, <2>2
  <1>15. OfiInv'  BY <1>12, <1>13, <1>14 DEF OfiInv, Bounded
  <1> QED  BY <1>4, <1>12, <1>15

LEMMA OfiRests ==
    ASSUME OfiInv, runner' = runner, ofi' = ofi, runner # "Ofi" \/ sim' = sim PROVE OfiInv'
  BY DEF OfiInv, Bounded

LEMMA ExperimentStep == ExperimentInv /\ [NextExperiment]_experimentVars => ExperimentInv'
  <1> SUFFICES ASSUME ExperimentInv, [NextExperiment]_experimentVars PROVE ExperimentInv'
    OBVIOUS
  <1>1. now \in Nat /\ SimInv(sim) /\ FlowInv /\ OfiInv  BY FlowPart, OfiPart DEF ExperimentInv
  <1>2. ASSUME NEW event \in Tape, BacktestTick(event) PROVE ExperimentInv'
    <2>1. Tick(event) /\ runner = "backtest" /\ runner' = runner /\ ofi' = ofi
      BY <1>2, Zenon DEF BacktestTick
    <2>2. FlowInv' /\ SimInv(sim)'  BY <2>1, TickInv
    <2>3. OfiInv'  BY <1>1, <2>1, OfiRests
    <2> QED  BY <2>2, <2>3, FromPartsNext
  <1>3. ASSUME NEW event \in Tape, RejectTick(event) PROVE ExperimentInv'
    <2>1. UNCHANGED <<nbbo, features, sim, now, volume, runner, ofi>>
      BY <1>3, Zenon DEF RejectTick
    <2>2. OfiInv'  BY <1>1, <2>1, OfiRests
    <2>3. FlowInv'  BY <1>1, <2>1 DEF FlowInv
    <2>4. SimInv(sim)'  BY <1>1, <2>1
    <2> QED  BY <2>2, <2>3, <2>4, FromPartsNext
  <1>4. ASSUME NEW event \in Tape, MakingTick(event) PROVE ExperimentInv'
    <2>1. Tick(event) /\ runner = "MarketMaking" /\ runner' = runner /\ ofi' = ofi
      BY <1>4, Zenon DEF MakingTick
    <2>2. FlowInv' /\ SimInv(sim)'  BY <2>1, TickInv
    <2>3. OfiInv'  BY <1>1, <2>1, OfiRests
    <2> QED  BY <2>2, <2>3, FromPartsNext
  <1>5. ASSUME NEW event \in Tape, OfiTick(event) PROVE ExperimentInv'
    BY <1>5, OfiTickInv, FromPartsNext
  <1>6. ASSUME NEW event \in Tape, StoreTick(event) PROVE ExperimentInv'
    <2> DEFINE ev == [event EXCEPT !.ts = TimeOf(event)]
    <2>1. FlowStep(ev) /\ UNCHANGED <<sim, runner, ofi>>
      BY <1>6, Zenon DEF StoreTick, FlowStep
    <2>2. IsEvent(ev)  BY <1>1, TapeEvent
    <2> HIDE DEF ev
    <2>3. FlowInv'  BY <1>1, <2>1, <2>2, FlowStepInv
    <2>4. OfiInv' /\ SimInv(sim)'  BY <1>1, <2>1, OfiRests
    <2> QED  BY <2>3, <2>4, FromPartsNext
  <1>7. CASE UNCHANGED experimentVars
    <2>1. UNCHANGED <<nbbo, features, sim, now, volume, runner, ofi>>
      BY <1>7, Zenon DEF experimentVars, vars
    <2>2. OfiInv' /\ SimInv(sim)'  BY <1>1, <2>1, OfiRests
    <2>3. FlowInv'  BY <1>1, <2>1 DEF FlowInv
    <2> QED  BY <2>2, <2>3, FromPartsNext
  <1> QED  BY <1>2, <1>3, <1>4, <1>5, <1>6, <1>7 DEF NextExperiment

------------------------------------------------------------------------------
(* What the book of a quote shows of its orders. *)
LEMMA BookShowsQuote ==
    ASSUME NEW m, SimInv(m), NEW s \in Symbols, NEW d \in OrderSides,
           NEW book, book = m.engine.books[s][d], NEW quote, quote = m.strategy[s][d]
    PROVE  {[id |-> book[i].id, price |-> book[i].price] : i \in DOMAIN book} = {quote} \ {NoQuote}
  <1>1. CASE quote = NoQuote
    <2>1. m.strategy[s][d] = NoQuote  BY <1>1
    <2>a. m.engine.books[s][d] = <<>>  BY <2>1 DEF SimInv, QuotesHeld
    <2>2. DOMAIN book = {}  BY <2>a
    <2> QED  BY <1>1, <2>2
  <1>2. CASE quote # NoQuote
    <2>1. HeldBy(book, quote)  BY <1>2 DEF SimInv, QuotesHeld
    <2> DEFINE o == book[1]
    <2>2. book = <<o>> /\ o = [id |-> quote.id, price |-> quote.price, qty |-> o.qty, ts |-> o.ts]
      BY <2>1, TheOrder
    <2>3. o.id = quote.id /\ o.price = quote.price
      <3> HIDE DEF o
      <3> QED  BY <2>2
    <2>4. IsQuote(quote)  BY DEF SimInv, SimShape, OrderSides
    <2>5. [id |-> o.id, price |-> o.price] = quote  BY <2>3, <2>4 DEF IsQuote
    <2>6. DOMAIN book = {1}
      <3> HIDE DEF o
      <3> QED  BY <2>2
    <2> HIDE DEF o
    <2>7. [id |-> book[1].id, price |-> book[1].price] = quote  BY <2>5 DEF o
    <2> QED  BY <1>2, <2>6, <2>7
  <1> QED  BY <1>1, <1>2

LEMMA HeldOrdersAgree == ExperimentInv => OrdersAgree
  <1> SUFFICES ASSUME ExperimentInv PROVE OrdersAgree  OBVIOUS
  <1> DEFINE ids(s) == {sim.strategy[s][d].id : d \in Sides(s)}
  <1>1. SimInv(sim)  BY DEF ExperimentInv
  <1>2. ASSUME NEW s \in Symbols, NEW d \in OrderSides
        PROVE  {[id |-> sim.engine.books[s][d][i].id, price |-> sim.engine.books[s][d][i].price] :
                    i \in DOMAIN sim.engine.books[s][d]} = {sim.strategy[s][d]} \ {NoQuote}
    BY <1>1, BookShowsQuote
  <1>3. ASSUME NEW s \in Symbols, NEW id \in ids(s)
        PROVE  id \in DOMAIN sim.symbolOf /\ sim.symbolOf[id] = s
    <2>1. PICK d \in Sides(s) : id = sim.strategy[s][d].id  OBVIOUS
    <2>2. d \in OrderSides /\ sim.strategy[s][d] # NoQuote  BY <2>1 DEF Sides
    <2> QED  BY <1>1, <2>1, <2>2 DEF SimInv, QuotesHeld
  <1>4. ASSUME NEW id \in DOMAIN sim.symbolOf PROVE id \in UNION {ids(s) : s \in Symbols}
    <2>1. PICK s \in Symbols, d \in OrderSides :
              sim.strategy[s][d] # NoQuote /\ sim.strategy[s][d].id = id
      BY <1>1 DEF SimInv, QuotesHeld
    <2>2. id \in ids(s)  BY <2>1 DEF Sides
    <2> HIDE DEF ids
    <2> QED  BY <2>2
  <1>5. DOMAIN sim.symbolOf = UNION {ids(s) : s \in Symbols}
    <2> HIDE DEF ids
    <2> QED  BY <1>3, <1>4
  <1>6. sim.symbolOf = sim.engine.symbolOf  BY <1>1 DEF SimInv
  <1> QED  BY <1>2, <1>3, <1>5, <1>6, Zenon DEF OrdersAgree

------------------------------------------------------------------------------
(* The profit of an account. First, products and fractions. *)
LEMMA Cancels ==
    ASSUME NEW a \in Int, NEW b \in Int, NEW d \in Int, d # 0, a * d = b * d
    PROVE  a = b
  <1>1. (a - b) * d = 0  OBVIOUS
  <1>2. ASSUME NEW x \in Int, x * d = 0, x # 0 PROVE FALSE
    <2>1. CASE x > 0 /\ d > 0
      <3>1. x * d >= 1 * d  BY <2>1
      <3> QED  BY <1>2, <2>1, <3>1
    <2>2. CASE x > 0 /\ d < 0
      <3>1. x * d <= 1 * d  BY <2>2
      <3> QED  BY <1>2, <2>2, <3>1
    <2>3. CASE x < 0 /\ d > 0
      <3>1. x * d <= (-1) * d  BY <2>3
      <3> QED  BY <1>2, <2>3, <3>1
    <2>4. CASE x < 0 /\ d < 0
      <3>1. x * d >= (-1) * d  BY <2>4
      <3> QED  BY <1>2, <2>4, <3>1
    <2> QED  BY <1>2, <2>1, <2>2, <2>3, <2>4
  <1>3. a - b = 0
    <2> DEFINE x == a - b
    <2>1. x \in Int /\ x * d = 0  BY <1>1
    <2> HIDE DEF x
    <2>2. x = 0  BY <1>2, <2>1
    <2> QED  BY <2>2 DEF x
  <1> QED  BY <1>3

IsFrac(a) == a.n \in Int /\ a.d \in Nat \ {0}

(* What a fraction in lowest terms is equal to. *)
LEMMA FracIs ==
    ASSUME NEW n \in Int, NEW d \in Nat \ {0}, NEW f, f = Frac(n, d)
    PROVE  IsFrac(f) /\ f.n * d = n * f.d
  <1> DEFINE S == {k \in 1 .. d : n % k = 0 /\ d % k = 0}
             g == Max(S)
  <1>1. 1 \in S  OBVIOUS
  <1>2. S \in SUBSET Nat /\ IsFiniteSet(S)
    <2>1. S \in SUBSET Nat /\ \A k \in S : k <= d  OBVIOUS
    <2> HIDE DEF S
    <2> QED  BY <2>1, FS_BoundedSetOfNaturals
  <1>3. \E x \in S : \A y \in S : x >= y
    <2>1. PICK x \in S : \A y \in S : y <= x
      <3> HIDE DEF S
      <3> QED  BY <1>1, <1>2, GreatestMember
    <2> QED  BY <1>2, <2>1
  <1>4. g \in S
    <2> HIDE DEF S
    <2> QED  BY <1>3 DEF Max
  <1> HIDE DEF g
  <1>5. g \in Nat \ {0} /\ n % g = 0 /\ d % g = 0  BY <1>4
  <1> DEFINE a == n \div g
             b == d \div g
  <1>6. a \in Int /\ b \in Int /\ n = g * a /\ d = g * b  BY <1>5
  <1>7. f = [n |-> a, d |-> b]  BY DEF Frac, g
  <1> HIDE DEF a, b
  <1>8. f.n = a /\ f.d = b  BY <1>7
  <1>9. b > 0
    <2> SUFFICES ASSUME b <= 0 PROVE FALSE  BY <1>6
    <2>1. g * b <= 0  BY <1>5, <1>6
    <2> QED  BY <1>6, <2>1
  <1>10. a * (g * b) = (g * a) * b  BY <1>5, <1>6
  <1> QED  BY <1>6, <1>8, <1>9, <1>10 DEF IsFrac

LEMMA ProductPositive ==
    ASSUME NEW a \in Nat \ {0}, NEW b \in Nat \ {0} PROVE a * b \in Nat \ {0}
  <1>1. a * b >= 1 * b  OBVIOUS
  <1> QED  BY <1>1

LEMMA WholeIs == ASSUME NEW n \in Int PROVE IsFrac(Whole(n)) /\ Whole(n).n = n /\ Whole(n).d = 1
  BY DEF IsFrac, Whole

LEMMA PlusIs ==
    ASSUME NEW a, IsFrac(a), NEW b, IsFrac(b), NEW c, c = Plus(a, b)
    PROVE  IsFrac(c) /\ c.n * (a.d * b.d) = (a.n * b.d + b.n * a.d) * c.d
  <1> DEFINE n == a.n * b.d + b.n * a.d
             d == a.d * b.d
  <1>1. n \in Int /\ d \in Nat \ {0}  BY ProductPositive DEF IsFrac
  <1>2. c = Frac(n, d)  BY DEF Plus
  <1> HIDE DEF n, d
  <1>3. IsFrac(c) /\ c.n * d = n * c.d  BY <1>1, <1>2, FracIs
  <1> QED  BY <1>3 DEF n, d

LEMMA TimesIs ==
    ASSUME NEW a, IsFrac(a), NEW k \in Int, NEW c, c = Times(a, k)
    PROVE  IsFrac(c) /\ c.n * a.d = (a.n * k) * c.d
  <1> DEFINE n == a.n * k
             d == a.d
  <1>1. n \in Int /\ d \in Nat \ {0}  BY DEF IsFrac
  <1>2. c = Frac(n, d)  BY DEF Times
  <1> HIDE DEF n, d
  <1>3. IsFrac(c) /\ c.n * d = n * c.d  BY <1>1, <1>2, FracIs
  <1> QED  BY <1>3 DEF n, d

(* The sum of a whole number and a fraction that equals another. *)
LEMMA SumArithmetic ==
    ASSUME NEW zn \in Int, NEW zd \in Int, NEW yn \in Int, NEW yd \in Int, yd # 0,
           NEW an \in Int, NEW ad \in Int, NEW x \in Int,
           zn * yd = (x * yd + yn) * zd, yn * ad = an * yd
    PROVE  zn * ad = (x * ad + an) * zd
  <1>1. (zn * ad) * yd = (zn * yd) * ad  OBVIOUS
  <1>2. (zn * yd) * ad = ((x * yd + yn) * zd) * ad  OBVIOUS
  <1>3. ((x * yd + yn) * zd) * ad = (x * ad * zd) * yd + (yn * ad) * zd  OBVIOUS
  <1>4. (yn * ad) * zd = (an * yd) * zd  OBVIOUS
  <1>5. (x * ad * zd) * yd + (an * yd) * zd = ((x * ad + an) * zd) * yd  OBVIOUS
  <1> DEFINE l == zn * ad
             r == (x * ad + an) * zd
  <1>6. l \in Int /\ r \in Int  OBVIOUS
  <1>7. l * yd = r * yd  BY <1>1, <1>2, <1>3, <1>4, <1>5
  <1> HIDE DEF l, r
  <1>8. l = r  BY <1>6, <1>7, Cancels
  <1> QED  BY <1>8 DEF l, r

LEMMA WholePlus ==
    ASSUME NEW x \in Int, NEW y, IsFrac(y), NEW an \in Int, NEW ad \in Int, y.n * ad = an * y.d,
           NEW z, z = Plus(Whole(x), y) \/ z = Plus(y, Whole(x))
    PROVE  IsFrac(z) /\ z.n * ad = (x * ad + an) * z.d
  <1>1. IsFrac(Whole(x)) /\ Whole(x).n = x /\ Whole(x).d = 1  BY WholeIs
  <1>2. y.n \in Int /\ y.d \in Int /\ y.d # 0  BY DEF IsFrac
  <1>3. IsFrac(z) /\ z.n * y.d = (x * y.d + y.n) * z.d
    <2>1. CASE z = Plus(Whole(x), y)
      <3>1. IsFrac(z) /\ z.n * (1 * y.d) = (x * y.d + y.n * 1) * z.d  BY <1>1, <2>1, PlusIs
      <3> QED  BY <1>2, <3>1
    <2>2. CASE z = Plus(y, Whole(x))
      <3>1. IsFrac(z) /\ z.n * (y.d * 1) = (y.n * 1 + x * y.d) * z.d  BY <1>1, <2>2, PlusIs
      <3>2. y.n * 1 + x * y.d = x * y.d + y.n  BY <1>2
      <3> QED  BY <1>2, <3>1, <3>2
    <2> QED  BY <2>1, <2>2
  <1>4. z.n \in Int /\ z.d \in Int  BY <1>3 DEF IsFrac
  <1> DEFINE zn == z.n  zd == z.d  yn == y.n  yd == y.d
  <1>5. /\ zn \in Int /\ zd \in Int /\ yn \in Int /\ yd \in Int /\ yd # 0
        /\ zn * yd = (x * yd + yn) * zd /\ yn * ad = an * yd
    BY <1>2, <1>3, <1>4
  <1> HIDE DEF zn, zd, yn, yd
  <1>6. zn * ad = (x * ad + an) * zd  BY <1>5, SumArithmetic
  <1> QED  BY <1>3, <1>6 DEF zn, zd

LEMMA SameTransitive ==
    ASSUME NEW a \in Int, NEW b \in Int, NEW c \in Int, NEW d \in Int, d # 0, NEW e \in Int, NEW f \in Int,
           a * d = c * b, c * f = e * d
    PROVE  a * f = e * b
  <1> DEFINE l == a * f
             r == e * b
  <1>1. (a * f) * d = (a * d) * f  OBVIOUS
  <1>2. (a * d) * f = (c * b) * f  OBVIOUS
  <1>3. (c * b) * f = (c * f) * b  OBVIOUS
  <1>4. (c * f) * b = (e * d) * b  OBVIOUS
  <1>5. (e * d) * b = (e * b) * d  OBVIOUS
  <1>6. l \in Int /\ r \in Int /\ l * d = r * d  BY <1>1, <1>2, <1>3, <1>4, <1>5
  <1> HIDE DEF l, r
  <1>7. l = r  BY <1>6, Cancels
  <1> QED  BY <1>7 DEF l, r

(* A multiple of a fraction that equals another. *)
LEMMA TimesOf ==
    ASSUME NEW y, IsFrac(y), NEW an \in Int, NEW ad \in Int, y.n * ad = an * y.d, NEW k \in Int,
           NEW c, c = Times(y, k)
    PROVE  IsFrac(c) /\ c.n * ad = (an * k) * c.d
  <1>1. IsFrac(c) /\ c.n * y.d = (y.n * k) * c.d  BY TimesIs
  <1> DEFINE cn == c.n  cd == c.d  yn == y.n  yd == y.d  yk == yn * k  ak == an * k
  <1>2. /\ cn \in Int /\ cd \in Int /\ yn \in Int /\ yd \in Int /\ yd # 0 /\ yk \in Int /\ ak \in Int
        /\ cn * yd = yk * cd /\ yn * ad = an * yd
    BY <1>1 DEF IsFrac
  <1>3. yk * ad = ak * yd
    <2> HIDE DEF yn, yd
    <2>1. (yn * k) * ad = (yn * ad) * k  BY <1>2
    <2>2. (yn * ad) * k = (an * yd) * k  BY <1>2
    <2>3. (an * yd) * k = (an * k) * yd  BY <1>2
    <2> QED  BY <2>1, <2>2, <2>3
  <1> HIDE DEF cn, cd, yn, yd, yk, ak
  <1>4. cn * ad = ak * cd  BY <1>2, <1>3, SameTransitive
  <1> QED  BY <1>1, <1>4 DEF cn, cd, ak

(* The sum of two fractions that equal others of one denominator. *)
LEMMA PlusOf ==
    ASSUME NEW x, IsFrac(x), NEW y, IsFrac(y), NEW ad \in Int, NEW X \in Int, NEW Y \in Int,
           x.n * ad = X * x.d, y.n * ad = Y * y.d, NEW c, c = Plus(x, y)
    PROVE  IsFrac(c) /\ c.n * ad = (X + Y) * c.d
  <1>1. IsFrac(c) /\ c.n * (x.d * y.d) = (x.n * y.d + y.n * x.d) * c.d  BY PlusIs
  <1> DEFINE cn == c.n  cd == c.d  xn == x.n  xd == x.d  yn == y.n  yd == y.d
             e == xd * yd  s == xn * yd + yn * xd  t == X + Y
  <1>2. /\ cn \in Int /\ cd \in Int /\ xn \in Int /\ xd \in Nat \ {0} /\ yn \in Int /\ yd \in Nat \ {0}
        /\ cn * e = s * cd /\ xn * ad = X * xd /\ yn * ad = Y * yd
    BY <1>1 DEF IsFrac
  <1> HIDE DEF cn, cd, xn, xd, yn, yd
  <1>3. e \in Int /\ e # 0 /\ s \in Int /\ t \in Int  BY <1>2, ProductPositive
  <1>4. s * ad = t * e
    <2>1. (xn * yd + yn * xd) * ad = (xn * ad) * yd + (yn * ad) * xd  BY <1>2
    <2>2. (xn * ad) * yd = (X * xd) * yd /\ (yn * ad) * xd = (Y * yd) * xd  BY <1>2
    <2>3. (X * xd) * yd + (Y * yd) * xd = (X + Y) * (xd * yd)  BY <1>2
    <2> QED  BY <2>1, <2>2, <2>3
  <1> HIDE DEF e, s, t
  <1>5. cn * ad = t * cd  BY <1>2, <1>3, <1>4, SameTransitive
  <1> QED  BY <1>1, <1>5 DEF cn, cd, t

------------------------------------------------------------------------------
(* An account whose cash and position are whole and whose cost and profit are  *)
(* fractions; and what the profit of it is.                                  *)
IsAccount(acc) ==
    /\ acc.position \in Int /\ acc.cash \in Int /\ IsFrac(acc.avg_cost) /\ IsFrac(acc.realized)

Profit(acc) ==
    acc.realized.n * acc.avg_cost.d
    = (acc.cash * acc.avg_cost.d + acc.avg_cost.n * acc.position) * acc.realized.d

LEMMA ProfitMeans ==
    ASSUME NEW acc, IsAccount(acc)
    PROVE  Same(acc.realized, Plus(Whole(acc.cash), Times(acc.avg_cost, acc.position))) <=> Profit(acc)
  <1> DEFINE r == acc.realized  a == acc.avg_cost  p == acc.position  k == a.n * p
             t == Times(a, p)  s == Plus(Whole(acc.cash), t)
             x == acc.cash * a.d + k
  <1>1. /\ IsFrac(r) /\ IsFrac(a) /\ p \in Int /\ acc.cash \in Int /\ k \in Int /\ x \in Int
        /\ a.n \in Int /\ a.d \in Int /\ a.d # 0 /\ r.n \in Int /\ r.d \in Int /\ r.d # 0
    BY DEF IsAccount, IsFrac
  <1>2. IsFrac(t) /\ t.n * a.d = k * t.d  BY <1>1, TimesIs
  <1>3. IsFrac(s) /\ s.n * a.d = x * s.d
    <2> HIDE DEF t, k, a
    <2> QED  BY <1>1, <1>2, WholePlus
  <1>4. s.n \in Int /\ s.d \in Int /\ s.d # 0  BY <1>3 DEF IsFrac
  <1> DEFINE rn == r.n  rd == r.d  ad == a.d  sn == s.n  sd == s.d
  <1>5. /\ rn \in Int /\ rd \in Int /\ ad \in Int /\ ad # 0 /\ sn \in Int /\ sd \in Int /\ sd # 0
        /\ sn * ad = x * sd /\ x \in Int
    BY <1>1, <1>3, <1>4
  <1>6. Profit(acc) <=> rn * ad = x * rd  BY DEF Profit
  <1>7. Same(r, s) <=> rn * sd = sn * rd  BY DEF Same
  <1> HIDE DEF rn, rd, ad, sn, sd, x
  <1>8. rn * sd = sn * rd => rn * ad = x * rd  BY <1>5, SameTransitive
  <1>9. rn * ad = x * rd => rn * sd = sn * rd
    <2>1. x * sd = sn * ad  BY <1>5
    <2> QED  BY <1>5, <2>1, SameTransitive
  <1> QED  BY <1>6, <1>7, <1>8, <1>9

(* The cost of a position after a fill that adds to it, and after one against it. *)
CostUp(acc, fill) ==
    LET notional == Plus(Times(acc.avg_cost, Size(acc.position)), Whole(fill.price * fill.qty))
    IN Frac(notional.n, notional.d * Size(acc.position + SignedQty(fill)))

CostDown(acc, fill) ==
    LET after == acc.position + SignedQty(fill)
    IN IF after = 0 THEN Whole(0)
       ELSE IF SameSide(after, SignedQty(fill)) /\ Size(after) > ClosedQty(acc, fill)
       THEN Whole(fill.price) ELSE acc.avg_cost

Gain(acc, fill) ==
    Times(Minus(Whole(fill.price), acc.avg_cost),
          IF acc.position > 0 THEN ClosedQty(acc, fill) ELSE -ClosedQty(acc, fill))

AddsTo(acc, fill) == acc.position = 0 \/ SameSide(acc.position, SignedQty(fill))

LEMMA Booked ==
    ASSUME NEW acc, DOMAIN acc = DOMAIN NewAccount, NEW fill, NEW r, r = BookFill(acc, fill)
    PROVE  /\ r.position = acc.position + SignedQty(fill)
           /\ r.cash = acc.cash - SignedQty(fill) * fill.price
           /\ AddsTo(acc, fill) => r.avg_cost = CostUp(acc, fill) /\ r.realized = acc.realized
           /\ ~AddsTo(acc, fill) => /\ r.avg_cost = CostDown(acc, fill)
                                  /\ r.realized = Plus(acc.realized, Gain(acc, fill))
  <1>0. DOMAIN NewAccount = {"position", "cash", "avg_cost", "realized", "mid2", "unrealized",
                             "fills", "volume"}
    BY DEF NewAccount
  <1> DEFINE after == acc.position + SignedQty(fill)
             cost == CostUp(acc, fill)
             cost2 == CostDown(acc, fill)
             profit == Plus(acc.realized, Gain(acc, fill))
             up   == Increase(acc, fill)
             down == Reduce(acc, fill)
             moved == IF AddsTo(acc, fill) THEN up ELSE down
             cash == acc.cash - SignedQty(fill) * fill.price
  <1>1. up = [acc EXCEPT !.position = after, !.avg_cost = cost]  BY Zenon DEF Increase, CostUp
  <1>2. down = [acc EXCEPT !.position = after, !.realized = profit, !.avg_cost = cost2]
    BY Zenon DEF Reduce, CostDown, Gain
  <1>3. \E vol, n : r = [moved EXCEPT !.cash = moved.cash - SignedQty(fill) * fill.price,
                                      !.volume = vol, !.fills = n]
    BY Zenon DEF BookFill, AddsTo
  <1> HIDE DEF after, cost, cost2, profit, up, down
  <1>4. /\ DOMAIN up = DOMAIN acc /\ up.position = after /\ up.avg_cost = cost
        /\ up.realized = acc.realized /\ up.cash = acc.cash
    BY <1>0, <1>1
  <1>5. /\ DOMAIN down = DOMAIN acc /\ down.position = after /\ down.avg_cost = cost2
        /\ down.realized = profit /\ down.cash = acc.cash
    BY <1>0, <1>2
  <1>6. /\ DOMAIN moved = DOMAIN acc /\ moved.position = after /\ moved.cash = acc.cash
        /\ AddsTo(acc, fill) => moved.avg_cost = cost /\ moved.realized = acc.realized
        /\ ~AddsTo(acc, fill) => moved.avg_cost = cost2 /\ moved.realized = profit
    BY <1>4, <1>5
  <1> HIDE DEF moved
  <1>7. /\ r.position = moved.position /\ r.avg_cost = moved.avg_cost /\ r.realized = moved.realized
        /\ r.cash = moved.cash - SignedQty(fill) * fill.price
    BY <1>0, <1>3, <1>6
  <1> QED  BY <1>6, <1>7 DEF after, cost, cost2, profit

(* The cost of a position of p shares to which q are added. *)
LEMMA IncreaseArithmetic ==
    ASSUME NEW rn \in Int, NEW rd \in Int, NEW an \in Int, NEW ad \in Int, ad # 0, NEW bn \in Int,
           NEW bd \in Int, NEW c \in Int, NEW P \in Int, NEW Q \in Int, NEW m \in Int, NEW x \in Int,
           NEW u \in {1, -1},
           rn * ad = (c * ad + an * (u * P)) * rd,
           (bn * m) * ad = ((x * Q) * ad + an * P) * bd
    PROVE  rn * bd = ((c - (u * Q) * x) * bd + bn * (u * m)) * rd
  <1> DEFINE l == rn * bd
             r == ((c - (u * Q) * x) * bd + bn * (u * m)) * rd
  <1>1. l \in Int /\ r \in Int  OBVIOUS
  <1>2. l * ad = ((c * ad + an * (u * P)) * rd) * bd
    <2>1. (rn * bd) * ad = (rn * ad) * bd  OBVIOUS
    <2> QED  BY <2>1
  <1>3. r * ad = ((c - (u * Q) * x) * bd * ad) * rd + (u * ((bn * m) * ad)) * rd
    BY u = 1 \/ u = -1
  <1>4. (u * ((bn * m) * ad)) * rd = (u * (((x * Q) * ad + an * P) * bd)) * rd  OBVIOUS
  <1>5. ((c - (u * Q) * x) * bd * ad) * rd + (u * (((x * Q) * ad + an * P) * bd)) * rd
        = ((c * ad + an * (u * P)) * rd) * bd
    BY u = 1 \/ u = -1
  <1>6. l * ad = r * ad  BY <1>2, <1>3, <1>4, <1>5
  <1> HIDE DEF l, r
  <1>7. l = r  BY <1>1, <1>6, Cancels
  <1> QED  BY <1>7 DEF l, r

(* A fill of some shares at a whole price. *)
IsFill(fill) == fill.price \in Int /\ fill.qty \in Nat \ {0}

LEMMA CostUpIs ==
    ASSUME NEW acc, IsAccount(acc), NEW fill, IsFill(fill), NEW m \in Nat \ {0},
           m = Size(acc.position + SignedQty(fill)), NEW b, b = CostUp(acc, fill)
    PROVE  /\ IsFrac(b)
           /\ (b.n * m) * acc.avg_cost.d
              = ((fill.price * fill.qty) * acc.avg_cost.d + acc.avg_cost.n * Size(acc.position)) * b.d
  <1> DEFINE a == acc.avg_cost  P == Size(acc.position)  w == fill.price * fill.qty
             t == Times(a, P)  N == Plus(t, Whole(w))  k == a.n * P  h == w * a.d + k
  <1>1. /\ IsFrac(a) /\ P \in Int /\ w \in Int /\ k \in Int /\ h \in Int
        /\ a.n \in Int /\ a.d \in Int /\ a.d # 0
    BY DEF IsAccount, IsFill, IsFrac, Size
  <1>2. b = Frac(N.n, N.d * m)  BY Zenon DEF CostUp
  <1>3. IsFrac(t) /\ t.n * a.d = k * t.d  BY <1>1, TimesIs
  <1>4. IsFrac(N) /\ N.n * a.d = h * N.d
    <2> HIDE DEF t, k, a, w
    <2> QED  BY <1>1, <1>3, WholePlus
  <1> HIDE DEF N
  <1>5. N.n \in Int /\ N.d \in Nat \ {0} /\ N.d * m \in Nat \ {0}  BY <1>4, ProductPositive DEF IsFrac
  <1>6. IsFrac(b) /\ b.n * (N.d * m) = N.n * b.d  BY <1>2, <1>5, FracIs
  <1> DEFINE bn == b.n  bd == b.d  Nn == N.n  Nd == N.d  ad == a.d  bm == bn * m
  <1>7. /\ bn \in Int /\ bd \in Int /\ Nn \in Int /\ Nd \in Int /\ Nd # 0 /\ ad \in Int
        /\ bn * (Nd * m) = Nn * bd /\ Nn * ad = h * Nd /\ h \in Int
    BY <1>1, <1>4, <1>5, <1>6 DEF IsFrac
  <1> HIDE DEF bn, bd, Nn, Nd, ad, h
  <1>8. bm \in Int /\ bm * Nd = Nn * bd  BY <1>7
  <1> HIDE DEF bm
  <1>a. /\ bm \in Int /\ bd \in Int /\ Nn \in Int /\ Nd \in Int /\ Nd # 0 /\ h \in Int /\ ad \in Int
        /\ bm * Nd = Nn * bd /\ Nn * ad = h * Nd
    BY <1>7, <1>8
  <1>9. bm * ad = h * bd  BY <1>a, SameTransitive
  <1> QED  BY <1>6, <1>9 DEF bm, ad, h, bn, bd

LEMMA IncreaseProfit ==
    ASSUME NEW acc, IsAccount(acc), DOMAIN acc = DOMAIN NewAccount, NEW fill, IsFill(fill),
           AddsTo(acc, fill), NEW r, r = BookFill(acc, fill)
    PROVE  IsAccount(r) /\ (Profit(acc) => Profit(r))
  <1> DEFINE p == acc.position  q == SignedQty(fill)  m == Size(p + q)
  <1>1. /\ r.position = p + q /\ r.cash = acc.cash - q * fill.price
        /\ r.avg_cost = CostUp(acc, fill) /\ r.realized = acc.realized
    BY Booked
  <1>2. /\ p \in Int /\ acc.cash \in Int /\ q \in Int /\ q # 0 /\ fill.price \in Int /\ fill.qty \in Nat
        /\ IsFrac(acc.avg_cost) /\ IsFrac(acc.realized) /\ fill.qty # 0
    BY DEF IsAccount, IsFill, SignedQty
  <1>3. PICK u \in {1, -1} : q = u * fill.qty /\ p = u * Size(p) /\ p + q = u * m
    <2>1. (p = 0 \/ ((p > 0) <=> (q > 0))) /\ (q = fill.qty \/ q = -fill.qty)
      BY <1>2, Zenon DEF AddsTo, SameSide, SignedQty
    <2> HIDE DEF p, q
    <2>2. CASE q = fill.qty
      <3>1. p >= 0 /\ q > 0  BY <1>2, <2>1, <2>2
      <3>2. Size(p) = p /\ m = p + q  BY <1>2, <3>1 DEF Size
      <3> QED  BY <1>2, <2>2, <3>2
    <2>3. CASE q = -fill.qty
      <3>1. p <= 0 /\ q < 0  BY <1>2, <2>1, <2>3
      <3>2. Size(p) = -p /\ m = -(p + q)  BY <1>2, <3>1 DEF Size
      <3> QED  BY <1>2, <2>3, <3>2
    <2> QED  BY <2>1, <2>2, <2>3
  <1>4. m \in Nat \ {0} /\ Size(p) \in Nat
    <2>1. p + q # 0
      <3>1. (p = 0 \/ ((p > 0) <=> (q > 0)))  BY <1>2, Zenon DEF AddsTo, SameSide
      <3> HIDE DEF p, q
      <3> QED  BY <1>2, <3>1
    <2> HIDE DEF p, q
    <2> QED  BY <1>2, <2>1 DEF Size
  <1> DEFINE a == acc.avg_cost  b == r.avg_cost  z == acc.realized
  <1>5. IsFrac(b) /\ (b.n * m) * a.d = ((fill.price * fill.qty) * a.d + a.n * Size(p)) * b.d
    BY <1>1, <1>4, CostUpIs
  <1>6. IsAccount(r)  BY <1>1, <1>2, <1>5 DEF IsAccount
  <1>7. ASSUME Profit(acc) PROVE Profit(r)
    <2> DEFINE rn == z.n  rd == z.d  an == a.n  ad == a.d  bn == b.n  bd == b.d  c == acc.cash
               P == Size(p)  Q == fill.qty  x == fill.price
    <2>1. /\ rn \in Int /\ rd \in Int /\ an \in Int /\ ad \in Int /\ ad # 0 /\ bn \in Int /\ bd \in Int
          /\ c \in Int /\ P \in Int /\ Q \in Int /\ m \in Int /\ x \in Int
      BY <1>2, <1>4, <1>5 DEF IsFrac
    <2>2. rn * ad = (c * ad + an * (u * P)) * rd  BY <1>3, <1>7 DEF Profit
    <2>3. (bn * m) * ad = ((x * Q) * ad + an * P) * bd  BY <1>5
    <2> HIDE DEF rn, rd, an, ad, bn, bd, c, P, Q, x, m
    <2>4. rn * bd = ((c - (u * Q) * x) * bd + bn * (u * m)) * rd
      BY <2>1, <2>2, <2>3, IncreaseArithmetic
    <2>5. r.realized = z /\ r.cash = c - (u * Q) * x /\ r.position = u * m
      BY <1>1, <1>3 DEF c, Q, x
    <2> QED  BY <2>4, <2>5 DEF Profit, rn, rd, bn, bd
  <1> QED  BY <1>6, <1>7
(* What a fill against the position closes, and what cost remains. *)
LEMMA Against ==
    ASSUME NEW acc, IsAccount(acc), NEW fill, IsFill(fill), ~AddsTo(acc, fill),
           NEW p, p = acc.position, NEW q, q = SignedQty(fill),
           NEW k, k = IF acc.position > 0 THEN ClosedQty(acc, fill) ELSE -ClosedQty(acc, fill)
    PROVE  /\ p \in Int /\ q \in Int /\ k \in Int
           /\ \/ k = -q /\ p + q # 0 /\ CostDown(acc, fill) = acc.avg_cost
              \/ k = p /\ p + q = 0 /\ CostDown(acc, fill) = Whole(0)
              \/ k = p /\ CostDown(acc, fill) = Whole(fill.price)
              \/ KeepsOldCost(acc, fill) /\ CostDown(acc, fill) = acc.avg_cost
  <1> DEFINE n == fill.qty
             after == p + q
             closed == ClosedQty(acc, fill)
  <1>1. p \in Int /\ n \in Nat /\ n # 0 /\ q \in Int /\ (q = n \/ q = -n)
    BY DEF IsAccount, IsFill, SignedQty
  <1>2. p # 0 /\ ~((p > 0) <=> (q > 0))  BY DEF AddsTo, SameSide
  <1>3. closed = IF Size(p) <= n THEN Size(p) ELSE n
    <2>1. Size(p) \in Int  BY <1>1 DEF Size
    <2> QED  BY <1>1, <2>1, MinOfTwo DEF ClosedQty
  <1>4. SameSide(after, q) <=> ((after > 0) <=> (q > 0))  BY DEF SameSide
  <1>5. CostDown(acc, fill) = IF after = 0 THEN Whole(0)
                              ELSE IF SameSide(after, q) /\ Size(after) > closed
                              THEN Whole(fill.price) ELSE acc.avg_cost
    BY Zenon DEF CostDown
  <1>6. KeepsOldCost(acc, fill) <=> /\ p # 0 /\ after # 0 /\ ~SameSide(p, q) /\ SameSide(after, q)
                                    /\ Size(after) <= closed
    BY Zenon DEF KeepsOldCost
  <1>7. ~SameSide(p, q)  BY <1>2 DEF SameSide
  <1>8. k = IF p > 0 THEN closed ELSE -closed  OBVIOUS
  <1> HIDE DEF n, closed
  <1>9. CASE Size(p) > n
    <2>1. /\ closed = n /\ after # 0 /\ ~((after > 0) <=> (q > 0)) /\ k = -q /\ k \in Int
      BY <1>1, <1>2, <1>3, <1>8, <1>9 DEF Size
    <2> QED  BY <1>1, <1>4, <1>5, <2>1
  <1>10. CASE Size(p) = n
    <2>1. closed = n /\ after = 0 /\ k = p  BY <1>1, <1>2, <1>3, <1>8, <1>10 DEF Size
    <2> QED  BY <1>1, <1>5, <2>1
  <1>11. CASE Size(p) < n
    <2>1. /\ closed = Size(p) /\ after # 0 /\ ((after > 0) <=> (q > 0)) /\ k = p
          /\ Size(after) \in Int /\ closed \in Int
      BY <1>1, <1>2, <1>3, <1>8, <1>11 DEF Size
    <2>2. SameSide(after, q)  BY <1>4, <2>1
    <2>3. CASE Size(after) > closed  BY <1>1, <1>5, <2>1, <2>2, <2>3
    <2>4. CASE Size(after) <= closed
      <3>1. ~(Size(after) > closed)  BY <2>1, <2>4
      <3> QED  BY <1>1, <1>2, <1>5, <1>6, <1>7, <2>1, <2>2, <2>4, <3>1
    <2> QED  BY <2>1, <2>3, <2>4
  <1>12. Size(p) \in Int  BY <1>1 DEF Size
  <1> QED  BY <1>1, <1>9, <1>10, <1>11, <1>12

LEMMA DifferenceIs ==
    ASSUME NEW a, IsFrac(a), NEW x \in Int, NEW o \in Int, NEW k \in Int,
           NEW y, y = Times(a, o), NEW z, z = Plus(Whole(x), y), NEW g, g = Times(z, k)
    PROVE  IsFrac(g) /\ g.n * a.d = ((x * a.d + a.n * o) * k) * g.d
  <1> DEFINE an == a.n * o  ad == a.d  h == x * ad + an
  <1>1. ad \in Int /\ an \in Int /\ h \in Int  BY DEF IsFrac
  <1>2. IsFrac(y) /\ y.n * ad = an * y.d  BY TimesIs
  <1> HIDE DEF an, ad
  <1>3. IsFrac(z) /\ z.n * ad = h * z.d  BY <1>1, <1>2, WholePlus
  <1> HIDE DEF h
  <1>4. IsFrac(g) /\ g.n * ad = (h * k) * g.d  BY <1>1, <1>3, TimesOf
  <1> QED  BY <1>4 DEF h, an, ad

LEMMA GainIs ==
    ASSUME NEW acc, IsAccount(acc), NEW fill, IsFill(fill), NEW k \in Int,
           k = IF acc.position > 0 THEN ClosedQty(acc, fill) ELSE -ClosedQty(acc, fill),
           NEW g, g = Gain(acc, fill)
    PROVE  IsFrac(g) /\ g.n * acc.avg_cost.d
                        = ((fill.price * acc.avg_cost.d + acc.avg_cost.n * (-1)) * k) * g.d
  <1> DEFINE a == acc.avg_cost  x == fill.price  o == -1
  <1>1. IsFrac(a) /\ x \in Int /\ o \in Int  BY DEF IsAccount, IsFill
  <1>2. g = Times(Plus(Whole(x), Times(a, o)), k)  BY Zenon DEF Gain, Minus
  <1> HIDE DEF a, x, o
  <1>3. IsFrac(g) /\ g.n * a.d = ((x * a.d + a.n * o) * k) * g.d
    BY <1>1, <1>2, DifferenceIs
  <1> QED  BY <1>3 DEF a, x, o

(* The profit of a fill against the position, over the denominator of the cost. *)
LEMMA CloseArithmetic ==
    ASSUME NEW rn \in Int, NEW rd \in Int, NEW an \in Int, NEW ad \in Int, ad # 0,
           NEW c \in Int, NEW p \in Int, NEW k \in Int, NEW x \in Int,
           rn * ad = ((c * ad + an * p) + (x * ad + an * (-1)) * k) * rd
    PROVE  /\ rn * ad = ((c + k * x) * ad + an * (p - k)) * rd
           /\ k = p => rn = (c + x * p) * rd
  <1>1. (c * ad + an * p) + (x * ad + an * (-1)) * k = (c + k * x) * ad + an * (p - k)  OBVIOUS
  <1>2. ASSUME k = p PROVE rn = (c + x * p) * rd
    <2> DEFINE l == rn  r == (c + x * p) * rd
    <2>1. (c * ad + an * p) + (x * ad + an * (-1)) * p = (c + x * p) * ad  OBVIOUS
    <2>2. rn * ad = ((c + x * p) * ad) * rd  BY <1>2, <2>1
    <2>3. ((c + x * p) * ad) * rd = ((c + x * p) * rd) * ad  OBVIOUS
    <2>4. l \in Int /\ r \in Int /\ l * ad = r * ad  BY <2>2, <2>3
    <2> HIDE DEF l, r
    <2>5. l = r  BY <2>4, Cancels
    <2> QED  BY <2>5 DEF l, r
  <1> QED  BY <1>1, <1>2

LEMMA ReduceProfit ==
    ASSUME NEW acc, IsAccount(acc), DOMAIN acc = DOMAIN NewAccount, NEW fill, IsFill(fill),
           ~AddsTo(acc, fill), NEW r, r = BookFill(acc, fill)
    PROVE  IsAccount(r) /\ (Profit(acc) /\ ~KeepsOldCost(acc, fill) => Profit(r))
  <1>0. /\ r.position = acc.position + SignedQty(fill) /\ r.cash = acc.cash - SignedQty(fill) * fill.price
        /\ r.avg_cost = CostDown(acc, fill) /\ r.realized = Plus(acc.realized, Gain(acc, fill))
    <2>1. ~AddsTo(acc, fill) => /\ r.avg_cost = CostDown(acc, fill)
                                /\ r.realized = Plus(acc.realized, Gain(acc, fill))
      BY Booked, Z3
    <2>2. r.position = acc.position + SignedQty(fill) /\ r.cash = acc.cash - SignedQty(fill) * fill.price
      BY Booked
    <2> QED  BY <2>1, <2>2
  <1> DEFINE p == acc.position  q == SignedQty(fill)  a == acc.avg_cost  x == fill.price
             z == acc.realized  g == Gain(acc, fill)  c == acc.cash
             k == IF acc.position > 0 THEN ClosedQty(acc, fill) ELSE -ClosedQty(acc, fill)
             X == c * a.d + a.n * p
             Y == (x * a.d + a.n * (-1)) * k
  <1>1. /\ r.position = p + q /\ r.cash = c - q * x
        /\ r.avg_cost = CostDown(acc, fill) /\ r.realized = Plus(z, g)
    BY <1>0
  <1>2. /\ p \in Int /\ q \in Int /\ k \in Int
        /\ \/ k = -q /\ p + q # 0 /\ CostDown(acc, fill) = a
           \/ k = p /\ p + q = 0 /\ CostDown(acc, fill) = Whole(0)
           \/ k = p /\ CostDown(acc, fill) = Whole(x)
           \/ KeepsOldCost(acc, fill) /\ CostDown(acc, fill) = a
    BY Against
  <1>3. IsFrac(a) /\ IsFrac(z) /\ c \in Int /\ x \in Int  BY DEF IsAccount, IsFill
  <1>4. a.n \in Int /\ a.d \in Int /\ a.d # 0  BY <1>3 DEF IsFrac
  <1>5. IsFrac(g) /\ g.n * a.d = Y * g.d  BY <1>2, GainIs
  <1> HIDE DEF p, q, a, x, z, g, c, k
  <1>6. X \in Int /\ Y \in Int  BY <1>2, <1>3, <1>4
  <1> HIDE DEF X, Y
  <1>7. IsAccount(r)
    <2>1. IsFrac(Whole(0)) /\ IsFrac(Whole(x))  BY <1>3, WholeIs
    <2>2. IsFrac(r.realized)  BY <1>1, <1>3, <1>5, PlusIs
    <2>3. r.position \in Int /\ r.cash \in Int  BY <1>1, <1>2, <1>3
    <2>4. IsFrac(r.avg_cost)  BY <1>1, <1>2, <1>3, <2>1, Zenon
    <2> QED  BY <2>2, <2>3, <2>4 DEF IsAccount
  <1>8. ASSUME Profit(acc), ~KeepsOldCost(acc, fill) PROVE Profit(r)
    <2>1. z.n * a.d = X * z.d  BY <1>8 DEF Profit, X, a, z, c, p
    <2> DEFINE rn == r.realized.n  rd == r.realized.d  an == a.n  ad == a.d
    <2>2. rn * ad = (X + Y) * rd  BY <1>1, <1>3, <1>4, <1>5, <1>6, <2>1, PlusOf
    <2>3. rn * ad = ((c * ad + an * p) + (x * ad + an * (-1)) * k) * rd  BY <2>2 DEF X, Y
    <2>4. /\ rn \in Int /\ rd \in Int /\ an \in Int /\ ad \in Int /\ ad # 0
          /\ c \in Int /\ p \in Int /\ k \in Int /\ x \in Int /\ q \in Int
      BY <1>2, <1>3, <1>4, <1>7 DEF IsAccount, IsFrac
    <2> HIDE DEF rn, rd, an, ad
    <2>5. /\ rn * ad = ((c + k * x) * ad + an * (p - k)) * rd
          /\ k = p => rn = (c + x * p) * rd
      BY <2>3, <2>4, CloseArithmetic
    <2>6. Profit(r) <=> rn * r.avg_cost.d
                        = ((c - q * x) * r.avg_cost.d + r.avg_cost.n * (p + q)) * rd
      BY <1>1, Zenon DEF Profit, rn, rd
    <2>7. CASE k = -q /\ CostDown(acc, fill) = a
      <3>1. r.avg_cost.d = ad /\ r.avg_cost.n = an  BY <1>1, <2>7 DEF ad, an
      <3>2. c + k * x = c - q * x /\ p - k = p + q  BY <2>4, <2>7
      <3> QED  BY <2>5, <2>6, <3>1, <3>2, Zenon
    <2>8. CASE k = p /\ p + q = 0 /\ CostDown(acc, fill) = Whole(0)
      <3>1. r.avg_cost.d = 1 /\ r.avg_cost.n = 0  BY <1>1, <2>8, WholeIs
      <3>2. (c - q * x) * 1 + 0 * (p + q) = c + x * p
        <4>1. q = -p  BY <2>4, <2>8
        <4> QED  BY <2>4, <4>1
      <3>3. rn * 1 = ((c - q * x) * 1 + 0 * (p + q)) * rd  BY <2>4, <2>5, <2>8, <3>2
      <3> QED  BY <2>6, <3>1, <3>3, Zenon
    <2>9. CASE k = p /\ CostDown(acc, fill) = Whole(x)
      <3>1. r.avg_cost.d = 1 /\ r.avg_cost.n = x  BY <1>1, <1>3, <2>9, WholeIs
      <3>2. (c - q * x) * 1 + x * (p + q) = c + x * p  BY <2>4
      <3>3. rn * 1 = ((c - q * x) * 1 + x * (p + q)) * rd  BY <2>4, <2>5, <2>9, <3>2
      <3> QED  BY <2>6, <3>1, <3>3, Zenon
    <2> QED  BY <1>2, <1>8, <2>7, <2>8, <2>9, Zenon
  <1> QED  BY <1>7, <1>8

------------------------------------------------------------------------------
(* The strategies' orders leave the accounts alone. *)
SimFields == {"engine", "strategy", "account", "symbolOf", "next_order_id", "submitted"}

SameAccounts(r, m) == DOMAIN r = SimFields /\ r.account = m.account

LEMMA CancelAccounts ==
    ASSUME NEW m, DOMAIN m = SimFields, NEW s, NEW d PROVE SameAccounts(CancelQuote(m, s, d), m)
  <1> DEFINE x == RouterCancel(m, m.strategy[s][d].id)
             r == CancelQuote(m, s, d)
  <1>1. \E e, y : x = [m EXCEPT !.engine = e, !.symbolOf = y]  BY Zenon DEF RouterCancel
  <1>2. DOMAIN x = SimFields /\ x.account = m.account
    <2> HIDE DEF x
    <2> QED  BY <1>1 DEF SimFields
  <1>3. r = m \/ \E y : r = [x EXCEPT !.strategy = y]
    <2>1. r = m \/ r = [x EXCEPT !.strategy[s][d] = NoQuote]  BY Zenon DEF CancelQuote
    <2> HIDE DEF x, r
    <2> QED  BY <2>1
  <1> HIDE DEF x, r
  <1>4. SameAccounts(r, m)  BY <1>2, <1>3 DEF SameAccounts, SimFields
  <1> QED  BY <1>4 DEF r

LEMMA SubmitAccounts ==
    ASSUME NEW m, DOMAIN m = SimFields, NEW s, NEW d, NEW price, NEW ts, NEW id
    PROVE  SameAccounts(RouterSubmit(m, s, d, price, ts, id), m)
  <1> DEFINE r == RouterSubmit(m, s, d, price, ts, id)
  <1>1. \E y, n, e : r = [m EXCEPT !.symbolOf = y, !.submitted = n, !.engine = e]
    BY Zenon DEF RouterSubmit
  <1> HIDE DEF r
  <1>2. SameAccounts(r, m)  BY <1>1 DEF SameAccounts, SimFields
  <1> QED  BY <1>2 DEF r

LEMMA RequoteAccounts ==
    ASSUME NEW m, DOMAIN m = SimFields, NEW s, NEW center, NEW ts
    PROVE  SameAccounts(Requote(m, s, center, ts), m)
  <1> DEFINE id == m.next_order_id
             b == CancelQuote(m, s, "Buy")
             c == CancelQuote(b, s, "Sell")
             q == [c EXCEPT !.next_order_id = @ + 2,
                            !.strategy[s].Buy  = [id |-> id, price |-> center - HalfSpread],
                            !.strategy[s].Sell = [id |-> id + 1, price |-> center + HalfSpread],
                            !.strategy[s].last_requote = ts]
             r1 == RouterSubmit(q, s, "Buy", center - HalfSpread, ts, id)
             r2 == RouterSubmit(r1, s, "Sell", center + HalfSpread, ts, id + 1)
  <1>1. Requote(m, s, center, ts) = r2  BY Zenon DEF Requote
  <1>2. SameAccounts(b, m)  BY CancelAccounts
  <1> HIDE DEF b
  <1>3. SameAccounts(c, b)  BY <1>2, CancelAccounts DEF SameAccounts
  <1> HIDE DEF c
  <1>4. SameAccounts(q, c)  BY <1>3 DEF SameAccounts, SimFields
  <1> HIDE DEF q
  <1>5. SameAccounts(r1, q)  BY <1>4, SubmitAccounts DEF SameAccounts
  <1> HIDE DEF r1
  <1>6. SameAccounts(r2, r1)  BY <1>5, SubmitAccounts DEF SameAccounts
  <1> HIDE DEF r2
  <1> QED  BY <1>1, <1>2, <1>3, <1>4, <1>5, <1>6 DEF SameAccounts

LEMMA OnFeatureAccounts ==
    ASSUME NEW m, DOMAIN m = SimFields, NEW s, NEW quote, NEW flow, NEW ts
    PROVE  SameAccounts(OnFeature(m, s, quote, flow, ts), m)
  <1> DEFINE center == Center(m.strategy[s], quote, flow)
             x == Requote(m, s, center, ts)
             y == [x EXCEPT !.strategy[s].center = center, !.strategy[s].has_center = TRUE]
             r == OnFeature(m, s, quote, flow, ts)
  <1>1. r = m \/ r = y  BY Zenon DEF OnFeature
  <1> HIDE DEF center
  <1>2. SameAccounts(x, m)  BY RequoteAccounts
  <1> HIDE DEF x
  <1>3. SameAccounts(y, x)  BY <1>2 DEF SameAccounts, SimFields
  <1> HIDE DEF y, r
  <1>4. SameAccounts(r, m)  BY <1>1, <1>2, <1>3 DEF SameAccounts
  <1> QED  BY <1>4 DEF r

LEMMA OfiSubmitAccounts ==
    ASSUME NEW m, DOMAIN m = SimFields, NEW s, NEW d, NEW price, NEW ts
    PROVE  SameAccounts(OfiSubmit(m, s, d, price, ts), m)
  <1> DEFINE id == m.next_order_id
             x == [m EXCEPT !.next_order_id = @ + 1, !.strategy[s][d] = [id |-> id, price |-> price]]
             r == OfiSubmit(m, s, d, price, ts)
  <1>1. r = RouterSubmit(x, s, d, price, ts, id)  BY Zenon DEF OfiSubmit, OnIntent
  <1>2. SameAccounts(x, m)  BY DEF SameAccounts, SimFields
  <1> HIDE DEF x, r, id
  <1>3. SameAccounts(r, x)  BY <1>1, <1>2, SubmitAccounts DEF SameAccounts
  <1>4. SameAccounts(r, m)  BY <1>2, <1>3 DEF SameAccounts
  <1> QED  BY <1>4 DEF r

LEMMA OfiRequoteAccounts ==
    ASSUME NEW m, DOMAIN m = SimFields, NEW s, NEW quote, NEW center, NEW ts
    PROVE  SameAccounts(OfiRequote(m, s, quote, center, ts), m)
  <1> DEFINE b == CancelQuote(m, s, "Buy")
             c == CancelQuote(b, s, "Sell")
             inventory == m.strategy[s].inventory
             x1 == OfiSubmit(c, s, "Sell", quote.bid - FlattenOffset, ts)
             x2 == OfiSubmit(c, s, "Buy", quote.ask + FlattenOffset, ts)
             x3 == OfiSubmit(c, s, "Buy", center - HalfSpread, ts)
             x4 == OfiSubmit(x3, s, "Sell", center + HalfSpread, ts)
             r  == OfiRequote(m, s, quote, center, ts)
  <1>1. r = CASE inventory >= MaxPosition -> x1 [] inventory <= -MaxPosition -> x2 [] OTHER -> x4
    BY Zenon DEF OfiRequote
  <1>2. SameAccounts(b, m)  BY CancelAccounts
  <1> HIDE DEF b
  <1>3. SameAccounts(c, b)  BY <1>2, CancelAccounts DEF SameAccounts
  <1> HIDE DEF c
  <1>4. SameAccounts(x1, c) /\ SameAccounts(x2, c) /\ SameAccounts(x3, c)
    BY <1>3, OfiSubmitAccounts DEF SameAccounts
  <1> HIDE DEF x1, x2, x3
  <1>5. SameAccounts(x4, x3)  BY <1>4, OfiSubmitAccounts DEF SameAccounts
  <1> HIDE DEF x4, r, inventory
  <1>6. SameAccounts(r, m)  BY <1>1, <1>2, <1>3, <1>4, <1>5 DEF SameAccounts
  <1> QED  BY <1>6 DEF r

LEMMA OfiOnEventAccounts ==
    ASSUME NEW m, DOMAIN m = SimFields, NEW o, NEW s, NEW ev, NEW quote
    PROVE  SameAccounts(OfiOnEvent(m, o, s, ev, quote).sim, m)
  <1> DEFINE r == OfiOnEvent(m, o, s, ev, quote)
  <1>1. \E x, center : r = [sim |-> m, ofi |-> x]
                       \/ r = [sim |-> OfiRequote(m, s, quote, center, ev.ts), ofi |-> x]
    <2> DEFINE st == m.strategy[s]
               signal  == UpdateSignal(IF o.signal.sum = 0 /\ st.inventory = 0 /\ ~o.has_last_quote
                                          /\ st.Buy = NoQuote /\ st.Sell = NoQuote
                                       THEN NewSignal ELSE o.signal, ev)
               center  == OfiCenter(quote, signal.sum)
               counted == [o EXCEPT !.signal = signal, !.events_since_quote = @ + 1]
               late == [counted EXCEPT !.events_since_quote = 0, !.has_last_quote = TRUE]
               y == OfiRequote(m, s, quote, center, ev.ts)
               P == BothSides(quote)
               Q == Standing(st, counted, center)
               x1 == [o EXCEPT !.signal = signal]
    <2>1. r = CASE ~P -> [sim |-> m, ofi |-> x1]
                [] P /\ Q -> [sim |-> m, ofi |-> counted]
                [] OTHER -> [sim |-> y, ofi |-> late]
      BY Zenon DEF OfiOnEvent
    <2>a. y = OfiRequote(m, s, quote, center, ev.ts)  OBVIOUS
    <2> HIDE DEF r, counted, late, y, P, Q, x1, center
    <2>2. \/ r = [sim |-> m, ofi |-> x1] \/ r = [sim |-> m, ofi |-> counted]
          \/ r = [sim |-> y, ofi |-> late]
      BY <2>1
    <2> QED  BY <2>2, <2>a
  <1> HIDE DEF r
  <1>2. PICK center : r.sim = m \/ r.sim = OfiRequote(m, s, quote, center, ev.ts)  BY <1>1
  <1>3. SameAccounts(m, m) /\ SameAccounts(OfiRequote(m, s, quote, center, ev.ts), m)
    BY OfiRequoteAccounts DEF SameAccounts
  <1>4. SameAccounts(r.sim, m)  BY <1>2, <1>3
  <1> QED  BY <1>4 DEF r
(* A mark changes nothing that is money. *)
SameMoney(a, b) ==
    /\ a.position = b.position /\ a.cash = b.cash
    /\ a.avg_cost = b.avg_cost /\ a.realized = b.realized

LEMMA MarksAreNoMoney ==
    ASSUME NEW acc, DOMAIN acc = DOMAIN NewAccount, NEW bid, NEW ask
    PROVE  SameMoney(MarkMid(acc, bid, ask), acc) /\ SameMoney(MarkToMid(acc), acc)
  <1>1. DOMAIN acc = {"position", "cash", "avg_cost", "realized", "mid2", "unrealized", "fills", "volume"}
    BY DEF NewAccount
  <1>2. \E u : MarkToMid(acc) = [acc EXCEPT !.unrealized = u]  BY Zenon DEF MarkToMid
  <1>3. SameMoney(MarkToMid(acc), acc)  BY <1>1, <1>2 DEF SameMoney
  <1>4. SameMoney(MarkMid(acc, bid, ask), acc)  BY <1>1 DEF MarkMid, SameMoney
  <1> QED  BY <1>3, <1>4

(* Accounts whose profit is right but on the symbols of W. *)
MoneyOK(accounts, W) ==
    \A t \in Symbols : IsAccount(accounts[t]) /\ (t \notin W => Profit(accounts[t]))

LEMMA SameMoneyOK ==
    ASSUME NEW a, NEW b, NEW W, MoneyOK(b, W), \A t \in Symbols : SameMoney(a[t], b[t])
    PROVE  MoneyOK(a, W)
  <1> SUFFICES ASSUME NEW t \in Symbols PROVE IsAccount(a[t]) /\ (t \notin W => Profit(a[t]))
    BY DEF MoneyOK
  <1>1. IsAccount(b[t]) /\ (t \notin W => Profit(b[t]))  BY DEF MoneyOK
  <1> DEFINE x == a[t]  y == b[t]
  <1>2. SameMoney(x, y)  OBVIOUS
  <1>3. IsAccount(y) /\ (t \notin W => Profit(y))  BY <1>1
  <1> HIDE DEF x, y
  <1>4. IsAccount(x) /\ (t \notin W => Profit(x))
    BY <1>2, <1>3, Zenon DEF SameMoney, IsAccount, Profit
  <1> QED  BY <1>4 DEF x

(* What an event does to the accounts before it fills anything: a mark. *)
Marked(m, s, bid, ask) == [m EXCEPT !.account[s] = MarkMid(m.account[s], bid, ask)]

LEMMA MarkedMoney ==
    ASSUME NEW m, SimInv(m), NEW s \in Symbols, NEW bid, NEW ask, NEW W, MoneyOK(m.account, W)
    PROVE  DOMAIN Marked(m, s, bid, ask) = SimFields /\ MoneyOK(Marked(m, s, bid, ask).account, W)
  <1> DEFINE r == Marked(m, s, bid, ask)
             acc == MarkMid(m.account[s], bid, ask)
  <1>1. /\ DOMAIN m = SimFields /\ DOMAIN m.account = Symbols
        /\ DOMAIN m.account[s] = DOMAIN NewAccount
    BY DEF SimInv, SimShape, SimFields
  <1>2. SameMoney(acc, m.account[s])  BY <1>1, MarksAreNoMoney
  <1>3. r = [m EXCEPT !.account[s] = acc]  BY DEF Marked
  <1> HIDE DEF r, acc
  <1>4. DOMAIN r = SimFields /\ r.account = [m.account EXCEPT ![s] = acc]  BY <1>1, <1>3 DEF SimFields
  <1>5. \A t \in Symbols : SameMoney(r.account[t], m.account[t])  BY <1>1, <1>2, <1>4 DEF SameMoney
  <1>6. MoneyOK(r.account, W)  BY <1>5, SameMoneyOK
  <1> QED  BY <1>4, <1>6 DEF r

LEMMA PublishMoney ==
    ASSUME NEW m, SimInv(m), NEW ev, ev.symbol \in Symbols, NEW quote, NEW f, NEW W, MoneyOK(m.account, W)
    PROVE  MoneyOK(Publish(m, ev, quote, f).account, W)
  <1> DEFINE s == ev.symbol
             x == Marked(m, s, quote.bid, quote.ask)
             r == Publish(m, ev, quote, f)
  <1>1. DOMAIN x = SimFields /\ MoneyOK(x.account, W)  BY MarkedMoney
  <1>2. r = m \/ r = OnFeature(x, s, quote, f.ofi_sum, ev.ts)  BY Zenon DEF Publish, Marked
  <1> HIDE DEF x, r
  <1>3. SameAccounts(OnFeature(x, s, quote, f.ofi_sum, ev.ts), x)  BY <1>1, OnFeatureAccounts
  <1>4. MoneyOK(r.account, W)  BY <1>1, <1>2, <1>3 DEF SameAccounts
  <1> QED  BY <1>4 DEF r

LEMMA OfiMoney ==
    ASSUME NEW m, SimInv(m), NEW s \in Symbols, NEW bid, NEW ask, NEW o, NEW ev, NEW quote,
           NEW W, MoneyOK(m.account, W)
    PROVE  MoneyOK(OfiOnEvent(Marked(m, s, bid, ask), o, s, ev, quote).sim.account, W)
  <1> DEFINE x == Marked(m, s, bid, ask)
             r == OfiOnEvent(x, o, s, ev, quote)
  <1>1. DOMAIN x = SimFields /\ MoneyOK(x.account, W)  BY MarkedMoney
  <1> HIDE DEF x
  <1>2. SameAccounts(r.sim, x)  BY <1>1, OfiOnEventAccounts
  <1> HIDE DEF r
  <1>3. MoneyOK(r.sim.account, W)  BY <1>1, <1>2 DEF SameAccounts
  <1> QED  BY <1>3 DEF r, x

(* The handlers of a fill book it on the account of its symbol. *)
LEMMA FillBooked ==
    ASSUME NEW m, SimInv(m), NEW s \in Symbols, NEW d \in OrderSides, m.strategy[s][d] # NoQuote,
           NEW q \in Nat, NEW fill, Fills(fill, s, d, m.engine.books[s][d][1], q)
    PROVE  /\ OnFill(m, fill).account = [m.account EXCEPT ![s] = BookFill(m.account[s], fill)]
           /\ ExperimentOnFill(m, fill).account = [m.account EXCEPT ![s] = BookFill(m.account[s], fill)]
  <1>1. HeldBy(m.engine.books[s][d], m.strategy[s][d])  BY DEF SimInv, QuotesHeld
  <1>2. fill.id = m.strategy[s][d].id  BY <1>1, TheOrder DEF Fills
  <1>3. fill.id \in DOMAIN m.symbolOf /\ m.symbolOf[fill.id] = s  BY <1>2 DEF SimInv, QuotesHeld
  <1>4. DOMAIN m = SimFields /\ DOMAIN m.account = Symbols  BY DEF SimInv, SimShape, SimFields
  <1> DEFINE acc == BookFill(m.account[s], fill)
             e == TakeFill(m.engine, fill)
             y == IF fill.partial THEN m.symbolOf ELSE Without(m.symbolOf, fill.id)
             st1 == StrategyOnFill(m.strategy[s], fill)
             st2 == OfiOnFill(m.strategy[s], fill)
  <1>5. OnFill(m, fill) = [m EXCEPT !.engine = e, !.account[s] = acc, !.strategy[s] = st1, !.symbolOf = y]
    BY <1>3 DEF OnFill
  <1>6. ExperimentOnFill(m, fill)
        = [m EXCEPT !.engine = e, !.account[s] = acc, !.strategy[s] = st2, !.symbolOf = y]
    BY <1>3 DEF ExperimentOnFill
  <1> HIDE DEF acc, e, y, st1, st2
  <1> QED  BY <1>4, <1>5, <1>6 DEF SimFields, acc

LEMMA BookFillMoney ==
    ASSUME NEW acc, IsAccount(acc), DOMAIN acc = DOMAIN NewAccount, NEW fill, IsFill(fill),
           NEW r, r = BookFill(acc, fill)
    PROVE  IsAccount(r) /\ (Profit(acc) /\ ~KeepsOldCost(acc, fill) => Profit(r))
  <1>1. CASE AddsTo(acc, fill)  BY <1>1, IncreaseProfit
  <1>2. CASE ~AddsTo(acc, fill)  BY <1>2, ReduceProfit
  <1> QED  BY <1>1, <1>2
(* The accounts after the fill of one order, and the symbols mispriced then. *)
LEMMA FilledMoney ==
    ASSUME NEW m, SimInv(m), NEW W, MoneyOK(m.account, W), NEW s \in Symbols, NEW d \in OrderSides,
           NEW q \in Nat, NEW o, NEW fill, Fills(fill, s, d, o, q),
           NEW accounts, accounts = [m.account EXCEPT ![s] = BookFill(m.account[s], fill)],
           NEW W2, W \subseteq W2, KeepsOldCost(m.account[s], fill) => s \in W2
    PROVE  MoneyOK(accounts, W2)
  <1> DEFINE acc == m.account[s]  r == BookFill(acc, fill)
  <1>1. DOMAIN acc = DOMAIN NewAccount /\ DOMAIN m.account = Symbols  BY DEF SimInv, SimShape
  <1>2. IsAccount(acc) /\ (s \notin W => Profit(acc))  BY DEF MoneyOK
  <1>3. IsFill(fill)  BY DEF Fills, IsFill
  <1>4. IsAccount(r) /\ (Profit(acc) /\ ~KeepsOldCost(acc, fill) => Profit(r))
    BY <1>1, <1>2, <1>3, BookFillMoney
  <1>5. accounts = [m.account EXCEPT ![s] = r]  OBVIOUS
  <1>6. s \notin W2 => s \notin W /\ ~KeepsOldCost(acc, fill)  OBVIOUS
  <1>7. s \notin W2 => Profit(r)  BY <1>2, <1>4, <1>6
  <1> HIDE DEF r, acc
  <1>8. ASSUME NEW t \in Symbols PROVE IsAccount(accounts[t]) /\ (t \notin W2 => Profit(accounts[t]))
    <2>1. CASE t = s
      <3>1. accounts[t] = r  BY <1>1, <1>5, <2>1
      <3> QED  BY <1>4, <1>7, <2>1, <3>1
    <2>2. CASE t # s
      <3>1. accounts[t] = m.account[t]  BY <1>1, <1>5, <2>2
      <3>2. IsAccount(m.account[t]) /\ (t \notin W => Profit(m.account[t]))  BY DEF MoneyOK
      <3> QED  BY <3>1, <3>2
    <2> QED  BY <2>1, <2>2
  <1> QED  BY <1>8 DEF MoneyOK

(* The symbols of the fills of an event that keep the old cost. *)
KeptBy(Handle(_, _), m, fills) ==
    {x \in Symbols : \E i \in DOMAIN fills : fills[i].symbol = x
        /\ KeepsOldCost(FoldLeft(Handle, m, SubSeq(fills, 1, i - 1)).account[x], fills[i])}

LEMMA KeptOne ==
    ASSUME NEW m, NEW fill, NEW s \in Symbols, fill.symbol = s, KeepsOldCost(m.account[s], fill)
    PROVE  s \in KeptBy(OnFill, m, <<fill>>) /\ s \in KeptBy(ExperimentOnFill, m, <<fill>>)
  <1>1. 1 \in DOMAIN <<fill>> /\ <<fill>>[1] = fill /\ SubSeq(<<fill>>, 1, 1 - 1) = <<>>  OBVIOUS
  <1>2. /\ FoldLeft(OnFill, m, SubSeq(<<fill>>, 1, 1 - 1)) = m
        /\ FoldLeft(ExperimentOnFill, m, SubSeq(<<fill>>, 1, 1 - 1)) = m
    BY <1>1, NoFills, NoFillsExperiment
  <1> DEFINE fills == <<fill>>
  <1>3. \E i \in DOMAIN fills : fills[i].symbol = s
            /\ KeepsOldCost(FoldLeft(OnFill, m, SubSeq(fills, 1, i - 1)).account[s], fills[i])
    BY <1>1, <1>2, Zenon
  <1>4. \E i \in DOMAIN fills : fills[i].symbol = s
            /\ KeepsOldCost(FoldLeft(ExperimentOnFill, m, SubSeq(fills, 1, i - 1)).account[s], fills[i])
    BY <1>1, <1>2, Zenon
  <1> HIDE DEF fills
  <1>5. s \in KeptBy(OnFill, m, fills) /\ s \in KeptBy(ExperimentOnFill, m, fills)
    BY <1>3, <1>4, Zenon DEF KeptBy
  <1> QED  BY <1>5 DEF fills

LEMMA HandledMoney ==
    ASSUME NEW m, SimInv(m), NEW ev, IsEvent(ev), NEW W, MoneyOK(m.account, W),
           NEW fills, fills = FillsOf(m.engine, ev)
    PROVE  /\ MoneyOK(FoldLeft(OnFill, m, fills).account, W \cup KeptBy(OnFill, m, fills))
           /\ MoneyOK(FoldLeft(ExperimentOnFill, m, fills).account,
                      W \cup KeptBy(ExperimentOnFill, m, fills))
  <1> DEFINE A == W \cup KeptBy(OnFill, m, fills)
             B == W \cup KeptBy(ExperimentOnFill, m, fills)
             a == FoldLeft(OnFill, m, fills)
             b == FoldLeft(ExperimentOnFill, m, fills)
  <1>1. W \subseteq A /\ W \subseteq B  OBVIOUS
  <1>2. ev.symbol \in Symbols /\ ev.qty \in Nat /\ ev.price \in Nat  BY DEF IsEvent
  <1>3. CASE fills = <<>>
    <2>1. a = m /\ b = m  BY <1>3, NoFills, NoFillsExperiment
    <2> HIDE DEF a, b, A, B
    <2>2. MoneyOK(m.account, A) /\ MoneyOK(m.account, B)  BY <1>1 DEF MoneyOK
    <2>3. MoneyOK(a.account, A) /\ MoneyOK(b.account, B)  BY <2>1, <2>2
    <2> QED  BY <2>3 DEF a, b, A, B
  <1>4. CASE \E fill : \E d \in OrderSides, q \in Nat :
                 /\ fills = <<fill>> /\ m.strategy[ev.symbol][d] # NoQuote
                 /\ Fills(fill, ev.symbol, d, m.engine.books[ev.symbol][d][1], q)
    <2>1. PICK fill, d, q :
                 /\ d \in OrderSides /\ q \in Nat
                 /\ fills = <<fill>> /\ m.strategy[ev.symbol][d] # NoQuote
                 /\ Fills(fill, ev.symbol, d, m.engine.books[ev.symbol][d][1], q)
      BY <1>4
    <2> DEFINE s == ev.symbol
               accounts == [m.account EXCEPT ![s] = BookFill(m.account[s], fill)]
    <2>2. a = OnFill(m, fill) /\ b = ExperimentOnFill(m, fill)  BY <2>1, OneFill, OneFillExperiment
    <2>3. OnFill(m, fill).account = accounts /\ ExperimentOnFill(m, fill).account = accounts
      BY <1>2, <2>1, FillBooked
    <2>4. fill.symbol = s  BY <2>1 DEF Fills
    <2>5. KeepsOldCost(m.account[s], fill) => s \in A /\ s \in B  BY <1>2, <2>1, <2>4, KeptOne
    <2>6. a.account = accounts /\ b.account = accounts  BY <2>2, <2>3
    <2> HIDE DEF a, b, A, B, accounts
    <2>7. accounts = [m.account EXCEPT ![s] = BookFill(m.account[s], fill)]  BY DEF accounts
    <2>8. MoneyOK(accounts, A)  BY <1>1, <1>2, <2>1, <2>5, <2>7, FilledMoney
    <2>9. MoneyOK(accounts, B)  BY <1>1, <1>2, <2>1, <2>5, <2>7, FilledMoney
    <2>10. MoneyOK(a.account, A) /\ MoneyOK(b.account, B)  BY <2>6, <2>8, <2>9
    <2> QED  BY <2>10 DEF a, b, A, B
  <1> QED  BY <1>2, <1>3, <1>4, ThePrint

LEMMA MarkedAllMoney ==
    ASSUME NEW m, SimInv(m), NEW W, MoneyOK(m.account, W) PROVE MoneyOK(MarkedAll(m).account, W)
  <1> DEFINE accounts == [x \in Symbols |-> MarkToMid(m.account[x])]
  <1>1. DOMAIN m = SimFields /\ \A t \in Symbols : DOMAIN m.account[t] = DOMAIN NewAccount
    BY DEF SimInv, SimShape, SimFields
  <1>2. MarkedAll(m) = [m EXCEPT !.account = accounts]  BY DEF MarkedAll
  <1>3. \A t \in Symbols : SameMoney(accounts[t], m.account[t])  BY <1>1, MarksAreNoMoney
  <1> HIDE DEF accounts
  <1>4. MarkedAll(m).account = accounts  BY <1>1, <1>2 DEF SimFields
  <1>5. MoneyOK(accounts, W)  BY <1>3, SameMoneyOK
  <1> QED  BY <1>4, <1>5

(* The invariant of the money. *)
MoneyInv == MoneyOK(sim.account, mispriced)

LEMMA TickMoney ==
    ASSUME ExperimentInv, MoneyInv, NEW event \in Tape, Tick(event)
    PROVE  MoneyInv'
  <1> DEFINE ev    == [event EXCEPT !.ts = TimeOf(event)]
             quote == QuoteAfter(nbbo[ev.symbol], ev)
             f     == FeaturesAfter(features[ev.symbol], ev, quote)
             m     == Publish(sim, ev, quote, f)
             fills == FillsOf(m.engine, ev)
             done  == FoldLeft(OnFill, m, fills)
  <1>1. now \in Nat /\ SimInv(sim)  BY DEF ExperimentInv
  <1>2. IsEvent(ev)  BY <1>1, TapeEvent
  <1>3. sim' = MarkedAll(done) /\ mispriced' = mispriced \cup KeptBy(OnFill, m, fills)
    BY Zenon DEF Tick, Settle, MarkedAll, KeptBy
  <1> HIDE DEF ev
  <1>4. SimInv(m) /\ MoneyOK(m.account, mispriced)
    <2>1. ev.symbol \in Symbols  BY <1>2 DEF IsEvent
    <2> HIDE DEF quote, f
    <2> QED  BY <1>1, <2>1, PublishInv, PublishMoney DEF MoneyInv
  <1> HIDE DEF m
  <1>5. SimInv(done)
    <2>1. FilledTo(done, m)  BY <1>2, <1>4, FillsHandled DEF IsEvent
    <2> QED  BY <2>1 DEF FilledTo
  <1>6. MoneyOK(done.account, mispriced \cup KeptBy(OnFill, m, fills))
    BY <1>2, <1>4, HandledMoney
  <1> HIDE DEF done, fills
  <1>7. MoneyOK(MarkedAll(done).account, mispriced \cup KeptBy(OnFill, m, fills))
    BY <1>5, <1>6, MarkedAllMoney
  <1>8. MoneyOK(sim'.account, mispriced')  BY <1>3, <1>7
  <1> QED  BY <1>8 DEF MoneyInv, MoneyOK, IsAccount, IsFrac, Profit

LEMMA OfiTickMoney ==
    ASSUME ExperimentInv, MoneyInv, NEW event \in Tape, OfiTick(event)
    PROVE  MoneyInv'
  <1> DEFINE ev     == [event EXCEPT !.ts = TimeOf(event)]
             s      == ev.symbol
             quote  == QuoteAfter(nbbo[s], ev)
             marked == Marked(sim, s, quote.bid, quote.ask)
             after  == OfiOnEvent(marked, ofi[s], s, ev, quote)
             m      == after.sim
             fills  == FillsOf(m.engine, ev)
             done   == FoldLeft(ExperimentOnFill, m, fills)
  <1>1. now \in Nat /\ SimInv(sim) /\ OfiInv  BY OfiPart DEF ExperimentInv
  <1>2. IsEvent(ev)  BY <1>1, TapeEvent
  <1>3. /\ runner = "Ofi" /\ sim' = MarkedAll(done)
        /\ mispriced' = mispriced \cup KeptBy(ExperimentOnFill, m, fills)
    BY Zenon DEF OfiTick, Settle, MarkedAll, KeptBy, Marked
  <1> HIDE DEF ev
  <1>4. s \in Symbols  BY <1>2 DEF IsEvent
  <1>5. SimInv(m)
    <2>1. FilledTo(marked, sim)
      <3> HIDE DEF quote
      <3> QED  BY <1>1, <1>4, MarkOne DEF Marked
    <2>2. SimInv(marked) /\ \A t \in Symbols : Bounded(marked, t)
      BY <1>1, <1>3, <2>1 DEF FilledTo, OfiInv
    <2>3. OfiKept(after, marked)
      <3>1. DOMAIN ofi[s] = DOMAIN NewOfi /\ SignalInv(ofi[s].signal)  BY <1>1, <1>4 DEF OfiInv
      <3> HIDE DEF marked, quote, s
      <3> QED  BY <1>2, <1>4, <2>2, <3>1, OfiOnEventKeeps
    <2> HIDE DEF after, marked
    <2> QED  BY <2>3 DEF OfiKept, FilledTo
  <1>6. MoneyOK(m.account, mispriced)
    <2> HIDE DEF quote, s
    <2> QED  BY <1>1, <1>4, OfiMoney DEF MoneyInv
  <1> HIDE DEF m
  <1>7. SimInv(done)
    <2>1. FilledTo(done, m)  BY <1>2, <1>5, FillsHandled DEF IsEvent
    <2> QED  BY <2>1 DEF FilledTo
  <1>8. MoneyOK(done.account, mispriced \cup KeptBy(ExperimentOnFill, m, fills))
    BY <1>2, <1>5, <1>6, HandledMoney
  <1> HIDE DEF done, fills
  <1>9. MoneyOK(MarkedAll(done).account, mispriced \cup KeptBy(ExperimentOnFill, m, fills))
    BY <1>7, <1>8, MarkedAllMoney
  <1>10. MoneyOK(sim'.account, mispriced')  BY <1>3, <1>9
  <1> QED  BY <1>10 DEF MoneyInv, MoneyOK, IsAccount, IsFrac, Profit

LEMMA MoneyAtFirst == InitExperiment => MoneyInv
  <1> SUFFICES ASSUME InitExperiment PROVE MoneyInv  OBVIOUS
  <1>1. sim.account = [s \in Symbols |-> NewAccount]  BY DEF InitExperiment, Init
  <1>2. /\ NewAccount.position = 0 /\ NewAccount.cash = 0
        /\ NewAccount.avg_cost = Whole(0) /\ NewAccount.realized = Whole(0)
    BY DEF NewAccount
  <1>3. IsFrac(Whole(0)) /\ Whole(0).n = 0 /\ Whole(0).d = 1  BY WholeIs
  <1>4. IsAccount(NewAccount) /\ Profit(NewAccount)  BY <1>2, <1>3 DEF IsAccount, Profit
  <1> QED  BY <1>1, <1>4 DEF MoneyInv, MoneyOK

LEMMA MoneyStep == ExperimentInv /\ MoneyInv /\ [NextExperiment]_experimentVars => MoneyInv'
  <1> SUFFICES ASSUME ExperimentInv, MoneyInv, [NextExperiment]_experimentVars PROVE MoneyInv'
    OBVIOUS
  <1>0. ASSUME UNCHANGED <<sim, mispriced>> PROVE MoneyInv'
    BY <1>0 DEF MoneyInv, MoneyOK, IsAccount, IsFrac, Profit
  <1>1. ASSUME NEW event \in Tape, BacktestTick(event) PROVE MoneyInv'
    <2>1. Tick(event)  BY <1>1, Zenon DEF BacktestTick
    <2> QED  BY <2>1, TickMoney
  <1>2. ASSUME NEW event \in Tape, RejectTick(event) PROVE MoneyInv'
    <2>1. UNCHANGED <<sim, mispriced>>  BY <1>2, Zenon DEF RejectTick
    <2> QED  BY <1>0, <2>1
  <1>3. ASSUME NEW event \in Tape, MakingTick(event) PROVE MoneyInv'
    <2>1. Tick(event)  BY <1>3, Zenon DEF MakingTick
    <2> QED  BY <2>1, TickMoney
  <1>4. ASSUME NEW event \in Tape, OfiTick(event) PROVE MoneyInv'
    BY <1>4, OfiTickMoney
  <1>5. ASSUME NEW event \in Tape, StoreTick(event) PROVE MoneyInv'
    <2>1. UNCHANGED <<sim, mispriced>>  BY <1>5, Zenon DEF StoreTick
    <2> QED  BY <1>0, <2>1
  <1>6. CASE UNCHANGED experimentVars
    <2>1. UNCHANGED <<sim, mispriced>>  BY <1>6, Zenon DEF experimentVars, vars
    <2> QED  BY <1>0, <2>1
  <1> QED  BY <1>1, <1>2, <1>3, <1>4, <1>5, <1>6 DEF NextExperiment

LEMMA MoneyIsCash == ExperimentInv /\ MoneyInv => ProfitIsCash
  <1> SUFFICES ASSUME ExperimentInv, MoneyInv, NEW s \in Symbols
               PROVE  LET acc == sim.account[s] IN
                      /\ sim.strategy[s].inventory = acc.position
                      /\ s \notin mispriced =>
                           Same(acc.realized, Plus(Whole(acc.cash), Times(acc.avg_cost, acc.position)))
    BY Zenon DEF ProfitIsCash
  <1> DEFINE acc == sim.account[s]
  <1>1. sim.strategy[s].inventory = acc.position  BY DEF ExperimentInv, SimInv
  <1>2. IsAccount(acc) /\ (s \notin mispriced => Profit(acc))  BY DEF MoneyInv, MoneyOK
  <1>3. Same(acc.realized, Plus(Whole(acc.cash), Times(acc.avg_cost, acc.position))) <=> Profit(acc)
    BY <1>2, ProfitMeans
  <1> QED  BY <1>1, <1>2, <1>3, Zenon

------------------------------------------------------------------------------
(* Whatever runner drives the tape, the four records of the strategy's orders, *)
(* its position, its signal and the flow features stay as ExperimentInv says. *)
THEOREM ExperimentInvariant == ExperimentSpec => []ExperimentInv
  <1>1. InitExperiment => ExperimentInv  BY ExperimentInvAtFirst
  <1>2. ExperimentInv /\ [NextExperiment]_experimentVars => ExperimentInv'  BY ExperimentStep
  <1> QED  BY <1>1, <1>2, PTL DEF ExperimentSpec

(* EngineRouter, the strategies and SimMatchingEngine: for every tape and      *)
(* configuration no order rests that the strategy has forgotten, and the       *)
(* strategy waits for none that is gone.                                     *)
THEOREM OrdersAlwaysAgree == ExperimentSpec => []OrdersAgree
  BY ExperimentInvariant, HeldOrdersAgree, PTL

(* OfiStrategy: what it holds and what rests to add to it never reaches its    *)
(* limit by a whole quote, and its signal is that of its window.             *)
THEOREM PositionStaysBounded == ExperimentSpec => []PositionBounded
  <1>1. ExperimentInv => PositionBounded  BY DEF ExperimentInv
  <1> QED  BY <1>1, ExperimentInvariant, PTL

(* FeaturePipeline: for every window, bucket size and number of buckets the    *)
(* imbalance is that of the points in its window, and all volume that traded   *)
(* is in closed buckets or waits in the open one.                            *)
THEOREM FlowStaysAccounted == ExperimentSpec => []FlowAccounted
  <1>1. ExperimentInv => FlowAccounted  BY DEF ExperimentInv
  <1> QED  BY <1>1, ExperimentInvariant, PTL

(* PnlAccountant::on_fill: for every tape, strategy and sequence of fills the   *)
(* realised profit of a symbol is its cash and what its position cost, as long  *)
(* as no fill turned the position round and left no more than it closed.       *)
THEOREM ProfitStaysCash == ExperimentSpec => []ProfitIsCash
  <1>1. InitExperiment => MoneyInv  BY MoneyAtFirst
  <1>2. ExperimentInv /\ MoneyInv /\ [NextExperiment]_experimentVars => MoneyInv'  BY MoneyStep
  <1>3. ExperimentInv /\ MoneyInv => ProfitIsCash  BY MoneyIsCash
  <1> QED  BY <1>1, <1>2, <1>3, ExperimentInvariant, PTL DEF ExperimentSpec
==============================================================================
