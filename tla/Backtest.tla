------------------------------ MODULE Backtest ------------------------------
(***************************************************************************)
(* BacktestRunner: a tape of market events drives the feature pipeline, the  *)
(* market making strategy, the simulated matching engine and the accountant. *)
(* The runner is single threaded and one event of the tape is one step, but  *)
(* within it control goes round: an event's feature makes the strategy       *)
(* cancel and submit orders, and a print makes the engine call back into the *)
(* accountant and the strategy in the middle of its loop over the book.      *)
(*                                                                          *)
(* The order books and the consolidator are the NBBO they show: an event of   *)
(* the tape carries the best of its side afterwards, or nothing where that    *)
(* stays.                                                                    *)
(***************************************************************************)
EXTENDS FeaturePipeline, SimMatchingEngine, PnlAccountant

CONSTANTS Tape,               \* the events the tape may hold
          MaxTicks,           \* bound: length of the tape
          QuoteSize, HalfSpread, MaxInventory, InventorySkew, OfiSkew,
          RequoteThreshold, Cooldown,      \* MarketMakingStrategy::Config
          SharpeBucket                     \* sharpe_bucket_ns

(* The engine ignores an order without quantity, of which the strategy would  *)
(* think that it rests.                                                      *)
ASSUME BacktestAssumption ==
    /\ QuoteSize \in Nat \ {0} /\ MaxTicks \in Nat /\ SharpeBucket \in Nat \ {0}
    /\ HalfSpread \in Nat
    /\ Tape \subseteq [type : STRING, symbol : Symbols, side : STRING, price : Nat, qty : Nat,
                       ts : Int, best : Seq([price : Nat, qty : Nat])]

VARIABLES nbbo,       \* what the books behind the feature bridge show
          features,   \* FeaturePipeline::by_symbol_
          sim,        \* the engine, the strategy, the accounts and the runner's map
          curve,      \* the accountant's equity curve
          now,        \* exchange timestamp of the last event
          ticks,
          volume,     \* history: per symbol what its trades of a known side add up to
          mispriced   \* history: the symbols of a fill that kept the old cost

vars == <<nbbo, features, sim, curve, now, ticks, volume, mispriced>>

NoQuote == [id |-> 0, price |-> 0]
NewStrategy == [inventory |-> 0, Buy |-> NoQuote, Sell |-> NoQuote, center |-> 0,
                has_center |-> FALSE, last_requote |-> 0]

Init ==
    /\ nbbo = [s \in Symbols |-> NoNbbo]
    /\ features = [s \in Symbols |-> NewFeatures]
    /\ sim = [engine |-> NewMatching, strategy |-> [s \in Symbols |-> NewStrategy],
              account |-> [s \in Symbols |-> NewAccount], symbolOf |-> <<>>,
              next_order_id |-> 1, submitted |-> 0]
    /\ curve = [peak |-> Whole(0), drawdown |-> Whole(0), bucket |-> -1,
                bucket_equity |-> Whole(0), returns |-> Whole(0)]
    /\ now = 0 /\ ticks = 0 /\ mispriced = {}
    /\ volume = [s \in Symbols |-> 0]

------------------------------------------------------------------------------
(* EngineRouter::cancel and ::submit. *)
RouterCancel(m, id) ==
    [m EXCEPT !.engine = CancelOrder(@, id), !.symbolOf = Without(@, id)]

RouterSubmit(m, s, side, price, ts, id) ==
    [m EXCEPT !.symbolOf = With(@, id, s), !.submitted = @ + 1,
              !.engine = Submit(BindOrderSymbol(@, id, s), side,
                                [id |-> id, price |-> price, qty |-> QuoteSize, ts |-> ts])]

CancelQuote(m, s, side) ==
    IF m.strategy[s][side] = NoQuote THEN m
    ELSE [RouterCancel(m, m.strategy[s][side].id) EXCEPT !.strategy[s][side] = NoQuote]

(* Mutant of Requote: the old ask stays when the bid has been filled. *)
RequoteKeepsAsk(m, s, center, ts) ==
    LET id        == m.next_order_id
        cancelled == IF m.strategy[s].Buy = NoQuote THEN m
                     ELSE CancelQuote(CancelQuote(m, s, "Buy"), s, "Sell")
        quoted    == [cancelled EXCEPT
                         !.next_order_id = @ + 2,
                         !.strategy[s].Buy  = [id |-> id, price |-> center - HalfSpread],
                         !.strategy[s].Sell = [id |-> id + 1, price |-> center + HalfSpread],
                         !.strategy[s].last_requote = ts]
    IN RouterSubmit(RouterSubmit(quoted, s, "Buy", center - HalfSpread, ts, id),
                    s, "Sell", center + HalfSpread, ts, id + 1)

(* requote: both quotes are cancelled where they are active, and two new      *)
(* orders are recorded and submitted.                                        *)
Requote(m, s, center, ts) ==
    LET id        == m.next_order_id
        cancelled == CancelQuote(CancelQuote(m, s, "Buy"), s, "Sell")
        quoted    == [cancelled EXCEPT
                         !.next_order_id = @ + 2,
                         !.strategy[s].Buy  = [id |-> id, price |-> center - HalfSpread],
                         !.strategy[s].Sell = [id |-> id + 1, price |-> center + HalfSpread],
                         !.strategy[s].last_requote = ts]
    IN RouterSubmit(RouterSubmit(quoted, s, "Buy", center - HalfSpread, ts, id),
                    s, "Sell", center + HalfSpread, ts, id + 1)

Clamp(n, limit) == IF n > limit THEN limit ELSE IF n < -limit THEN -limit ELSE n

(* std::llround of num / den. *)
RoundTicks(num, den) == IF num >= 0 THEN (2 * num + den) \div (2 * den)
                        ELSE -((den - 2 * num) \div (2 * den))

(* The price the strategy quotes around: the microprice, less what its        *)
(* inventory and the order flow make it shade.                               *)
Center(st, quote, ofi) ==
    LET micro == Microprice(quote)
        shade == Clamp(st.inventory, MaxInventory) * InventorySkew + ofi * OfiSkew
    IN RoundTicks(micro.num - shade * micro.den, micro.den)

(* MarketMakingStrategy::on_feature. *)
OnFeature(m, s, quote, ofi, ts) ==
    LET st     == m.strategy[s]
        center == Center(st, quote, ofi)
        moved  == ~st.has_center \/ Size(center - st.center) >= RequoteThreshold
        cooled == ts >= st.last_requote /\ ts - st.last_requote >= Cooldown
    IN IF moved /\ cooled
       THEN [Requote(m, s, center, ts) EXCEPT !.strategy[s].center = center,
                                              !.strategy[s].has_center = TRUE]
       ELSE m

(* What the books show after an event. *)
QuoteAfter(quote, ev) ==
    IF ev.best = <<>> THEN quote
    ELSE IF ev.side = "Buy"
    THEN [quote EXCEPT !.bid = ev.best[1].price, !.bid_qty = ev.best[1].qty]
    ELSE [quote EXCEPT !.ask = ev.best[1].price, !.ask_qty = ev.best[1].qty]

(* The bridge: features of the event, published to the accountant and then to *)
(* the strategy; without two sides there is no feature.                      *)
Publish(m, ev, quote, f) ==
    IF ~BothSides(quote) THEN m
    ELSE OnFeature([m EXCEPT !.account[ev.symbol] = MarkMid(@, quote.bid, quote.ask)],
                   ev.symbol, quote, f.ofi_sum, ev.ts)

(* MarketMakingStrategy::on_fill: it forgets a quote that is gone and will     *)
(* quote anew.                                                               *)
StrategyOnFill(st, fill) ==
    IF st[fill.side].id # fill.id THEN st
    ELSE [st EXCEPT !.inventory = @ + SignedQty(fill),
                    !.has_center = FALSE,
                    ![fill.side] = IF fill.partial THEN @ ELSE NoQuote]

(* A fill: the runner's callback books it and tells the strategy; then the     *)
(* engine takes it.                                                          *)
OnFill(m, fill) ==
    IF fill.id \notin DOMAIN m.symbolOf THEN [m EXCEPT !.engine = TakeFill(@, fill)]
    ELSE LET s == m.symbolOf[fill.id]
         IN [m EXCEPT !.engine = TakeFill(@, fill),
                      !.account[s] = BookFill(@, fill),
                      !.strategy[s] = StrategyOnFill(@, fill),
                      !.symbolOf = IF fill.partial THEN @ ELSE Without(@, fill.id)]

(* PnlAccountant::on_tick_end on the curve. *)
TickEnd(c, equity, ts) ==
    LET peak   == IF Less(c.peak, equity) THEN equity ELSE c.peak
        down   == Minus(peak, equity)
        bucket == ts \div SharpeBucket
    IN [peak     |-> peak,
        drawdown |-> IF Less(c.drawdown, down) THEN down ELSE c.drawdown,
        bucket   |-> bucket,
        bucket_equity |-> IF bucket # c.bucket THEN equity ELSE c.bucket_equity,
        returns  |-> IF c.bucket # -1 /\ bucket # c.bucket
                     THEN Plus(c.returns, Minus(equity, c.bucket_equity)) ELSE c.returns]

TotalEquity(account) ==
    FoldLeft(LAMBDA sum, s : Plus(sum, EquityOf(account[s])), Whole(0), SetToSeq(Symbols))

(* The exchange timestamp of an event, which lies some time from the last. *)
TimeOf(event) == IF now + event.ts > 0 THEN now + event.ts ELSE 0

(* What an event adds to the volume history. *)
VolumeOf(ev, quote) ==
    IF BothSides(quote) /\ ev.type \in {"Trade", "CrossTrade"} /\ ev.side \in OrderSides
    THEN ev.qty ELSE 0

(* The rest of an event once the strategy has quoted: the engine fills what    *)
(* the event reaches, each fill is handled, and the accountant marks.         *)
Settle(ev, quote, f, quoted, Handle(_, _)) ==
    LET s      == ev.symbol
        fills  == FillsOf(quoted.engine, ev)
        done   == FoldLeft(Handle, quoted, fills)
        marked == [done EXCEPT !.account = [x \in Symbols |-> MarkToMid(done.account[x])]]
    IN /\ ticks < MaxTicks /\ ticks' = ticks + 1
       /\ now' = ev.ts
       /\ nbbo' = [nbbo EXCEPT ![s] = quote]
       /\ features' = [features EXCEPT ![s] = f]
       /\ sim' = marked
       /\ curve' = TickEnd(curve, TotalEquity(marked.account), ev.ts)
       /\ volume' = [volume EXCEPT ![s] = @ + VolumeOf(ev, quote)]
       /\ mispriced' = mispriced \cup
              {x \in Symbols : \E i \in DOMAIN fills : fills[i].symbol = x
                                /\ KeepsOldCost(FoldLeft(Handle, quoted, SubSeq(fills, 1, i - 1)).account[x],
                                                fills[i])}

(* One event of BacktestRunner::run. *)
Tick(event) ==
    LET ev    == [event EXCEPT !.ts = TimeOf(event)]
        quote == QuoteAfter(nbbo[ev.symbol], ev)
        f     == FeaturesAfter(features[ev.symbol], ev, quote)
    IN Settle(ev, quote, f, Publish(sim, ev, quote, f), OnFill)

Next == \E event \in Tape : Tick(event)

Spec == Init /\ [][Next]_vars

------------------------------------------------------------------------------
Sides(s) == {d \in OrderSides : sim.strategy[s][d] # NoQuote}

(* Four records are kept of the strategy's orders: the quotes it believes     *)
(* active, the runner's map, the engine's map and the engine's book. After    *)
(* every event they say the same, whatever was cancelled, filled in part or   *)
(* filled in the middle of the engine's loop: no order rests that the         *)
(* strategy has forgotten, and it waits for none that is gone.               *)
OrdersAgree ==
    LET ids(s) == {sim.strategy[s][d].id : d \in Sides(s)} IN
    /\ \A s \in Symbols, d \in OrderSides :
           LET book == sim.engine.books[s][d] IN
           {[id |-> book[i].id, price |-> book[i].price] : i \in DOMAIN book}
           = {sim.strategy[s][d]} \ {NoQuote}
    /\ DOMAIN sim.symbolOf = UNION {ids(s) : s \in Symbols}
    /\ sim.symbolOf = sim.engine.symbolOf
    /\ \A s \in Symbols : \A id \in ids(s) : sim.symbolOf[id] = s

(* The strategy's inventory is the accountant's position, and the profit that *)
(* was booked as realised is the cash that is not tied up in that position at *)
(* its average cost; except on a symbol where a fill turned the position      *)
(* round and left no more than it closed, which keeps a stale average cost.   *)
ProfitIsCash ==
    \A s \in Symbols :
        LET acc == sim.account[s] IN
        /\ sim.strategy[s].inventory = acc.position
        /\ s \notin mispriced =>
               Same(acc.realized, Plus(Whole(acc.cash), Times(acc.avg_cost, acc.position)))

(* No flow is lost: the running sum of the imbalance is that of the points    *)
(* still in the window, and the volume traded is in closed buckets or waits,   *)
(* less than a bucket of it.                                                 *)
FlowAccounted ==
    \A s \in Symbols :
        LET f == features[s] IN
        /\ f.ofi_sum = SumOf(f.window)
        /\ f.buy + f.sell = volume[s] % BucketVolume
        /\ Len(f.buckets) = Min({BucketCount, volume[s] \div BucketVolume})
==============================================================================
