----------------------------- MODULE Experiment -----------------------------
(***************************************************************************)
(* ExperimentRunner: the research harness around the same simulated engine,  *)
(* accountant and features. It refuses an event that runs backwards in time, *)
(* and drives either the StrategyEngine, which quotes as the market making   *)
(* strategy of the backtest does, or the OfiStrategy, which quotes by its    *)
(* own order flow signal on every event and limits its position.             *)
(*                                                                          *)
(* The alpha lab's FeatureStore collects the features of the same tape, in     *)
(* whatever order its timestamps have, as the rows of its data set.          *)
(*                                                                          *)
(* The tape has the events of one venue, whose top of book is then the NBBO. *)
(* The statistics of the report and its hashes are left out.                 *)
(***************************************************************************)
EXTENDS Backtest, AlphaLab

CONSTANTS SignalEvents, SignalWindow,     \* OfiSignal::Config; 0 is no limit
          MaxPosition, Threshold, FlattenOffset, CooldownEvents,  \* OfiStrategy::Config
          MaxExperiment, MaxStore         \* bounds: length of an experiment's tape

ASSUME ExperimentAssumption ==
    /\ SignalEvents \in Nat /\ SignalWindow \in Nat
    /\ MaxPosition \in Nat \ {0} /\ CooldownEvents \in Nat

VARIABLES runner,    \* "backtest", or the strategy kind of the experiment
          ofi,       \* the rest of OfiStrategy's state, per symbol
          taker,     \* order_taker_: the orders that crossed the top when submitted
          shares,    \* the shares that paid the fee or earned the rebate
          rejects,   \* clock_rejects_
          rows       \* RowCollector::rows_

experimentVars == <<vars, runner, ofi, taker, shares, rejects, rows>>

NewSignal == [window |-> <<>>, sum |-> 0, Buy |-> <<>>, Sell |-> <<>>]
NewOfi    == [signal |-> NewSignal, events_since_quote |-> 0, has_last_quote |-> FALSE]

InitExperiment ==
    /\ Init
    /\ runner \in {"backtest", "MarketMaking", "Ofi", "FeatureStore"}
    /\ ofi = [s \in Symbols |-> NewOfi]
    /\ taker = {} /\ shares = [fee |-> 0, rebate |-> 0] /\ rejects = 0 /\ rows = <<>>

------------------------------------------------------------------------------
(* OfiSignal::update: what the event adds, compared with the last event of its *)
(* side. A side that nobody quoted counts like a higher price.               *)
FlowOf(signal, ev) ==
    LET old  == signal[ev.side]
        sign == IF ev.side = "Buy" THEN 1 ELSE -1
    IN CASE old = <<>> \/ ev.price > old[1].price  -> sign * ev.qty
         [] old # <<>> /\ ev.price = old[1].price  -> sign * (ev.qty - old[1].qty)
         [] OTHER                                  -> -sign * old[1].qty

(* OfiSignal::prune: how many entries go, first by age and then by number. *)
Pruned(window, ts) ==
    LET fresh  == {i \in DOMAIN window : window[i].ts + SignalWindow >= ts}
        byAge  == IF SignalWindow = 0 THEN 0 ELSE Min(fresh \cup {Len(window) + 1}) - 1
        excess == IF SignalEvents = 0 THEN 0 ELSE Len(window) - SignalEvents
    IN Max({byAge, excess})

UpdateSignal(signal, ev) ==
    LET quotes == ev.side \in OrderSides /\ ev.price > 0
        flow   == IF quotes THEN FlowOf(signal, ev) ELSE 0
        all    == Append(signal.window, [ts |-> ev.ts, value |-> flow])
        gone   == Pruned(all, ev.ts)
        slid   == [signal EXCEPT !.window = SubSeq(all, gone + 1, Len(all)),
                                 !.sum = @ + flow - SumOf(SubSeq(all, 1, gone))]
    IN IF quotes THEN [slid EXCEPT ![ev.side] = <<[price |-> ev.price, qty |-> ev.qty]>>]
       ELSE slid

------------------------------------------------------------------------------
(* on_intent for a new order, which is the router's work; and whether it       *)
(* crosses the top that was published last.                                  *)
OnIntent(m, s, side, price, ts, id) == RouterSubmit(m, s, side, price, ts, id)

Crosses(side, price, quote) == IF side = "Buy" THEN price >= quote.ask ELSE price <= quote.bid

(* OfiStrategy::submit. *)
OfiSubmit(m, s, side, price, ts) ==
    LET id == m.next_order_id
    IN OnIntent([m EXCEPT !.next_order_id = @ + 1,
                          !.strategy[s][side] = [id |-> id, price |-> price]],
                s, side, price, ts, id)

(* The price quoted around: the mid, or the side the flow presses on. *)
OfiCenter(quote, flow) ==
    LET mid == (quote.bid + quote.ask) \div 2
    IN CASE flow > Threshold  -> Max({mid, quote.ask})
         [] flow < -Threshold -> Min({mid, quote.bid})
         [] OTHER             -> mid

(* Quotes that stand: both live, and either at the prices wanted or young. *)
Standing(st, o, center) ==
    /\ st.Buy # NoQuote /\ st.Sell # NoQuote
    /\ \/ o.has_last_quote /\ st.Buy.price = center - HalfSpread
                           /\ st.Sell.price = center + HalfSpread
       \/ o.events_since_quote < CooldownEvents

(* Mutant of OfiRequote: the strategy quotes both sides at its limit too. *)
OfiRequoteUnlimited(m, s, quote, center, ts) ==
    LET cancelled == CancelQuote(CancelQuote(m, s, "Buy"), s, "Sell")
    IN OfiSubmit(OfiSubmit(cancelled, s, "Buy", center - HalfSpread, ts),
                 s, "Sell", center + HalfSpread, ts)

(* Both quotes are cancelled; at the limit of the position one order follows   *)
(* that reduces it, at the other side's price, and two quotes otherwise.      *)
OfiRequote(m, s, quote, center, ts) ==
    LET cancelled == CancelQuote(CancelQuote(m, s, "Buy"), s, "Sell")
        inventory == m.strategy[s].inventory
    IN CASE inventory >= MaxPosition ->
                OfiSubmit(cancelled, s, "Sell", quote.bid - FlattenOffset, ts)
         [] inventory <= -MaxPosition ->
                OfiSubmit(cancelled, s, "Buy", quote.ask + FlattenOffset, ts)
         [] OTHER -> OfiSubmit(OfiSubmit(cancelled, s, "Buy", center - HalfSpread, ts),
                               s, "Sell", center + HalfSpread, ts)

(* OfiStrategy::on_event, on the engine's side and on the strategy's own. A     *)
(* signal that is 0 starts anew as long as nothing was ever quoted.           *)
OfiOnEvent(m, o, s, ev, quote) ==
    LET st      == m.strategy[s]
        signal  == UpdateSignal(IF o.signal.sum = 0 /\ st.inventory = 0 /\ ~o.has_last_quote
                                   /\ st.Buy = NoQuote /\ st.Sell = NoQuote
                                THEN NewSignal ELSE o.signal, ev)
        center  == OfiCenter(quote, signal.sum)
        counted == [o EXCEPT !.signal = signal, !.events_since_quote = @ + 1]
    IN CASE ~BothSides(quote) -> [sim |-> m, ofi |-> [o EXCEPT !.signal = signal]]
         [] BothSides(quote) /\ Standing(st, counted, center) -> [sim |-> m, ofi |-> counted]
         [] OTHER -> [sim |-> OfiRequote(m, s, quote, center, ev.ts),
                      ofi |-> [counted EXCEPT !.events_since_quote = 0, !.has_last_quote = TRUE]]

(* OfiStrategy::on_fill counts a fill whether or not it knows the order. *)
OfiOnFill(st, fill) ==
    LET gone(q) == IF ~fill.partial /\ q.id = fill.id THEN NoQuote ELSE q
    IN [st EXCEPT !.inventory = @ + SignedQty(fill), !.Buy = gone(@), !.Sell = gone(@)]

(* The runner's fill callback. *)
ExperimentOnFill(m, fill) ==
    IF fill.id \notin DOMAIN m.symbolOf THEN [m EXCEPT !.engine = TakeFill(@, fill)]
    ELSE LET s == m.symbolOf[fill.id]
         IN [m EXCEPT !.engine = TakeFill(@, fill),
                      !.account[s] = BookFill(@, fill),
                      !.strategy[s] = OfiOnFill(@, fill),
                      !.symbolOf = IF fill.partial THEN @ ELSE Without(@, fill.id)]

------------------------------------------------------------------------------
(* SimulationClock::advance_to: time does not run backwards. *)
Accepted(event) == TimeOf(event) >= now

(* An event's new orders that cross, and whose shares its fills were. *)
Charge(ev, quote, quoted) ==
    LET fills == FillsOf(quoted.engine, ev)
        new   == {d \in OrderSides : quoted.strategy[ev.symbol][d].id >= sim.next_order_id}
        qty(ids) == FoldLeft(LAMBDA sum, f : IF f.id \in ids THEN sum + f.qty ELSE sum, 0, fills)
        all   == {fills[i].id : i \in DOMAIN fills}
    IN /\ taker' = taker \cup {quoted.strategy[ev.symbol][d].id : d \in
              {d \in new : Crosses(d, quoted.strategy[ev.symbol][d].price, quote)}}
       /\ shares' = [fee    |-> shares.fee + qty(taker'),
                     rebate |-> shares.rebate + qty(all \ taker')]

BacktestTick(event) ==
    /\ runner = "backtest"
    /\ Tick(event)
    /\ UNCHANGED <<runner, ofi, taker, shares, rejects, rows>>

(* An experiment counts an event that the clock refuses, and skips it. *)
RejectTick(event) ==
    /\ runner \in {"MarketMaking", "Ofi"} /\ ticks < MaxExperiment
    /\ ~Accepted(event)
    /\ ticks' = ticks + 1 /\ rejects' = rejects + 1
    /\ UNCHANGED <<nbbo, features, sim, curve, now, volume, mispriced, runner, ofi, taker, shares, rows>>

(* ExperimentState::on_event with the StrategyEngine. *)
MakingTick(event) ==
    LET ev    == [event EXCEPT !.ts = TimeOf(event)]
        quote == QuoteAfter(nbbo[ev.symbol], ev)
        f     == FeaturesAfter(features[ev.symbol], ev, quote)
    IN /\ runner = "MarketMaking" /\ ticks < MaxExperiment
       /\ Accepted(event)
       /\ Tick(event)
       /\ Charge(ev, quote, Publish(sim, ev, quote, f))
       /\ UNCHANGED <<runner, ofi, rejects, rows>>

(* ExperimentState::on_event with the OfiStrategy: a feature only marks. *)
OfiTick(event) ==
    LET ev     == [event EXCEPT !.ts = TimeOf(event)]
        s      == ev.symbol
        quote  == QuoteAfter(nbbo[s], ev)
        marked == [sim EXCEPT !.account[s] = MarkMid(@, quote.bid, quote.ask)]
        after  == OfiOnEvent(marked, ofi[s], s, ev, quote)
    IN /\ runner = "Ofi" /\ ticks < MaxExperiment
       /\ Accepted(event)
       /\ Settle(ev, quote, FeaturesAfter(features[s], ev, quote), after.sim, ExperimentOnFill)
       /\ ofi' = [ofi EXCEPT ![s] = after.ofi]
       /\ Charge(ev, quote, after.sim)
       /\ UNCHANGED <<runner, rejects, rows>>

(* from_feature_vector. *)
RowOf(ev, quote) == [symbol |-> ev.symbol, ts |-> ev.ts, mid2 |-> quote.bid + quote.ask]

(* FeatureStore::materialize_from_journal: an event goes through the bridge,  *)
(* and the feature published for it, if any, becomes a row.                  *)
StoreTick(event) ==
    LET ev    == [event EXCEPT !.ts = TimeOf(event)]
        s     == ev.symbol
        quote == QuoteAfter(nbbo[s], ev)
    IN /\ runner = "FeatureStore" /\ ticks < MaxStore
       /\ ticks' = ticks + 1 /\ now' = ev.ts
       /\ nbbo' = [nbbo EXCEPT ![s] = quote]
       /\ features' = [features EXCEPT ![s] = FeaturesAfter(@, ev, quote)]
       /\ rows' = IF BothSides(quote) THEN Append(rows, RowOf(ev, quote)) ELSE rows
       /\ volume' = [volume EXCEPT ![s] = @ + VolumeOf(ev, quote)]
       /\ UNCHANGED <<sim, curve, mispriced, runner, ofi, taker, shares, rejects>>

NextExperiment ==
    \E event \in Tape : \/ BacktestTick(event) \/ RejectTick(event)
                       \/ MakingTick(event) \/ OfiTick(event) \/ StoreTick(event)

ExperimentSpec == InitExperiment /\ [][NextExperiment]_experimentVars

------------------------------------------------------------------------------
(* The OfiStrategy's limit: what it holds and what rests to add to it stay     *)
(* within one quote of max_position on either side, through partial fills,    *)
(* quotes that stand and orders that flatten. The flow it quotes by is that    *)
(* of the entries still in its window.                                       *)
PositionBounded ==
    \A s \in Symbols :
        LET resting(d) == QtyOf(sim.engine.books[s][d])
            held       == sim.account[s].position
        IN runner = "Ofi" =>
               /\ held + resting("Buy") < MaxPosition + QuoteSize
               /\ resting("Sell") - held < MaxPosition + QuoteSize
               /\ ofi[s].signal.sum = SumOf(ofi[s].signal.window)

(* The folds cover every row once as a test, and the code's own check finds    *)
(* no fold leaky for a horizon within the purge. Of the mid prices of a test   *)
(* a training row's label uses one only where nothing was observed between    *)
(* the end of its horizon and the test: find_future_mid_index then looks      *)
(* further ahead than the purge allows for.                                  *)
FoldsDoNotLeak ==
    LET folds == Split(rows) IN
    /\ \A i \in DOMAIN rows : Cardinality({f \in folds : i \in f.test}) = 1
    /\ \A f \in folds, h \in 0 .. Purge : ~IsLeakySplit(rows, f, h)
    /\ Horizon <= Purge =>
           \A f \in folds : \A i \in f.train : \A label \in LabelOf(rows, i) :
               /\ label.from \notin f.test
               /\ label.to \in f.test =>
                   ~\E j \in DOMAIN rows : /\ rows[j].symbol = rows[i].symbol
                                           /\ rows[j].ts >= rows[i].ts + Horizon
                                           /\ rows[j].ts < f.start
------------------------------------------------------------------------------
(* The inductive invariant behind OrdersAgree, PositionBounded and            *)
(* FlowAccounted. A quote is nothing, or the one order of its book; its       *)
(* number has been given out, and the map knows it and nothing else.         *)
HeldBy(book, quote) ==
    /\ book = <<[id |-> quote.id, price |-> quote.price, qty |-> book[1].qty, ts |-> book[1].ts]>>
    /\ book[1].qty \in 1 .. QuoteSize

QuotesHeld(strategy, books, map, next) ==
    /\ \A s \in Symbols, d \in OrderSides :
           \/ strategy[s][d] = NoQuote /\ books[s][d] = <<>>
           \/ /\ strategy[s][d] # NoQuote /\ strategy[s][d].id \in 1 .. next - 1
              /\ strategy[s][d].id \in DOMAIN map /\ map[strategy[s][d].id] = s
              /\ HeldBy(books[s][d], strategy[s][d])
    /\ \A s \in Symbols : strategy[s].Buy.id = strategy[s].Sell.id => strategy[s].Buy.id = 0
    /\ \A id \in DOMAIN map : \E s \in Symbols, d \in OrderSides :
           strategy[s][d] # NoQuote /\ strategy[s][d].id = id

IsQuote(quote) == quote = [id |-> quote.id, price |-> quote.price] /\ quote.id \in Nat

SimShape(m) ==
    /\ DOMAIN m = {"engine", "strategy", "account", "symbolOf", "next_order_id", "submitted"}
    /\ DOMAIN m.strategy = Symbols /\ DOMAIN m.account = Symbols
    /\ \A s \in Symbols :
           /\ DOMAIN m.strategy[s] = DOMAIN NewStrategy /\ m.strategy[s].inventory \in Int
           /\ IsQuote(m.strategy[s].Buy) /\ IsQuote(m.strategy[s].Sell)
           /\ DOMAIN m.account[s] = DOMAIN NewAccount /\ m.account[s].position \in Int
    /\ DOMAIN m.engine = {"symbolOf", "books"} /\ DOMAIN m.engine.books = Symbols
    /\ \A s \in Symbols : DOMAIN m.engine.books[s] = OrderSides
    /\ m.next_order_id \in Nat \ {0}

SimInv(m) ==
    /\ SimShape(m)
    /\ QuotesHeld(m.strategy, m.engine.books, m.symbolOf, m.next_order_id)
    /\ m.engine.symbolOf = m.symbolOf
    /\ \A s \in Symbols : m.strategy[s].inventory = m.account[s].position

(* The points of a window of order flow. *)
Points == [ts : Nat, value : Int]

FeatureInv(f) ==
    /\ DOMAIN f = DOMAIN NewFeatures
    /\ f.last \in [bid : Nat, bid_qty : Nat, ask : Nat, ask_qty : Nat]
    /\ f.window \in Seq(Points) /\ f.ofi_sum = SumOf(f.window)
    /\ f.buy \in Nat /\ f.sell \in Nat /\ f.buckets \in Seq(Nat)

SignalInv(signal) ==
    /\ DOMAIN signal = DOMAIN NewSignal
    /\ signal.window \in Seq(Points) /\ signal.sum = SumOf(signal.window)
    /\ \A d \in OrderSides : \/ signal[d] = <<>>
                             \/ signal[d] = <<signal[d][1]>> /\ signal[d][1] \in [price : Nat, qty : Nat]

ExperimentInv ==
    /\ now \in Nat /\ nbbo \in [Symbols -> [bid : Nat, bid_qty : Nat, ask : Nat, ask_qty : Nat]]
    /\ SimInv(sim)
    /\ DOMAIN features = Symbols /\ volume \in [Symbols -> Nat]
    /\ \A s \in Symbols : FeatureInv(features[s])
    /\ FlowAccounted
    /\ DOMAIN ofi = Symbols
    /\ \A s \in Symbols : DOMAIN ofi[s] = DOMAIN NewOfi /\ SignalInv(ofi[s].signal)
    /\ PositionBounded
==============================================================================
