--------------------------- MODULE FeaturePipeline ---------------------------
(***************************************************************************)
(* FeaturePipeline for one symbol, as operators on its state: the order flow *)
(* imbalance over a window of time, and the ring of volume buckets (VPIN).   *)
(* The two statistics that nothing in the system reads back, the moving      *)
(* average of the effective spread and the regression sums behind            *)
(* kyle_lambda, are left out.                                                *)
(*                                                                          *)
(* An NBBO is a bid and an ask with their quantities; a price of 0 is a side *)
(* that nobody quotes. Timestamps are unsigned: the age of a point that lies *)
(* in the future is a huge number.                                           *)
(***************************************************************************)
EXTENDS Integers, SequencesExt, FiniteSetsExt

CONSTANTS OfiWindow,       \* ofi_window_ns
          BucketVolume,    \* vpin_bucket_volume
          BucketCount      \* vpin_bucket_count, at most the 64 slots of the array

(* A bucket volume of 0 makes the loop that closes buckets endless. *)
ASSUME FeatureAssumption ==
    /\ OfiWindow \in Nat /\ BucketVolume \in Nat \ {0} /\ BucketCount \in 1 .. 64

NoNbbo == [bid |-> 0, bid_qty |-> 0, ask |-> 0, ask_qty |-> 0]

NewFeatures == [last |-> NoNbbo, ofi_sum |-> 0, window |-> <<>>,
                buy |-> 0, sell |-> 0, buckets |-> <<>>]

BothSides(nbbo) == nbbo.bid # 0 /\ nbbo.ask # 0

(* One side's share of the imbalance: a better price counts what it shows, a  *)
(* worse one takes away what was shown, the same price counts the difference. *)
BidFlow(old, new) ==
    CASE new.bid > old.bid -> new.bid_qty
      [] new.bid < old.bid -> -old.bid_qty
      [] OTHER             -> new.bid_qty - old.bid_qty

AskFlow(old, new) ==
    CASE new.ask < old.ask -> -new.ask_qty
      [] new.ask > old.ask -> old.ask_qty
      [] OTHER             -> old.ask_qty - new.ask_qty

DeltaOfi(old, new) == IF old = NoNbbo THEN 0 ELSE BidFlow(old, new) + AskFlow(old, new)

Expired(p, ts) == ts < p.ts \/ ts - p.ts > OfiWindow

SumOf(points) ==
    LET sum[n \in 0 .. Len(points)] == IF n = 0 THEN 0 ELSE sum[n - 1] + points[n].value
    IN sum[Len(points)]

(* Mutant of SlideOfi: an expired point leaves the window but not the sum. *)
SlideOfiKeepsSum(f, nbbo, ts) ==
    LET delta == DeltaOfi(f.last, nbbo)
        all   == Append(f.window, [ts |-> ts, value |-> delta])
        head  == Min({i \in DOMAIN all : ~Expired(all[i], ts)})
    IN [f EXCEPT !.last = nbbo, !.window = SubSeq(all, head, Len(all)), !.ofi_sum = @ + delta]

(* Append the flow of this event and let the points at the head expire, up to *)
(* the first that has not; compacting the vector changes nothing of it.      *)
SlideOfi(f, nbbo, ts) ==
    LET delta == DeltaOfi(f.last, nbbo)
        all   == Append(f.window, [ts |-> ts, value |-> delta])
        head  == Min({i \in DOMAIN all : ~Expired(all[i], ts)})
    IN [f EXCEPT !.last = nbbo,
                 !.window = SubSeq(all, head, Len(all)),
                 !.ofi_sum = @ + delta - SumOf(SubSeq(all, 1, head - 1))]

Abs(n) == IF n < 0 THEN -n ELSE n

(* One turn of the loop that closes a bucket. The ring is the sequence of its *)
(* values, oldest first, each times the bucket volume.                       *)
CloseBucket(f) ==
    LET excess == f.buy + f.sell - BucketVolume
        buy    == IF f.buy > excess THEN excess ELSE 0
        ring   == Append(f.buckets, Abs(f.buy - f.sell))
    IN [f EXCEPT !.buckets = IF Len(ring) > BucketCount THEN Tail(ring) ELSE ring,
                 !.buy = buy,
                 !.sell = IF f.sell > buy THEN excess - buy ELSE 0]

Full(f) == f.buy + f.sell >= BucketVolume

(* The loop, as long as there is a full bucket: each turn takes at least one   *)
(* bucket volume off, so that it ends within as many turns as buckets fit.    *)
CloseBuckets(f) ==
    LET turns == (f.buy + f.sell) \div BucketVolume
        loop[n \in 0 .. turns] ==
            IF n = 0 THEN f
            ELSE IF Full(loop[n - 1]) THEN CloseBucket(loop[n - 1]) ELSE loop[n - 1]
    IN loop[turns]

(* A trade of a known side fills the bucket. *)
OnTrade(f, side, qty) ==
    CloseBuckets([f EXCEPT !.buy  = IF side = "Buy"  THEN @ + qty ELSE @,
                           !.sell = IF side = "Sell" THEN @ + qty ELSE @])

(* on_event: the state after it; an NBBO without two sides changes nothing,    *)
(* and no vector is returned for it.                                         *)
FeaturesAfter(f, ev, nbbo) ==
    IF ~BothSides(nbbo) THEN f
    ELSE LET slid == SlideOfi(f, nbbo, ev.ts) IN
         IF ev.type \in {"Trade", "CrossTrade"} THEN OnTrade(slid, ev.side, ev.qty) ELSE slid

(* The microprice, a fraction: each price weighs what the other side shows;   *)
(* the mid price when neither shows a quantity.                              *)
Microprice(nbbo) ==
    IF nbbo.bid_qty + nbbo.ask_qty = 0 THEN [num |-> nbbo.bid + nbbo.ask, den |-> 2]
    ELSE [num |-> nbbo.ask * nbbo.bid_qty + nbbo.bid * nbbo.ask_qty,
          den |-> nbbo.bid_qty + nbbo.ask_qty]

==============================================================================
