------------------------------ MODULE AlphaLab ------------------------------
(***************************************************************************)
(* The alpha lab's data set: rows of features, the forward returns that the  *)
(* LabelBuilder attaches to them, and the folds into which PurgedCv splits   *)
(* them, as operators on the sequence of rows.                               *)
(*                                                                          *)
(* A row has its symbol, its exchange timestamp and twice its mid price. A   *)
(* label is the pair of rows whose mid prices it compares, or nothing.       *)
(***************************************************************************)
EXTENDS Integers, SequencesExt, FiniteSetsExt

CONSTANTS Horizon,                   \* the label horizon
          FoldCount, Purge, Embargo  \* PurgedCvConfig

ASSUME AlphaLabAssumption ==
    Horizon \in Nat /\ FoldCount \in Nat /\ Purge \in Nat /\ Embargo \in Nat

(* The stable sort by time of some of the rows. *)
ByTime(rows, some) ==
    SortSeq(SelectSeq([i \in DOMAIN rows |-> i], LAMBDA i : i \in some),
            LAMBDA a, b : rows[a].ts < rows[b].ts \/ (rows[a].ts = rows[b].ts /\ a < b))

(* build_timeline, the part of one symbol. *)
Timeline(rows, symbol) ==
    ByTime(rows, {i \in DOMAIN rows : rows[i].symbol = symbol /\ rows[i].mid2 > 0})

(* find_future_mid_index: the first later observation from the target on. *)
FutureOf(rows, timeline, origin, target) ==
    {j \in origin + 1 .. Len(timeline) :
        /\ rows[timeline[j]].ts >= target
        /\ \A k \in origin + 1 .. j - 1 : rows[timeline[k]].ts < target}

(* attach_labels for one row. It finds the first observation of the row's      *)
(* time, which is another row's where several share it.                      *)
LabelOf(rows, i) ==
    LET timeline == Timeline(rows, rows[i].symbol)
        origin   == Min({k \in DOMAIN timeline : rows[timeline[k]].ts >= rows[i].ts})
        future   == FutureOf(rows, timeline, origin, rows[i].ts + Horizon)
    IN IF rows[i].mid2 = 0 THEN {}
       ELSE {[from |-> timeline[origin], to |-> timeline[j]] : j \in future}

(* Mutant of Training: the embargo counts from the start of the test. *)
TrainingEarly(rows, order, first, last) ==
    LET from == rows[order[first]].ts - Purge
        to   == rows[order[first]].ts + Embargo
    IN {order[i] : i \in {i \in DOMAIN order : /\ i \notin first .. last
                                               /\ rows[order[i]].ts \notin from .. to}}

(* The rows of a fold that are neither tested nor too close to the test. *)
Training(rows, order, first, last) ==
    LET from == IF rows[order[first]].ts > Purge THEN rows[order[first]].ts - Purge ELSE 0
        to   == rows[order[last]].ts + Embargo
    IN {order[i] : i \in {i \in DOMAIN order : /\ i \notin first .. last
                                               /\ rows[order[i]].ts \notin from .. to}}

(* PurgedCv::split. *)
Split(rows) ==
    LET order == ByTime(rows, DOMAIN rows)
        size  == Max({1, Len(order) \div FoldCount})
        first(f) == (f - 1) * size + 1
        last(f)  == IF f = FoldCount THEN Len(order) ELSE Min({Len(order), f * size})
    IN IF rows = <<>> \/ FoldCount < 2 THEN {}
       ELSE {[start |-> rows[order[first(f)]].ts, end |-> rows[order[last(f)]].ts,
              test  |-> {order[i] : i \in first(f) .. last(f)},
              train |-> Training(rows, order, first(f), last(f))]
             : f \in {f \in 1 .. FoldCount : first(f) <= last(f)}}

(* PurgedCv::is_leaky_split. *)
IsLeakySplit(rows, fold, horizon) ==
    \E i \in fold.train : rows[i].ts + horizon >= fold.start /\ rows[i].ts <= fold.end
==============================================================================
