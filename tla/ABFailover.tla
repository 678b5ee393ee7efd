------------------------------ MODULE ABFailover ------------------------------
(***************************************************************************)
(* The arbiter in front of the pipeline, as the applications wire them: each *)
(* copy of an event goes to AbArbiter::on_event, what drain_ready returns    *)
(* goes to Pipeline::on_event, one event after the other, and finalize sends *)
(* the merged events to the sink. The way of working is chosen in Init:      *)
(*   direct  no arbiter, events reach the pipeline in any order              *)
(*           (phase1_parser_validate, journal_replay, run_baseline);         *)
(*   race    live sessions, whose copies arrive in any order                 *)
(*           (wire_replay_to_pipeline, journal_capture_loopback);            *)
(*   drill   the recorded source is doubled into a race stream that drops    *)
(*           copies (make_dual_feed_race_stream; run_raced, run_drop_injected*)
(*           of the failover tools).                                         *)
(***************************************************************************)
EXTENDS Pipeline

CONSTANTS Source,        \* the recorded events of a drill, in order
          RaceNumbers,   \* the numbers live feeds carry
          RaceVenues,    \* the venues live feeds carry
          MaxFinalize    \* bound: calls of finalize in a race

ASSUME FailoverAssumption ==
    /\ RaceNumbers \subseteq SeqNumbers /\ RaceVenues \subseteq Venues /\ MaxFinalize \in Nat
    /\ Source \in Seq(Event)

VARIABLES way,           \* direct, race or drill
          arbTrackers, arbPending, arbReady, arbStats, arbDelivered, arbArrived,
          handed,        \* what is left of the loop over drain_ready's result
          raced,         \* the places left of the race stream of a drill
          droppedBoth,   \* events of the drill that neither side kept
          finalized      \* calls of finalize

arbVars == <<arbTrackers, arbPending, arbReady, arbStats, arbDelivered, arbArrived>>
allVars == <<vars, way, arbVars, handed, raced, droppedBoth, finalized>>

Arbiter == INSTANCE ABArbiter WITH
    trackers <- arbTrackers, pending <- arbPending, ready <- arbReady,
    stats <- arbStats, delivered <- arbDelivered, arrived <- arbArrived,
    SeqNumbers <- RaceNumbers

(* make_dual_feed_race_stream visits the source once and writes up to two      *)
(* copies of an event, side A first when its sequence number is even. Place p  *)
(* of the stream, counting the dropped copies too, holds the copy Copy(p).     *)
SourceOf(p) == (p + 1) \div 2

Copy(p) ==
    LET e     == Source[SourceOf(p)]
        first == p % 2 = 1
    IN [side |-> IF first = (e.sequence % 2 = 0) THEN "A" ELSE "B", event |-> e]

(* The places whose copy the draw keeps. *)
RaceStream(draw) == {p \in 1 .. 2 * Len(Source) : Copy(p).side \in draw[SourceOf(p)]}

(* A draw per event: independent drops on both sides, which includes the       *)
(* drops on A alone of ab_failover_validation and the complementary drops of   *)
(* phase2_ab_evidence.                                                       *)
Draws == [DOMAIN Source -> SUBSET Arbiter!FeedSide]

InitFailover ==
    /\ Init
    /\ Arbiter!Init
    /\ handed = <<>> /\ finalized = 0
    /\ \/ way \in {"direct", "race"} /\ raced = {} /\ droppedBoth = {}
       \/ /\ way = "drill"
          /\ \E draw \in Draws :
                /\ raced = RaceStream(draw)
                /\ droppedBoth = {Source[i] : i \in {j \in DOMAIN Source : draw[j] = {}}}

(* Nothing of the current call is left to do. *)
Returned == Idle /\ handed = <<>> /\ arbReady = <<>>

Direct ==
    /\ way = "direct" /\ arrivals < MaxArrivals
    /\ \E v \in Venues, seq \in SeqNumbers : OnEvent(v, seq)
    /\ UNCHANGED <<way, arbVars, handed, raced, droppedBoth, finalized>>

(* A live copy arrives at its session's callback. *)
RaceArrival ==
    /\ way = "race" /\ Returned
    /\ \E side \in Arbiter!FeedSide, v \in RaceVenues, seq \in RaceNumbers :
           Arbiter!OnEvent(side, v, seq)
    /\ UNCHANGED <<vars, way, handed, raced, droppedBoth, finalized>>

DrillStep ==
    /\ way = "drill" /\ Returned /\ raced # {}
    /\ LET c == Copy(Min(raced)) IN Arbiter!OnEvent(c.side, c.event.venue, c.event.sequence)
    /\ raced' = raced \ {Min(raced)}
    /\ UNCHANGED <<vars, way, handed, droppedBoth, finalized>>

(* drain_ready, called after every copy. *)
TakeReady ==
    /\ Arbiter!DrainReady
    /\ handed' = handed \o arbReady
    /\ UNCHANGED <<vars, way, raced, droppedBoth, finalized>>

HandOver ==
    /\ handed # <<>>
    /\ OnEvent(Head(handed).venue, Head(handed).sequence)
    /\ handed' = Tail(handed)
    /\ UNCHANGED <<way, arbVars, raced, droppedBoth, finalized>>

(* The rest of a call of on_event or finalize. *)
Continue ==
    /\ SkipPending \/ Reinject \/ PopNext \/ Drained
    /\ UNCHANGED <<way, arbVars, handed, raced, droppedBoth, finalized>>

(* The tools finalize at the end of a drill, live sessions after every burst. *)
CallFinalize ==
    /\ Returned
    /\ way = "drill" => raced = {} /\ finalized = 0
    /\ way = "race" => finalized < MaxFinalize
    /\ Finalize
    /\ finalized' = IF way = "direct" THEN 0 ELSE finalized + 1
    /\ UNCHANGED <<way, arbVars, handed, raced, droppedBoth>>

NextFailover ==
    Direct \/ RaceArrival \/ DrillStep \/ TakeReady \/ HandOver \/ Continue \/ CallFinalize

SpecFailover == InitFailover /\ [][NextFailover]_allVars

------------------------------------------------------------------------------
(* Each stage keeps two records of what waits behind a gap, the tracker's ring   *)
(* of tags and a container of events (pending_by_venue_, pending_), and in both  *)
(* stages the two agree, also in the middle of a reinjection: the release loop   *)
(* of process_event never misses an event, and the arbiter's branch that        *)
(* replays a pending copy is never reached.                                     *)
HeldRecordsAgree ==
    PendingMatchesTags /\ Arbiter!PendingMatchesTags /\ Arbiter!NextNeverPending

(* Once and in order, at every stage: of two racing copies the first wins and    *)
(* each venue's events leave the arbiter in strictly increasing sequence; so     *)
(* they reach the merger, although a recovered event is processed a second      *)
(* time; and each finalize sends its events in merge order.                     *)
InOrderOnce == Arbiter!AcceptedOnce /\ PublishedInOrder /\ MergedInOrder

(* The baseline of the failover tools: the whole source through the pipeline,  *)
(* that is, sorted in merge order.                                           *)
Baseline == SortSeq(Source, LessEvent)

(* The claim of the failover tools (baseline_crc = drop_injected_crc): as long *)
(* as every event is kept on at least one side, dropping copies changes        *)
(* nothing of what the sink sees, neither the events nor their order; and      *)
(* when some event is dropped on both sides, the sink sees a part of the       *)
(* baseline, in the same order, without the dropped events.                   *)
FailoverTransparent ==
    way = "drill" /\ finalized = 1 /\ ~draining =>
        /\ droppedBoth = {} => merged = Baseline
        /\ merged = SelectSeq(Baseline, LAMBDA e : e \in ToSet(merged))
        /\ ToSet(merged) \cap droppedBoth = {}

------------------------------------------------------------------------------
(* What the proofs need about the states in between: an inductive invariant.   *)

Stats == [accepted : Nat, dropped_duplicate_or_old : Nat, buffered_out_of_order : Nat,
          dropped_gap_too_large : Nat, dropped_gap_too_large_pending_evicted : Nat,
          pending_inconsistency : Nat, recovery_reinjected : Nat, requests_total : Nat,
          recovery_requests : Nat]

(* The pipeline's variables have their types. *)
TypeOK ==
    /\ trackers \in [Venues -> TrackerType] /\ pending \in [Venues -> SUBSET SeqNumbers]
    /\ store \in [Venues -> Seq(SeqNumbers)] /\ queues \in [Venues -> Seq(SeqNumbers)]
    /\ merged \in Seq(Event) /\ draining \in BOOLEAN /\ drainedFrom \in 0 .. Len(merged)
    /\ stats \in Stats

(* Every tag of a tracker is in its own slot and in the window.               *)
Windowed(t) ==
    \A i \in SlotIndex :
        LET tag == t.buffered_tags[i] IN
        tag # 0 => tag % Slots = i /\ tag > t.next_expected /\ tag <= t.next_expected + GapWindow

(* The exchange's timestamps do not run backwards within a venue. *)
TimesMonotone ==
    \A v \in Venues : \A m, n \in SeqNumbers :
        m < n => ExchangeTs[v][m] <= ExchangeTs[v][n]

(* While finalize drains, what it has sent goes before all that is queued.    *)
SentGoesFirst ==
    draining => \A i \in drainedFrom + 1 .. Len(merged), v \in Venues :
                    \A n \in DOMAIN queues[v] :
                        LessEvent(merged[i], [venue |-> v, sequence |-> queues[v][n]])

Merging == TimesMonotone => MergedInOrder /\ SentGoesFirst

PipelineInv == /\ TypeOK /\ PendingMatchesTags /\ PublishedInOrder
               /\ NoLossWithoutForcedAdvance /\ Merging
               /\ \A v \in Venues : Windowed(trackers[v])

ArbiterStats == [accepted : Nat, accepted_a : Nat, accepted_b : Nat, duplicate_or_old : Nat,
                 gap_buffered : Nat, gap_too_large : Nat, forced_advances : Nat]

(* The arbiter's variables have their types. *)
ArbiterTypeOK ==
    /\ arbTrackers \in [Venues -> TrackerType]
    /\ DOMAIN arbPending = Venues /\ \A v \in Venues : DOMAIN arbPending[v] \subseteq Nat
    /\ arbReady \in Seq(Event) /\ arbDelivered \in Seq(Event)
    /\ arbArrived \in [Arbiter!FeedSide -> [Venues -> SUBSET SeqNumbers]]
    /\ arbStats \in ArbiterStats

(* The arbiter has moved past everything it has accepted. *)
AcceptedBelowNext ==
    \A i \in DOMAIN Arbiter!Accepted :
        Arbiter!Accepted[i].sequence < arbTrackers[Arbiter!Accepted[i].venue].next_expected

ArbiterInv == /\ ArbiterTypeOK /\ Arbiter!PendingMatchesTags /\ Arbiter!NextNeverPending
              /\ Arbiter!AcceptedOnce /\ AcceptedBelowNext
              /\ \A v \in Venues : Windowed(arbTrackers[v])

(* What is recovered are events of the feeds, and finalize is never called in  *)
(* the loop over them.                                                       *)
RecoveryInv == /\ simulated \in Seq(Event) /\ recovered \in Seq(Event)
               /\ draining => recovered = <<>>

HandedTypeOK == handed \in Seq(Event) /\ raced \subseteq 1 .. 2 * Len(Source)

FailoverInv == PipelineInv /\ RecoveryInv /\ ArbiterInv /\ HandedTypeOK

(* What a venue's replay store q holds: numbers that are past or wait behind    *)
(* the gap, and perhaps next_expected, after it forced the tracker over a gap;  *)
(* what had arrived by then is smaller.                                      *)
StoreKnown(q, next, waiting) ==
    \A i \in 1 .. Len(q) : /\ q[i] <= next \/ q[i] \in waiting
                           /\ q[i] = next => \A j \in 1 .. i - 1 : q[j] < next

(* next is in the store, and nothing smaller arrived after it. *)
Findable(q, next) ==
    \E i \in 1 .. Len(q) : q[i] = next /\ \A j \in i .. Len(q) : q[j] >= next

(* A recovered event is past, waits or is the next one, so that processing it    *)
(* again asks for nothing; and as long as events wait for a number that can be *)
(* found, that number is among the recovered.                                *)
HealInv ==
    /\ simulated = <<>>
    /\ \A k \in 1 .. Len(recovered) :
           LET r == recovered[k] IN
           r.sequence <= trackers[r.venue].next_expected \/ r.sequence \in pending[r.venue]
    /\ \A v \in Venues :
           LET next == trackers[v].next_expected IN
           /\ StoreKnown(store[v], next, pending[v])
           /\ pending[v] # {} /\ Findable(store[v], next) =>
                  \E k \in 1 .. Len(recovered) : recovered[k] = [venue |-> v, sequence |-> next]
==============================================================================
