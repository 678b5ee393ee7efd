------------------------------- MODULE Pipeline -------------------------------
(***************************************************************************)
(* The phase 2 pipeline: per venue a gap-aware sequencer, the events that    *)
(* wait behind a gap (pending_by_venue_), a bounded replay store that is     *)
(* asked for the missing numbers (ReplayRecoveryStore behind                 *)
(* ReplayRecoverySimulator), and the deterministic merger that finalize      *)
(* drains into the sink.                                                     *)
(*                                                                          *)
(* The pipeline is single threaded. on_event is two kinds of step: OnEvent   *)
(* up to the call of drain_recovered, then one Reinject or SkipPending per   *)
(* turn of its loop over the recovered events; finalize is Finalize and one  *)
(* PopNext per turn of its loop. No other call starts in between.            *)
(*                                                                          *)
(* An event is its venue and its sequence number; its payload is never read  *)
(* here, and its exchange timestamp is a function of the two.                *)
(***************************************************************************)
EXTENDS SequenceTracker, DeterministicMerger, SequencesExt

CONSTANTS RecoveryLookbackSlack,   \* kRecoveryLookbackSlack
          SeqNumbers,              \* the numbers the feeds may carry
          MaxArrivals              \* bound: calls of on_event

ASSUME PipelineAssumption ==
    /\ RecoveryLookbackSlack \in Nat /\ MaxArrivals \in Nat
    /\ SeqNumbers \subseteq Nat
    /\ \A v \in Venues, n \in SeqNumbers : ExchangeTs[v][n] \in Nat

VARIABLES trackers,    \* sequencer_: one tracker per venue
          pending,     \* pending_by_venue_: the numbers waiting behind a gap
          store,       \* recovery_store_: numbers in the order they arrived
          simulated,   \* recovery_sim_.pending_recovered_
          recovered,   \* what is left of on_event's loop over the drained events
          queues,      \* merger_
          merged,      \* what the sink received
          draining,    \* finalize is in its loop
          stats,
          arrivals,    \* calls of on_event
          drainedFrom  \* history: Len(merged) when the last finalize began

vars == <<trackers, pending, store, simulated, recovered, queues, merged,
          draining, stats, arrivals, drainedFrom>>

Event == [venue : Venues, sequence : SeqNumbers]

NoStats == [accepted |-> 0, dropped_duplicate_or_old |-> 0,
            buffered_out_of_order |-> 0, dropped_gap_too_large |-> 0,
            dropped_gap_too_large_pending_evicted |-> 0,
            pending_inconsistency |-> 0, recovery_reinjected |-> 0,
            requests_total |-> 0, recovery_requests |-> 0]

------------------------------------------------------------------------------
(* The recovery store. *)

MaxEventsPerVenue == GapWindow + RecoveryLookbackSlack

(* record_event: append, then drop from the front beyond the capacity.       *)
RecordEvent(q, seq) ==
    LET longer == Append(q, seq)
        excess == Len(longer) - MaxEventsPerVenue
    IN IF excess > 0 THEN SubSeq(longer, excess + 1, Len(longer)) ELSE longer

(* evict_before: only a prefix of smaller numbers goes.                      *)
EvictBefore(q, keep) ==
    LET kept == {i \in 1 .. Len(q) : q[i] >= keep} IN
    IF kept = {} THEN <<>> ELSE SubSeq(q, Min(kept), Len(q))

(* The eviction that ends the InOrder and GapTooLarge branches.              *)
EvictBehind(q, next) ==
    IF next > RecoveryLookbackSlack THEN EvictBefore(q, next - RecoveryLookbackSlack)
    ELSE q

(* A turn of std::lower_bound's loop over the deque: r is what it has still to *)
(* search, from the 0-based position first on.                              *)
BisectTurn(q, seq, r) ==
    LET half == r.len \div 2 IN
    IF r.len = 0 THEN r
    ELSE IF q[r.first + half + 1] < seq
    THEN [first |-> r.first + half + 1, len |-> r.len - half - 1]
    ELSE [first |-> r.first, len |-> half]

(* The position at which it stops, after Len(q) turns at the latest. The deque  *)
(* is in order of arrival and need not be sorted.                            *)
LowerBound(q, seq) ==
    LET search[n \in 0 .. Len(q)] ==
            IF n = 0 THEN [first |-> 0, len |-> Len(q)] ELSE BisectTurn(q, seq, search[n - 1])
    IN search[Len(q)].first

(* lookup finds seq. *)
Lookup(q, seq) ==
    LET at == LowerBound(q, seq) + 1 IN at \in DOMAIN q /\ q[at] = seq

(* The numbers GapAwareSequencer asks for; the request for a gap that is too   *)
(* large is counted and not looked up.                                       *)
RequestedRange(t, seq) ==
    IF StatusOf(t, seq) = "GapBuffered" THEN t.next_expected .. seq - 1 ELSE {}

(* The order in which a loop from the least number up meets the members of S:  *)
(* the i-th is the one with i members up to it.                              *)
Ascending(S) ==
    [i \in 1 .. Cardinality(S) |-> CHOOSE s \in S : Cardinality({r \in S : r <= s}) = i]

(* Mutant of RequestRecovery: the missing range starts one number late.      *)
RequestRecoveryLate(t, v, seq, q) ==
    LET found == Ascending({m \in RequestedRange(t, seq) :
                               m > t.next_expected /\ Lookup(q, m)})
    IN [i \in DOMAIN found |-> [venue |-> v, sequence |-> found[i]]]

(* request_recovery: the requested numbers that lookup finds in the store q.  *)
RequestRecovery(t, v, seq, q) ==
    LET found == Ascending({m \in RequestedRange(t, seq) : Lookup(q, m)})
    IN [i \in DOMAIN found |-> [venue |-> v, sequence |-> found[i]]]

------------------------------------------------------------------------------
(* process_event(venue v, sequence number seq), one action per branch; q is   *)
(* the venue's replay store and counted the statistics when it is called.    *)

DropDuplicate(v, seq, q, counted) ==
    /\ StatusOf(trackers[v], seq) = "DuplicateOrOld"
    /\ store' = [store EXCEPT ![v] = q]
    /\ stats' = [counted EXCEPT !.dropped_duplicate_or_old = @ + 1]
    /\ UNCHANGED <<trackers, pending, queues>>

(* Mutant of ForceOverGap: evict_pending_before is forgotten. *)
ForceOverGapKeepsPending(v, seq, q, counted) ==
    /\ StatusOf(trackers[v], seq) = "GapTooLarge"
    /\ trackers' = [trackers EXCEPT ![v] = ForceAdvance(OnSequence(@, seq), seq)]
    /\ store' = [store EXCEPT ![v] = EvictBehind(q, trackers'[v].next_expected)]
    /\ stats' = [counted EXCEPT !.dropped_gap_too_large = @ + 1,
                                !.requests_total = @ + 1]
    /\ UNCHANGED <<pending, queues>>

ForceOverGap(v, seq, q, counted) ==
    LET evicted == {s \in pending[v] : s < seq} IN
    /\ StatusOf(trackers[v], seq) = "GapTooLarge"
    /\ trackers' = [trackers EXCEPT ![v] = ForceAdvance(OnSequence(@, seq), seq)]
    /\ pending' = [pending EXCEPT ![v] = @ \ evicted]
    /\ store' = [store EXCEPT ![v] = EvictBehind(q, trackers'[v].next_expected)]
    /\ stats' = [counted EXCEPT !.dropped_gap_too_large = @ + 1,
                                !.dropped_gap_too_large_pending_evicted = @ + Cardinality(evicted),
                                !.requests_total = @ + 1]
    /\ UNCHANGED queues

BufferBehindGap(v, seq, q, counted) ==
    /\ StatusOf(trackers[v], seq) = "GapBuffered"
    /\ trackers' = [trackers EXCEPT ![v] = OnSequence(@, seq)]
    /\ pending' = [pending EXCEPT ![v] = @ \cup {seq}]
    /\ store' = [store EXCEPT ![v] = q]
    /\ stats' = [counted EXCEPT !.buffered_out_of_order = @ + 1,
                                !.requests_total = @ + 1]
    /\ UNCHANGED queues

(* Mutants of PublishInOrder: the released events go out last first; the      *)
(* released events stay pending; the last released event is left behind.     *)
PublishBackwards(v, seq, q, counted) ==
    LET count     == ReleasedCount(trackers[v], seq)
        published == [i \in 1 .. count |-> seq + count - i]
    IN
    /\ StatusOf(trackers[v], seq) = "InOrder"
    /\ trackers' = [trackers EXCEPT ![v] = OnSequence(@, seq)]
    /\ pending' = [pending EXCEPT ![v] = @ \ (seq + 1 .. seq + count - 1)]
    /\ queues' = Push(queues, v, published)
    /\ store' = [store EXCEPT ![v] = EvictBehind(q, trackers'[v].next_expected)]
    /\ stats' = [counted EXCEPT !.accepted = @ + count]

PublishOneShort(v, seq, q, counted) ==
    LET count == ReleasedCount(trackers[v], seq)
        last  == IF count > 1 THEN seq + count - 2 ELSE seq
    IN
    /\ StatusOf(trackers[v], seq) = "InOrder"
    /\ trackers' = [trackers EXCEPT ![v] = OnSequence(@, seq)]
    /\ pending' = [pending EXCEPT ![v] = @ \ (seq + 1 .. last)]
    /\ queues' = Push(queues, v, [i \in 1 .. last + 1 - seq |-> seq + i - 1])
    /\ store' = [store EXCEPT ![v] = EvictBehind(q, trackers'[v].next_expected)]
    /\ stats' = [counted EXCEPT !.accepted = @ + last + 1 - seq]

(* Publish seq and then, of the numbers the tracker released with it, those   *)
(* that are pending; the others are counted as an inconsistency.             *)
PublishInOrder(v, seq, q, counted) ==
    LET count     == ReleasedCount(trackers[v], seq)
        released  == seq + 1 .. seq + count - 1
        published == <<seq>> \o Ascending(released \cap pending[v])
    IN
    /\ StatusOf(trackers[v], seq) = "InOrder"
    /\ trackers' = [trackers EXCEPT ![v] = OnSequence(@, seq)]
    /\ pending' = [pending EXCEPT ![v] = @ \ released]
    /\ queues' = Push(queues, v, published)
    /\ store' = [store EXCEPT ![v] = EvictBehind(q, trackers'[v].next_expected)]
    /\ stats' = [counted EXCEPT !.accepted = @ + Len(published),
                                !.pending_inconsistency = @ + count - Len(published)]

ProcessEvent(v, seq, q, counted) ==
    \/ DropDuplicate(v, seq, q, counted)
    \/ ForceOverGap(v, seq, q, counted)
    \/ BufferBehindGap(v, seq, q, counted)
    \/ PublishInOrder(v, seq, q, counted)

------------------------------------------------------------------------------
Init ==
    /\ trackers = [v \in Venues |-> NewTracker]
    /\ pending = [v \in Venues |-> {}]
    /\ store = [v \in Venues |-> <<>>]
    /\ simulated = <<>> /\ recovered = <<>>
    /\ queues = NoQueues /\ merged = <<>> /\ draining = FALSE
    /\ stats = NoStats /\ arrivals = 0 /\ drainedFrom = 0

Idle == recovered = <<>> /\ ~draining

(* on_event up to its loop: record, process, and take over everything the     *)
(* recovery simulator has.                                                   *)
OnEvent(v, seq) ==
    LET q == RecordEvent(store[v], seq) IN
    /\ Idle
    /\ ProcessEvent(v, seq, q, stats)
    /\ recovered' = simulated \o RequestRecovery(trackers[v], v, seq, q)
    /\ simulated' = <<>>
    /\ arrivals' = arrivals + 1
    /\ UNCHANGED <<merged, draining, drainedFrom>>

(* A turn of the loop whose event is already pending. *)
SkipPending ==
    /\ recovered # <<>> /\ Head(recovered).sequence \in pending[Head(recovered).venue]
    /\ recovered' = Tail(recovered)
    /\ UNCHANGED <<trackers, pending, store, simulated, queues, merged, draining,
                   stats, arrivals, drainedFrom>>

(* A turn of the loop that processes its event again. *)
Reinject ==
    /\ recovered # <<>>
    /\ LET r == Head(recovered) IN
       /\ r.sequence \notin pending[r.venue]
       /\ ProcessEvent(r.venue, r.sequence, store[r.venue],
                       [stats EXCEPT !.recovery_reinjected = @ + 1])
       /\ simulated' = simulated \o RequestRecovery(trackers[r.venue], r.venue, r.sequence,
                                                    store[r.venue])
    /\ recovered' = Tail(recovered)
    /\ UNCHANGED <<merged, draining, arrivals, drainedFrom>>

(* finalize is called, the capture loops do so after every burst. *)
Finalize ==
    /\ Idle
    /\ draining' = TRUE /\ drainedFrom' = Len(merged)
    /\ UNCHANGED <<trackers, pending, store, simulated, recovered, queues, merged,
                   stats, arrivals>>

PopNext ==
    /\ draining /\ ~NothingQueued(queues)
    /\ merged' = Append(merged, FrontOf(queues, BestVenue(queues)))
    /\ queues' = PopBest(queues)
    /\ UNCHANGED <<trackers, pending, store, simulated, recovered, draining, stats,
                   arrivals, drainedFrom>>

(* pop_next finds every queue empty: finalize copies the request count. *)
Drained ==
    /\ draining /\ NothingQueued(queues)
    /\ draining' = FALSE
    /\ stats' = [stats EXCEPT !.recovery_requests = stats.requests_total]
    /\ UNCHANGED <<trackers, pending, store, simulated, recovered, queues, merged,
                   arrivals, drainedFrom>>

Next == \/ \E v \in Venues, seq \in SeqNumbers : arrivals < MaxArrivals /\ OnEvent(v, seq)
        \/ SkipPending \/ Reinject
        \/ Finalize \/ PopNext \/ Drained

Spec == Init /\ [][Next]_vars

------------------------------------------------------------------------------
(* The numbers of venue v given to the merger so far. *)
Published(v) ==
    {merged[i].sequence : i \in {j \in DOMAIN merged : merged[j].venue = v}}
        \cup {queues[v][n] : n \in DOMAIN queues[v]}

(* The two records the pipeline keeps of what waits behind a gap, the map     *)
(* pending_by_venue_ and the tracker's ring of tags, always agree, also in    *)
(* the middle of a reinjection; so the release loop of process_event never    *)
(* misses an event (pending_inconsistency stays 0).                          *)
PendingMatchesTags ==
    /\ \A v \in Venues : pending[v] = HeldTags(trackers[v])
    /\ stats.pending_inconsistency = 0

(* Each venue's events reach the merger in strictly increasing sequence, so   *)
(* none twice, although a recovered event is processed a second time; and     *)
(* none that the tracker has yet to accept.                                  *)
PublishedInOrder ==
    /\ \A i, j \in DOMAIN merged :
           i < j /\ merged[i].venue = merged[j].venue => merged[i].sequence < merged[j].sequence
    /\ \A i \in DOMAIN merged : \A n \in DOMAIN queues[merged[i].venue] :
           merged[i].sequence < queues[merged[i].venue][n]
    /\ \A v \in Venues : \A m, n \in DOMAIN queues[v] : m < n => queues[v][m] < queues[v][n]
    /\ \A v \in Venues : \A s \in Published(v) : s < trackers[v].next_expected

(* As long as no gap was too large nothing is lost: every number below        *)
(* next_expected has been published, whatever the order of arrival, and by    *)
(* PublishedInOrder each once and in sequence.                               *)
NoLossWithoutForcedAdvance ==
    stats.dropped_gap_too_large = 0 =>
        \A v \in Venues : Published(v) = 1 .. trackers[v].next_expected - 1

(* A gap whose missing event is still in the replay store does not stay open  *)
(* once on_event returns: the event that forced the tracker over a gap was    *)
(* dropped, and must come back through the store when its successor arrives.  *)
(* Stated for a store in sequence order, which its bisection needs.          *)
StoredGapIsHealed ==
    \A v \in Venues :
        (/\ Idle /\ pending[v] # {}
         /\ \A i \in 1 .. Len(store[v]) - 1 : store[v][i] <= store[v][i + 1])
        => trackers[v].next_expected \notin ToSet(store[v])

(* A finalize sends its events in the documented merge order, whatever the    *)
(* order in which they arrived, when timestamps do not run backwards within   *)
(* a venue.                                                                  *)
MergedInOrder ==
    \A i, j \in drainedFrom + 1 .. Len(merged) : i < j => LessEvent(merged[i], merged[j])
==============================================================================
