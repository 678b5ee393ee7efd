------------------------------ MODULE ABArbiter ------------------------------
(***************************************************************************)
(* AbArbiter: two copies (A and B) of a venue's feed race each other, the    *)
(* first copy of an expected number wins. The arbiter is called from one     *)
(* thread; the race is the order in which the copies arrive. It owns its own *)
(* sequencer, on which no caller sets a recovery handler.                    *)
(*                                                                          *)
(* A feed delivers each number at most once, in any order, and may lose any. *)
(***************************************************************************)
EXTENDS SequenceTracker, Sequences

CONSTANTS Venues,
          SeqNumbers   \* the numbers the feeds carry

VARIABLES trackers,    \* sequencer_
          pending,     \* pending_: per venue the buffered copies; on_event sorts the
                       \* vector before it looks at it, so the number of copies
                       \* of each sequence number has all of it
          ready,       \* ready_
          stats,
          delivered,   \* what drain_ready has handed to its caller
          arrived      \* arrived[side][v]: the numbers the feed has delivered

vars == <<trackers, pending, ready, stats, delivered, arrived>>

FeedSide == {"A", "B"}

NoStats == [accepted |-> 0, accepted_a |-> 0, accepted_b |-> 0,
            duplicate_or_old |-> 0, gap_buffered |-> 0,
            gap_too_large |-> 0, forced_advances |-> 0]

Init ==
    /\ trackers = [v \in Venues |-> NewTracker]
    /\ pending = [v \in Venues |-> <<>>]
    /\ ready = <<>> /\ delivered = <<>>
    /\ stats = NoStats
    /\ arrived = [side \in FeedSide |-> [v \in Venues |-> {}]]

(* One more copy of seq in a venue's buffer. *)
Inserted(pend, seq) ==
    [s \in DOMAIN pend \cup {seq} |-> IF s \notin DOMAIN pend THEN 1
                                      ELSE IF s = seq THEN pend[s] + 1 ELSE pend[s]]

(* The copy of seq on one side arrives, and on_event finds this status. *)
Arrive(side, v, seq, status) ==
    /\ seq \notin arrived[side][v]
    /\ StatusOf(trackers[v], seq) = status
    /\ arrived' = [arrived EXCEPT ![side][v] = @ \cup {seq}]
    /\ UNCHANGED delivered

DuplicateOrOld(side, v, seq) ==
    /\ Arrive(side, v, seq, "DuplicateOrOld")
    /\ stats' = [stats EXCEPT !.duplicate_or_old = @ + 1]
    /\ UNCHANGED <<trackers, pending, ready>>

GapBuffered(side, v, seq) ==
    /\ Arrive(side, v, seq, "GapBuffered")
    /\ trackers' = [trackers EXCEPT ![v] = OnSequence(@, seq)]
    /\ pending' = [pending EXCEPT ![v] = Inserted(@, seq)]
    /\ stats' = [stats EXCEPT !.gap_buffered = @ + 1]
    /\ UNCHANGED ready

(* The event itself is dropped; the pending copies are left for the next      *)
(* accepted event to clear.                                                  *)
GapTooLarge(side, v, seq) ==
    /\ Arrive(side, v, seq, "GapTooLarge")
    /\ trackers' = [trackers EXCEPT ![v] = ForceAdvance(OnSequence(@, seq), seq)]
    /\ stats' = [stats EXCEPT !.gap_too_large = @ + 1, !.forced_advances = @ + 1]
    /\ UNCHANGED <<pending, ready>>

(* The pending copies below next are erased. A copy equal to next would be    *)
(* processed again; NextNeverPending says that there is none.                *)
Swept(pend, next) == [s \in {s \in DOMAIN pend : s >= next} |-> pend[s]]

(* Mutant of InOrder: a first copy on side B moves the tracker and goes nowhere. *)
InOrderPrimaryOnly(side, v, seq) ==
    /\ Arrive(side, v, seq, "InOrder")
    /\ trackers' = [trackers EXCEPT ![v] = OnSequence(@, seq)]
    /\ ready' = IF side = "A" THEN Append(ready, [venue |-> v, sequence |-> seq]) ELSE ready
    /\ stats' = IF side = "A" THEN [stats EXCEPT !.accepted = @ + 1, !.accepted_a = @ + 1]
                ELSE stats
    /\ pending' = [pending EXCEPT ![v] = Swept(@, trackers'[v].next_expected)]

InOrder(side, v, seq) ==
    /\ Arrive(side, v, seq, "InOrder")
    /\ trackers' = [trackers EXCEPT ![v] = OnSequence(@, seq)]
    /\ ready' = Append(ready, [venue |-> v, sequence |-> seq])
    /\ stats' = [stats EXCEPT !.accepted = @ + 1,
                              !.accepted_a = IF side = "A" THEN @ + 1 ELSE @,
                              !.accepted_b = IF side = "B" THEN @ + 1 ELSE @]
    /\ pending' = [pending EXCEPT ![v] = Swept(@, trackers'[v].next_expected)]

DrainReady ==
    /\ ready # <<>>
    /\ delivered' = delivered \o ready
    /\ ready' = <<>>
    /\ UNCHANGED <<trackers, pending, stats, arrived>>

OnEvent(side, v, seq) == \/ DuplicateOrOld(side, v, seq)
                         \/ GapBuffered(side, v, seq)
                         \/ GapTooLarge(side, v, seq)
                         \/ InOrder(side, v, seq)

Next == \/ \E side \in FeedSide, v \in Venues, seq \in SeqNumbers : OnEvent(side, v, seq)
        \/ DrainReady

Spec == Init /\ [][Next]_vars

------------------------------------------------------------------------------
(* Everything accepted, in order. *)
Accepted == delivered \o ready

AcceptedOf(v) == {Accepted[i].sequence : i \in {j \in DOMAIN Accepted : Accepted[j].venue = v}}

(* First copy wins, once: a venue's events come out in strictly increasing    *)
(* sequence, both sides together, and only numbers that arrived.             *)
AcceptedOnce ==
    /\ \A i, j \in DOMAIN Accepted :
           i < j /\ Accepted[i].venue = Accepted[j].venue
           => Accepted[i].sequence < Accepted[j].sequence
    /\ \A v \in Venues : AcceptedOf(v) \subseteq arrived["A"][v] \cup arrived["B"][v]
    /\ stats.accepted = stats.accepted_a + stats.accepted_b
    /\ stats.accepted = Len(Accepted)

(* No buffered copy ever has the number the tracker waits for, because        *)
(* on_sequence has already moved next_expected past every buffered number it  *)
(* could release: the branch of on_event that replays a pending event is      *)
(* dead code (and with it the erase under its own iterator).                 *)
NextNeverPending ==
    \A v \in Venues : trackers[v].next_expected \notin DOMAIN pending[v]

(* A copy that waits above next_expected is one the tracker has a tag for,    *)
(* and every tag has a copy waiting.                                         *)
PendingMatchesTags ==
    \A v \in Venues :
        HeldTags(trackers[v]) = {s \in DOMAIN pending[v] : s > trackers[v].next_expected}

(* "Small gaps are buffered": without a forced advance every number the       *)
(* tracker moved past was accepted.                                          *)
BufferedIsAccepted ==
    stats.forced_advances = 0 =>
        \A v \in Venues : AcceptedOf(v) = 1 .. trackers[v].next_expected - 1
==============================================================================
