------------------------- MODULE DeterministicMerger -------------------------
(***************************************************************************)
(* DeterministicMerger: one FIFO queue per venue, drained by repeatedly      *)
(* taking the least front. A queue holds the sequence numbers of its venue's *)
(* events; the exchange timestamp of an event is given by ExchangeTs.        *)
(***************************************************************************)
EXTENDS Integers, Sequences

CONSTANTS Venues,        \* venue slots, by their enum value
          ExchangeTs     \* ExchangeTs[v][s]: exchange_ts_ns of event s of venue v

ASSUME VenuesAssumption == Venues \subseteq Nat

(* less_event. Two events of one venue with one sequence number are the same  *)
(* event here, so raw_type never decides.                                    *)
LessEvent(a, b) ==
    LET ta == ExchangeTs[a.venue][a.sequence]
        tb == ExchangeTs[b.venue][b.sequence]
    IN \/ ta < tb
       \/ ta = tb /\ a.venue < b.venue
       \/ ta = tb /\ a.venue = b.venue /\ a.sequence < b.sequence

NoQueues == [v \in Venues |-> <<>>]

(* push: per_venue_capacity_ is a sizing hint, nothing is ever refused.       *)
Push(queues, v, seqs) == [queues EXCEPT ![v] = @ \o seqs]

FrontOf(queues, v) == [venue |-> v, sequence |-> Head(queues[v])]

(* Mutant of BestVenue: the first waiting venue, whatever its timestamp. *)
BestVenueByIndex(queues) ==
    LET waiting == {v \in Venues : queues[v] # <<>>} IN
    CHOOSE v \in waiting : \A u \in waiting : v <= u

(* The venue pop_next takes from: the least front of the non-empty queues.    *)
BestVenue(queues) ==
    LET waiting == {v \in Venues : queues[v] # <<>>} IN
    CHOOSE v \in waiting :
        \A u \in waiting \ {v} : LessEvent(FrontOf(queues, v), FrontOf(queues, u))

(* pop_next returns false. *)
NothingQueued(queues) == \A v \in Venues : queues[v] = <<>>

PopBest(queues) == [queues EXCEPT ![BestVenue(queues)] = Tail(@)]
==============================================================================
