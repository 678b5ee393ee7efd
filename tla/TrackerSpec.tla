----------------------------- MODULE TrackerSpec -----------------------------
(***************************************************************************)
(* One venue's tracker driven the way both of its owners drive it           *)
(* (AbArbiter::on_event, Pipeline::process_event): every arriving number    *)
(* goes through on_sequence, and a GapTooLarge answer is followed at once   *)
(* by force_advance to the number that arrived.                             *)
(***************************************************************************)
EXTENDS SequenceTracker

CONSTANT Sequences     \* the sequence numbers the feed may carry, in any order

ASSUME SequencesAssumption == Sequences \subseteq Nat

VARIABLES tracker,
          arrived      \* history: every number ever offered

arrivalVars == <<tracker, arrived>>

ArrivalInit == tracker = NewTracker /\ arrived = {}

Offer(seq, status) ==
    /\ StatusOf(tracker, seq) = status
    /\ arrived' = arrived \cup {seq}

InOrder(seq) == /\ Offer(seq, "InOrder")
                /\ tracker' = OnSequence(tracker, seq)

GapBuffered(seq) == /\ Offer(seq, "GapBuffered")
                    /\ tracker' = OnSequence(tracker, seq)

DuplicateOrOld(seq) == /\ Offer(seq, "DuplicateOrOld")
                       /\ tracker' = OnSequence(tracker, seq)

GapTooLarge(seq) == /\ Offer(seq, "GapTooLarge")
                    /\ tracker' = ForceAdvance(OnSequence(tracker, seq), seq)

ArrivalNext ==
    \E seq \in Sequences :
        InOrder(seq) \/ GapBuffered(seq) \/ DuplicateOrOld(seq) \/ GapTooLarge(seq)

ArrivalSpec == ArrivalInit /\ [][ArrivalNext]_arrivalVars

------------------------------------------------------------------------------
(* The tracker and its history have the shapes the code gives them. *)
ArrivalTypeOK == tracker \in TrackerType /\ arrived \subseteq Sequences

(* buffered_tags_ is a faithful index: a tag sits in its own slot and lies in *)
(* the window above next_expected_, so that no two buffered numbers can       *)
(* collide in the ring and none outlives the window (mark_buffered,           *)
(* pop_buffered and force_advance all rely on it).                            *)
TagsInWindow ==
    \A i \in SlotIndex :
        LET tag == tracker.buffered_tags[i] IN
        tag # 0 => /\ tag % Slots = i
                   /\ tag > tracker.next_expected
                   /\ tag <= tracker.next_expected + GapWindow

(* Nothing that arrived early is forgotten and nothing is remembered that     *)
(* never came: the numbers tagged in the ring are exactly the arrivals above  *)
(* next_expected_.                                                            *)
HeldAreArrivals ==
    HeldTags(tracker) = {s \in arrived : s > tracker.next_expected}

(* next_expected_ never moves back, and moves past a number that never        *)
(* arrived only by a jump of more than the gap window (force_advance).        *)
NoSilentSkip ==
    [][ /\ tracker'.next_expected >= tracker.next_expected
        /\ \/ tracker'.next_expected > tracker.next_expected + GapWindow
           \/ \A s \in tracker.next_expected .. tracker'.next_expected - 1 : s \in arrived'
      ]_arrivalVars

(* The ring of tags implements the sequencer that remembers every arrival.    *)
Abstract == INSTANCE GapSequencer WITH next_expected <- tracker.next_expected
ImplementsSequencer == Abstract!Spec
==============================================================================
