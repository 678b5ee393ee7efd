--------------------------- MODULE SequenceTracker ---------------------------
(***************************************************************************)
(* The per-venue sequence tracker of phase 2 (SequenceTracker), as          *)
(* operators on a tracker record, so that the machines that own trackers    *)
(* (the tracker by itself, the A/B arbiter, the pipeline) share one         *)
(* translation of it.                                                       *)
(*                                                                          *)
(* A tracker remembers the next sequence number it expects and, for numbers *)
(* that arrived early, a tag in a ring of gap_window + 1 slots indexed by   *)
(* the number modulo the ring's size; a tag of 0 is an empty slot.          *)
(***************************************************************************)
EXTENDS Integers

CONSTANT GapWindow     \* gap_window_: how far ahead an event may be buffered

ASSUME GapWindowAssumption == GapWindow \in Nat

(* kMinRingSlots and the size the constructor gives buffered_tags_. *)
Slots == IF GapWindow + 1 > 2 THEN GapWindow + 1 ELSE 2
SlotIndex == 0 .. Slots - 1

SequenceStatus == {"InOrder", "DuplicateOrOld", "GapBuffered", "GapTooLarge"}

TrackerType == [next_expected : Nat \ {0}, buffered_tags : [SlotIndex -> Nat]]

NewTracker == [next_expected |-> 1, buffered_tags |-> [i \in SlotIndex |-> 0]]

(* The branch on_sequence takes; number 0 is never a valid sequence.        *)
StatusOf(t, seq) ==
    IF seq = 0 \/ seq < t.next_expected THEN "DuplicateOrOld"
    ELSE IF seq = t.next_expected THEN "InOrder"
    ELSE IF seq - t.next_expected > GapWindow THEN "GapTooLarge"
    ELSE "GapBuffered"

(* pop_buffered would succeed for n. *)
Tagged(t, n) == t.buffered_tags[n % Slots] = n

(* Where "while (pop_buffered(next_expected_)) ++next_expected_" stops when  *)
(* it starts at n: within one turn of the ring.                             *)
ReleaseEnd(t, n) ==
    CHOOSE m \in n .. n + Slots : ~Tagged(t, m) /\ \A k \in n .. m - 1 : Tagged(t, k)

(* What the loop leaves: the slot of every number it popped is emptied.     *)
ClearTags(t, from, to) ==
    [i \in SlotIndex |-> IF \E k \in from .. to : i = k % Slots
                         THEN 0 ELSE t.buffered_tags[i]]

(* Mutant of MarkBuffered: the tag is not written. *)
MarkBufferedLost(t, seq) == t

MarkBuffered(t, seq) == [t EXCEPT !.buffered_tags[seq % Slots] = seq]

(* Mutants of ReleaseInOrder: the buffered numbers are not released; the loop *)
(* runs one number too far.                                                  *)
ReleaseOnlyOne(t, seq) == [t EXCEPT !.next_expected = seq + 1]

ReleaseOneTooMany(t, seq) ==
    LET end == ReleaseEnd(t, seq + 1) IN
    [next_expected |-> end + 1, buffered_tags |-> ClearTags(t, seq + 1, end)]

ReleaseInOrder(t, seq) ==
    LET end == ReleaseEnd(t, seq + 1) IN
    [next_expected |-> end, buffered_tags |-> ClearTags(t, seq + 1, end - 1)]

(* The tracker after on_sequence(seq).                                       *)
OnSequence(t, seq) ==
    CASE StatusOf(t, seq) = "InOrder"     -> ReleaseInOrder(t, seq)
      [] StatusOf(t, seq) = "GapBuffered" -> MarkBuffered(t, seq)
      [] OTHER                            -> t

(* released_count of the SequenceUpdate: seq itself and what it unblocked.   *)
ReleasedCount(t, seq) ==
    IF StatusOf(t, seq) = "InOrder" THEN ReleaseEnd(t, seq + 1) - seq ELSE 0

(* force_advance: a jump of a whole ring empties it, a shorter one empties   *)
(* the slots that still hold a number that is jumped over.                  *)
ForceAdvance(t, new_next) ==
    IF new_next <= t.next_expected THEN t
    ELSE [next_expected |-> new_next,
          buffered_tags |->
            IF new_next - t.next_expected >= Slots THEN [i \in SlotIndex |-> 0]
            ELSE [i \in SlotIndex |->
                    IF \E s \in t.next_expected .. new_next - 1 :
                           i = s % Slots /\ t.buffered_tags[i] = s
                    THEN 0 ELSE t.buffered_tags[i]]]

(* The tags in use. *)
HeldTags(t) == {t.buffered_tags[i] : i \in SlotIndex} \ {0}
==============================================================================
