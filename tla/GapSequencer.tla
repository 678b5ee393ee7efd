----------------------------- MODULE GapSequencer -----------------------------
(***************************************************************************)
(* What a gap-tolerant sequencer promises, with no ring and no tags: it      *)
(* knows every sequence number it was ever offered, and next_expected moves  *)
(* past exactly the numbers that arrived.                                    *)
(***************************************************************************)
EXTENDS Integers

CONSTANTS GapWindow, Sequences

VARIABLES next_expected, arrived

vars == <<next_expected, arrived>>

(* The first number above n that never arrived. Nothing beyond the window of *)
(* the present next_expected has arrived without moving it.                  *)
FirstMissing(n, seen) ==
    CHOOSE m \in n + 1 .. n + GapWindow + 1 :
        m \notin seen /\ \A k \in n + 1 .. m - 1 : k \in seen

Init == next_expected = 1 /\ arrived = {}

Accept(seq) == /\ seq = next_expected
               /\ next_expected' = FirstMissing(seq, arrived)
               /\ arrived' = arrived \cup {seq}

Hold(seq) == /\ seq > next_expected /\ seq <= next_expected + GapWindow
             /\ arrived' = arrived \cup {seq}
             /\ UNCHANGED next_expected

Skip(seq) == /\ seq > next_expected + GapWindow
             /\ next_expected' = seq
             /\ arrived' = arrived \cup {seq}

Ignore(seq) == /\ seq < next_expected
               /\ arrived' = arrived \cup {seq}
               /\ UNCHANGED next_expected

Next == \E seq \in Sequences : Accept(seq) \/ Hold(seq) \/ Skip(seq) \/ Ignore(seq)

Spec == Init /\ [][Next]_vars
==============================================================================
