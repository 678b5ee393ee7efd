---------------------------- MODULE FailoverProofs ----------------------------
(***************************************************************************)
(* The arbiter and the pipeline behind it for every gap window, every set of *)
(* venues and every stream of events: FailoverInv is inductive, so that the  *)
(* two records of what waits agree in both stages, everything leaves each    *)
(* stage once and in order, and nothing is lost without a counted jump.      *)
(*                                                                          *)
(* At the end, the tracker of both stages by itself (TrackerSpec) for every   *)
(* gap window and every set of numbers: its ring of tags is a faithful index *)
(* of the early arrivals, nothing is skipped silently, and it implements the *)
(* sequencer that remembers every arrival.                                   *)
(***************************************************************************)
EXTENDS ABFailover, TrackerSpec, ArithmeticLemmas, FiniteSetTheorems, SequenceTheorems, TLAPS

(* What on_sequence and force_advance do to one tracker. *)

LEMMA SlotsFacts ==
    /\ Slots \in Nat \ {0} /\ GapWindow \in Nat /\ Slots >= GapWindow + 1
    /\ GapWindow >= 1 => Slots = GapWindow + 1
  BY GapWindowAssumption DEF Slots

LEMMA SlotInIndex ==
    ASSUME NEW n \in Nat PROVE n % Slots \in SlotIndex
  BY SlotsFacts, DivMod DEF SlotIndex

LEMMA TrackerFields ==
    ASSUME NEW t \in TrackerType
    PROVE  /\ t.next_expected \in Nat /\ t.next_expected >= 1
           /\ t.buffered_tags \in [SlotIndex -> Nat]
  BY DEF TrackerType

(* The held numbers of a tracker are those tagged in their own slots. *)
LEMMA HeldInWindow ==
    ASSUME NEW t \in TrackerType, Windowed(t)
    PROVE  /\ \A s \in HeldTags(t) : /\ s \in Nat /\ s > t.next_expected
                                     /\ s <= t.next_expected + GapWindow
                                     /\ Tagged(t, s)
           /\ \A s \in Nat : s # 0 /\ Tagged(t, s) => s \in HeldTags(t)
  <1> USE TrackerFields
  <1>1. ASSUME NEW s \in HeldTags(t)
        PROVE  /\ s \in Nat /\ s > t.next_expected /\ s <= t.next_expected + GapWindow
               /\ Tagged(t, s)
    <2>1. PICK i \in SlotIndex : s = t.buffered_tags[i] /\ s # 0  BY DEF HeldTags
    <2>2. s % Slots = i /\ s > t.next_expected /\ s <= t.next_expected + GapWindow
      BY <2>1 DEF Windowed
    <2> QED  BY <2>1, <2>2 DEF Tagged
  <1>2. ASSUME NEW s \in Nat, s # 0, Tagged(t, s) PROVE s \in HeldTags(t)
    BY <1>2, SlotInIndex DEF Tagged, HeldTags
  <1> QED  BY <1>1, <1>2

(* Where the release loop stops. *)
LEMMA ReleaseEndFacts ==
    ASSUME NEW t \in TrackerType, Windowed(t), NEW n, n = t.next_expected + 1,
           NEW e, e = ReleaseEnd(t, n)
    PROVE  /\ e \in Nat /\ n <= e /\ e <= n + GapWindow
           /\ ~Tagged(t, e)
           /\ \A k \in n .. e - 1 : Tagged(t, k)
  <1> USE TrackerFields, SlotsFacts
  <1>0. n \in Nat /\ n > t.next_expected  OBVIOUS
  <1> DEFINE U == {m \in n .. n + Slots : ~Tagged(t, m)}
  <1>1. ~Tagged(t, n + GapWindow)
    <2> SUFFICES ASSUME Tagged(t, n + GapWindow) PROVE FALSE  OBVIOUS
    <2>1. n + GapWindow \in Nat /\ n + GapWindow # 0  BY <1>0
    <2>2. n + GapWindow \in HeldTags(t)  BY <2>1, HeldInWindow
    <2>3. n + GapWindow <= t.next_expected + GapWindow  BY <2>2, HeldInWindow
    <2> QED  BY <1>0, <2>3
  <1>2. n + GapWindow \in U /\ U \subseteq Nat  BY <1>0, <1>1
  <1>3. PICK m \in U : \A y \in U : m <= y  BY <1>2, LeastMember
  <1>4. \A k \in n .. m - 1 : Tagged(t, k)
    <2> SUFFICES ASSUME NEW k \in n .. m - 1, ~Tagged(t, k) PROVE FALSE
      OBVIOUS
    <2>1. k \in U  BY <1>0, <1>3
    <2>2. m <= k /\ m \in Nat /\ k \in Nat  BY <2>1, <1>2, <1>3
    <2> QED  BY <2>2
  <1>5. \E x \in n .. n + Slots : ~Tagged(t, x) /\ \A k \in n .. x - 1 : Tagged(t, k)
    BY <1>3, <1>4
  <1>6. /\ e \in n .. n + Slots /\ ~Tagged(t, e)
        /\ \A k \in n .. e - 1 : Tagged(t, k)
    BY <1>5 DEF ReleaseEnd
  <1>7. e <= n + GapWindow
    <2> SUFFICES ASSUME e > n + GapWindow PROVE FALSE
      BY <1>0, <1>6
    <2>1. n + GapWindow \in n .. e - 1  BY <1>0, <1>6
    <2> QED  BY <2>1, <1>1, <1>6
  <1> QED  BY <1>0, <1>6, <1>7

(* The expected number and what it unblocks. *)
LEMMA AfterInOrder ==
    ASSUME NEW t \in TrackerType, Windowed(t), NEW seq \in Nat, StatusOf(t, seq) = "InOrder",
           NEW u, u = OnSequence(t, seq), NEW e, e = u.next_expected
    PROVE  /\ u \in TrackerType /\ Windowed(u) /\ seq = t.next_expected
           /\ e \in Nat /\ e > seq /\ ReleasedCount(t, seq) = e - seq
           /\ HeldTags(u) = {s \in HeldTags(t) : s > e}
           /\ \A k \in seq + 1 .. e - 1 : k \in HeldTags(t)
           /\ e \notin HeldTags(t)
  <1> USE TrackerFields, SlotsFacts
  <1> DEFINE z == ReleaseEnd(t, seq + 1)
             tags == ClearTags(t, seq + 1, z - 1)
  <1>1. seq = t.next_expected  BY DEF StatusOf
  <1>2. u = [next_expected |-> z, buffered_tags |-> tags]
    BY DEF OnSequence, ReleaseInOrder
  <1>3. /\ z \in Nat /\ seq + 1 <= z /\ z <= seq + 1 + GapWindow /\ ~Tagged(t, z)
        /\ \A k \in seq + 1 .. z - 1 : Tagged(t, k)
    BY <1>1, ReleaseEndFacts
  <1>4. ReleasedCount(t, seq) = z - seq  BY DEF ReleasedCount
  <1>5. tags \in [SlotIndex -> Nat]
        /\ \A i \in SlotIndex : tags[i] = IF \E k \in seq + 1 .. z - 1 : i = k % Slots
                                          THEN 0 ELSE t.buffered_tags[i]
    BY DEF ClearTags
  <1> HIDE DEF z, tags
  <1>6. e = z /\ u.next_expected = z /\ u.buffered_tags = tags  BY <1>2
  <1>7. u \in TrackerType
    <2>1. z \in Nat \ {0}  BY <1>1, <1>3
    <2> QED  BY <1>2, <1>5, <2>1 DEF TrackerType
  (* A tag that is left was not passed, and is not the one the loop stopped at. *)
  <1>8. ASSUME NEW i \in SlotIndex, tags[i] # 0
        PROVE  /\ tags[i] = t.buffered_tags[i] /\ tags[i] % Slots = i
               /\ tags[i] > z /\ tags[i] <= z + GapWindow /\ tags[i] \in HeldTags(t)
    <2> DEFINE tag == t.buffered_tags[i]
    <2>1. ~(\E k \in seq + 1 .. z - 1 : i = k % Slots) /\ tags[i] = tag
      BY <1>5, <1>8
    <2>2. tag \in Nat /\ tag # 0  BY <1>8, <2>1
    <2>3. tag % Slots = i /\ tag > seq /\ tag <= seq + GapWindow
      BY <1>1, <2>2 DEF Windowed
    <2>4. tag # z  BY <1>3, <2>3 DEF Tagged
    <2>5. tag \notin seq + 1 .. z - 1  BY <2>1, <2>3
    <2>6. tag \in HeldTags(t)  BY <2>2 DEF HeldTags
    <2> HIDE DEF tag
    <2>7. tag > z /\ tag <= z + GapWindow  BY <1>1, <1>3, <2>2, <2>3, <2>4, <2>5
    <2> QED  BY <2>1, <2>3, <2>6, <2>7 DEF tag
  <1>9. Windowed(u)  BY <1>6, <1>8 DEF Windowed
  <1>10. ASSUME NEW s \in HeldTags(u) PROVE s \in HeldTags(t) /\ s > z
    <2>1. PICK i \in SlotIndex : s = tags[i] /\ s # 0  BY <1>6, <1>10 DEF HeldTags
    <2> QED  BY <1>8, <2>1
  <1>11. ASSUME NEW s \in HeldTags(t), s > z PROVE s \in HeldTags(u)
    <2>1. s \in Nat /\ Tagged(t, s) /\ s # 0  BY <1>3, <1>11, HeldInWindow
    <2>2. s % Slots \in SlotIndex  BY <2>1, SlotInIndex
    <2>3. ~(\E k \in seq + 1 .. z - 1 : s % Slots = k % Slots)
      BY <1>3, <1>11, <2>1 DEF Tagged
    <2>4. tags[s % Slots] = s  BY <1>5, <2>1, <2>2, <2>3 DEF Tagged
    <2> QED  BY <1>6, <2>1, <2>2, <2>4 DEF HeldTags
  <1>12. \A k \in seq + 1 .. z - 1 : k \in HeldTags(t)
    <2> TAKE k \in seq + 1 .. z - 1
    <2>1. k \in Nat /\ k # 0 /\ Tagged(t, k)  BY <1>1, <1>3
    <2> QED  BY <2>1, HeldInWindow
  <1>13. z \notin HeldTags(t)  BY <1>3, HeldInWindow
  <1>14. HeldTags(u) = {s \in HeldTags(t) : s > z}  BY <1>10, <1>11
  <1> QED  BY <1>1, <1>3, <1>4, <1>6, <1>7, <1>9, <1>12, <1>13, <1>14

(* An early number inside the window: its slot is free or already its own. *)
LEMMA AfterGapBuffered ==
    ASSUME NEW t \in TrackerType, Windowed(t), NEW seq \in Nat, StatusOf(t, seq) = "GapBuffered",
           NEW u, u = OnSequence(t, seq)
    PROVE  /\ u \in TrackerType /\ Windowed(u) /\ u.next_expected = t.next_expected
           /\ seq > t.next_expected /\ HeldTags(u) = HeldTags(t) \cup {seq}
  <1> USE TrackerFields, SlotsFacts
  <1> DEFINE tags == [t.buffered_tags EXCEPT ![seq % Slots] = seq]
  <1>1. seq > t.next_expected /\ seq <= t.next_expected + GapWindow /\ seq # 0
    BY DEF StatusOf
  <1>2. u = [t EXCEPT !.buffered_tags[seq % Slots] = seq]  BY DEF OnSequence, MarkBuffered
  <1>3. seq % Slots \in SlotIndex  BY SlotInIndex
  <1>4. u.next_expected = t.next_expected /\ u.buffered_tags = tags
        /\ u = [next_expected |-> t.next_expected, buffered_tags |-> tags]
    BY <1>2 DEF TrackerType
  <1>5. /\ tags \in [SlotIndex -> Nat]
        /\ \A i \in SlotIndex : tags[i] = IF i = seq % Slots THEN seq ELSE t.buffered_tags[i]
    BY <1>3
  <1> HIDE DEF tags
  <1>6. u \in TrackerType
    <2>1. t.next_expected \in Nat \ {0}  OBVIOUS
    <2> QED  BY <1>4, <1>5, <2>1 DEF TrackerType
  <1>7. Windowed(u)
    <2> SUFFICES ASSUME NEW i \in SlotIndex, tags[i] # 0
                 PROVE  /\ tags[i] % Slots = i /\ tags[i] > t.next_expected
                        /\ tags[i] <= t.next_expected + GapWindow
      BY <1>4 DEF Windowed
    <2>1. CASE i = seq % Slots  BY <1>1, <1>5, <2>1
    <2>2. CASE i # seq % Slots
      <3>1. tags[i] = t.buffered_tags[i]  BY <1>5, <2>2
      <3> QED  BY <3>1 DEF Windowed
    <2> QED  BY <2>1, <2>2
  <1>8. t.buffered_tags[seq % Slots] \in {0, seq}
    <2> DEFINE old == t.buffered_tags[seq % Slots]
    <2> SUFFICES ASSUME old # 0 PROVE old = seq  OBVIOUS
    <2>1. /\ old \in Nat /\ old % Slots = seq % Slots
          /\ old > t.next_expected /\ old <= t.next_expected + GapWindow
      BY <1>3 DEF Windowed
    <2>2. old - seq < Slots /\ seq - old < Slots  BY <1>1, <2>1
    <2> QED  BY <1>1, <2>1, <2>2, ModWindow
  <1>9. HeldTags(u) = HeldTags(t) \cup {seq}
    BY <1>1, <1>3, <1>4, <1>5, <1>8 DEF HeldTags
  <1> QED  BY <1>1, <1>4, <1>6, <1>7, <1>9

(* A number beyond the window: the jump leaves no tag behind. *)
LEMMA AfterForceAdvance ==
    ASSUME NEW t \in TrackerType, Windowed(t), NEW seq \in Nat, StatusOf(t, seq) = "GapTooLarge",
           NEW u, u = ForceAdvance(OnSequence(t, seq), seq)
    PROVE  /\ u \in TrackerType /\ Windowed(u) /\ u.next_expected = seq
           /\ seq > t.next_expected /\ HeldTags(u) = {}
           /\ \A s \in HeldTags(t) : s < seq
  <1> USE TrackerFields, SlotsFacts
  <1>1. seq > t.next_expected + GapWindow /\ seq > t.next_expected /\ seq # 0
    BY DEF StatusOf
  <1>2. u = ForceAdvance(t, seq)  BY DEF OnSequence
  <1> DEFINE none == [i \in SlotIndex |-> 0]
  <1>3. u = [next_expected |-> seq, buffered_tags |-> none]
    <2>1. CASE seq - t.next_expected >= Slots
      BY <1>1, <1>2, <2>1 DEF ForceAdvance
    <2>2. CASE ~(seq - t.next_expected >= Slots)
      <3>1. GapWindow = 0  BY <1>1, <2>2
      <3>2. ASSUME NEW i \in SlotIndex PROVE t.buffered_tags[i] = 0
        <4>1. t.buffered_tags[i] \in Nat  OBVIOUS
        <4> QED  BY <3>1, <4>1 DEF Windowed
      <3> DEFINE tags == [i \in SlotIndex |->
                            IF \E s \in t.next_expected .. seq - 1 :
                                   i = s % Slots /\ t.buffered_tags[i] = s
                            THEN 0 ELSE t.buffered_tags[i]]
      <3>3. tags = none  BY <3>2
      <3>4. u = [next_expected |-> seq, buffered_tags |-> tags]
        <4>1. ~(seq <= t.next_expected)  BY <1>1
        <4> QED  BY <1>2, <2>2, <4>1, Zenon DEF ForceAdvance
      <3> QED  BY <3>3, <3>4
    <2> QED  BY <2>1, <2>2
  <1>4. none \in [SlotIndex -> Nat] /\ \A i \in SlotIndex : none[i] = 0  OBVIOUS
  <1> HIDE DEF none
  <1>5. u.next_expected = seq /\ u.buffered_tags = none  BY <1>3
  <1>6. u \in TrackerType
    <2>1. seq \in Nat \ {0}  BY <1>1
    <2> QED  BY <1>3, <1>4, <2>1 DEF TrackerType
  <1>7. Windowed(u)  BY <1>4, <1>5 DEF Windowed
  <1>8. HeldTags(u) = {}  BY <1>4, <1>5 DEF HeldTags
  <1>9. \A s \in HeldTags(t) : s < seq
    <2> TAKE s \in HeldTags(t)
    <2>1. s \in Nat /\ s <= t.next_expected + GapWindow  BY HeldInWindow
    <2> QED  BY <1>1, <2>1
  <1> QED  BY <1>1, <1>5, <1>6, <1>7, <1>8, <1>9

LEMMA NewTrackerFacts ==
    NewTracker \in TrackerType /\ Windowed(NewTracker) /\ HeldTags(NewTracker) = {}
      /\ NewTracker.next_expected = 1
  <1> DEFINE none == [i \in SlotIndex |-> 0]
  <1>1. none \in [SlotIndex -> Nat] /\ \A i \in SlotIndex : none[i] = 0  OBVIOUS
  <1>2. NewTracker = [next_expected |-> 1, buffered_tags |-> none]  BY DEF NewTracker
  <1> HIDE DEF none
  <1>3. NewTracker.next_expected = 1 /\ NewTracker.buffered_tags = none  BY <1>2
  <1>4. NewTracker \in TrackerType  BY <1>1, <1>2 DEF TrackerType
  <1>5. Windowed(NewTracker)  BY <1>1, <1>3 DEF Windowed
  <1>6. HeldTags(NewTracker) = {}  BY <1>1, <1>3 DEF HeldTags
  <1> QED  BY <1>3, <1>4, <1>5, <1>6

------------------------------------------------------------------------------
(* The loops over a set of numbers from the least up. *)

LEMMA AscendingType ==
    ASSUME NEW S \in SUBSET (Nat \ {0}), NEW n \in Nat, \A s \in S : s <= n
    PROVE  Ascending(S) \in Seq(S) /\ Len(Ascending(S)) = Cardinality(S)
  <1> DEFINE c == Cardinality(S)
  <1>0. S \in SUBSET Nat  OBVIOUS
  <1>1. IsFiniteSet(S) /\ c \in Nat
    <2>1. IsFiniteSet(S)  BY <1>0, FS_BoundedSetOfNaturals
    <2> QED  BY <2>1, FS_CardinalityType
  <1>2. UpTo(S, n) = S  BY DEF UpTo
  <1>3. ASSUME NEW i \in 1 .. c
        PROVE  (CHOOSE s \in S : Cardinality({r \in S : r <= s}) = i) \in S
    <2>1. i \in 1 .. Cardinality(UpTo(S, n))  BY <1>2
    <2>2. PICK s \in S : Cardinality(UpTo(S, s)) = i  BY <2>1, UpToOnto
    <2>3. Cardinality({r \in S : r <= s}) = i  BY <2>2 DEF UpTo
    <2> QED  BY <2>3
  <1>4. Ascending(S) \in [1 .. c -> S]  BY <1>3 DEF Ascending
  <1> HIDE DEF c
  <1>5. Ascending(S) \in Seq(S) /\ Len(Ascending(S)) = c  BY <1>1, <1>4, FunctionIsSeq
  <1> QED  BY <1>5 DEF c

(* The members of an interval. *)
LEMMA AscendingInterval ==
    ASSUME NEW a \in Nat \ {0}, NEW b \in Nat, b + 1 >= a, NEW S, S = a .. b
    PROVE  /\ Ascending(S) \in Seq(S) /\ Len(Ascending(S)) = b + 1 - a
           /\ \A i \in 1 .. b + 1 - a : Ascending(S)[i] = a + i - 1
  <1>1. S \in SUBSET (Nat \ {0}) /\ \A s \in S : s <= b  OBVIOUS
  <1>2. Cardinality(S) = b + 1 - a
    <2>1. Cardinality(S) = IF a > b THEN 0 ELSE b - a + 1  BY FS_Interval
    <2> QED  BY <2>1
  <1>3. Ascending(S) \in Seq(S) /\ Len(Ascending(S)) = b + 1 - a  BY <1>1, <1>2, AscendingType
  <1>4. ASSUME NEW i \in 1 .. b + 1 - a PROVE Ascending(S)[i] = a + i - 1
    <2>1. ASSUME NEW s \in S PROVE Cardinality({r \in S : r <= s}) = s - a + 1
      <3>1. {r \in S : r <= s} = a .. s  OBVIOUS
      <3>2. s \in Int /\ a \in Int /\ ~(a > s)  OBVIOUS
      <3>3. Cardinality(a .. s) = s - a + 1  BY <3>2, FS_Interval
      <3> QED  BY <3>1, <3>3
    <2> DEFINE x == CHOOSE s \in S : Cardinality({r \in S : r <= s}) = i
    <2>2. a + i - 1 \in S /\ (a + i - 1) - a + 1 = i  OBVIOUS
    <2>3. Cardinality({r \in S : r <= a + i - 1}) = i  BY <2>1, <2>2
    <2>4. x \in S /\ Cardinality({r \in S : r <= x}) = i  BY <2>2, <2>3
    <2>5. Ascending(S)[i] = x  BY <1>2 DEF Ascending
    <2> HIDE DEF x
    <2>6. x - a + 1 = i  BY <2>1, <2>4
    <2> QED  BY <2>4, <2>5, <2>6
  <1> QED  BY <1>3, <1>4

------------------------------------------------------------------------------
(* The replay store. *)

LEMMA RecordType ==
    ASSUME NEW q \in Seq(SeqNumbers), NEW seq \in SeqNumbers
    PROVE  RecordEvent(q, seq) \in Seq(SeqNumbers)
  <1> DEFINE longer == Append(q, seq)
             excess == Len(longer) - MaxEventsPerVenue
  <1>1. longer \in Seq(SeqNumbers) /\ Len(longer) \in Nat  BY AppendProperties
  <1>2. MaxEventsPerVenue \in Nat
    BY GapWindowAssumption, PipelineAssumption DEF MaxEventsPerVenue
  <1> HIDE DEF longer
  <1>3. CASE excess > 0
    <2>1. excess + 1 \in Int /\ excess + 1 >= 1  BY <1>1, <1>2, <1>3
    <2>2. SubSeq(longer, excess + 1, Len(longer)) \in Seq(SeqNumbers)
      <3>1. excess + 1 \in 1 .. Len(longer) + 1  BY <1>1, <1>2, <2>1
      <3>2. Len(longer) \in excess + 1 - 1 .. Len(longer)  BY <1>1, <1>2, <1>3
      <3> QED  BY <1>1, <3>1, <3>2, SubSeqProperties
    <2> QED  BY <1>3, <2>2 DEF RecordEvent, longer
  <1>4. CASE ~(excess > 0)  BY <1>1, <1>4 DEF RecordEvent, longer
  <1> QED  BY <1>3, <1>4

LEMMA EvictType ==
    ASSUME NEW q \in Seq(SeqNumbers), NEW next \in Nat
    PROVE  EvictBehind(q, next) \in Seq(SeqNumbers)
  <1> SUFFICES ASSUME NEW keep PROVE EvictBefore(q, keep) \in Seq(SeqNumbers)
    BY DEF EvictBehind
  <1> DEFINE kept == {i \in 1 .. Len(q) : q[i] >= keep}
  <1>1. CASE kept = {}  BY <1>1, EmptySeq DEF EvictBefore
  <1>2. CASE kept # {}
    <2>1. kept \subseteq Nat /\ Len(q) \in Nat /\ kept \subseteq 1 .. Len(q)  OBVIOUS
    <2> HIDE DEF kept
    <2>2. PICK m \in kept : \A y \in kept : m <= y  BY <1>2, <2>1, LeastMember
    <2>3. Min(kept) \in kept  BY <2>2 DEF Min
    <2>4. SubSeq(q, Min(kept), Len(q)) \in Seq(SeqNumbers)
      <3> DEFINE k == Min(kept)
      <3> HIDE DEF k
      <3>0. k \in 1 .. Len(q)  BY <2>1, <2>3 DEF k
      <3>1. k \in 1 .. Len(q) + 1 /\ Len(q) \in k - 1 .. Len(q)  BY <2>1, <3>0
      <3>2. SubSeq(q, k, Len(q)) \in Seq(SeqNumbers)  BY <3>1, SubSeqProperties
      <3> QED  BY <3>2 DEF k
    <2> QED  BY <1>2, <2>4 DEF EvictBefore, kept
  <1> QED  BY <1>1, <1>2

(* What is recovered are events that were recorded. *)
LEMMA RequestType ==
    ASSUME NEW t \in TrackerType, NEW v \in Venues, NEW seq \in SeqNumbers,
           NEW q \in Seq(SeqNumbers)
    PROVE  RequestRecovery(t, v, seq, q) \in Seq(Event)
  <1> DEFINE S == {m \in RequestedRange(t, seq) : Lookup(q, m)}
             found == Ascending(S)
             events == [i \in DOMAIN found |-> [venue |-> v, sequence |-> found[i]]]
  <1>0. seq \in Nat /\ SeqNumbers \subseteq Nat  BY PipelineAssumption
  <1>1. RequestedRange(t, seq) \subseteq Nat \ {0} /\ \A m \in RequestedRange(t, seq) : m <= seq
    BY <1>0, TrackerFields DEF RequestedRange
  <1>2. S \in SUBSET (Nat \ {0}) /\ \A s \in S : s <= seq  BY <1>1
  <1>3. S \subseteq SeqNumbers
    <2> SUFFICES ASSUME NEW m \in S PROVE m \in SeqNumbers  OBVIOUS
    <2>1. PICK at \in DOMAIN q : q[at] = m  BY DEF Lookup
    <2>2. at \in 1 .. Len(q)  BY <2>1
    <2> QED  BY <2>1, <2>2, ElementOfSeq
  <1>4. found \in Seq(S) /\ Len(found) \in Nat
    <2>1. found \in Seq(S)  BY <1>0, <1>2, AscendingType
    <2> QED  BY <2>1, LenProperties
  <1>5. RequestRecovery(t, v, seq, q) = events  BY DEF RequestRecovery
  <1> HIDE DEF S, found
  <1>6. events \in [1 .. Len(found) -> Event]
    <2>1. DOMAIN found = 1 .. Len(found)  BY <1>4, LenProperties
    <2> SUFFICES ASSUME NEW i \in 1 .. Len(found)
                 PROVE  [venue |-> v, sequence |-> found[i]] \in Event
      BY <2>1
    <2>2. found[i] \in S  BY <1>4, ElementOfSeq
    <2>3. found[i] \in SeqNumbers  BY <1>3, <2>2
    <2> QED  BY <2>3 DEF Event
  <1> HIDE DEF events
  <1>7. events \in Seq(Event)  BY <1>4, <1>6, FunctionIsSeq
  <1> QED  BY <1>5, <1>7

------------------------------------------------------------------------------
(* One event through the pipeline. *)

(* p holds the numbers from seq up to e in order. *)
IsRun(p, seq, e) == /\ p \in Seq(SeqNumbers) /\ Len(p) = e - seq
                    /\ \A i \in 1 .. e - seq : p[i] = seq + i - 1

(* A number and the run behind it. *)
LEMMA RunBehind ==
    ASSUME NEW seq \in SeqNumbers, NEW e \in Nat, e > seq, NEW a, IsRun(a, seq + 1, e),
           NEW p, p = <<seq>> \o a
    PROVE  IsRun(p, seq, e)
  <1> DEFINE f == <<seq>>
  <1>0. seq \in Nat  BY PipelineAssumption
  <1>a. a \in Seq(SeqNumbers) /\ Len(a) = e - seq - 1 /\ \A i \in 1 .. Len(a) : a[i] = seq + i
    <2>1. a \in Seq(SeqNumbers) /\ Len(a) = e - (seq + 1)
          /\ \A i \in 1 .. e - (seq + 1) : a[i] = (seq + 1) + i - 1
      BY DEF IsRun
    <2> QED  BY <1>0, <2>1
  <1>1. f \in Seq(SeqNumbers) /\ Len(f) = 1 /\ f[1] = seq /\ p = f \o a  OBVIOUS
  <1> HIDE DEF f
  <1>2. /\ p \in Seq(SeqNumbers) /\ Len(p) = Len(f) + Len(a)
        /\ \A i \in 1 .. Len(f) + Len(a) : p[i] = IF i <= Len(f) THEN f[i] ELSE a[i - Len(f)]
    BY <1>a, <1>1, ConcatProperties
  <1>3. ASSUME NEW i \in 1 .. e - seq PROVE p[i] = seq + i - 1
    <2>1. i \in 1 .. Len(f) + Len(a)  BY <1>0, <1>a, <1>1
    <2>2. CASE i = 1  BY <1>0, <1>1, <1>2, <2>1, <2>2
    <2>3. CASE i # 1
      <3>1. i - 1 \in 1 .. Len(a) /\ ~(i <= Len(f)) /\ i - Len(f) = i - 1
        BY <1>0, <1>a, <1>1, <2>3
      <3>2. p[i] = a[i - 1]  BY <1>2, <2>1, <3>1
      <3>3. a[i - 1] = seq + (i - 1)  BY <1>a, <3>1
      <3> QED  BY <1>0, <3>2, <3>3
    <2> QED  BY <2>2, <2>3
  <1>4. Len(p) = e - seq  BY <1>0, <1>a, <1>1, <1>2
  <1> QED  BY <1>2, <1>3, <1>4 DEF IsRun

(* What PublishInOrder appends to the venue's queue: a run of numbers. *)
LEMMA PublishedRun ==
    ASSUME NEW seq \in SeqNumbers, NEW e \in Nat, e > seq, NEW P \in SUBSET SeqNumbers,
           \A k \in seq + 1 .. e - 1 : k \in P
    PROVE  IsRun(<<seq>> \o Ascending((seq + 1 .. e - 1) \cap P), seq, e)
  <1> DEFINE S == seq + 1 .. e - 1
             a == Ascending(S)
             n == e - seq - 1
  <1>0. seq \in Nat /\ SeqNumbers \subseteq Nat  BY PipelineAssumption
  <1>1. (seq + 1 .. e - 1) \cap P = S /\ S \subseteq SeqNumbers  OBVIOUS
  <1>2. seq + 1 \in Nat \ {0} /\ e - 1 \in Nat /\ (e - 1) + 1 >= seq + 1
        /\ (e - 1) + 1 - (seq + 1) = n /\ n \in Nat
    BY <1>0
  <1>3. a \in Seq(S) /\ Len(a) = (e - 1) + 1 - (seq + 1)
        /\ \A i \in 1 .. (e - 1) + 1 - (seq + 1) : a[i] = (seq + 1) + i - 1
    BY <1>2, AscendingInterval, ZenonT(60)
  <1> HIDE DEF a, S
  <1>4. Len(a) = n /\ \A i \in 1 .. n : a[i] = seq + i
    BY <1>0, <1>2, <1>3
  <1>5. a \in Seq(SeqNumbers)
    <2>1. \A i \in 1 .. n : a[i] \in SeqNumbers
      <3> TAKE i \in 1 .. n
      <3>1. a[i] \in S  BY <1>3, <1>4, ElementOfSeq
      <3> QED  BY <1>1, <3>1
    <2>2. a \in [1 .. n -> SeqNumbers]  BY <1>3, <1>4, <2>1, LenProperties
    <2> QED  BY <1>2, <2>2, FunctionIsSeq
  <1>6. IsRun(a, seq + 1, e)
    <2>1. Len(a) = e - (seq + 1)  BY <1>0, <1>4
    <2>2. \A i \in 1 .. e - (seq + 1) : a[i] = (seq + 1) + i - 1  BY <1>0, <1>2, <1>4
    <2> QED  BY <1>5, <2>1, <2>2 DEF IsRun
  <1> HIDE DEF n
  <1>7. IsRun(<<seq>> \o a, seq, e)  BY <1>6, RunBehind
  <1> QED  BY <1>1, <1>7 DEF a, S

(* d is q with the numbers from seq up to e behind it. *)
RunAppended(d, q, seq, e) ==
    /\ d \in Seq(SeqNumbers) /\ Len(d) = Len(q) + (e - seq)
    /\ \A n \in 1 .. Len(q) : n \in DOMAIN d /\ d[n] = q[n]
    /\ \A n \in DOMAIN d : n \in 1 .. Len(q) \/ d[n] = seq + (n - Len(q)) - 1
    /\ \A k \in seq .. e - 1 : k - seq + Len(q) + 1 \in DOMAIN d
                               /\ d[k - seq + Len(q) + 1] = k
    /\ DOMAIN d = 1 .. Len(d)

(* The queue that the run is appended to. *)
LEMMA QueueAfter ==
    ASSUME NEW q \in Seq(SeqNumbers), NEW seq \in SeqNumbers, NEW e \in Nat, e > seq,
           NEW p, IsRun(p, seq, e), NEW d, d = q \o p
    PROVE  RunAppended(d, q, seq, e)
  <1> DEFINE m == Len(q)
  <1>0. seq \in Nat /\ m \in Nat  BY PipelineAssumption
  <1>p. p \in Seq(SeqNumbers) /\ Len(p) = e - seq /\ \A i \in 1 .. e - seq : p[i] = seq + i - 1
    BY DEF IsRun
  <1>1. /\ d \in Seq(SeqNumbers) /\ Len(d) = m + Len(p)
        /\ \A i \in 1 .. m + Len(p) : d[i] = IF i <= m THEN q[i] ELSE p[i - m]
    BY <1>p, ConcatProperties
  <1> HIDE DEF m
  <1>2. Len(d) = m + (e - seq) /\ DOMAIN d = 1 .. m + (e - seq)  BY <1>p, <1>1, LenProperties
  <1>3. ASSUME NEW n \in 1 .. m PROVE n \in DOMAIN d /\ d[n] = q[n]
    <2>1. n \in 1 .. m + (e - seq) /\ n <= m  BY <1>0
    <2> QED  BY <1>p, <1>1, <1>2, <2>1
  <1>4. ASSUME NEW n \in DOMAIN d, n \notin 1 .. m PROVE d[n] = seq + (n - m) - 1
    <2>1. n - m \in 1 .. e - seq /\ ~(n <= m) /\ n \in 1 .. m + Len(p)
      BY <1>0, <1>p, <1>2, <1>4
    <2>2. d[n] = p[n - m]  BY <1>1, <2>1
    <2> QED  BY <1>p, <2>1, <2>2
  <1>5. ASSUME NEW k \in seq .. e - 1
        PROVE  k - seq + m + 1 \in DOMAIN d /\ d[k - seq + m + 1] = k
    <2> DEFINE n == k - seq + m + 1
    <2>1. n \in 1 .. m + (e - seq) /\ n \notin 1 .. m /\ seq + (n - m) - 1 = k  BY <1>0
    <2> HIDE DEF n
    <2>2. n \in DOMAIN d  BY <1>2, <2>1
    <2>3. d[n] = k  BY <1>4, <2>1, <2>2
    <2> QED  BY <2>2, <2>3 DEF n
  <1> QED  BY <1>1, <1>2, <1>3, <1>4, <1>5 DEF m, RunAppended

(* Numbers behind the end of the old queue. *)
LEMMA RunNumber ==
    ASSUME NEW m \in Nat, NEW seq \in Nat, NEW e \in Nat, e > seq,
           NEW n \in 1 .. m + (e - seq), n \notin 1 .. m, NEW x, x = seq + (n - m) - 1
    PROVE  x \in Nat /\ x < e /\ x >= seq /\ n > m
  OBVIOUS

LEMMA RunOrder ==
    ASSUME NEW m \in Nat, NEW seq \in Nat, NEW k \in Nat, NEW n \in Nat, k < n, n > m,
           NEW x \in Nat, NEW y \in Nat, y = seq + (n - m) - 1,
           (k <= m /\ x < seq) \/ x = seq + (k - m) - 1
    PROVE  x < y
  OBVIOUS

(* What the invariant says of one venue. *)
LEMMA VenueParts ==
    ASSUME PipelineInv, NEW v \in Venues
    PROVE  /\ trackers[v] \in TrackerType /\ Windowed(trackers[v])
           /\ pending[v] = HeldTags(trackers[v]) /\ pending[v] \in SUBSET SeqNumbers
           /\ queues[v] \in Seq(SeqNumbers) /\ trackers[v].next_expected \in Nat \ {0}
  <1>1. trackers[v] \in TrackerType  BY DEF PipelineInv, TypeOK
  <1>2. trackers[v].next_expected \in Nat \ {0}  BY <1>1 DEF TrackerType
  <1> QED  BY <1>1, <1>2 DEF PipelineInv, TypeOK, PendingMatchesTags

(* A step of process_event changes one venue: what is left to show of it. *)
VenueStep(v) ==
    /\ trackers' = [trackers EXCEPT ![v] = trackers'[v]]
    /\ pending' = [pending EXCEPT ![v] = pending'[v]]
    /\ queues' = [queues EXCEPT ![v] = queues'[v]]
    /\ store' = [store EXCEPT ![v] = store'[v]]
    /\ trackers'[v] \in TrackerType /\ Windowed(trackers'[v])
    /\ pending'[v] = HeldTags(trackers'[v]) /\ pending'[v] \in SUBSET SeqNumbers
    /\ store'[v] \in Seq(SeqNumbers)
    /\ stats' \in Stats /\ stats'.pending_inconsistency = 0
    /\ ~draining /\ UNCHANGED <<merged, draining, drainedFrom>>

(* A step that publishes nothing and does not move next_expected back. *)
LEMMA QuietStep ==
    ASSUME PipelineInv, NEW v \in Venues, VenueStep(v), queues' = queues,
           trackers'[v].next_expected >= trackers[v].next_expected,
           stats'.dropped_gap_too_large = 0 =>
               /\ stats.dropped_gap_too_large = 0
               /\ trackers'[v].next_expected = trackers[v].next_expected
    PROVE  PipelineInv'
  <1>s. /\ UNCHANGED <<merged, draining, drainedFrom, queues>> /\ ~draining
        /\ \A u \in Venues : u # v => trackers'[u] = trackers[u] /\ pending'[u] = pending[u]
    BY DEF VenueStep, PipelineInv, TypeOK
  <1>n. \A u \in Venues : /\ trackers[u].next_expected \in Nat /\ trackers'[u].next_expected \in Nat
                          /\ trackers'[u].next_expected >= trackers[u].next_expected
    <2> TAKE u \in Venues
    <2>1. trackers[u].next_expected \in Nat  BY VenueParts
    <2>2. trackers'[v].next_expected \in Nat  BY DEF VenueStep, TrackerType
    <2>3. CASE u = v  BY <2>1, <2>2, <2>3
    <2>4. CASE u # v
      <3>1. trackers'[u] = trackers[u]  BY <1>s, <2>4
      <3> QED  BY <2>1, <3>1
    <2> QED  BY <2>3, <2>4
  <1>1. TypeOK'
    <2>1. trackers' \in [Venues -> TrackerType]  BY DEF VenueStep, PipelineInv, TypeOK
    <2>2. pending' \in [Venues -> SUBSET SeqNumbers]  BY DEF VenueStep, PipelineInv, TypeOK
    <2>3. store' \in [Venues -> Seq(SeqNumbers)]  BY DEF VenueStep, PipelineInv, TypeOK
    <2> QED  BY <1>s, <2>1, <2>2, <2>3 DEF VenueStep, PipelineInv, TypeOK
  <1>2. \A u \in Venues : Windowed(trackers'[u]) /\ pending'[u] = HeldTags(trackers'[u])
    <2> TAKE u \in Venues
    <2>1. CASE u = v  BY <2>1 DEF VenueStep
    <2>2. CASE u # v  BY <1>s, <2>2, VenueParts
    <2> QED  BY <2>1, <2>2
  <1>3. PendingMatchesTags'  BY <1>2 DEF VenueStep, PendingMatchesTags
  <1>4. \A u \in Venues : Published(u)' = Published(u)  BY <1>s DEF Published
  <1>5. PublishedInOrder'
    <2>1. \A u \in Venues : \A s \in Published(u)' : s < trackers'[u].next_expected
      <3> TAKE u \in Venues
      <3> TAKE s \in Published(u)'
      <3>1. s \in Published(u) /\ s < trackers[u].next_expected
        BY <1>4 DEF PipelineInv, PublishedInOrder
      <3>2. s \in Nat
        <4>1. queues[u] \in Seq(SeqNumbers) /\ merged \in Seq(Event) /\ SeqNumbers \subseteq Nat
          BY PipelineAssumption DEF PipelineInv, TypeOK
        <4>2. \A n \in DOMAIN queues[u] : queues[u][n] \in SeqNumbers  BY <4>1
        <4>3. \A i \in DOMAIN merged : merged[i] \in Event  BY <4>1
        <4>4. \A i \in DOMAIN merged : merged[i].sequence \in SeqNumbers  BY <4>3 DEF Event
        <4> QED  BY <3>1, <4>1, <4>2, <4>4 DEF Published
      <3> QED  BY <1>n, <3>1, <3>2
    <2> QED  BY <1>s, <2>1 DEF PipelineInv, PublishedInOrder
  <1>6. NoLossWithoutForcedAdvance'
    <2> SUFFICES ASSUME stats'.dropped_gap_too_large = 0, NEW u \in Venues
                 PROVE  Published(u)' = 1 .. trackers'[u].next_expected - 1
      BY DEF NoLossWithoutForcedAdvance
    <2>1. trackers'[u].next_expected = trackers[u].next_expected  BY <1>s
    <2> QED  BY <1>4, <2>1 DEF PipelineInv, NoLossWithoutForcedAdvance
  <1>7. Merging'  BY <1>s DEF PipelineInv, Merging, MergedInOrder, SentGoesFirst
  <1> QED  BY <1>1, <1>2, <1>3, <1>5, <1>6, <1>7 DEF PipelineInv

(* The statistics process_event starts from. *)
Counting(counted) == /\ counted \in Stats /\ counted.pending_inconsistency = 0
                     /\ counted.dropped_gap_too_large = stats.dropped_gap_too_large

LEMMA DropInv ==
    ASSUME PipelineInv, ~draining, UNCHANGED <<merged, draining, drainedFrom>>,
           NEW v \in Venues, NEW seq \in SeqNumbers, NEW q \in Seq(SeqNumbers), NEW counted,
           Counting(counted), DropDuplicate(v, seq, q, counted)
    PROVE  PipelineInv'
  <1>1. /\ UNCHANGED <<trackers, pending, queues>> /\ store' = [store EXCEPT ![v] = q]
        /\ stats' = [counted EXCEPT !.dropped_duplicate_or_old = @ + 1]
    BY DEF DropDuplicate
  <1>2. stats' \in Stats /\ stats'.pending_inconsistency = 0
        /\ stats'.dropped_gap_too_large = stats.dropped_gap_too_large
    BY <1>1 DEF Counting, Stats
  <1>3. /\ trackers' = [trackers EXCEPT ![v] = trackers'[v]]
        /\ pending' = [pending EXCEPT ![v] = pending'[v]]
        /\ queues' = [queues EXCEPT ![v] = queues'[v]]
        /\ store' = [store EXCEPT ![v] = store'[v]] /\ store'[v] = q
    BY <1>1 DEF PipelineInv, TypeOK
  <1>4. VenueStep(v)  BY <1>1, <1>2, <1>3, VenueParts DEF VenueStep
  <1>5. trackers[v].next_expected \in Nat  BY VenueParts
  <1>6. trackers'[v].next_expected >= trackers[v].next_expected  BY <1>1, <1>5
  <1> QED  BY <1>1, <1>2, <1>4, <1>6, QuietStep

LEMMA BufferInv ==
    ASSUME PipelineInv, ~draining, UNCHANGED <<merged, draining, drainedFrom>>,
           NEW v \in Venues, NEW seq \in SeqNumbers, NEW q \in Seq(SeqNumbers), NEW counted,
           Counting(counted), BufferBehindGap(v, seq, q, counted)
    PROVE  PipelineInv'
  <1> DEFINE t == trackers[v]
             u == OnSequence(t, seq)
  <1>0. seq \in Nat  BY PipelineAssumption
  <1>1. /\ StatusOf(t, seq) = "GapBuffered" /\ trackers' = [trackers EXCEPT ![v] = u]
        /\ pending' = [pending EXCEPT ![v] = pending[v] \cup {seq}] /\ queues' = queues
        /\ store' = [store EXCEPT ![v] = q]
        /\ stats' = [counted EXCEPT !.buffered_out_of_order = @ + 1, !.requests_total = @ + 1]
    BY DEF BufferBehindGap
  <1>2. stats' \in Stats /\ stats'.pending_inconsistency = 0
        /\ stats'.dropped_gap_too_large = stats.dropped_gap_too_large
    <2> DEFINE first == [counted EXCEPT !.buffered_out_of_order = @ + 1]
    <2>1. first \in Stats /\ first.pending_inconsistency = 0
          /\ first.dropped_gap_too_large = stats.dropped_gap_too_large
      BY SMTT(30) DEF Counting, Stats
    <2>2. stats' = [first EXCEPT !.requests_total = @ + 1]  BY <1>1, SMTT(30) DEF Counting, Stats
    <2> HIDE DEF first
    <2> QED  BY <2>1, <2>2, SMTT(30) DEF Stats
  <1>3. /\ u \in TrackerType /\ Windowed(u) /\ u.next_expected = t.next_expected
        /\ HeldTags(u) = HeldTags(t) \cup {seq}
    BY <1>0, <1>1, VenueParts, AfterGapBuffered
  <1> HIDE DEF u
  <1>4. /\ trackers'[v] = u /\ trackers' = [trackers EXCEPT ![v] = trackers'[v]]
        /\ pending'[v] = pending[v] \cup {seq} /\ pending' = [pending EXCEPT ![v] = pending'[v]]
        /\ queues' = [queues EXCEPT ![v] = queues'[v]]
        /\ store' = [store EXCEPT ![v] = store'[v]] /\ store'[v] = q
    BY <1>1 DEF PipelineInv, TypeOK
  <1>5. pending'[v] = HeldTags(trackers'[v]) /\ pending'[v] \in SUBSET SeqNumbers
    BY <1>3, <1>4, VenueParts
  <1>6. VenueStep(v)  BY <1>2, <1>3, <1>4, <1>5 DEF VenueStep
  <1>7. t.next_expected \in Nat  BY VenueParts
  <1>8. trackers'[v].next_expected = trackers[v].next_expected
        /\ trackers'[v].next_expected >= trackers[v].next_expected
    BY <1>3, <1>4, <1>7
  <1> QED  BY <1>1, <1>2, <1>6, <1>8, QuietStep

LEMMA ForceInv ==
    ASSUME PipelineInv, ~draining, UNCHANGED <<merged, draining, drainedFrom>>,
           NEW v \in Venues, NEW seq \in SeqNumbers, NEW q \in Seq(SeqNumbers), NEW counted,
           Counting(counted), ForceOverGap(v, seq, q, counted)
    PROVE  PipelineInv'
  <1> DEFINE t == trackers[v]
             u == ForceAdvance(OnSequence(t, seq), seq)
             evicted == {s \in pending[v] : s < seq}
             left == EvictBehind(q, trackers'[v].next_expected)
             k == Cardinality(evicted)
  <1>0. seq \in Nat  BY PipelineAssumption
  <1>1. /\ StatusOf(t, seq) = "GapTooLarge" /\ trackers' = [trackers EXCEPT ![v] = u]
        /\ pending' = [pending EXCEPT ![v] = pending[v] \ evicted] /\ queues' = queues
        /\ store' = [store EXCEPT ![v] = left]
        /\ stats' = [counted EXCEPT !.dropped_gap_too_large = @ + 1,
                                    !.dropped_gap_too_large_pending_evicted = @ + k,
                                    !.requests_total = @ + 1]
    BY DEF ForceOverGap
  <1>2. k \in Nat
    <2>0. pending[v] \in SUBSET Nat  BY VenueParts, PipelineAssumption
    <2>1. evicted \in SUBSET Nat /\ \A s \in evicted : s <= seq
      BY <1>0, <2>0
    <2>2. IsFiniteSet(evicted)  BY <1>0, <2>1, FS_BoundedSetOfNaturals
    <2> QED  BY <2>2, FS_CardinalityType
  <1>3. /\ u \in TrackerType /\ Windowed(u) /\ u.next_expected = seq /\ seq > t.next_expected
        /\ HeldTags(u) = {} /\ \A s \in HeldTags(t) : s < seq
    BY <1>0, <1>1, VenueParts, AfterForceAdvance
  <1> HIDE DEF u, k
  <1>4. stats' \in Stats /\ stats'.pending_inconsistency = 0
        /\ stats'.dropped_gap_too_large # 0
    <2> DEFINE first == [counted EXCEPT !.dropped_gap_too_large = @ + 1]
               second == [first EXCEPT !.dropped_gap_too_large_pending_evicted = @ + k]
    <2>1. first \in Stats /\ first.pending_inconsistency = 0
          /\ first.dropped_gap_too_large # 0
      BY SMTT(30) DEF Counting, Stats
    <2>2. stats' = [second EXCEPT !.requests_total = @ + 1]  BY <1>1, SMTT(30) DEF Counting, Stats
    <2> HIDE DEF first
    <2>3. second \in Stats /\ second.pending_inconsistency = 0
          /\ second.dropped_gap_too_large # 0
      BY <1>2, <2>1, SMTT(30) DEF Stats
    <2> HIDE DEF second
    <2> QED  BY <2>2, <2>3, SMTT(30) DEF Stats
  <1>5. pending[v] \ evicted = {}  BY <1>3, VenueParts
  <1>6. trackers'[v] = u /\ trackers' = [trackers EXCEPT ![v] = trackers'[v]]
    BY <1>1 DEF PipelineInv, TypeOK
  <1>7. left \in Seq(SeqNumbers)
    <2>1. trackers'[v].next_expected \in Nat  BY <1>0, <1>3, <1>6
    <2> QED  BY <2>1, EvictType
  <1> HIDE DEF left, evicted
  <1>8. /\ pending'[v] = {} /\ pending' = [pending EXCEPT ![v] = pending'[v]]
        /\ queues' = [queues EXCEPT ![v] = queues'[v]]
        /\ store' = [store EXCEPT ![v] = store'[v]] /\ store'[v] = left
    BY <1>1, <1>5 DEF PipelineInv, TypeOK
  <1>9. VenueStep(v)  BY <1>3, <1>4, <1>6, <1>7, <1>8 DEF VenueStep
  <1>10. t.next_expected \in Nat  BY VenueParts
  <1>11. trackers'[v].next_expected >= trackers[v].next_expected
    BY <1>0, <1>3, <1>6, <1>10
  <1> QED  BY <1>1, <1>4, <1>9, <1>11, QuietStep

(* The numbers of a venue's queue and of the sink are below next_expected. *)
LEMMA OutputBelow ==
    ASSUME PipelineInv
    PROVE  /\ \A i \in DOMAIN merged :
                 /\ merged[i].venue \in Venues /\ merged[i].sequence \in Nat
                 /\ merged[i].sequence < trackers[merged[i].venue].next_expected
           /\ \A v \in Venues : \A n \in DOMAIN queues[v] :
                 queues[v][n] \in Nat /\ queues[v][n] < trackers[v].next_expected
  <1>0. merged \in Seq(Event) /\ SeqNumbers \subseteq Nat  BY PipelineAssumption DEF PipelineInv, TypeOK
  <1>1. ASSUME NEW i \in DOMAIN merged
        PROVE  /\ merged[i].venue \in Venues /\ merged[i].sequence \in Nat
               /\ merged[i].sequence < trackers[merged[i].venue].next_expected
    <2>1. merged[i] \in Event  BY <1>0
    <2>2. merged[i].venue \in Venues /\ merged[i].sequence \in Nat  BY <1>0, <2>1 DEF Event
    <2>3. merged[i].sequence \in Published(merged[i].venue)  BY DEF Published
    <2> QED  BY <2>2, <2>3 DEF PipelineInv, PublishedInOrder
  <1>2. ASSUME NEW v \in Venues, NEW n \in DOMAIN queues[v]
        PROVE  queues[v][n] \in Nat /\ queues[v][n] < trackers[v].next_expected
    <2>1. queues[v] \in Seq(SeqNumbers)  BY VenueParts
    <2>2. queues[v][n] \in Nat
      <3>1. \A k \in DOMAIN queues[v] : queues[v][k] \in SeqNumbers  BY <2>1
      <3> QED  BY <1>0, <3>1
    <2>3. queues[v][n] \in Published(v)  BY DEF Published
    <2> QED  BY <2>2, <2>3 DEF PipelineInv, PublishedInOrder
  <1> QED  BY <1>1, <1>2

(* The numbers from seq up to e come out of venue v, and nothing else does.   *)
RunPublished(v, seq, e) ==
    /\ queues' \in [Venues -> Seq(SeqNumbers)] /\ PublishedInOrder'
    /\ \A u \in Venues : u # v => Published(u)' = Published(u)
    /\ Published(v)' = Published(v) \cup (seq .. e - 1)

(* The part of PublishInOrder that the queue shows. *)
LEMMA PublishedGrows ==
    ASSUME PipelineInv, UNCHANGED <<merged, draining, drainedFrom>>, NEW v \in Venues,
           NEW seq \in SeqNumbers, seq = trackers[v].next_expected, NEW e \in Nat, e > seq,
           NEW p, IsRun(p, seq, e), queues' = [queues EXCEPT ![v] = queues[v] \o p],
           trackers'[v].next_expected = e,
           \A u \in Venues : u # v => trackers'[u] = trackers[u]
    PROVE  RunPublished(v, seq, e)
  <1> DEFINE d == queues[v] \o p
             m == Len(queues[v])
  <1>0. seq \in Nat /\ queues[v] \in Seq(SeqNumbers) /\ m \in Nat
        /\ DOMAIN queues[v] = 1 .. m /\ queues \in [Venues -> Seq(SeqNumbers)]
    BY VenueParts, PipelineAssumption, LenProperties DEF PipelineInv, TypeOK
  <1>1. /\ d \in Seq(SeqNumbers) /\ Len(d) = m + (e - seq)
        /\ \A n \in 1 .. m : n \in DOMAIN d /\ d[n] = queues[v][n]
        /\ \A n \in DOMAIN d : n \in 1 .. m \/ d[n] = seq + (n - m) - 1
        /\ \A k \in seq .. e - 1 : k - seq + m + 1 \in DOMAIN d /\ d[k - seq + m + 1] = k
        /\ DOMAIN d = 1 .. Len(d)
    <2>1. RunAppended(d, queues[v], seq, e)  BY <1>0, QueueAfter
    <2> QED  BY <2>1 DEF RunAppended
  <1>2. queues' \in [Venues -> Seq(SeqNumbers)] /\ queues'[v] = d
        /\ \A u \in Venues : u # v => queues'[u] = queues[u]
    BY <1>0, <1>1
  <1> HIDE DEF d, m
  (* A number in the new queue is an old one or one of the run. *)
  <1>3. ASSUME NEW n \in DOMAIN d
        PROVE  /\ n \in Nat /\ d[n] \in Nat /\ d[n] < e
               /\ \/ n \in DOMAIN queues[v] /\ d[n] = queues[v][n] /\ n <= m /\ d[n] < seq
                  \/ d[n] = seq + (n - m) - 1 /\ n > m /\ d[n] >= seq
    <2>1. n \in 1 .. m + (e - seq)  BY <1>1
    <2>2. CASE n \in 1 .. m
      <3>1. n \in DOMAIN queues[v] /\ d[n] = queues[v][n]  BY <1>0, <1>1, <2>2
      <3>2. queues[v][n] \in Nat /\ queues[v][n] < seq  BY <3>1, OutputBelow
      <3> QED  BY <1>0, <2>2, <3>1, <3>2
    <2>3. CASE n \notin 1 .. m
      <3>1. d[n] = seq + (n - m) - 1  BY <1>1, <2>3
      <3>2. d[n] \in Nat /\ d[n] < e /\ d[n] >= seq /\ n > m
        BY <1>0, <2>1, <2>3, <3>1, RunNumber, SMTT(30)
      <3> QED  BY <2>1, <3>1, <3>2
    <2> QED  BY <2>2, <2>3
  <1>4. \A u \in Venues : u # v => Published(u)' = Published(u)
    BY <1>2 DEF Published
  <1>5. Published(v)' = Published(v) \cup (seq .. e - 1)
    <2> DEFINE M == {merged[i].sequence : i \in {j \in DOMAIN merged : merged[j].venue = v}}
    <2>1. Published(v) = M \cup {queues[v][n] : n \in DOMAIN queues[v]}
          /\ Published(v)' = M \cup {d[n] : n \in DOMAIN d}
      BY <1>2 DEF Published
    <2> HIDE DEF M
    <2>2. \A n \in DOMAIN queues[v] : n \in DOMAIN d /\ d[n] = queues[v][n]  BY <1>0, <1>1
    <2>3. \A k \in seq .. e - 1 : \E n \in DOMAIN d : d[n] = k  BY <1>1
    <2>4. \A n \in DOMAIN d : \/ d[n] \in seq .. e - 1
                              \/ n \in DOMAIN queues[v] /\ d[n] = queues[v][n]
      BY <1>0, <1>3
    <2> QED  BY <2>1, <2>2, <2>3, <2>4
  <1>6. PublishedInOrder'
    <2>1. \A i \in DOMAIN merged : \A n \in DOMAIN queues'[merged[i].venue] :
              merged[i].sequence < queues'[merged[i].venue][n]
      <3> SUFFICES ASSUME NEW i \in DOMAIN merged, NEW n \in DOMAIN queues'[merged[i].venue]
                   PROVE  merged[i].sequence < queues'[merged[i].venue][n]
        OBVIOUS
      <3>1. merged[i].venue \in Venues /\ merged[i].sequence \in Nat
            /\ merged[i].sequence < trackers[merged[i].venue].next_expected
        BY OutputBelow
      <3>2. CASE merged[i].venue # v
        <4>1. queues'[merged[i].venue] = queues[merged[i].venue]  BY <1>2, <3>1, <3>2
        <4> QED  BY <4>1 DEF PipelineInv, PublishedInOrder
      <3>3. CASE merged[i].venue = v
        <4>1. n \in DOMAIN d /\ queues'[merged[i].venue][n] = d[n]  BY <1>2, <3>3
        <4>2. CASE n \in DOMAIN queues[v] /\ d[n] = queues[v][n]
          BY <3>3, <4>1, <4>2 DEF PipelineInv, PublishedInOrder
        <4>3. CASE d[n] >= seq
          <5>1. d[n] \in Nat /\ merged[i].sequence < seq  BY <1>3, <3>1, <3>3, <4>1
          <5> QED  BY <1>0, <3>1, <4>1, <4>3, <5>1
        <4> QED  BY <1>3, <4>1, <4>2, <4>3
      <3> QED  BY <3>2, <3>3
    <2>2. \A u \in Venues : \A k, n \in DOMAIN queues'[u] : k < n => queues'[u][k] < queues'[u][n]
      <3> SUFFICES ASSUME NEW u \in Venues, NEW k \in DOMAIN queues'[u],
                          NEW n \in DOMAIN queues'[u], k < n
                   PROVE  queues'[u][k] < queues'[u][n]
        OBVIOUS
      <3>1. CASE u # v
        <4>1. queues'[u] = queues[u]  BY <1>2, <3>1
        <4> QED  BY <4>1 DEF PipelineInv, PublishedInOrder
      <3>2. CASE u = v
        <4>1. k \in DOMAIN d /\ n \in DOMAIN d /\ queues'[u] = d  BY <1>2, <3>2
        <4>2. /\ k \in Nat /\ n \in Nat /\ d[k] \in Nat /\ d[n] \in Nat
              /\ \/ k \in DOMAIN queues[v] /\ d[k] = queues[v][k] /\ k <= m /\ d[k] < seq
                 \/ d[k] = seq + (k - m) - 1 /\ k > m /\ d[k] >= seq
              /\ \/ n \in DOMAIN queues[v] /\ d[n] = queues[v][n] /\ n <= m /\ d[n] < seq
                 \/ d[n] = seq + (n - m) - 1 /\ n > m /\ d[n] >= seq
          BY <1>3, <4>1
        <4>3. CASE n <= m
          <5>1. k \in DOMAIN queues[v] /\ d[k] = queues[v][k]
                /\ n \in DOMAIN queues[v] /\ d[n] = queues[v][n]
            BY <1>0, <4>2, <4>3
          <5> QED  BY <4>1, <5>1 DEF PipelineInv, PublishedInOrder
        <4>4. CASE n > m
          <5>0. ~(n <= m)
            <6>1. n \in Nat  BY <4>2, Zenon
            <6> QED  BY <1>0, <4>4, <6>1
          <5>1. d[n] = seq + (n - m) - 1  BY <4>2, <5>0, Zenon
          <5>2. (k <= m /\ d[k] < seq) \/ d[k] = seq + (k - m) - 1  BY <4>2
          <5>3. k \in Nat /\ n \in Nat /\ d[k] \in Nat /\ d[n] \in Nat  BY <4>2, Zenon
          <5>4. d[k] < d[n]
            <6>1. m \in Nat /\ seq \in Nat  BY <1>0
            <6>2. \A x, y \in Nat : /\ y = seq + (n - m) - 1
                                    /\ (k <= m /\ x < seq) \/ x = seq + (k - m) - 1
                                    => x < y
              BY <4>4, <5>3, <6>1, RunOrder
            <6> QED  BY <5>1, <5>2, <5>3, <6>2, Zenon
          <5> QED  BY <4>1, <5>4
        <4> QED  BY <1>0, <4>2, <4>3, <4>4
      <3> QED  BY <3>1, <3>2
    <2>3. \A u \in Venues : \A s \in Published(u)' : s < trackers'[u].next_expected
      <3> SUFFICES ASSUME NEW u \in Venues, NEW s \in Published(u)'
                   PROVE  s < trackers'[u].next_expected
        OBVIOUS
      <3>1. CASE u # v  BY <1>4, <3>1 DEF PipelineInv, PublishedInOrder
      <3>2. CASE u = v
        <4>1. CASE s \in seq .. e - 1  BY <1>0, <3>2, <4>1
        <4>2. CASE s \in Published(v)
          <5>1. s < seq  BY <4>2 DEF PipelineInv, PublishedInOrder
          <5>2. s \in Nat  BY <4>2, OutputBelow DEF Published
          <5> QED  BY <1>0, <3>2, <5>1, <5>2
        <4> QED  BY <1>5, <3>2, <4>1, <4>2
      <3> QED  BY <3>1, <3>2
    <2> QED  BY <2>1, <2>2, <2>3 DEF PipelineInv, PublishedInOrder
  <1> QED  BY <1>2, <1>4, <1>5, <1>6 DEF RunPublished

(* All that was released was pending: no inconsistency is counted. *)
LEMMA AcceptedStats ==
    ASSUME NEW counted, Counting(counted), NEW n \in Nat, NEW r,
           r = [counted EXCEPT !.accepted = @ + n, !.pending_inconsistency = @ + n - n]
    PROVE  /\ r \in Stats /\ r.pending_inconsistency = 0
           /\ r.dropped_gap_too_large = stats.dropped_gap_too_large
  <1> DEFINE first == [counted EXCEPT !.accepted = @ + n]
  <1>1. r = [first EXCEPT !.pending_inconsistency = @ + n - n]  BY DEF Counting, Stats
  <1>2. first \in Stats /\ first.pending_inconsistency = 0
        /\ first.dropped_gap_too_large = stats.dropped_gap_too_large
    BY DEF Counting, Stats
  <1> HIDE DEF first
  <1>3. r = [first EXCEPT !.pending_inconsistency = 0]
    <2>1. first.pending_inconsistency + n - n = 0  BY <1>2
    <2> QED  BY <1>1, <2>1
  <1> QED  BY <1>2, <1>3 DEF Stats

LEMMA PublishInv ==
    ASSUME PipelineInv, ~draining, UNCHANGED <<merged, draining, drainedFrom>>,
           NEW v \in Venues, NEW seq \in SeqNumbers, NEW q \in Seq(SeqNumbers), NEW counted,
           Counting(counted), PublishInOrder(v, seq, q, counted)
    PROVE  PipelineInv'
  <1> DEFINE t == trackers[v]
             u == OnSequence(t, seq)
             e == u.next_expected
             released == seq + 1 .. seq + ReleasedCount(t, seq) - 1
             p == <<seq>> \o Ascending(released \cap pending[v])
             left == EvictBehind(q, trackers'[v].next_expected)
  <1>0. seq \in Nat /\ t \in TrackerType /\ Windowed(t) /\ pending[v] = HeldTags(t)
        /\ pending[v] \in SUBSET SeqNumbers
    BY VenueParts, PipelineAssumption
  <1>1. /\ StatusOf(t, seq) = "InOrder" /\ trackers' = [trackers EXCEPT ![v] = u]
        /\ pending' = [pending EXCEPT ![v] = pending[v] \ released]
        /\ queues' = [queues EXCEPT ![v] = queues[v] \o p]
        /\ store' = [store EXCEPT ![v] = left]
        /\ stats' = [counted EXCEPT !.accepted = @ + Len(p),
                                    !.pending_inconsistency = @ + ReleasedCount(t, seq) - Len(p)]
    BY DEF PublishInOrder, Push
  <1>2. /\ u \in TrackerType /\ Windowed(u) /\ seq = t.next_expected
        /\ e \in Nat /\ e > seq /\ ReleasedCount(t, seq) = e - seq
        /\ HeldTags(u) = {s \in HeldTags(t) : s > e}
        /\ \A k \in seq + 1 .. e - 1 : k \in HeldTags(t)
        /\ e \notin HeldTags(t)
    BY <1>0, <1>1, AfterInOrder
  <1>3. trackers'[v] = u /\ trackers' \in [Venues -> TrackerType]
        /\ \A w \in Venues : w # v => trackers'[w] = trackers[w]
    BY <1>1, <1>2 DEF PipelineInv, TypeOK
  <1> HIDE DEF u
  <1>4. released = seq + 1 .. e - 1  BY <1>0, <1>2
  <1>5. IsRun(p, seq, e)  BY <1>0, <1>2, <1>4, PublishedRun
  <1>6. Len(p) = e - seq /\ trackers'[v].next_expected = e  BY <1>3, <1>5 DEF IsRun
  <1>7. left \in Seq(SeqNumbers)  BY <1>2, <1>6, EvictType
  <1> HIDE DEF p, left
  <1>8. stats' \in Stats /\ stats'.pending_inconsistency = 0
        /\ stats'.dropped_gap_too_large = stats.dropped_gap_too_large
    <2> DEFINE n == Len(p)
    <2>1. n \in Nat /\ ReleasedCount(t, seq) = n  BY <1>0, <1>2, <1>6
    <2>2. stats' = [counted EXCEPT !.accepted = @ + n, !.pending_inconsistency = @ + n - n]
      BY <1>1, <2>1
    <2> HIDE DEF n
    <2> QED  BY <2>1, <2>2, AcceptedStats
  <1>9. /\ queues' \in [Venues -> Seq(SeqNumbers)] /\ PublishedInOrder'
        /\ \A w \in Venues : w # v => Published(w)' = Published(w)
        /\ Published(v)' = Published(v) \cup (seq .. e - 1)
    <2>1. RunPublished(v, seq, e)  BY <1>0, <1>1, <1>2, <1>3, <1>5, <1>6, PublishedGrows
    <2> QED  BY <2>1 DEF RunPublished
  <1>10. pending'[v] = HeldTags(trackers'[v]) /\ pending' \in [Venues -> SUBSET SeqNumbers]
         /\ \A w \in Venues : w # v => pending'[w] = pending[w]
    <2>1. pending[v] \ released = {s \in HeldTags(t) : s > e}
      <3> SUFFICES ASSUME NEW s \in HeldTags(t) PROVE s \notin seq + 1 .. e - 1 <=> s > e
        BY <1>0, <1>4
      <3>1. s \in Nat /\ s > seq  BY <1>0, <1>2, HeldInWindow
      <3>2. s # e  BY <1>2
      <3> QED  BY <1>0, <1>2, <3>1, <3>2
    <2> HIDE DEF released
    <2> QED  BY <1>0, <1>1, <1>2, <1>3, <2>1 DEF PipelineInv, TypeOK
  <1>11. TypeOK'
    <2>1. store' \in [Venues -> Seq(SeqNumbers)]  BY <1>1, <1>7 DEF PipelineInv, TypeOK
    <2> QED  BY <1>3, <1>8, <1>9, <1>10, <2>1 DEF PipelineInv, TypeOK
  <1>12. \A w \in Venues : Windowed(trackers'[w]) /\ pending'[w] = HeldTags(trackers'[w])
    <2> TAKE w \in Venues
    <2>1. CASE w = v  BY <1>2, <1>3, <1>10, <2>1
    <2>2. CASE w # v  BY <1>3, <1>10, <2>2, VenueParts
    <2> QED  BY <2>1, <2>2
  <1>13. PendingMatchesTags'  BY <1>8, <1>12 DEF PendingMatchesTags
  <1>14. NoLossWithoutForcedAdvance'
    <2> SUFFICES ASSUME stats'.dropped_gap_too_large = 0, NEW w \in Venues
                 PROVE  Published(w)' = 1 .. trackers'[w].next_expected - 1
      BY DEF NoLossWithoutForcedAdvance
    <2>1. Published(w) = 1 .. trackers[w].next_expected - 1
      BY <1>8 DEF PipelineInv, NoLossWithoutForcedAdvance
    <2>2. CASE w # v  BY <1>3, <1>9, <2>1, <2>2
    <2>3. CASE w = v
      <3>1. Published(v)' = (1 .. seq - 1) \cup (seq .. e - 1)  BY <1>2, <1>9, <2>1, <2>3
      <3>2. (1 .. seq - 1) \cup (seq .. e - 1) = 1 .. e - 1
        <4>1. seq \in Nat \ {0}  BY <1>2, VenueParts
        <4> QED  BY <1>2, <4>1
      <3> QED  BY <1>6, <2>3, <3>1, <3>2
    <2> QED  BY <2>2, <2>3
  <1>15. Merging'  BY DEF PipelineInv, Merging, MergedInOrder, SentGoesFirst
  <1> QED  BY <1>9, <1>11, <1>12, <1>13, <1>14, <1>15 DEF PipelineInv

LEMMA ProcessInv ==
    ASSUME PipelineInv, ~draining, UNCHANGED <<merged, draining, drainedFrom>>,
           NEW v \in Venues, NEW seq \in SeqNumbers, NEW q \in Seq(SeqNumbers), NEW counted,
           Counting(counted), ProcessEvent(v, seq, q, counted)
    PROVE  PipelineInv'
  BY DropInv, ForceInv, BufferInv, PublishInv DEF ProcessEvent

------------------------------------------------------------------------------
(* The merge. *)

LEMMA EventTime ==
    ASSUME NEW a \in Event
    PROVE  /\ ExchangeTs[a.venue][a.sequence] \in Nat /\ a.venue \in Nat /\ a.sequence \in Nat
           /\ a.venue \in Venues /\ a.sequence \in SeqNumbers
  <1>1. a.venue \in Venues /\ a.sequence \in SeqNumbers  BY DEF Event
  <1>2. ExchangeTs[a.venue][a.sequence] \in Nat  BY <1>1, PipelineAssumption, Zenon
  <1>3. a.venue \in Nat /\ a.sequence \in Nat  BY <1>1, PipelineAssumption, VenuesAssumption
  <1> QED  BY <1>1, <1>2, <1>3

LEMMA LessTransitive ==
    ASSUME NEW a \in Event, NEW b \in Event, NEW c \in Event, LessEvent(a, b), LessEvent(b, c)
    PROVE  LessEvent(a, c)
  <1> DEFINE ta == ExchangeTs[a.venue][a.sequence]
             tb == ExchangeTs[b.venue][b.sequence]
             tc == ExchangeTs[c.venue][c.sequence]
  <1>1. ta \in Nat /\ a.venue \in Nat /\ a.sequence \in Nat  BY EventTime
  <1>2. tb \in Nat /\ b.venue \in Nat /\ b.sequence \in Nat  BY EventTime
  <1>3. tc \in Nat /\ c.venue \in Nat /\ c.sequence \in Nat  BY EventTime
  <1>4. \/ ta < tb
        \/ ta = tb /\ a.venue < b.venue
        \/ ta = tb /\ a.venue = b.venue /\ a.sequence < b.sequence
    BY DEF LessEvent
  <1>5. \/ tb < tc
        \/ tb = tc /\ b.venue < c.venue
        \/ tb = tc /\ b.venue = c.venue /\ b.sequence < c.sequence
    BY DEF LessEvent
  <1> SUFFICES \/ ta < tc
               \/ ta = tc /\ a.venue < c.venue
               \/ ta = tc /\ a.venue = c.venue /\ a.sequence < c.sequence
    BY DEF LessEvent
  <1> HIDE DEF ta, tb, tc
  <1> QED  BY <1>1, <1>2, <1>3, <1>4, <1>5

LEMMA QueueParts ==
    ASSUME NEW q \in Seq(SeqNumbers), q # <<>>
    PROVE  /\ Head(q) \in SeqNumbers /\ Head(q) = q[1] /\ Tail(q) \in Seq(SeqNumbers)
           /\ 1 \in DOMAIN q
           /\ \A n \in DOMAIN Tail(q) : /\ n \in Nat \ {0} /\ n + 1 \in DOMAIN q
                                        /\ Tail(q)[n] = q[n + 1]
           /\ \A n \in DOMAIN q : n \in Nat /\ (n = 1 \/ n - 1 \in DOMAIN Tail(q))
  <1>1. Len(q) \in Nat /\ Len(q) # 0 /\ DOMAIN q = 1 .. Len(q)  BY EmptySeq, LenProperties
  <1>2. /\ Head(q) \in SeqNumbers /\ Tail(q) \in Seq(SeqNumbers)
        /\ Len(Tail(q)) = Len(q) - 1
        /\ \A i \in 1 .. Len(Tail(q)) : Tail(q)[i] = q[i + 1]
    BY HeadTailProperties
  <1>3. Head(q) = q[1]  BY <1>1
  <1>4. DOMAIN Tail(q) = 1 .. Len(q) - 1  BY <1>2, LenProperties
  <1> QED  BY <1>1, <1>2, <1>3, <1>4

(* pop_next's choice. *)
LEMMA BestVenueLeast ==
    ASSUME NEW q \in [Venues -> Seq(SeqNumbers)], ~NothingQueued(q)
    PROVE  /\ BestVenue(q) \in Venues /\ q[BestVenue(q)] # <<>>
           /\ \A u \in Venues \ {BestVenue(q)} :
                 q[u] # <<>> => LessEvent(FrontOf(q, BestVenue(q)), FrontOf(q, u))
  <1> DEFINE W == {v \in Venues : q[v] # <<>>}
             T == [v \in W |-> ExchangeTs[v][Head(q[v])]]
  <1>1. W \subseteq Nat /\ W # {}  BY VenuesAssumption DEF NothingQueued
  <1>2. T \in [W -> Nat]
    <2> SUFFICES ASSUME NEW v \in W PROVE ExchangeTs[v][Head(q[v])] \in Nat  OBVIOUS
    <2>1. q[v] \in Seq(SeqNumbers) /\ q[v] # <<>>  OBVIOUS
    <2>2. Head(q[v]) \in SeqNumbers  BY <2>1, QueueParts
    <2> QED  BY <2>2, PipelineAssumption, Zenon
  <1>3. \A v \in W : T[v] = ExchangeTs[v][Head(q[v])]  OBVIOUS
  <1>w. W \subseteq Venues  OBVIOUS
  <1>7. BestVenue(q) = CHOOSE v \in W : \A u \in W \ {v} : LessEvent(FrontOf(q, v), FrontOf(q, u))
    BY DEF BestVenue
  <1>8. \A u \in Venues : q[u] # <<>> <=> u \in W  OBVIOUS
  <1> HIDE DEF T, W
  <1>4. PICK b \in W : \A u \in W \ {b} : T[b] < T[u] \/ (T[b] = T[u] /\ b < u)
    <2> DEFINE Times == {T[v] : v \in W}
    <2>1. Times \subseteq Nat /\ Times # {}  BY <1>1, <1>2
    <2>2. PICK t \in Times : \A y \in Times : t <= y
      <3> HIDE DEF Times
      <3> QED  BY <2>1, LeastMember
    <2> DEFINE First == {v \in W : T[v] = t}
    <2>3. First \subseteq Nat /\ First # {}  BY <1>1, <2>2
    <2>4. PICK b \in First : \A u \in First : b <= u
      <3> HIDE DEF First
      <3> QED  BY <2>3, LeastMember
    <2>5. ASSUME NEW u \in W \ {b} PROVE T[b] < T[u] \/ (T[b] = T[u] /\ b < u)
      <3>1. T[b] = t /\ T[u] \in Nat /\ t \in Nat /\ b \in Nat /\ u \in Nat
        BY <1>1, <1>2, <2>1, <2>2, <2>4
      <3>2. t <= T[u]  BY <2>2
      <3>3. CASE T[u] = t
        <4>1. u \in First  BY <3>3
        <4>2. b <= u /\ b # u  BY <2>4, <2>5, <4>1
        <4> QED  BY <3>1, <3>3, <4>2
      <3>4. CASE T[u] # t  BY <3>1, <3>2, <3>4
      <3> QED  BY <3>3, <3>4
    <2> QED  BY <2>4, <2>5
  <1>5. \A u \in W \ {b} : LessEvent(FrontOf(q, b), FrontOf(q, u))
    <2> TAKE u \in W \ {b}
    <2>1. T[b] < T[u] \/ (T[b] = T[u] /\ b < u)  BY <1>4
    <2>2. T[b] = ExchangeTs[b][Head(q[b])] /\ T[u] = ExchangeTs[u][Head(q[u])]  BY <1>3
    <2> QED  BY <2>1, <2>2 DEF LessEvent, FrontOf
  <1>6. \E v \in W : \A u \in W \ {v} : LessEvent(FrontOf(q, v), FrontOf(q, u))
    BY <1>5
  <1>9. /\ BestVenue(q) \in W
        /\ \A u \in W \ {BestVenue(q)} : LessEvent(FrontOf(q, BestVenue(q)), FrontOf(q, u))
    BY <1>6, <1>7
  <1> QED  BY <1>8, <1>9, <1>w

(* The n-th event that venue v has in its queue. *)
Queued(v, n) == [venue |-> v, sequence |-> queues[v][n]]

LEMMA QueuedEvent ==
    ASSUME PipelineInv, NEW v \in Venues, NEW n \in DOMAIN queues[v]
    PROVE  /\ Queued(v, n) \in Event /\ Queued(v, n).venue = v
           /\ Queued(v, n).sequence = queues[v][n]
           /\ queues[v][n] \in SeqNumbers /\ queues[v][n] \in Nat
  <1>1. queues[v] \in Seq(SeqNumbers)  BY VenueParts
  <1>2. \A k \in DOMAIN queues[v] : queues[v][k] \in SeqNumbers  BY <1>1
  <1>3. queues[v][n] \in SeqNumbers /\ SeqNumbers \subseteq Nat  BY <1>2, PipelineAssumption
  <1> QED  BY <1>3 DEF Queued, Event

(* Within a venue's queue the merge order is the order of the queue. *)
LEMMA QueueInOrder ==
    ASSUME PipelineInv, TimesMonotone, NEW v \in Venues, NEW m \in DOMAIN queues[v],
           NEW n \in DOMAIN queues[v], m < n
    PROVE  LessEvent(Queued(v, m), Queued(v, n))
  <1> DEFINE a == queues[v][m]
             b == queues[v][n]
  <1>1. /\ Queued(v, m).venue = v /\ Queued(v, m).sequence = a
        /\ Queued(v, n).venue = v /\ Queued(v, n).sequence = b
        /\ a \in SeqNumbers /\ b \in SeqNumbers
    BY QueuedEvent
  <1>2. a < b  BY DEF PipelineInv, PublishedInOrder
  <1> HIDE DEF a, b
  <1>3. ExchangeTs[v][a] <= ExchangeTs[v][b]  BY <1>1, <1>2 DEF TimesMonotone
  <1>4. ExchangeTs[v][a] \in Nat /\ ExchangeTs[v][b] \in Nat  BY <1>1, PipelineAssumption, Zenon
  <1>5. ExchangeTs[v][a] < ExchangeTs[v][b] \/ ExchangeTs[v][a] = ExchangeTs[v][b]  BY <1>3, <1>4
  <1> QED  BY <1>1, <1>2, <1>5 DEF LessEvent

(* What pop_next takes goes before everything else that is queued. *)
LEMMA BestGoesFirst ==
    ASSUME PipelineInv, TimesMonotone, ~NothingQueued(queues), NEW b, b = BestVenue(queues),
           NEW v \in Venues, NEW n \in DOMAIN queues[v], v # b \/ n # 1
    PROVE  LessEvent(Queued(b, 1), Queued(v, n))
  <1>1. queues \in [Venues -> Seq(SeqNumbers)]  BY DEF PipelineInv, TypeOK
  <1>2. /\ b \in Venues /\ queues[b] # <<>>
        /\ \A u \in Venues \ {b} :
              queues[u] # <<>> => LessEvent(FrontOf(queues, b), FrontOf(queues, u))
    BY <1>1, BestVenueLeast
  <1>3. queues[v] \in Seq(SeqNumbers) /\ queues[v] # <<>>  BY <1>1
  <1>4. /\ 1 \in DOMAIN queues[v] /\ 1 \in DOMAIN queues[b]
        /\ FrontOf(queues, b) = Queued(b, 1) /\ FrontOf(queues, v) = Queued(v, 1)
    <2>1. queues[b] \in Seq(SeqNumbers)  BY <1>1, <1>2
    <2>2. Head(queues[b]) = queues[b][1] /\ 1 \in DOMAIN queues[b]  BY <1>2, <2>1, QueueParts
    <2>3. Head(queues[v]) = queues[v][1] /\ 1 \in DOMAIN queues[v]  BY <1>3, QueueParts
    <2> QED  BY <2>2, <2>3 DEF FrontOf, Queued
  <1>5. n # 1 => 1 < n
    <2>1. n \in 1 .. Len(queues[v]) /\ Len(queues[v]) \in Nat  BY <1>3, LenProperties
    <2> QED  BY <2>1
  <1>6. n # 1 => LessEvent(Queued(v, 1), Queued(v, n))  BY <1>4, <1>5, QueueInOrder
  <1>7. v # b => LessEvent(Queued(b, 1), Queued(v, 1))  BY <1>2, <1>3, <1>4
  <1>8. Queued(b, 1) \in Event /\ Queued(v, 1) \in Event /\ Queued(v, n) \in Event
    BY <1>2, <1>4, QueuedEvent
  <1>9. CASE v = b  BY <1>6, <1>9
  <1>10. CASE v # b /\ n = 1  BY <1>7, <1>10
  <1>11. CASE v # b /\ n # 1  BY <1>6, <1>7, <1>8, <1>11, LessTransitive
  <1> QED  BY <1>9, <1>10, <1>11

(* The step: the first event of queue b moves to the sink. *)
Pops(b) ==
    /\ b \in Venues /\ queues[b] # <<>> /\ 1 \in DOMAIN queues[b]
    /\ Queued(b, 1) \in Event
    /\ queues' \in [Venues -> Seq(SeqNumbers)]
    /\ \A u \in Venues : u # b => queues'[u] = queues[u]
    /\ \A n \in DOMAIN queues'[b] : /\ n \in Nat \ {0} /\ n + 1 \in DOMAIN queues[b]
                                    /\ queues'[b][n] = queues[b][n + 1]
    /\ \A n \in DOMAIN queues[b] : n \in Nat /\ (n = 1 \/ n - 1 \in DOMAIN queues'[b])
    /\ merged' \in Seq(Event) /\ Len(merged') = Len(merged) + 1 /\ Len(merged) \in Nat
    /\ merged'[Len(merged) + 1] = Queued(b, 1)
    /\ \A i \in 1 .. Len(merged) : merged'[i] = merged[i]
    /\ DOMAIN merged = 1 .. Len(merged) /\ DOMAIN merged' = 1 .. Len(merged) + 1

LEMMA PopsFirst ==
    ASSUME PipelineInv, PopNext PROVE Pops(BestVenue(queues))
  <1> DEFINE b == BestVenue(queues)
  <1>1. queues \in [Venues -> Seq(SeqNumbers)] /\ merged \in Seq(Event)  BY DEF PipelineInv, TypeOK
  <1>2. b \in Venues /\ queues[b] # <<>>  BY <1>1, BestVenueLeast DEF PopNext
  <1>3. merged' = Append(merged, FrontOf(queues, b))
        /\ queues' = [queues EXCEPT ![b] = Tail(queues[b])]
    BY DEF PopNext, PopBest
  <1> HIDE DEF b
  <1>4. /\ Head(queues[b]) = queues[b][1] /\ Tail(queues[b]) \in Seq(SeqNumbers)
        /\ 1 \in DOMAIN queues[b]
        /\ \A n \in DOMAIN Tail(queues[b]) : /\ n \in Nat \ {0} /\ n + 1 \in DOMAIN queues[b]
                                             /\ Tail(queues[b])[n] = queues[b][n + 1]
        /\ \A n \in DOMAIN queues[b] : n \in Nat /\ (n = 1 \/ n - 1 \in DOMAIN Tail(queues[b]))
    <2>1. queues[b] \in Seq(SeqNumbers)  BY <1>1, <1>2
    <2> QED  BY <1>2, <2>1, QueueParts
  <1>5. /\ queues' \in [Venues -> Seq(SeqNumbers)] /\ queues'[b] = Tail(queues[b])
        /\ \A u \in Venues : u # b => queues'[u] = queues[u]
    BY <1>1, <1>2, <1>3, <1>4
  <1>6. FrontOf(queues, b) = Queued(b, 1) /\ Queued(b, 1) \in Event
    BY <1>2, <1>4, QueuedEvent DEF FrontOf, Queued
  <1> DEFINE x == Queued(b, 1)
  <1> HIDE DEF x
  <1>7. x \in Event /\ merged' = Append(merged, x)  BY <1>3, <1>6 DEF x
  <1>8. /\ merged' \in Seq(Event) /\ Len(merged') = Len(merged) + 1 /\ Len(merged) \in Nat
        /\ merged'[Len(merged) + 1] = x
        /\ \A i \in 1 .. Len(merged) : merged'[i] = merged[i]
        /\ DOMAIN merged = 1 .. Len(merged) /\ DOMAIN merged' = 1 .. Len(merged) + 1
    BY <1>1, <1>7, AppendProperties, LenProperties
  <1>9. Pops(b)  BY <1>2, <1>4, <1>5, <1>6, <1>8 DEF Pops, x
  <1> QED  BY <1>9 DEF b

(* A number left in a queue was there before, behind the first if it is b's.  *)
LEMMA LeftInQueue ==
    ASSUME NEW b, Pops(b), NEW v \in Venues, NEW n \in DOMAIN queues'[v]
    PROVE  \E k \in DOMAIN queues[v] : queues'[v][n] = queues[v][k] /\ (v = b => k # 1)
  <1>1. CASE v # b  BY <1>1 DEF Pops
  <1>2. CASE v = b
    <2>1. n \in Nat \ {0} /\ n + 1 \in DOMAIN queues[b] /\ queues'[b][n] = queues[b][n + 1]
      BY <1>2 DEF Pops
    <2>2. n + 1 # 1  BY <2>1
    <2> QED  BY <1>2, <2>1, <2>2
  <1> QED  BY <1>1, <1>2

LEMMA PopsPublished ==
    ASSUME NEW b, Pops(b), NEW v \in Venues
    PROVE  Published(v)' = Published(v)
  <1> DEFINE m == Len(merged)
  <1>1. m \in Nat /\ DOMAIN merged = 1 .. m /\ DOMAIN merged' = 1 .. m + 1
        /\ (\A i \in 1 .. m : merged'[i] = merged[i]) /\ merged'[m + 1] = Queued(b, 1)
    BY DEF Pops
  <1> HIDE DEF m
  <1>2. \A i : i \in DOMAIN merged' <=> i \in DOMAIN merged \/ i = m + 1  BY <1>1
  <1>3. Queued(b, 1).venue = b /\ Queued(b, 1).sequence = queues[b][1]  BY DEF Queued
  <1> DEFINE M == {merged[i].sequence : i \in {j \in DOMAIN merged : merged[j].venue = v}}
             N == {merged'[i].sequence : i \in {j \in DOMAIN merged' : merged'[j].venue = v}}
             Q == {queues[v][n] : n \in DOMAIN queues[v]}
             R == {queues'[v][n] : n \in DOMAIN queues'[v]}
  <1>4. Published(v) = M \cup Q /\ Published(v)' = N \cup R  BY DEF Published
  <1>5. CASE v # b
    <2>1. R = Q  BY <1>5 DEF Pops
    <2>2. N = M
      <3>1. \A i \in DOMAIN merged : i \in DOMAIN merged' /\ merged'[i] = merged[i]  BY <1>1
      <3>2. \A i \in DOMAIN merged' : merged'[i].venue = v => i \in DOMAIN merged
        BY <1>1, <1>2, <1>3, <1>5
      <3> QED  BY <3>1, <3>2
    <2> QED  BY <1>4, <2>1, <2>2
  <1>6. CASE v = b
    <2>1. N = M \cup {queues[b][1]}
      <3>1. \A i \in DOMAIN merged : i \in DOMAIN merged' /\ merged'[i] = merged[i]  BY <1>1
      <3>2. m + 1 \in DOMAIN merged' /\ merged'[m + 1].venue = v
            /\ merged'[m + 1].sequence = queues[b][1]
        BY <1>1, <1>3, <1>6
      <3> QED  BY <1>2, <3>1, <3>2
    <2>2. Q = R \cup {queues[b][1]}
      <3>1. \A n \in DOMAIN queues'[b] : n + 1 \in DOMAIN queues[b] /\ queues'[b][n] = queues[b][n + 1]
        BY DEF Pops
      <3>2. \A n \in DOMAIN queues[b] :
                n = 1 \/ (n - 1 \in DOMAIN queues'[b] /\ queues[b][n] = queues'[b][n - 1])
        <4> TAKE n \in DOMAIN queues[b]
        <4>1. CASE n # 1
          <5>1. n - 1 \in DOMAIN queues'[b] /\ n \in Nat  BY <4>1 DEF Pops
          <5>2. queues'[b][n - 1] = queues[b][(n - 1) + 1]  BY <3>1, <5>1
          <5> QED  BY <5>1, <5>2
        <4> QED  BY <4>1
      <3>3. 1 \in DOMAIN queues[b]  BY DEF Pops
      <3> QED  BY <1>6, <3>1, <3>2, <3>3
    <2> QED  BY <1>4, <2>1, <2>2
  <1> QED  BY <1>5, <1>6

LEMMA PopsInOrder ==
    ASSUME PipelineInv, NEW b, Pops(b), trackers' = trackers
    PROVE  PublishedInOrder'
  <1> DEFINE m == Len(merged)
             x == Queued(b, 1)
  <1>1. m \in Nat /\ DOMAIN merged = 1 .. m /\ DOMAIN merged' = 1 .. m + 1
        /\ (\A i \in 1 .. m : merged'[i] = merged[i]) /\ merged'[m + 1] = x
        /\ b \in Venues /\ 1 \in DOMAIN queues[b]
    BY DEF Pops
  <1>2. x.venue = b /\ x.sequence = queues[b][1]  BY DEF Queued
  <1> HIDE DEF m, x
  <1>3. \A i \in DOMAIN merged' : (i \in DOMAIN merged /\ merged'[i] = merged[i])
                                  \/ (i = m + 1 /\ merged'[i] = x)
    BY <1>1
  <1>4. ASSUME NEW i \in DOMAIN merged', NEW j \in DOMAIN merged', i < j,
               merged'[i].venue = merged'[j].venue
        PROVE  merged'[i].sequence < merged'[j].sequence
    <2>1. i \in 1 .. m /\ merged'[i] = merged[i]  BY <1>1, <1>4
    <2>2. CASE j \in 1 .. m  BY <1>1, <1>4, <2>1, <2>2 DEF PipelineInv, PublishedInOrder
    <2>3. CASE j = m + 1
      <3>1. merged[i].venue = b /\ merged'[j].sequence = queues[b][1]
        BY <1>1, <1>2, <1>4, <2>1, <2>3
      <3> QED  BY <1>1, <2>1, <3>1 DEF PipelineInv, PublishedInOrder
    <2> QED  BY <1>1, <2>2, <2>3
  <1>5. ASSUME NEW i \in DOMAIN merged', NEW n \in DOMAIN queues'[merged'[i].venue]
        PROVE  merged'[i].sequence < queues'[merged'[i].venue][n]
    <2> DEFINE v == merged'[i].venue
    <2>1. v \in Venues
      <3>1. CASE i \in DOMAIN merged /\ merged'[i] = merged[i]  BY <3>1, OutputBelow
      <3>2. CASE merged'[i] = x  BY <1>1, <1>2, <3>2
      <3> QED  BY <1>3, <3>1, <3>2
    <2>2. PICK k \in DOMAIN queues[v] : queues'[v][n] = queues[v][k] /\ (v = b => k # 1)
      BY <2>1, LeftInQueue
    <2>3. CASE i \in DOMAIN merged /\ merged'[i] = merged[i]
      BY <2>2, <2>3 DEF PipelineInv, PublishedInOrder
    <2>4. CASE merged'[i] = x
      <3>1. v = b /\ k # 1 /\ merged'[i].sequence = queues[b][1]  BY <1>2, <2>2, <2>4
      <3>2. 1 < k
        <4>1. queues[v] \in Seq(SeqNumbers)  BY <2>1, VenueParts
        <4>2. k \in 1 .. Len(queues[v]) /\ Len(queues[v]) \in Nat  BY <4>1, LenProperties
        <4> QED  BY <3>1, <4>2
      <3> QED  BY <1>1, <2>2, <3>1, <3>2 DEF PipelineInv, PublishedInOrder
    <2> QED  BY <1>3, <2>3, <2>4
  <1>6. ASSUME NEW v \in Venues, NEW k \in DOMAIN queues'[v], NEW n \in DOMAIN queues'[v], k < n
        PROVE  queues'[v][k] < queues'[v][n]
    <2>1. CASE v # b
      <3>1. queues'[v] = queues[v]  BY <2>1 DEF Pops
      <3> QED  BY <1>6, <3>1 DEF PipelineInv, PublishedInOrder
    <2>2. CASE v = b
      <3>1. /\ k \in Nat /\ k + 1 \in DOMAIN queues[b] /\ queues'[b][k] = queues[b][k + 1]
            /\ n \in Nat /\ n + 1 \in DOMAIN queues[b] /\ queues'[b][n] = queues[b][n + 1]
        BY <2>2 DEF Pops
      <3>2. k + 1 < n + 1  BY <1>6, <3>1
      <3>3. queues[b][k + 1] < queues[b][n + 1]
        BY <1>1, <3>1, <3>2 DEF PipelineInv, PublishedInOrder
      <3> QED  BY <2>2, <3>1, <3>3
    <2> QED  BY <2>1, <2>2
  <1>7. \A v \in Venues : \A s \in Published(v)' : s < trackers'[v].next_expected
    BY PopsPublished DEF PipelineInv, PublishedInOrder
  <1> QED  BY <1>4, <1>5, <1>6, <1>7 DEF PublishedInOrder

LEMMA PopsMerging ==
    ASSUME PipelineInv, PopNext, NEW b, b = BestVenue(queues), Pops(b), TimesMonotone
    PROVE  MergedInOrder' /\ SentGoesFirst'
  <1> DEFINE m == Len(merged)
             x == Queued(b, 1)
             d == drainedFrom
  <1>1. /\ m \in Nat /\ DOMAIN merged = 1 .. m /\ DOMAIN merged' = 1 .. m + 1
        /\ (\A i \in 1 .. m : merged'[i] = merged[i]) /\ merged'[m + 1] = x
        /\ b \in Venues /\ 1 \in DOMAIN queues[b] /\ Len(merged') = m + 1
    BY DEF Pops
  <1>2. d \in 0 .. m /\ drainedFrom' = d  BY DEF PipelineInv, TypeOK, PopNext
  <1>3. MergedInOrder
        /\ \A i \in d + 1 .. m, v \in Venues : \A n \in DOMAIN queues[v] :
               LessEvent(merged[i], Queued(v, n))
    BY DEF PipelineInv, Merging, SentGoesFirst, PopNext, Queued
  <1>4. ~NothingQueued(queues)  BY DEF PopNext
  <1>5. \A i, j \in d + 1 .. m : i < j => LessEvent(merged[i], merged[j])
    BY <1>3 DEF MergedInOrder
  <1> HIDE DEF m, x, d
  <1>6. ASSUME NEW i \in d + 1 .. m + 1, NEW j \in d + 1 .. m + 1, i < j
        PROVE  LessEvent(merged'[i], merged'[j])
    <2>1. i \in d + 1 .. m /\ i \in 1 .. m  BY <1>1, <1>2, <1>6
    <2>2. CASE j = m + 1
      <3>1. LessEvent(merged[i], x)  BY <1>1, <1>3, <2>1 DEF x
      <3> QED  BY <1>1, <2>1, <2>2, <3>1
    <2>3. CASE j # m + 1
      <3>1. j \in d + 1 .. m /\ j \in 1 .. m  BY <1>1, <1>2, <2>3
      <3> QED  BY <1>1, <1>5, <1>6, <2>1, <3>1
    <2> QED  BY <2>2, <2>3
  <1>7. ASSUME NEW i \in d + 1 .. m + 1, NEW v \in Venues, NEW n \in DOMAIN queues'[v]
        PROVE  LessEvent(merged'[i], [venue |-> v, sequence |-> queues'[v][n]])
    <2>1. PICK k \in DOMAIN queues[v] : queues'[v][n] = queues[v][k] /\ (v = b => k # 1)
      BY LeftInQueue
    <2>2. [venue |-> v, sequence |-> queues'[v][n]] = Queued(v, k)  BY <2>1 DEF Queued
    <2>3. CASE i = m + 1
      <3>1. LessEvent(x, Queued(v, k))  BY <1>4, <2>1, BestGoesFirst DEF x
      <3> QED  BY <1>1, <2>2, <2>3, <3>1
    <2>4. CASE i # m + 1
      <3>1. i \in d + 1 .. m /\ i \in 1 .. m  BY <1>1, <1>2, <2>4
      <3>2. LessEvent(merged[i], Queued(v, k))  BY <1>3, <3>1
      <3> QED  BY <1>1, <2>2, <3>1, <3>2
    <2> QED  BY <2>3, <2>4
  <1>8. MergedInOrder'  BY <1>1, <1>2, <1>6 DEF MergedInOrder
  <1>9. SentGoesFirst'  BY <1>1, <1>2, <1>7 DEF SentGoesFirst
  <1> QED  BY <1>8, <1>9

LEMMA PopInv ==
    ASSUME PipelineInv, PopNext PROVE PipelineInv'
  <1> DEFINE b == BestVenue(queues)
  <1>1. Pops(b)  BY PopsFirst
  <1>2. UNCHANGED <<trackers, pending, store, draining, stats, drainedFrom>>  BY DEF PopNext
  <1> HIDE DEF b
  <1>3. TypeOK'
    <2>1. queues' \in [Venues -> Seq(SeqNumbers)] /\ merged' \in Seq(Event)
          /\ Len(merged') = Len(merged) + 1 /\ Len(merged) \in Nat
      BY <1>1 DEF Pops
    <2>2. drainedFrom' \in 0 .. Len(merged')
      <3>1. drainedFrom \in 0 .. Len(merged)  BY DEF PipelineInv, TypeOK
      <3> QED  BY <1>2, <2>1, <3>1
    <2> QED  BY <1>2, <2>1, <2>2 DEF PipelineInv, TypeOK
  <1>4. PublishedInOrder'  BY <1>1, <1>2, PopsInOrder
  <1>5. NoLossWithoutForcedAdvance'
    BY <1>1, <1>2, PopsPublished DEF PipelineInv, NoLossWithoutForcedAdvance
  <1>6. TimesMonotone' <=> TimesMonotone  BY DEF TimesMonotone
  <1>7. Merging'
    <2>1. TimesMonotone => MergedInOrder' /\ SentGoesFirst'  BY <1>1, PopsMerging DEF b
    <2> QED  BY <1>6, <2>1 DEF Merging
  <1>8. PendingMatchesTags'  BY <1>2 DEF PipelineInv, PendingMatchesTags
  <1>9. \A v \in Venues : Windowed(trackers'[v])  BY <1>2 DEF PipelineInv
  <1> QED  BY <1>3, <1>4, <1>5, <1>7, <1>8, <1>9 DEF PipelineInv

------------------------------------------------------------------------------
(* The steps of the pipeline. *)

LEMMA RecoveredHead ==
    ASSUME NEW r \in Seq(Event), r # <<>>
    PROVE  Head(r).venue \in Venues /\ Head(r).sequence \in SeqNumbers /\ Tail(r) \in Seq(Event)
  <1>1. Head(r) \in Event /\ Tail(r) \in Seq(Event)  BY HeadTailProperties
  <1> QED  BY <1>1 DEF Event

LEMMA OnEventInv ==
    ASSUME PipelineInv, RecoveryInv, NEW v \in Venues, NEW seq \in SeqNumbers, OnEvent(v, seq)
    PROVE  PipelineInv' /\ RecoveryInv'
  <1> DEFINE q == RecordEvent(store[v], seq)
             found == RequestRecovery(trackers[v], v, seq, q)
  <1>1. q \in Seq(SeqNumbers)
    <2>1. store[v] \in Seq(SeqNumbers)  BY DEF PipelineInv, TypeOK
    <2> QED  BY <2>1, RecordType
  <1>2. /\ ProcessEvent(v, seq, q, stats) /\ recovered' = simulated \o found
        /\ simulated' = <<>> /\ UNCHANGED <<merged, draining, drainedFrom>> /\ ~draining
    BY DEF OnEvent, Idle
  <1> HIDE DEF q
  <1>3. Counting(stats)  BY DEF Counting, PipelineInv, TypeOK, PendingMatchesTags
  <1>4. PipelineInv'  BY <1>1, <1>2, <1>3, ProcessInv
  <1>5. found \in Seq(Event)  BY <1>1, VenueParts, RequestType
  <1> HIDE DEF found
  <1>6. recovered' \in Seq(Event)
    <2>1. simulated \in Seq(Event)  BY DEF RecoveryInv
    <2> QED  BY <1>2, <1>5, <2>1, ConcatProperties
  <1>7. simulated' \in Seq(Event)  BY <1>2
  <1> QED  BY <1>2, <1>4, <1>6, <1>7 DEF RecoveryInv

LEMMA ReinjectInv ==
    ASSUME PipelineInv, RecoveryInv, Reinject PROVE PipelineInv' /\ RecoveryInv'
  <1> DEFINE v == Head(recovered).venue
             seq == Head(recovered).sequence
             counted == [stats EXCEPT !.recovery_reinjected = @ + 1]
             found == RequestRecovery(trackers[v], v, seq, store[v])
  <1>1. /\ recovered # <<>> /\ ProcessEvent(v, seq, store[v], counted)
        /\ simulated' = simulated \o found /\ recovered' = Tail(recovered)
        /\ UNCHANGED <<merged, draining, drainedFrom>>
    BY DEF Reinject
  <1>2. recovered \in Seq(Event) /\ simulated \in Seq(Event) /\ ~draining
    BY <1>1 DEF RecoveryInv
  <1>3. v \in Venues /\ seq \in SeqNumbers /\ Tail(recovered) \in Seq(Event)
    BY <1>1, <1>2, RecoveredHead
  <1> HIDE DEF v, seq
  <1>4. store[v] \in Seq(SeqNumbers)  BY <1>3 DEF PipelineInv, TypeOK
  <1>5. Counting(counted)
    <2>1. stats \in Stats /\ stats.pending_inconsistency = 0
      BY DEF PipelineInv, TypeOK, PendingMatchesTags
    <2> QED  BY <2>1 DEF Counting, Stats
  <1> HIDE DEF counted
  <1>6. PipelineInv'  BY <1>1, <1>2, <1>3, <1>4, <1>5, ProcessInv
  <1>7. found \in Seq(Event)  BY <1>3, <1>4, VenueParts, RequestType
  <1> HIDE DEF found
  <1>8. simulated' \in Seq(Event)  BY <1>1, <1>2, <1>7, ConcatProperties
  <1> QED  BY <1>1, <1>2, <1>3, <1>6, <1>8 DEF RecoveryInv

(* Nothing moves. *)
LEMMA PipelineStutters ==
    ASSUME PipelineInv, UNCHANGED <<trackers, pending, store, queues, merged, draining, stats,
                                    drainedFrom>>
    PROVE  PipelineInv'
  <1>1. TypeOK'  BY DEF PipelineInv, TypeOK
  <1>2. Merging'  BY DEF PipelineInv, Merging, TimesMonotone, MergedInOrder, SentGoesFirst
  <1>3. PublishedInOrder'  BY DEF PipelineInv, PublishedInOrder, Published
  <1>4. NoLossWithoutForcedAdvance'  BY DEF PipelineInv, NoLossWithoutForcedAdvance, Published
  <1>5. PendingMatchesTags'  BY DEF PipelineInv, PendingMatchesTags
  <1>6. \A v \in Venues : Windowed(trackers'[v])  BY DEF PipelineInv
  <1> QED  BY <1>1, <1>2, <1>3, <1>4, <1>5, <1>6 DEF PipelineInv

LEMMA SkipInv ==
    ASSUME PipelineInv, RecoveryInv, SkipPending PROVE PipelineInv' /\ RecoveryInv'
  <1>0. UNCHANGED <<trackers, pending, store, queues, merged, draining, stats, drainedFrom>>
    BY DEF SkipPending
  <1>1. PipelineInv'  BY <1>0, PipelineStutters
  <1>2. Tail(recovered) \in Seq(Event)  BY RecoveredHead DEF SkipPending, RecoveryInv
  <1> QED  BY <1>1, <1>2 DEF SkipPending, RecoveryInv

LEMMA FinalizeInv ==
    ASSUME PipelineInv, RecoveryInv, Finalize PROVE PipelineInv' /\ RecoveryInv'
  <1>1. /\ UNCHANGED <<trackers, pending, store, simulated, recovered, queues, merged, stats>>
        /\ drainedFrom' = Len(merged) /\ recovered = <<>> /\ draining' = TRUE
    BY DEF Finalize, Idle
  <1>2. Len(merged) \in Nat  BY LenProperties DEF PipelineInv, TypeOK
  <1>3. TypeOK'  BY <1>1, <1>2 DEF PipelineInv, TypeOK
  <1>4. Merging'
    <2>1. drainedFrom' + 1 .. Len(merged') = {}  BY <1>1, <1>2
    <2> QED  BY <2>1 DEF Merging, MergedInOrder, SentGoesFirst
  <1>5. PublishedInOrder'  BY <1>1 DEF PipelineInv, PublishedInOrder, Published
  <1>6. NoLossWithoutForcedAdvance'
    BY <1>1 DEF PipelineInv, NoLossWithoutForcedAdvance, Published
  <1>7. PendingMatchesTags'  BY <1>1 DEF PipelineInv, PendingMatchesTags
  <1>8. \A v \in Venues : Windowed(trackers'[v])  BY <1>1 DEF PipelineInv
  <1> QED  BY <1>1, <1>3, <1>4, <1>5, <1>6, <1>7, <1>8 DEF PipelineInv, RecoveryInv

LEMMA DrainedInv ==
    ASSUME PipelineInv, RecoveryInv, Drained PROVE PipelineInv' /\ RecoveryInv'
  <1>1. /\ UNCHANGED <<trackers, pending, store, simulated, recovered, queues, merged, drainedFrom>>
        /\ draining' = FALSE
        /\ stats' = [stats EXCEPT !.recovery_requests = stats.requests_total]
    BY DEF Drained
  <1>2. /\ stats' \in Stats /\ stats'.pending_inconsistency = stats.pending_inconsistency
        /\ stats'.dropped_gap_too_large = stats.dropped_gap_too_large
    <2>1. stats \in Stats  BY DEF PipelineInv, TypeOK
    <2> QED  BY <1>1, <2>1 DEF Stats
  <1>3. TypeOK'  BY <1>1, <1>2 DEF PipelineInv, TypeOK
  <1>4. Merging'  BY <1>1 DEF PipelineInv, Merging, TimesMonotone, MergedInOrder, SentGoesFirst
  <1>5. PublishedInOrder'  BY <1>1 DEF PipelineInv, PublishedInOrder, Published
  <1>6. NoLossWithoutForcedAdvance'
    BY <1>1, <1>2 DEF PipelineInv, NoLossWithoutForcedAdvance, Published
  <1>7. PendingMatchesTags'  BY <1>1, <1>2 DEF PipelineInv, PendingMatchesTags
  <1>8. \A v \in Venues : Windowed(trackers'[v])  BY <1>1 DEF PipelineInv
  <1> QED  BY <1>1, <1>3, <1>4, <1>5, <1>6, <1>7, <1>8 DEF PipelineInv, RecoveryInv

LEMMA PipelineInit ==
    ASSUME Init PROVE PipelineInv /\ RecoveryInv
  <1>1. /\ trackers = [v \in Venues |-> NewTracker] /\ pending = [v \in Venues |-> {}]
        /\ store = [v \in Venues |-> <<>>] /\ queues = [v \in Venues |-> <<>>]
        /\ simulated = <<>> /\ recovered = <<>> /\ merged = <<>> /\ draining = FALSE
        /\ stats = NoStats /\ drainedFrom = 0
    BY DEF Init, NoQueues
  <1>2. stats \in Stats /\ stats.pending_inconsistency = 0  BY <1>1 DEF Stats, NoStats
  <1>3. merged \in Seq(Event) /\ Len(merged) = 0 /\ DOMAIN merged = {}  BY <1>1, EmptySeq
  <1>4. \A v \in Venues : DOMAIN queues[v] = {} /\ trackers[v] = NewTracker  BY <1>1
  <1>5. TypeOK
    <2>1. <<>> \in Seq(SeqNumbers)  OBVIOUS
    <2>2. trackers \in [Venues -> TrackerType]  BY <1>1, NewTrackerFacts
    <2>3. /\ pending \in [Venues -> SUBSET SeqNumbers] /\ store \in [Venues -> Seq(SeqNumbers)]
          /\ queues \in [Venues -> Seq(SeqNumbers)]
      BY <1>1, <2>1
    <2>4. draining \in BOOLEAN  BY <1>1
    <2>5. drainedFrom = 0 /\ Len(merged) = 0  BY <1>1, <1>3, Zenon
    <2>6. drainedFrom \in 0 .. Len(merged)  BY <2>5
    <2> QED  BY <1>2, <1>3, <2>2, <2>3, <2>4, <2>6 DEF TypeOK
  <1>6. \A v \in Venues : Published(v) = {}  BY <1>3, <1>4 DEF Published
  <1>7. PublishedInOrder  BY <1>3, <1>4, <1>6 DEF PublishedInOrder
  <1>8. NoLossWithoutForcedAdvance
    <2>1. ASSUME NEW v \in Venues PROVE Published(v) = 1 .. trackers[v].next_expected - 1
      <3>1. trackers[v].next_expected = 1  BY <1>4, NewTrackerFacts
      <3>2. 1 .. 1 - 1 = {}  OBVIOUS
      <3> QED  BY <1>6, <3>1, <3>2
    <2> QED  BY <2>1 DEF NoLossWithoutForcedAdvance
  <1>9. Merging
    <2>1. drainedFrom + 1 .. Len(merged) = {}  BY <1>1, <1>3
    <2> QED  BY <2>1 DEF Merging, MergedInOrder, SentGoesFirst
  <1>10. PendingMatchesTags  BY <1>1, <1>2, NewTrackerFacts DEF PendingMatchesTags
  <1>11. \A v \in Venues : Windowed(trackers[v])  BY <1>4, NewTrackerFacts
  <1>12. RecoveryInv  BY <1>1 DEF RecoveryInv
  <1> QED  BY <1>5, <1>7, <1>8, <1>9, <1>10, <1>11, <1>12 DEF PipelineInv

------------------------------------------------------------------------------
(* The arbiter. Its instance has its own names for the tracker's operators. *)

LEMMA SameSlots == Arbiter!Slots = Slots /\ Arbiter!SlotIndex = SlotIndex
  BY DEF Slots, Arbiter!Slots, SlotIndex, Arbiter!SlotIndex

LEMMA SameHeld == ASSUME NEW t PROVE Arbiter!HeldTags(t) = HeldTags(t)
  BY SameSlots DEF HeldTags, Arbiter!HeldTags

LEMMA SameStatus == ASSUME NEW t, NEW s PROVE Arbiter!StatusOf(t, s) = StatusOf(t, s)
  BY DEF StatusOf, Arbiter!StatusOf

LEMMA SameNew == Arbiter!NewTracker = NewTracker
  BY SameSlots DEF NewTracker, Arbiter!NewTracker

LEMMA SameForce == ASSUME NEW t, NEW n PROVE Arbiter!ForceAdvance(t, n) = ForceAdvance(t, n)
  BY SameSlots DEF ForceAdvance, Arbiter!ForceAdvance

LEMMA SameOnSequence == ASSUME NEW t, NEW s PROVE Arbiter!OnSequence(t, s) = OnSequence(t, s)
  <1>1. Arbiter!MarkBuffered(t, s) = MarkBuffered(t, s)
    BY SameSlots DEF MarkBuffered, Arbiter!MarkBuffered
  <1>2. Arbiter!ReleaseEnd(t, s + 1) = ReleaseEnd(t, s + 1)
    BY SameSlots DEF ReleaseEnd, Arbiter!ReleaseEnd, Tagged, Arbiter!Tagged
  <1>3. \A a, b : Arbiter!ClearTags(t, a, b) = ClearTags(t, a, b)
    BY SameSlots DEF ClearTags, Arbiter!ClearTags
  <1>4. Arbiter!ReleaseInOrder(t, s) = ReleaseInOrder(t, s)
    BY <1>2, <1>3 DEF ReleaseInOrder, Arbiter!ReleaseInOrder
  <1> QED  BY <1>1, <1>4, SameStatus DEF OnSequence, Arbiter!OnSequence

(* What the invariant says of one venue of the arbiter. *)
LEMMA ArbiterParts ==
    ASSUME ArbiterInv, NEW v \in Venues
    PROVE  /\ arbTrackers[v] \in TrackerType /\ Windowed(arbTrackers[v])
           /\ arbTrackers[v].next_expected \in Nat
           /\ DOMAIN arbPending[v] \subseteq Nat
           /\ HeldTags(arbTrackers[v])
                 = {s \in DOMAIN arbPending[v] : s > arbTrackers[v].next_expected}
           /\ arbTrackers[v].next_expected \notin DOMAIN arbPending[v]
  <1>1. arbTrackers[v] \in TrackerType /\ DOMAIN arbPending[v] \subseteq Nat
    BY DEF ArbiterInv, ArbiterTypeOK
  <1>2. arbTrackers[v].next_expected \in Nat  BY <1>1, TrackerFields
  <1>3. Arbiter!HeldTags(arbTrackers[v])
            = {s \in DOMAIN arbPending[v] : s > arbTrackers[v].next_expected}
    BY DEF ArbiterInv, Arbiter!PendingMatchesTags
  <1>4. arbTrackers[v].next_expected \notin DOMAIN arbPending[v]
    BY DEF ArbiterInv, Arbiter!NextNeverPending
  <1> QED  BY <1>1, <1>2, <1>3, <1>4, SameHeld DEF ArbiterInv

(* A copy arrives: one venue's tracker and pending copies change. *)
CopyTaken(side, v, seq, u, p) ==
    /\ arbTrackers' = [arbTrackers EXCEPT ![v] = u]
    /\ u \in TrackerType /\ Windowed(u) /\ u.next_expected >= arbTrackers[v].next_expected
    /\ DOMAIN arbPending' = DOMAIN arbPending /\ arbPending'[v] = p
    /\ \A w \in Venues : w # v => arbPending'[w] = arbPending[w]
    /\ DOMAIN p \subseteq Nat /\ HeldTags(u) = {s \in DOMAIN p : s > u.next_expected}
    /\ u.next_expected \notin DOMAIN p
    /\ arbArrived' = [arbArrived EXCEPT ![side][v] = @ \cup {seq}]
    /\ arbDelivered' = arbDelivered

(* The part of the invariant that does not speak of what was accepted. *)
Waiting == /\ arbTrackers \in [Venues -> TrackerType]
           /\ DOMAIN arbPending = Venues /\ \A v \in Venues : DOMAIN arbPending[v] \subseteq Nat
           /\ arbArrived \in [Arbiter!FeedSide -> [Venues -> SUBSET SeqNumbers]]
           /\ Arbiter!PendingMatchesTags /\ Arbiter!NextNeverPending
           /\ \A v \in Venues : Windowed(arbTrackers[v])

Arrived(v) == arbArrived["A"][v] \cup arbArrived["B"][v]

LEMMA WaitingKept ==
    ASSUME ArbiterInv, NEW side \in Arbiter!FeedSide, NEW v \in Venues, NEW seq \in SeqNumbers,
           NEW u, NEW p, CopyTaken(side, v, seq, u, p)
    PROVE  /\ Waiting' /\ arbTrackers'[v] = u
           /\ \A w \in Venues : /\ arbTrackers[w].next_expected \in Nat
                                /\ arbTrackers'[w].next_expected \in Nat
                                /\ arbTrackers'[w].next_expected >= arbTrackers[w].next_expected
                                /\ Arrived(w) \subseteq Arrived(w)'
           /\ seq \in Arrived(v)'
  <1>t. /\ arbTrackers \in [Venues -> TrackerType] /\ DOMAIN arbPending = Venues
        /\ arbArrived \in [Arbiter!FeedSide -> [Venues -> SUBSET SeqNumbers]]
    BY DEF ArbiterInv, ArbiterTypeOK
  <1>1. arbTrackers' \in [Venues -> TrackerType] /\ arbTrackers'[v] = u
        /\ \A w \in Venues : w # v => arbTrackers'[w] = arbTrackers[w]
    BY <1>t DEF CopyTaken
  <1>2. DOMAIN arbPending' = Venues /\ arbPending'[v] = p
        /\ \A w \in Venues : w # v => arbPending'[w] = arbPending[w]
    BY <1>t DEF CopyTaken
  <1>3. /\ arbArrived' \in [Arbiter!FeedSide -> [Venues -> SUBSET SeqNumbers]]
        /\ \A f \in Arbiter!FeedSide, w \in Venues : arbArrived[f][w] \subseteq arbArrived'[f][w]
        /\ seq \in arbArrived'[side][v]
    BY <1>t DEF CopyTaken
  <1>4. Arbiter!FeedSide = {"A", "B"}  BY DEF Arbiter!FeedSide
  <1>5. \A w \in Venues : Arrived(w) \subseteq Arrived(w)'  BY <1>3, <1>4 DEF Arrived
  <1>6. seq \in Arrived(v)'  BY <1>3, <1>4 DEF Arrived
  <1>7. ASSUME NEW w \in Venues
        PROVE  /\ DOMAIN arbPending'[w] \subseteq Nat /\ Windowed(arbTrackers'[w])
               /\ Arbiter!HeldTags(arbTrackers'[w])
                     = {s \in DOMAIN arbPending'[w] : s > arbTrackers'[w].next_expected}
               /\ arbTrackers'[w].next_expected \notin DOMAIN arbPending'[w]
               /\ arbTrackers[w].next_expected \in Nat
               /\ arbTrackers'[w].next_expected \in Nat
               /\ arbTrackers'[w].next_expected >= arbTrackers[w].next_expected
    <2>1. arbTrackers[w].next_expected \in Nat  BY ArbiterParts
    <2>2. CASE w = v
      <3>1. u.next_expected \in Nat  BY TrackerFields DEF CopyTaken
      <3> QED  BY <1>1, <1>2, <2>1, <2>2, <3>1, SameHeld DEF CopyTaken
    <2>3. CASE w # v
      <3>1. arbTrackers'[w] = arbTrackers[w] /\ arbPending'[w] = arbPending[w]  BY <1>1, <1>2, <2>3
      <3>2. arbTrackers[w].next_expected >= arbTrackers[w].next_expected  BY <2>1
      <3> QED  BY <2>1, <3>1, <3>2, ArbiterParts, SameHeld
    <2> QED  BY <2>2, <2>3
  <1>8. Arbiter!PendingMatchesTags'  BY <1>7 DEF Arbiter!PendingMatchesTags
  <1>9. Arbiter!NextNeverPending'  BY <1>7 DEF Arbiter!NextNeverPending
  <1>10. Waiting'  BY <1>1, <1>2, <1>3, <1>7, <1>8, <1>9 DEF Waiting
  <1> QED  BY <1>1, <1>5, <1>6, <1>7, <1>10

(* The accepted events, typed. *)
LEMMA AcceptedFacts ==
    ASSUME ArbiterInv
    PROVE  /\ Arbiter!Accepted \in Seq(Event) /\ Len(Arbiter!Accepted) \in Nat
           /\ DOMAIN Arbiter!Accepted = 1 .. Len(Arbiter!Accepted)
           /\ \A i \in DOMAIN Arbiter!Accepted :
                 /\ Arbiter!Accepted[i].venue \in Venues /\ Arbiter!Accepted[i].sequence \in Nat
                 /\ Arbiter!Accepted[i].sequence
                       < arbTrackers[Arbiter!Accepted[i].venue].next_expected
  <1> DEFINE A == Arbiter!Accepted
  <1>1. A \in Seq(Event)
    <2>1. arbReady \in Seq(Event) /\ arbDelivered \in Seq(Event)  BY DEF ArbiterInv, ArbiterTypeOK
    <2> QED  BY <2>1, ConcatProperties DEF Arbiter!Accepted
  <1>2. \A i \in DOMAIN A : A[i].sequence < arbTrackers[A[i].venue].next_expected
    BY DEF ArbiterInv, AcceptedBelowNext
  <1> HIDE DEF A
  <1>3. Len(A) \in Nat /\ DOMAIN A = 1 .. Len(A)  BY <1>1, LenProperties
  <1>4. \A i \in DOMAIN A : A[i] \in Event  BY <1>1
  <1>5. \A i \in DOMAIN A : A[i].venue \in Venues /\ A[i].sequence \in Nat  BY <1>4, EventTime
  <1> QED  BY <1>1, <1>2, <1>3, <1>5 DEF A

(* A copy that is not accepted. *)
LEMMA NotAccepted ==
    ASSUME ArbiterInv, NEW side \in Arbiter!FeedSide, NEW v \in Venues, NEW seq \in SeqNumbers,
           NEW u, NEW p, CopyTaken(side, v, seq, u, p), arbReady' = arbReady,
           arbStats' \in ArbiterStats, arbStats'.accepted = arbStats.accepted,
           arbStats'.accepted_a = arbStats.accepted_a, arbStats'.accepted_b = arbStats.accepted_b
    PROVE  ArbiterInv'
  <1> DEFINE A == Arbiter!Accepted
  <1>1. Arbiter!Accepted' = A  BY DEF CopyTaken, Arbiter!Accepted
  <1>2. /\ Waiting'
        /\ \A w \in Venues : /\ arbTrackers[w].next_expected \in Nat
                             /\ arbTrackers'[w].next_expected \in Nat
                             /\ arbTrackers'[w].next_expected >= arbTrackers[w].next_expected
                             /\ Arrived(w) \subseteq Arrived(w)'
    BY WaitingKept
  <1>3. ArbiterTypeOK'
    BY <1>2 DEF Waiting, ArbiterTypeOK, ArbiterInv, CopyTaken
  <1>4. AcceptedBelowNext'
    <2> SUFFICES ASSUME NEW i \in DOMAIN A
                 PROVE  A[i].sequence < arbTrackers'[A[i].venue].next_expected
      BY <1>1 DEF AcceptedBelowNext
    <2>1. A[i].venue \in Venues /\ A[i].sequence \in Nat
          /\ A[i].sequence < arbTrackers[A[i].venue].next_expected
      BY AcceptedFacts
    <2> QED  BY <1>2, <2>1
  <1>5. Arbiter!AcceptedOnce'
    <2>1. \A w \in Venues : Arbiter!AcceptedOf(w)' = Arbiter!AcceptedOf(w)
      BY <1>1 DEF Arbiter!AcceptedOf
    <2>2. \A w \in Venues : Arbiter!AcceptedOf(w)' \subseteq Arrived(w)'
      BY <1>2, <2>1 DEF ArbiterInv, Arbiter!AcceptedOnce, Arrived
    <2> QED  BY <1>1, <2>2 DEF ArbiterInv, Arbiter!AcceptedOnce, Arrived
  <1> QED  BY <1>2, <1>3, <1>4, <1>5 DEF ArbiterInv, Waiting

LEMMA DuplicateInv ==
    ASSUME ArbiterInv, NEW side \in Arbiter!FeedSide, NEW v \in Venues, NEW seq \in SeqNumbers,
           Arbiter!DuplicateOrOld(side, v, seq)
    PROVE  ArbiterInv'
  <1> DEFINE u == arbTrackers[v]
             p == arbPending[v]
  <1>1. /\ UNCHANGED <<arbTrackers, arbPending, arbReady, arbDelivered>>
        /\ arbArrived' = [arbArrived EXCEPT ![side][v] = @ \cup {seq}]
        /\ arbStats' = [arbStats EXCEPT !.duplicate_or_old = @ + 1]
    BY DEF Arbiter!DuplicateOrOld, Arbiter!Arrive
  <1>2. arbStats \in ArbiterStats /\ arbTrackers \in [Venues -> TrackerType]
    BY DEF ArbiterInv, ArbiterTypeOK
  <1>3. arbStats' \in ArbiterStats /\ arbStats'.accepted = arbStats.accepted
        /\ arbStats'.accepted_a = arbStats.accepted_a /\ arbStats'.accepted_b = arbStats.accepted_b
    BY <1>1, <1>2 DEF ArbiterStats
  <1>4. CopyTaken(side, v, seq, u, p)
    <2>1. u.next_expected >= u.next_expected  BY ArbiterParts
    <2>2. arbTrackers' = [arbTrackers EXCEPT ![v] = u]  BY <1>1, <1>2
    <2> QED  BY <1>1, <2>1, <2>2, ArbiterParts DEF CopyTaken
  <1> HIDE DEF u, p
  <1> QED  BY <1>1, <1>3, <1>4, NotAccepted

LEMMA GapBufferedInv ==
    ASSUME ArbiterInv, NEW side \in Arbiter!FeedSide, NEW v \in Venues, NEW seq \in SeqNumbers,
           Arbiter!GapBuffered(side, v, seq)
    PROVE  ArbiterInv'
  <1> DEFINE t == arbTrackers[v]
             u == OnSequence(t, seq)
             p == Arbiter!Inserted(arbPending[v], seq)
  <1>0. seq \in Nat /\ t \in TrackerType /\ Windowed(t) /\ t.next_expected \in Nat
    BY ArbiterParts, PipelineAssumption
  <1>1. /\ StatusOf(t, seq) = "GapBuffered"
        /\ arbTrackers' = [arbTrackers EXCEPT ![v] = u]
        /\ arbPending' = [arbPending EXCEPT ![v] = p] /\ UNCHANGED <<arbReady, arbDelivered>>
        /\ arbArrived' = [arbArrived EXCEPT ![side][v] = @ \cup {seq}]
        /\ arbStats' = [arbStats EXCEPT !.gap_buffered = @ + 1]
    BY SameStatus, SameOnSequence DEF Arbiter!GapBuffered, Arbiter!Arrive
  <1>2. arbStats \in ArbiterStats /\ DOMAIN arbPending = Venues
    BY DEF ArbiterInv, ArbiterTypeOK
  <1>3. arbStats' \in ArbiterStats /\ arbStats'.accepted = arbStats.accepted
        /\ arbStats'.accepted_a = arbStats.accepted_a /\ arbStats'.accepted_b = arbStats.accepted_b
    BY <1>1, <1>2 DEF ArbiterStats
  <1>4. /\ u \in TrackerType /\ Windowed(u) /\ u.next_expected = t.next_expected
        /\ seq > t.next_expected /\ HeldTags(u) = HeldTags(t) \cup {seq}
    BY <1>0, <1>1, AfterGapBuffered
  <1>5. DOMAIN p = DOMAIN arbPending[v] \cup {seq}  BY DEF Arbiter!Inserted
  <1> HIDE DEF u, p
  <1>6. DOMAIN p \subseteq Nat /\ u.next_expected \notin DOMAIN p
        /\ HeldTags(u) = {s \in DOMAIN p : s > u.next_expected}
    <2>1. DOMAIN arbPending[v] \subseteq Nat /\ t.next_expected \notin DOMAIN arbPending[v]
          /\ HeldTags(t) = {s \in DOMAIN arbPending[v] : s > t.next_expected}
      BY ArbiterParts
    <2>2. t.next_expected # seq  BY <1>0, <1>4
    <2> QED  BY <1>0, <1>4, <1>5, <2>1, <2>2
  <1>7. u.next_expected >= t.next_expected  BY <1>0, <1>4
  <1>8. DOMAIN arbPending' = DOMAIN arbPending /\ arbPending'[v] = p
        /\ \A w \in Venues : w # v => arbPending'[w] = arbPending[w]
    BY <1>1, <1>2
  <1>9. CopyTaken(side, v, seq, u, p)  BY <1>1, <1>4, <1>6, <1>7, <1>8 DEF CopyTaken
  <1> QED  BY <1>1, <1>3, <1>9, NotAccepted

LEMMA GapTooLargeInv ==
    ASSUME ArbiterInv, NEW side \in Arbiter!FeedSide, NEW v \in Venues, NEW seq \in SeqNumbers,
           Arbiter!GapTooLarge(side, v, seq)
    PROVE  ArbiterInv'
  <1> DEFINE t == arbTrackers[v]
             u == ForceAdvance(OnSequence(t, seq), seq)
             p == arbPending[v]
  <1>0. seq \in Nat /\ t \in TrackerType /\ Windowed(t) /\ t.next_expected \in Nat
    BY ArbiterParts, PipelineAssumption
  <1>1. /\ StatusOf(t, seq) = "GapTooLarge"
        /\ arbTrackers' = [arbTrackers EXCEPT ![v] = u]
        /\ UNCHANGED <<arbPending, arbReady, arbDelivered>>
        /\ arbArrived' = [arbArrived EXCEPT ![side][v] = @ \cup {seq}]
        /\ arbStats' = [arbStats EXCEPT !.gap_too_large = @ + 1, !.forced_advances = @ + 1]
    BY SameStatus, SameOnSequence, SameForce DEF Arbiter!GapTooLarge, Arbiter!Arrive
  <1>2. arbStats \in ArbiterStats
    BY DEF ArbiterInv, ArbiterTypeOK
  <1>3. arbStats' \in ArbiterStats /\ arbStats'.accepted = arbStats.accepted
        /\ arbStats'.accepted_a = arbStats.accepted_a /\ arbStats'.accepted_b = arbStats.accepted_b
    <2> DEFINE first == [arbStats EXCEPT !.gap_too_large = @ + 1]
    <2>1. first \in ArbiterStats /\ first.accepted = arbStats.accepted
          /\ first.accepted_a = arbStats.accepted_a /\ first.accepted_b = arbStats.accepted_b
      BY <1>2 DEF ArbiterStats
    <2>2. arbStats' = [first EXCEPT !.forced_advances = @ + 1]  BY <1>1, <1>2 DEF ArbiterStats
    <2> HIDE DEF first
    <2> QED  BY <2>1, <2>2 DEF ArbiterStats
  <1>4. /\ u \in TrackerType /\ Windowed(u) /\ u.next_expected = seq
        /\ seq > t.next_expected /\ HeldTags(u) = {} /\ \A s \in HeldTags(t) : s < seq
    BY <1>0, <1>1, AfterForceAdvance
  <1> HIDE DEF u
  <1>5. DOMAIN p \subseteq Nat /\ u.next_expected \notin DOMAIN p
        /\ HeldTags(u) = {s \in DOMAIN p : s > u.next_expected}
    <2>1. DOMAIN p \subseteq Nat /\ HeldTags(t) = {s \in DOMAIN p : s > t.next_expected}
      BY ArbiterParts
    <2>2. \A s \in DOMAIN p : s < seq
      <3> TAKE s \in DOMAIN p
      <3>1. s \in Nat  BY <2>1
      <3>2. CASE s > t.next_expected  BY <1>4, <2>1, <3>2
      <3>3. CASE ~(s > t.next_expected)  BY <1>0, <1>4, <3>1, <3>3
      <3> QED  BY <3>2, <3>3
    <2>3. \A s \in DOMAIN p : s # seq /\ ~(s > seq)
      <3> TAKE s \in DOMAIN p
      <3>1. s \in Nat /\ s < seq  BY <2>1, <2>2
      <3> QED  BY <1>0, <3>1
    <2> QED  BY <1>4, <2>1, <2>3
  <1>6. u.next_expected >= t.next_expected  BY <1>0, <1>4
  <1>7. CopyTaken(side, v, seq, u, p)  BY <1>1, <1>4, <1>5, <1>6 DEF CopyTaken
  <1> HIDE DEF p
  <1> QED  BY <1>1, <1>3, <1>7, NotAccepted

(* The places of a concatenation. *)
LEMMA ConcatPlaces ==
    ASSUME NEW S, NEW d \in Seq(S), NEW r \in Seq(S), NEW C, C = d \o r,
           NEW m, m = Len(d), NEW n, n = Len(r)
    PROVE  /\ C \in Seq(S) /\ Len(C) = m + n /\ DOMAIN C = 1 .. m + n /\ m \in Nat /\ n \in Nat
           /\ \A i \in 1 .. m : C[i] = d[i]
           /\ \A i \in 1 .. m + n : i > m => C[i] = r[i - m]
  <1>1. m \in Nat /\ n \in Nat  BY LenProperties
  <1>2. /\ C \in Seq(S) /\ Len(C) = m + n
        /\ \A i \in 1 .. m + n : C[i] = IF i <= m THEN d[i] ELSE r[i - m]
    BY ConcatProperties
  <1>3. DOMAIN C = 1 .. m + n  BY <1>2, LenProperties
  <1>4. \A i \in 1 .. m : i \in 1 .. m + n /\ i <= m  BY <1>1
  <1>5. \A i \in 1 .. m + n : i > m => ~(i <= m)  BY <1>1
  <1>6. \A i \in 1 .. m : C[i] = d[i]  BY <1>2, <1>4, Zenon
  <1>7. \A i \in 1 .. m + n : i > m => C[i] = r[i - m]  BY <1>2, <1>5, Zenon
  <1> QED  BY <1>1, <1>2, <1>3, <1>6, <1>7

LEMMA PlacesGrow ==
    ASSUME NEW m \in Nat, NEW n \in Nat, NEW A, NEW B, NEW d, NEW r, NEW s, NEW x,
           \A i \in 1 .. m : A[i] = d[i],
           \A i \in 1 .. m + n : i > m => A[i] = r[i - m],
           \A i \in 1 .. m : B[i] = d[i],
           \A i \in 1 .. m + (n + 1) : i > m => B[i] = s[i - m],
           s[n + 1] = x, \A i \in 1 .. n : s[i] = r[i]
    PROVE  /\ \A i \in 1 .. m + n : B[i] = A[i]
           /\ B[m + n + 1] = x
  <1>1. ASSUME NEW i \in 1 .. m + n PROVE B[i] = A[i]
    <2>1. CASE i \in 1 .. m  BY <2>1
    <2>2. CASE i \notin 1 .. m
      <3>1. i > m /\ i \in 1 .. m + (n + 1) /\ i - m \in 1 .. n  BY <2>2
      <3> QED  BY <3>1
    <2> QED  BY <2>1, <2>2
  <1>2. m + n + 1 \in 1 .. m + (n + 1) /\ m + n + 1 > m /\ m + n + 1 - m = n + 1  OBVIOUS
  <1>3. B[m + n + 1] = x  BY <1>2
  <1> QED  BY <1>1, <1>3

(* One event behind those accepted before. *)
LEMMA AcceptedGrows ==
    ASSUME NEW d \in Seq(Event), NEW r \in Seq(Event), NEW x \in Event,
           NEW A, A = d \o r, NEW B, B = d \o Append(r, x)
    PROVE  /\ B \in Seq(Event) /\ Len(A) \in Nat /\ Len(B) = Len(A) + 1
           /\ DOMAIN A = 1 .. Len(A) /\ DOMAIN B = 1 .. Len(A) + 1
           /\ \A i \in 1 .. Len(A) : B[i] = A[i]
           /\ B[Len(A) + 1] = x
  <1> DEFINE s == Append(r, x)
             m == Len(d)
             n == Len(r)
  <1>1. s \in Seq(Event) /\ Len(s) = n + 1 /\ s[n + 1] = x /\ \A i \in 1 .. n : s[i] = r[i]
    BY AppendProperties, LenProperties
  <1>2. /\ Len(A) = m + n /\ DOMAIN A = 1 .. m + n /\ m \in Nat /\ n \in Nat
        /\ \A i \in 1 .. m : A[i] = d[i]
        /\ \A i \in 1 .. m + n : i > m => A[i] = r[i - m]
    BY ConcatPlaces
  <1>0. B = d \o s  OBVIOUS
  <1> HIDE DEF s
  <1>3. /\ B \in Seq(Event) /\ Len(B) = m + Len(s) /\ DOMAIN B = 1 .. m + Len(s)
        /\ \A i \in 1 .. m : B[i] = d[i]
        /\ \A i \in 1 .. m + Len(s) : i > m => B[i] = s[i - m]
    <2> DEFINE k == Len(s)
    <2>1. s \in Seq(Event) /\ k = Len(s) /\ m = Len(d)  BY <1>1
    <2> HIDE DEF k, m
    <2>2. /\ B \in Seq(Event) /\ Len(B) = m + k /\ DOMAIN B = 1 .. m + k
          /\ \A i \in 1 .. m : B[i] = d[i]
          /\ \A i \in 1 .. m + k : i > m => B[i] = s[i - m]
      BY <1>0, <2>1, ConcatPlaces
    <2> QED  BY <2>1, <2>2
  <1> HIDE DEF m, n
  <1>4. /\ Len(B) = m + (n + 1) /\ DOMAIN B = 1 .. m + (n + 1)
        /\ \A i \in 1 .. m + (n + 1) : i > m => B[i] = s[i - m]
    BY <1>1, <1>3, Zenon
  <1>5. (\A i \in 1 .. m + n : B[i] = A[i]) /\ B[m + n + 1] = x
    BY <1>1, <1>2, <1>3, <1>4, PlacesGrow
  <1>6. m + (n + 1) = m + n + 1  BY <1>2
  <1>7. m + n \in Nat  BY <1>2
  <1> QED  BY <1>2, <1>3, <1>4, <1>5, <1>6, <1>7, Zenon

(* The counters of an accepted copy. *)
Counted(s, side) ==
    [s EXCEPT !.accepted = @ + 1,
              !.accepted_a = IF side = "A" THEN @ + 1 ELSE @,
              !.accepted_b = IF side = "B" THEN @ + 1 ELSE @]

LEMMA AcceptedCounted ==
    ASSUME NEW s \in ArbiterStats, NEW side \in Arbiter!FeedSide,
           s.accepted = s.accepted_a + s.accepted_b, NEW r, r = Counted(s, side)
    PROVE  /\ r \in ArbiterStats /\ r.accepted = s.accepted + 1
           /\ r.accepted = r.accepted_a + r.accepted_b
  <1>1. side = "A" \/ side = "B"  BY DEF Arbiter!FeedSide
  <1>2. CASE side = "A"
    <2> DEFINE f == [s EXCEPT !.accepted = @ + 1]
               g == [f EXCEPT !.accepted_a = @ + 1]
    <2>1. f \in ArbiterStats /\ f.accepted = s.accepted + 1 /\ f.accepted_a = s.accepted_a
          /\ f.accepted_b = s.accepted_b
      BY DEF ArbiterStats
    <2>2. r = [g EXCEPT !.accepted_b = @]  BY <1>2 DEF ArbiterStats, Counted
    <2> HIDE DEF f
    <2>3. g \in ArbiterStats /\ g.accepted = s.accepted + 1 /\ g.accepted_a = s.accepted_a + 1
          /\ g.accepted_b = s.accepted_b
      BY <2>1 DEF ArbiterStats
    <2> HIDE DEF g
    <2>4. r \in ArbiterStats /\ r.accepted = s.accepted + 1 /\ r.accepted_a = s.accepted_a + 1
          /\ r.accepted_b = s.accepted_b
      BY <2>2, <2>3 DEF ArbiterStats
    <2>5. s.accepted_a \in Nat /\ s.accepted_b \in Nat  BY DEF ArbiterStats
    <2> QED  BY <2>4, <2>5
  <1>3. CASE side = "B"
    <2> DEFINE f == [s EXCEPT !.accepted = @ + 1]
               g == [f EXCEPT !.accepted_a = @]
    <2>1. f \in ArbiterStats /\ f.accepted = s.accepted + 1 /\ f.accepted_a = s.accepted_a
          /\ f.accepted_b = s.accepted_b
      BY DEF ArbiterStats
    <2>2. r = [g EXCEPT !.accepted_b = @ + 1]  BY <1>3 DEF ArbiterStats, Counted
    <2> HIDE DEF f
    <2>3. g \in ArbiterStats /\ g.accepted = s.accepted + 1 /\ g.accepted_a = s.accepted_a
          /\ g.accepted_b = s.accepted_b
      BY <2>1 DEF ArbiterStats
    <2> HIDE DEF g
    <2>4. r \in ArbiterStats /\ r.accepted = s.accepted + 1 /\ r.accepted_a = s.accepted_a
          /\ r.accepted_b = s.accepted_b + 1
      <3>1. r \in ArbiterStats  BY <2>2, <2>3 DEF ArbiterStats
      <3>2. r.accepted = g.accepted /\ r.accepted_a = g.accepted_a /\ r.accepted_b = g.accepted_b + 1
        BY <2>2, <2>3 DEF ArbiterStats
      <3> QED  BY <2>3, <3>1, <3>2, Zenon
    <2>5. s.accepted_a \in Nat /\ s.accepted_b \in Nat  BY DEF ArbiterStats
    <2> QED  BY <2>4, <2>5
  <1> QED  BY <1>1, <1>2, <1>3

(* The first copy of the expected number. *)
LEMMA FirstCopyTaken ==
    ASSUME ArbiterInv, NEW side \in Arbiter!FeedSide, NEW v \in Venues, NEW seq \in SeqNumbers,
           Arbiter!InOrder(side, v, seq), NEW u, u = OnSequence(arbTrackers[v], seq),
           NEW p, p = Arbiter!Swept(arbPending[v], u.next_expected)
    PROVE  /\ CopyTaken(side, v, seq, u, p) /\ seq = arbTrackers[v].next_expected
           /\ u.next_expected \in Nat /\ u.next_expected > seq
  <1> DEFINE t == arbTrackers[v]
             e == u.next_expected
  <1>0. seq \in Nat /\ t \in TrackerType /\ Windowed(t) /\ t.next_expected \in Nat
    BY ArbiterParts, PipelineAssumption
  <1>t. DOMAIN arbPending = Venues /\ arbTrackers \in [Venues -> TrackerType]
    BY DEF ArbiterInv, ArbiterTypeOK
  <1>1. /\ StatusOf(t, seq) = "InOrder"
        /\ arbTrackers' = [arbTrackers EXCEPT ![v] = u] /\ arbDelivered' = arbDelivered
        /\ arbArrived' = [arbArrived EXCEPT ![side][v] = @ \cup {seq}]
        /\ arbPending' = [arbPending EXCEPT ![v] = Arbiter!Swept(@, arbTrackers'[v].next_expected)]
    BY SameStatus, SameOnSequence DEF Arbiter!InOrder, Arbiter!Arrive
  <1>2. arbPending' = [arbPending EXCEPT ![v] = p]
    <2>1. arbTrackers'[v] = u  BY <1>t, <1>1
    <2> QED  BY <1>1, <2>1
  <1>3. /\ u \in TrackerType /\ Windowed(u) /\ seq = t.next_expected
        /\ e \in Nat /\ e > seq /\ HeldTags(u) = {s \in HeldTags(t) : s > e}
        /\ e \notin HeldTags(t)
    BY <1>0, <1>1, AfterInOrder
  <1>4. DOMAIN p = {s \in DOMAIN arbPending[v] : s >= e}  BY DEF Arbiter!Swept
  <1>5. DOMAIN p \subseteq Nat /\ e \notin DOMAIN p /\ HeldTags(u) = {s \in DOMAIN p : s > e}
    <2>1. DOMAIN arbPending[v] \subseteq Nat
          /\ HeldTags(t) = {s \in DOMAIN arbPending[v] : s > t.next_expected}
      BY ArbiterParts
    <2>2. \A s \in DOMAIN arbPending[v] : s >= e => s > t.next_expected
      <3> TAKE s \in DOMAIN arbPending[v]
      <3>1. s \in Nat  BY <2>1
      <3> QED  BY <1>0, <1>3, <3>1
    <2>3. \A s \in DOMAIN arbPending[v] : s > e => s >= e
      <3> TAKE s \in DOMAIN arbPending[v]
      <3>1. s \in Nat  BY <2>1
      <3> QED  BY <1>3, <3>1
    <2>4. e >= e  BY <1>3
    <2> HIDE DEF e, t
    <2> QED  BY <1>3, <1>4, <2>1, <2>2, <2>3, <2>4
  <1>6. e >= t.next_expected  BY <1>0, <1>3
  <1>7. DOMAIN arbPending' = DOMAIN arbPending /\ arbPending'[v] = p
        /\ \A w \in Venues : w # v => arbPending'[w] = arbPending[w]
    BY <1>t, <1>2
  <1>8. CopyTaken(side, v, seq, u, p)  BY <1>1, <1>3, <1>5, <1>6, <1>7 DEF CopyTaken
  <1> QED  BY <1>3, <1>8

LEMMA FirstCopyInv ==
    ASSUME ArbiterInv, NEW side \in Arbiter!FeedSide, NEW v \in Venues, NEW seq \in SeqNumbers,
           Arbiter!InOrder(side, v, seq)
    PROVE  ArbiterInv'
  <1> DEFINE u == OnSequence(arbTrackers[v], seq)
             p == Arbiter!Swept(arbPending[v], u.next_expected)
             x == [venue |-> v, sequence |-> seq]
             A == Arbiter!Accepted
             B == Arbiter!Accepted'
             m == Len(A)
  <1>0. /\ CopyTaken(side, v, seq, u, p) /\ seq = arbTrackers[v].next_expected
        /\ u.next_expected \in Nat /\ u.next_expected > seq
    BY FirstCopyTaken
  <1>1. /\ arbReady' = Append(arbReady, x)
        /\ arbStats' = [arbStats EXCEPT !.accepted = @ + 1,
                                        !.accepted_a = IF side = "A" THEN @ + 1 ELSE @,
                                        !.accepted_b = IF side = "B" THEN @ + 1 ELSE @]
    BY DEF Arbiter!InOrder
  <1>2. arbReady \in Seq(Event) /\ arbDelivered \in Seq(Event) /\ arbStats \in ArbiterStats
    BY DEF ArbiterInv, ArbiterTypeOK
  <1>3. x \in Event /\ x.venue = v /\ x.sequence = seq  BY DEF Event
  <1>4. A = arbDelivered \o arbReady /\ B = arbDelivered \o Append(arbReady, x)
    BY <1>0, <1>1 DEF Arbiter!Accepted, CopyTaken
  <1>5. /\ Waiting' /\ arbTrackers'[v] = u
        /\ \A w \in Venues : /\ arbTrackers[w].next_expected \in Nat
                             /\ arbTrackers'[w].next_expected \in Nat
                             /\ arbTrackers'[w].next_expected >= arbTrackers[w].next_expected
                             /\ Arrived(w) \subseteq Arrived(w)'
        /\ seq \in Arrived(v)'
    BY <1>0, WaitingKept
  <1>6. arbReady' \in Seq(Event) /\ arbDelivered' = arbDelivered
    BY <1>0, <1>1, <1>2, <1>3, AppendProperties DEF CopyTaken
  <1>7. arbStats.accepted = arbStats.accepted_a + arbStats.accepted_b /\ arbStats.accepted = m
        /\ (\A i, j \in DOMAIN A : i < j /\ A[i].venue = A[j].venue => A[i].sequence < A[j].sequence)
        /\ \A w \in Venues : Arbiter!AcceptedOf(w) \subseteq Arrived(w)
    BY DEF ArbiterInv, Arbiter!AcceptedOnce, Arrived
  <1>8. /\ arbStats' \in ArbiterStats /\ arbStats'.accepted = arbStats.accepted + 1
        /\ arbStats'.accepted = arbStats'.accepted_a + arbStats'.accepted_b
    <2>1. arbStats' = Counted(arbStats, side)  BY <1>1 DEF Counted
    <2>2. arbStats.accepted = arbStats.accepted_a + arbStats.accepted_b  BY <1>7
    <2> QED  BY <1>2, <2>1, <2>2, AcceptedCounted
  <1> HIDE DEF u, p, x
  <1>9. \A i \in DOMAIN A : /\ A[i].venue \in Venues /\ A[i].sequence \in Nat
                            /\ A[i].sequence < arbTrackers[A[i].venue].next_expected
    BY AcceptedFacts
  <1>d. /\ \A w \in Venues : Arbiter!AcceptedOf(w)
               = {A[i].sequence : i \in {j \in DOMAIN A : A[j].venue = w}}
        /\ \A w \in Venues : Arbiter!AcceptedOf(w)'
               = {B[i].sequence : i \in {j \in DOMAIN B : B[j].venue = w}}
    BY DEF Arbiter!AcceptedOf
  <1>10. AcceptedBelowNext' <=>
             \A i \in DOMAIN B : B[i].sequence < arbTrackers'[B[i].venue].next_expected
    BY DEF AcceptedBelowNext
  <1> HIDE DEF A, B
  <1>11. /\ m \in Nat /\ Len(B) = m + 1 /\ DOMAIN A = 1 .. m /\ DOMAIN B = 1 .. m + 1
         /\ (\A i \in 1 .. m : B[i] = A[i]) /\ B[m + 1] = x
    BY <1>2, <1>3, <1>4, AcceptedGrows
  <1> HIDE DEF m
  <1>12. \A i \in DOMAIN B : (i \in DOMAIN A /\ i \in 1 .. m /\ B[i] = A[i]) \/ (i = m + 1 /\ B[i] = x)
    BY <1>11
  <1>13. ASSUME NEW i \in DOMAIN B PROVE B[i].sequence < arbTrackers'[B[i].venue].next_expected
    <2>1. CASE i \in DOMAIN A /\ B[i] = A[i]
      <3>1. A[i].venue \in Venues /\ A[i].sequence \in Nat
            /\ A[i].sequence < arbTrackers[A[i].venue].next_expected
        BY <1>9, <2>1
      <3> QED  BY <1>5, <2>1, <3>1
    <2>2. CASE B[i] = x
      <3>1. seq < u.next_expected  BY <1>0, PipelineAssumption
      <3> QED  BY <1>3, <1>5, <2>2, <3>1
    <2> QED  BY <1>12, <2>1, <2>2
  <1>14. ASSUME NEW i \in DOMAIN B, NEW j \in DOMAIN B, i < j, B[i].venue = B[j].venue
         PROVE  B[i].sequence < B[j].sequence
    <2>1. i \in DOMAIN A /\ B[i] = A[i]  BY <1>11, <1>14
    <2>2. CASE j \in DOMAIN A /\ B[j] = A[j]  BY <1>7, <1>14, <2>1, <2>2
    <2>3. CASE B[j] = x
      <3>1. A[i].venue = v  BY <1>3, <1>14, <2>1, <2>3
      <3>2. A[i].sequence < seq  BY <1>0, <1>9, <2>1, <3>1
      <3> QED  BY <1>3, <2>1, <2>3, <3>2
    <2> QED  BY <1>12, <2>2, <2>3
  <1>15. ASSUME NEW w \in Venues PROVE Arbiter!AcceptedOf(w)' \subseteq Arrived(w)'
    <2> SUFFICES ASSUME NEW i \in DOMAIN B, B[i].venue = w PROVE B[i].sequence \in Arrived(w)'
      BY <1>d
    <2>1. CASE i \in DOMAIN A /\ B[i] = A[i]
      <3>1. A[i].sequence \in Arbiter!AcceptedOf(w)  BY <1>d, <2>1
      <3> QED  BY <1>5, <1>7, <2>1, <3>1
    <2>2. CASE B[i] = x  BY <1>3, <1>5, <2>2
    <2> QED  BY <1>12, <2>1, <2>2
  <1>16. arbStats'.accepted = Len(B)  BY <1>7, <1>8, <1>11
  <1>17. Arbiter!AcceptedOnce'
    <2>1. Arbiter!Accepted' = B  BY DEF B
    <2> QED  BY <1>8, <1>14, <1>15, <1>16, <2>1 DEF Arbiter!AcceptedOnce, Arrived
  <1>18. ArbiterTypeOK'  BY <1>2, <1>5, <1>6, <1>8 DEF ArbiterTypeOK, Waiting
  <1>19. AcceptedBelowNext'  BY <1>10, <1>13
  <1> QED  BY <1>5, <1>17, <1>18, <1>19 DEF ArbiterInv, Waiting

LEMMA ArbiterEventInv ==
    ASSUME ArbiterInv, NEW side \in Arbiter!FeedSide, NEW v \in Venues, NEW seq \in SeqNumbers,
           Arbiter!OnEvent(side, v, seq)
    PROVE  ArbiterInv'
  BY DuplicateInv, GapBufferedInv, GapTooLargeInv, FirstCopyInv DEF Arbiter!OnEvent

(* Events move from ready_ to the caller; what was accepted is the same. *)
LEMMA DrainReadyInv ==
    ASSUME ArbiterInv, Arbiter!DrainReady PROVE ArbiterInv'
  <1>1. /\ arbDelivered' = arbDelivered \o arbReady /\ arbReady' = <<>>
        /\ UNCHANGED <<arbTrackers, arbPending, arbStats, arbArrived>>
    BY DEF Arbiter!DrainReady
  <1>2. arbReady \in Seq(Event) /\ arbDelivered \in Seq(Event)
    BY DEF ArbiterInv, ArbiterTypeOK
  <1>3. arbDelivered' \in Seq(Event) /\ arbReady' \in Seq(Event)  BY <1>1, <1>2, ConcatProperties
  <1>4. Arbiter!Accepted' = Arbiter!Accepted
    <2> DEFINE d == arbDelivered \o arbReady
    <2>1. Arbiter!Accepted' = d \o <<>> /\ Arbiter!Accepted = d  BY <1>1 DEF Arbiter!Accepted
    <2>2. d \in Seq(Event)  BY <1>2, ConcatProperties
    <2> HIDE DEF d
    <2> QED  BY <2>1, <2>2, ConcatEmptySeq
  <1>5. ArbiterTypeOK'  BY <1>1, <1>3 DEF ArbiterInv, ArbiterTypeOK
  <1>6. Arbiter!PendingMatchesTags' /\ Arbiter!NextNeverPending'
    BY <1>1 DEF ArbiterInv, Arbiter!PendingMatchesTags, Arbiter!NextNeverPending
  <1>7. Arbiter!AcceptedOnce'
    BY <1>1, <1>4 DEF ArbiterInv, Arbiter!AcceptedOnce, Arbiter!AcceptedOf
  <1>8. AcceptedBelowNext'  BY <1>1, <1>4 DEF ArbiterInv, AcceptedBelowNext
  <1> QED  BY <1>1, <1>5, <1>6, <1>7, <1>8 DEF ArbiterInv

LEMMA ArbiterStutters ==
    ASSUME ArbiterInv, UNCHANGED arbVars PROVE ArbiterInv'
  <1>1. UNCHANGED <<arbTrackers, arbPending, arbReady, arbStats, arbDelivered, arbArrived>>
    BY DEF arbVars
  <1>4. Arbiter!Accepted' = Arbiter!Accepted  BY <1>1 DEF Arbiter!Accepted
  <1>5. ArbiterTypeOK'  BY <1>1 DEF ArbiterInv, ArbiterTypeOK
  <1>6. Arbiter!PendingMatchesTags' /\ Arbiter!NextNeverPending'
    BY <1>1 DEF ArbiterInv, Arbiter!PendingMatchesTags, Arbiter!NextNeverPending
  <1>7. Arbiter!AcceptedOnce'
    BY <1>1, <1>4 DEF ArbiterInv, Arbiter!AcceptedOnce, Arbiter!AcceptedOf
  <1>8. AcceptedBelowNext'  BY <1>1, <1>4 DEF ArbiterInv, AcceptedBelowNext
  <1> QED  BY <1>1, <1>5, <1>6, <1>7, <1>8 DEF ArbiterInv

LEMMA ArbiterInit ==
    ASSUME Arbiter!Init PROVE ArbiterInv
  <1>1. /\ arbTrackers = [v \in Venues |-> NewTracker] /\ arbPending = [v \in Venues |-> <<>>]
        /\ arbReady = <<>> /\ arbDelivered = <<>>
        /\ arbArrived = [side \in Arbiter!FeedSide |-> [v \in Venues |-> {}]]
        /\ arbStats = Arbiter!NoStats
    BY SameNew DEF Arbiter!Init
  <1>2. arbStats \in ArbiterStats /\ arbStats.accepted = 0 /\ arbStats.accepted_a = 0
        /\ arbStats.accepted_b = 0
    BY <1>1 DEF ArbiterStats, Arbiter!NoStats
  <1>3. Arbiter!Accepted = <<>>
    <2>1. <<>> \in Seq(Event)  OBVIOUS
    <2>2. <<>> \o <<>> = <<>>  BY <2>1, ConcatEmptySeq
    <2> QED  BY <1>1, <2>2 DEF Arbiter!Accepted
  <1>4. DOMAIN Arbiter!Accepted = {} /\ Len(Arbiter!Accepted) = 0  BY <1>3
  <1>5. \A v \in Venues : arbTrackers[v] = NewTracker /\ DOMAIN arbPending[v] = {}  BY <1>1
  <1>6. ArbiterTypeOK
    <2>1. arbTrackers \in [Venues -> TrackerType]  BY <1>1, NewTrackerFacts
    <2>2. arbReady \in Seq(Event) /\ arbDelivered \in Seq(Event)  BY <1>1
    <2>3. arbArrived \in [Arbiter!FeedSide -> [Venues -> SUBSET SeqNumbers]]  BY <1>1
    <2>4. DOMAIN arbPending = Venues  BY <1>1
    <2> QED  BY <1>2, <1>5, <2>1, <2>2, <2>3, <2>4 DEF ArbiterTypeOK
  <1>7. Arbiter!PendingMatchesTags /\ Arbiter!NextNeverPending
    BY <1>5, SameHeld, NewTrackerFacts DEF Arbiter!PendingMatchesTags, Arbiter!NextNeverPending
  <1>8. Arbiter!AcceptedOnce
    <2>1. \A v \in Venues : Arbiter!AcceptedOf(v) = {}  BY <1>4 DEF Arbiter!AcceptedOf
    <2>2. arbStats.accepted = arbStats.accepted_a + arbStats.accepted_b  BY <1>2
    <2> QED  BY <1>2, <1>4, <2>1, <2>2 DEF Arbiter!AcceptedOnce
  <1>9. AcceptedBelowNext  BY <1>4 DEF AcceptedBelowNext
  <1>10. \A v \in Venues : Windowed(arbTrackers[v])  BY <1>5, NewTrackerFacts
  <1> QED  BY <1>6, <1>7, <1>8, <1>9, <1>10 DEF ArbiterInv

------------------------------------------------------------------------------
(* Both stages. *)

(* The copy at a place of the race stream is a copy of a recorded event. *)
LEMMA CopyFacts ==
    ASSUME NEW p \in 1 .. 2 * Len(Source), NEW c, c = Copy(p)
    PROVE  /\ c.side \in Arbiter!FeedSide
           /\ c.event.venue \in Venues /\ c.event.sequence \in SeqNumbers
  <1> DEFINE k == SourceOf(p)
  <1>1. Source \in Seq(Event) /\ Len(Source) \in Nat  BY FailoverAssumption, LenProperties
  <1>2. k \in 1 .. Len(Source)
    <2> DEFINE n == Len(Source)
               r == (p + 1) % 2
    <2>1. n \in Nat /\ p \in 1 .. 2 * n  BY <1>1
    <2> HIDE DEF n
    <2>2. p + 1 \in Nat /\ 2 \in Nat \ {0}  BY <2>1
    <2>3. k \in Nat /\ r \in 0 .. 2 - 1 /\ p + 1 = 2 * k + r
      <3>1. k = (p + 1) \div 2  BY DEF SourceOf
      <3> HIDE DEF k
      <3> DEFINE a == p + 1
      <3>2. a \in Nat  BY <2>2
      <3> HIDE DEF a
      <3>3. /\ a \div 2 \in Nat /\ a % 2 \in 0 .. 2 - 1 /\ a = 2 * (a \div 2) + (a % 2)
        BY <2>2, <3>2, DivMod
      <3> QED  BY <3>1, <3>3 DEF a
    <2> HIDE DEF k, r
    <2>4. k \in 1 .. n  BY <2>1, <2>3
    <2> QED  BY <2>4 DEF n
  <1>3. Source[k] \in Event  BY <1>1, <1>2, ElementOfSeq
  <1>4. c.event = Source[k] /\ c.side \in {"A", "B"}  BY DEF Copy
  <1> HIDE DEF k
  <1>5. c.event.venue \in Venues /\ c.event.sequence \in SeqNumbers  BY <1>3, <1>4, EventTime
  <1> QED  BY <1>4, <1>5 DEF Arbiter!FeedSide

LEMMA PipelineRests ==
    ASSUME PipelineInv, RecoveryInv, UNCHANGED vars PROVE PipelineInv' /\ RecoveryInv'
  <1>1. UNCHANGED <<trackers, pending, store, simulated, recovered, queues, merged, draining,
                    stats, drainedFrom>>
    BY DEF vars
  <1>2. PipelineInv'  BY <1>1, PipelineStutters
  <1> QED  BY <1>1, <1>2 DEF RecoveryInv

LEMMA FailoverInit == InitFailover => FailoverInv
  <1> SUFFICES ASSUME InitFailover PROVE FailoverInv  OBVIOUS
  <1>1. PipelineInv /\ RecoveryInv  BY PipelineInit DEF InitFailover
  <1>2. ArbiterInv  BY ArbiterInit DEF InitFailover
  <1>3. handed \in Seq(Event)  BY DEF InitFailover
  <1>4. raced \subseteq 1 .. 2 * Len(Source)  BY DEF InitFailover, RaceStream
  <1> QED  BY <1>1, <1>2, <1>3, <1>4 DEF FailoverInv, HandedTypeOK

LEMMA FailoverStep == FailoverInv /\ [NextFailover]_allVars => FailoverInv'
  <1> SUFFICES ASSUME FailoverInv, [NextFailover]_allVars PROVE FailoverInv'  OBVIOUS
  <1>i. PipelineInv /\ RecoveryInv /\ ArbiterInv /\ handed \in Seq(Event)
        /\ raced \subseteq 1 .. 2 * Len(Source)
    BY DEF FailoverInv, HandedTypeOK
  <1>1. CASE Direct
    <2>1. PipelineInv' /\ RecoveryInv'  BY <1>i, <1>1, OnEventInv DEF Direct
    <2>2. ArbiterInv'  BY <1>i, <1>1, ArbiterStutters DEF Direct
    <2> QED  BY <1>i, <1>1, <2>1, <2>2 DEF Direct, FailoverInv, HandedTypeOK
  <1>2. CASE RaceArrival
    <2>1. PipelineInv' /\ RecoveryInv'  BY <1>i, <1>2, PipelineRests DEF RaceArrival
    <2>2. ArbiterInv'
      <3>1. PICK side \in Arbiter!FeedSide, v \in RaceVenues, seq \in RaceNumbers :
                Arbiter!OnEvent(side, v, seq)
        BY <1>2 DEF RaceArrival
      <3>2. v \in Venues /\ seq \in SeqNumbers  BY FailoverAssumption
      <3> QED  BY <1>i, <3>1, <3>2, ArbiterEventInv
    <2> QED  BY <1>i, <1>2, <2>1, <2>2 DEF RaceArrival, FailoverInv, HandedTypeOK
  <1>3. CASE DrillStep
    <2>1. PipelineInv' /\ RecoveryInv'  BY <1>i, <1>3, PipelineRests DEF DrillStep
    <2> DEFINE p == Min(raced)
               c == Copy(p)
    <2>2. Arbiter!OnEvent(c.side, c.event.venue, c.event.sequence) /\ raced # {}
          /\ raced' \subseteq raced /\ handed' = handed
      BY <1>3 DEF DrillStep
    <2>3. p \in raced
      <3>1. raced \subseteq Nat  BY <1>i
      <3>2. \E x \in raced : \A y \in raced : x <= y  BY <2>2, <3>1, LeastMember
      <3> QED  BY <3>2 DEF Min
    <2> HIDE DEF p
    <2>4. c.side \in Arbiter!FeedSide /\ c.event.venue \in Venues /\ c.event.sequence \in SeqNumbers
      <3>1. p \in 1 .. 2 * Len(Source)  BY <1>i, <2>3
      <3> QED  BY <3>1, CopyFacts
    <2> HIDE DEF c
    <2>5. ArbiterInv'  BY <1>i, <2>2, <2>4, ArbiterEventInv
    <2> QED  BY <1>i, <2>1, <2>2, <2>5 DEF FailoverInv, HandedTypeOK
  <1>4. CASE TakeReady
    <2>1. PipelineInv' /\ RecoveryInv'  BY <1>i, <1>4, PipelineRests DEF TakeReady
    <2>2. ArbiterInv'  BY <1>i, <1>4, DrainReadyInv DEF TakeReady
    <2>3. handed' = handed \o arbReady /\ raced' = raced  BY <1>4 DEF TakeReady
    <2>4. arbReady \in Seq(Event)  BY <1>i DEF ArbiterInv, ArbiterTypeOK
    <2>5. handed' \in Seq(Event)  BY <1>i, <2>3, <2>4, ConcatProperties
    <2> QED  BY <1>i, <2>1, <2>2, <2>3, <2>5 DEF FailoverInv, HandedTypeOK
  <1>5. CASE HandOver
    <2>1. handed # <<>> /\ OnEvent(Head(handed).venue, Head(handed).sequence)
          /\ handed' = Tail(handed) /\ raced' = raced /\ UNCHANGED arbVars
      BY <1>5 DEF HandOver
    <2>2. Head(handed).venue \in Venues /\ Head(handed).sequence \in SeqNumbers
          /\ Tail(handed) \in Seq(Event)
      BY <1>i, <2>1, RecoveredHead
    <2>3. PipelineInv' /\ RecoveryInv'  BY <1>i, <2>1, <2>2, OnEventInv
    <2>4. ArbiterInv'  BY <1>i, <2>1, ArbiterStutters
    <2> QED  BY <1>i, <2>1, <2>2, <2>3, <2>4 DEF FailoverInv, HandedTypeOK
  <1>6. CASE Continue
    <2>1. UNCHANGED <<handed, raced>> /\ UNCHANGED arbVars  BY <1>6 DEF Continue
    <2>2. PipelineInv' /\ RecoveryInv'
      <3>1. CASE SkipPending  BY <1>i, <3>1, SkipInv
      <3>2. CASE Reinject  BY <1>i, <3>2, ReinjectInv
      <3>3. CASE PopNext
        <4>1. PipelineInv'  BY <1>i, <3>3, PopInv
        <4>2. UNCHANGED <<simulated, recovered, draining>>  BY <3>3 DEF PopNext
        <4> QED  BY <1>i, <4>1, <4>2 DEF RecoveryInv
      <3>4. CASE Drained  BY <1>i, <3>4, DrainedInv
      <3> QED  BY <1>6, <3>1, <3>2, <3>3, <3>4 DEF Continue
    <2>3. ArbiterInv'  BY <1>i, <2>1, ArbiterStutters
    <2> QED  BY <1>i, <2>1, <2>2, <2>3 DEF FailoverInv, HandedTypeOK
  <1>7. CASE CallFinalize
    <2>1. UNCHANGED <<handed, raced>> /\ UNCHANGED arbVars /\ Finalize  BY <1>7 DEF CallFinalize
    <2>2. PipelineInv' /\ RecoveryInv'  BY <1>i, <2>1, FinalizeInv
    <2>3. ArbiterInv'  BY <1>i, <2>1, ArbiterStutters
    <2> QED  BY <1>i, <2>1, <2>2, <2>3 DEF FailoverInv, HandedTypeOK
  <1>8. CASE UNCHANGED allVars
    <2>1. UNCHANGED <<handed, raced>> /\ UNCHANGED arbVars /\ UNCHANGED vars  BY <1>8 DEF allVars
    <2>2. PipelineInv' /\ RecoveryInv'  BY <1>i, <2>1, PipelineRests
    <2>3. ArbiterInv'  BY <1>i, <2>1, ArbiterStutters
    <2> QED  BY <1>i, <2>1, <2>2, <2>3 DEF FailoverInv, HandedTypeOK
  <1> QED  BY <1>1, <1>2, <1>3, <1>4, <1>5, <1>6, <1>7, <1>8 DEF NextFailover

------------------------------------------------------------------------------
(* The invariant of arbiter and pipeline: trackers, pending events, queues,   *)
(* sink and counters stand in the relations the code relies on, whichever     *)
(* way the applications feed them.                                           *)
THEOREM FailoverInvariant == SpecFailover => []FailoverInv
  <1>1. InitFailover => FailoverInv  BY FailoverInit
  <1>2. FailoverInv /\ [NextFailover]_allVars => FailoverInv'  BY FailoverStep
  <1> QED  BY <1>1, <1>2, PTL DEF SpecFailover

(* In both stages the container of waiting events and the tracker's ring of    *)
(* tags agree in every state: process_event never misses a released event and  *)
(* the arbiter's replay of a pending copy is dead code.                       *)
THEOREM RecordsAgree == SpecFailover => []HeldRecordsAgree
  <1>1. FailoverInv => HeldRecordsAgree
    BY DEF FailoverInv, PipelineInv, ArbiterInv, HeldRecordsAgree
  <1> QED  BY <1>1, FailoverInvariant, PTL

(* Each event leaves the arbiter and reaches the merger once and in sequence,  *)
(* and each finalize sends in merge order, when the exchange's timestamps do   *)
(* not run backwards within a venue.                                         *)
THEOREM OnceInOrder ==
    ASSUME TimesMonotone
    PROVE  SpecFailover => []InOrderOnce
  <1>1. FailoverInv => InOrderOnce
    BY DEF FailoverInv, PipelineInv, ArbiterInv, Merging, InOrderOnce
  <1> QED  BY <1>1, FailoverInvariant, PTL

(* Without a counted jump over a gap, every number below next_expected has     *)
(* been published to the merger.                                             *)
THEOREM NothingLost == SpecFailover => []NoLossWithoutForcedAdvance
  <1>1. FailoverInv => NoLossWithoutForcedAdvance  BY DEF FailoverInv, PipelineInv
  <1> QED  BY <1>1, FailoverInvariant, PTL

------------------------------------------------------------------------------
(* The bisection of the replay store. *)

(* What is left to search after each turn. *)
Searches(q, seq, f) ==
    f = [n \in 0 .. Len(q) |->
            IF n = 0 THEN [first |-> 0, len |-> Len(q)] ELSE BisectTurn(q, seq, f[n - 1])]

LEMMA SearchesExist ==
    ASSUME NEW q \in Seq(SeqNumbers), NEW seq
    PROVE  \E f : Searches(q, seq, f)
  <1> DEFINE L == Len(q)
             start == [first |-> 0, len |-> Len(q)]
             Good(m, f) == /\ DOMAIN f = 0 .. m
                           /\ f[0] = start
                           /\ \A k \in 1 .. m : f[k] = BisectTurn(q, seq, f[k - 1])
             T == {m \in 0 .. L : \A f : ~Good(m, f)}
  <1>1. L \in Nat  BY LenProperties
  <1> HIDE DEF L, start
  <1>2. T = {}
    <2> SUFFICES ASSUME T # {} PROVE FALSE  OBVIOUS
    <2>1. T \subseteq Nat  BY <1>1
    <2>2. PICK m \in T : \A y \in T : m <= y  BY <2>1, LeastMember
    <2>3. m \in 0 .. L /\ \A f : ~Good(m, f)  OBVIOUS
    <2>4. m # 0
      <3> DEFINE f0 == [n \in 0 .. 0 |-> start]
      <3>1. Good(0, f0)  OBVIOUS
      <3> QED  BY <2>3, <3>1
    <2>5. m - 1 \in 0 .. L /\ m - 1 \notin T  BY <1>1, <2>1, <2>2, <2>3, <2>4
    <2>6. PICK f : Good(m - 1, f)  BY <2>5
    <2> DEFINE g == [n \in 0 .. m |-> IF n = m THEN BisectTurn(q, seq, f[m - 1]) ELSE f[n]]
    <2>7. DOMAIN g = 0 .. m /\ g[0] = start /\ g[m] = BisectTurn(q, seq, f[m - 1])
      BY <1>1, <2>3, <2>4, <2>6
    <2>8. \A n \in 0 .. m - 1 : g[n] = f[n]  BY <1>1, <2>3
    <2>9. ASSUME NEW k \in 1 .. m PROVE g[k] = BisectTurn(q, seq, g[k - 1])
      <3>1. k - 1 \in 0 .. m - 1  BY <1>1, <2>3
      <3>2. CASE k = m  BY <2>7, <2>8, <3>1, <3>2
      <3>3. CASE k # m
        <4>1. k \in 0 .. m - 1 /\ k \in 1 .. m - 1  BY <1>1, <2>3, <3>3
        <4> HIDE DEF g
        <4> QED  BY <2>6, <2>8, <3>1, <4>1
      <3> QED  BY <3>2, <3>3
    <2> HIDE DEF g
    <2> QED  BY <2>3, <2>7, <2>9
  <1>3. PICK f : Good(L, f)  BY <1>1, <1>2
  <1> DEFINE g == [n \in 0 .. L |-> f[n]]
  <1>4. ASSUME NEW n \in 0 .. L
        PROVE  g[n] = IF n = 0 THEN start ELSE BisectTurn(q, seq, g[n - 1])
    <2>1. CASE n = 0  BY <1>1, <1>3, <2>1
    <2>2. CASE n # 0
      <3>1. n \in 1 .. L /\ n - 1 \in 0 .. L  BY <1>1, <2>2
      <3>2. g[n] = f[n] /\ g[n - 1] = f[n - 1]  BY <3>1
      <3> HIDE DEF g
      <3> QED  BY <1>3, <2>2, <3>1, <3>2
    <2> QED  BY <2>1, <2>2
  <1>5. g = [n \in 0 .. L |-> IF n = 0 THEN start ELSE BisectTurn(q, seq, g[n - 1])]
    BY <1>4
  <1> HIDE DEF g
  <1>6. Searches(q, seq, g)  BY <1>5 DEF Searches, L, start
  <1> QED  BY <1>6

(* The bisection stops where the last turn leaves it. *)
LEMMA LowerBoundIsLast ==
    ASSUME NEW q \in Seq(SeqNumbers), NEW seq
    PROVE  \E f : /\ f[0] = [first |-> 0, len |-> Len(q)] /\ LowerBound(q, seq) = f[Len(q)].first
                  /\ \A k \in 1 .. Len(q) : f[k] = BisectTurn(q, seq, f[k - 1])
  <1> DEFINE f == CHOOSE g : Searches(q, seq, g)
             start == [first |-> 0, len |-> Len(q)]
  <1>1. Searches(q, seq, f)  BY SearchesExist, Zenon
  <1>2. LowerBound(q, seq) = f[Len(q)].first  BY Zenon DEF LowerBound, Searches
  <1> HIDE DEF f
  <1>3. Len(q) \in Nat  BY LenProperties
  <1>4. \A n \in 0 .. Len(q) : f[n] = IF n = 0 THEN start ELSE BisectTurn(q, seq, f[n - 1])
    BY <1>1 DEF Searches
  <1> HIDE DEF start
  <1>5. f[0] = start  BY <1>3, <1>4
  <1>6. \A k \in 1 .. Len(q) : f[k] = BisectTurn(q, seq, f[k - 1])  BY <1>3, <1>4
  <1> QED  BY <1>2, <1>5, <1>6 DEF start

(* What is left to search from r on has the place. *)
Holds(r, at, L) ==
    /\ r.first \in Nat /\ r.len \in Nat /\ r.first + r.len <= L
    /\ r.first <= at - 1 /\ at - 1 <= r.first + r.len

(* A turn keeps the place in what is left, which gets smaller. *)
LEMMA TurnKeepsPlace ==
    ASSUME NEW q \in Seq(SeqNumbers), NEW seq \in Nat, NEW at \in 1 .. Len(q),
           \A j \in 1 .. at - 1 : q[j] < seq, \A j \in at .. Len(q) : q[j] >= seq,
           NEW r, Holds(r, at, Len(q))
    PROVE  LET t == BisectTurn(q, seq, r) IN
           Holds(t, at, Len(q)) /\ (t.len < r.len \/ t.len = 0)
  <1> DEFINE t == BisectTurn(q, seq, r)
             first == r.first
             len == r.len
  <1> SUFFICES Holds(t, at, Len(q)) /\ (t.len < r.len \/ t.len = 0)  OBVIOUS
  <1>0. /\ first \in Nat /\ len \in Nat /\ first + len <= Len(q)
        /\ first <= at - 1 /\ at - 1 <= first + len /\ Len(q) \in Nat
    BY LenProperties DEF Holds
  <1>1. CASE len = 0
    <2>1. t = r  BY <1>1 DEF BisectTurn
    <2> QED  BY <1>1, <2>1
  <1>2. CASE len # 0
    <2> DEFINE half == len \div 2
               m == first + half + 1
    <2>1. half \in Nat /\ half < len  BY <1>0, <1>2
    <2>2. t = IF q[m] < seq THEN [first |-> m, len |-> len - half - 1]
              ELSE [first |-> first, len |-> half]
      BY <1>2 DEF BisectTurn
    <2>3. m \in 1 .. Len(q) /\ m = first + half + 1  BY <1>0, <2>1
    <2> HIDE DEF half, first, len, m, t
    <2>4. CASE q[m] < seq
      <3>1. m <= at - 1
        <4> SUFFICES ASSUME ~(m <= at - 1) PROVE FALSE  OBVIOUS
        <4>1. m \in at .. Len(q)  BY <1>0, <2>3
        <4>2. q[m] \in Nat  BY <2>3, ElementOfSeq, PipelineAssumption
        <4> QED  BY <2>4, <4>1, <4>2
      <3>2. t.first = m /\ t.len = len - half - 1  BY <2>2, <2>4
      <3>3. /\ m \in Nat /\ len - half - 1 \in Nat /\ m + (len - half - 1) = first + len
            /\ len - half - 1 < len
        BY <1>0, <2>1, <2>3
      <3> QED  BY <1>0, <3>1, <3>2, <3>3 DEF Holds, len
    <2>5. CASE ~(q[m] < seq)
      <3>1. at <= m
        <4> SUFFICES ASSUME ~(at <= m) PROVE FALSE  OBVIOUS
        <4>1. m \in 1 .. at - 1  BY <1>0, <2>3
        <4> QED  BY <2>5, <4>1
      <3>2. t.first = first /\ t.len = half  BY <2>2, <2>5
      <3>3. at - 1 <= first + half /\ first + half <= Len(q)  BY <1>0, <2>1, <2>3, <3>1
      <3> QED  BY <1>0, <2>1, <3>2, <3>3 DEF Holds, len
    <2> QED  BY <2>4, <2>5
  <1> QED  BY <1>1, <1>2

(* Behind smaller numbers and before no smaller one, a number is found. *)
LEMMA LookupFinds ==
    ASSUME NEW q \in Seq(SeqNumbers), NEW seq \in Nat, NEW at \in 1 .. Len(q), q[at] = seq,
           \A j \in 1 .. at - 1 : q[j] < seq, \A j \in at .. Len(q) : q[j] >= seq
    PROVE  Lookup(q, seq)
  <1> DEFINE L == Len(q)
  <1>0. L \in Nat /\ at \in Nat /\ at <= L /\ at >= 1  BY LenProperties
  <1>1. PICK f : /\ f[0] = [first |-> 0, len |-> L] /\ LowerBound(q, seq) = f[L].first
                 /\ \A k \in 1 .. L : f[k] = BisectTurn(q, seq, f[k - 1])
    BY LowerBoundIsLast
  <1> DEFINE Fine(k) == Holds(f[k], at, L) /\ f[k].len <= L - k
             T == {k \in 0 .. L : ~Fine(k)}
  <1>2. T = {}
    <2> SUFFICES ASSUME T # {} PROVE FALSE  OBVIOUS
    <2>1. T \subseteq Nat  BY <1>0
    <2>2. Fine(0)  BY <1>0, <1>1 DEF Holds
    <2> HIDE DEF Fine
    <2>3. PICK m \in T : \A y \in T : m <= y  BY <2>1, LeastMember
    <2>4. m \in 0 .. L /\ ~Fine(m)  OBVIOUS
    <2>5. m # 0  BY <2>2, <2>4
    <2>6. m - 1 \in 0 .. L /\ m - 1 \notin T /\ m \in 1 .. L
      BY <1>0, <2>1, <2>3, <2>4, <2>5
    <2>7. Fine(m - 1)  BY <2>6
    <2> DEFINE r == f[m - 1]
               t == f[m]
    <2>8. t = BisectTurn(q, seq, r)  BY <1>1, <2>6
    <2>9. Holds(r, at, Len(q)) /\ r.len <= L - (m - 1) /\ r.len \in Nat  BY <2>7 DEF Fine, Holds
    <2> HIDE DEF r, t
    <2>10. Holds(t, at, Len(q)) /\ (t.len < r.len \/ t.len = 0)  BY <2>8, <2>9, TurnKeepsPlace
    <2>11. t.len \in Nat  BY <2>10 DEF Holds
    <2>12. t.len <= L - m  BY <1>0, <2>4, <2>9, <2>10, <2>11
    <2> QED  BY <2>4, <2>10, <2>12 DEF Fine, t
  <1>3. Holds(f[L], at, L) /\ f[L].len <= L - L  BY <1>0, <1>2
  <1>4. f[L].first = at - 1  BY <1>0, <1>3 DEF Holds
  <1>5. LowerBound(q, seq) + 1 = at  BY <1>0, <1>1, <1>4
  <1>6. at \in DOMAIN q  BY LenProperties
  <1> QED  BY <1>5, <1>6 DEF Lookup

------------------------------------------------------------------------------
(* What the replay store holds after each step. *)

(* s is what is left of q when some go from its front. *)
IsRest(s, q) ==
    \E k \in Nat : /\ Len(q) = Len(s) + k
                   /\ \A i \in 1 .. Len(s) : s[i] = q[i + k]

LEMMA RestFrom ==
    ASSUME NEW q \in Seq(SeqNumbers), NEW k \in 1 .. Len(q) + 1
    PROVE  /\ SubSeq(q, k, Len(q)) \in Seq(SeqNumbers) /\ IsRest(SubSeq(q, k, Len(q)), q)
  <1> DEFINE s == SubSeq(q, k, Len(q))
  <1>0. Len(q) \in Nat /\ Len(q) \in k - 1 .. Len(q)  BY LenProperties
  <1>1. s \in Seq(SeqNumbers) /\ Len(s) = Len(q) - k + 1
        /\ \A i \in 1 .. Len(q) - k + 1 : s[i] = q[k + i - 1]
    BY <1>0, SubSeqProperties
  <1> HIDE DEF s
  <1>2. k - 1 \in Nat /\ Len(q) = Len(s) + (k - 1)  BY <1>0, <1>1
  <1>3. ASSUME NEW i \in 1 .. Len(s) PROVE s[i] = q[i + (k - 1)]
    <2>1. i \in 1 .. Len(q) - k + 1 /\ k + i - 1 = i + (k - 1)  BY <1>0, <1>1
    <2> QED  BY <1>1, <2>1
  <1>4. IsRest(s, q)  BY <1>2, <1>3 DEF IsRest
  <1> QED  BY <1>1, <1>4 DEF s

LEMMA RestOfAll ==
    ASSUME NEW q \in Seq(SeqNumbers) PROVE IsRest(q, q)
  <1>1. Len(q) \in Nat  BY LenProperties
  <1>2. Len(q) = Len(q) + 0 /\ \A i \in 1 .. Len(q) : i + 0 = i  BY <1>1
  <1>3. 0 \in Nat  OBVIOUS
  <1> QED  BY <1>2, <1>3 DEF IsRest

LEMMA RecordRest ==
    ASSUME NEW q \in Seq(SeqNumbers), NEW seq \in SeqNumbers
    PROVE  IsRest(RecordEvent(q, seq), Append(q, seq))
  <1> DEFINE longer == Append(q, seq)
             excess == Len(longer) - MaxEventsPerVenue
  <1>1. longer \in Seq(SeqNumbers) /\ Len(longer) \in Nat  BY AppendProperties
  <1>2. MaxEventsPerVenue \in Nat
    BY GapWindowAssumption, PipelineAssumption DEF MaxEventsPerVenue
  <1> HIDE DEF longer
  <1>3. CASE excess > 0
    <2>1. excess + 1 \in 1 .. Len(longer) + 1  BY <1>1, <1>2, <1>3
    <2>2. IsRest(SubSeq(longer, excess + 1, Len(longer)), longer)  BY <1>1, <2>1, RestFrom
    <2>3. RecordEvent(q, seq) = SubSeq(longer, excess + 1, Len(longer))
      BY <1>3 DEF RecordEvent, longer
    <2> QED  BY <2>2, <2>3 DEF longer
  <1>4. CASE ~(excess > 0)
    <2>1. RecordEvent(q, seq) = longer  BY <1>4 DEF RecordEvent, longer
    <2> QED  BY <1>1, <2>1, RestOfAll DEF longer
  <1> QED  BY <1>3, <1>4

LEMMA EvictRest ==
    ASSUME NEW q \in Seq(SeqNumbers), NEW next \in Nat
    PROVE  IsRest(EvictBehind(q, next), q)
  <1>0. Len(q) \in Nat  BY LenProperties
  <1>1. ASSUME NEW keep PROVE IsRest(EvictBefore(q, keep), q)
    <2> DEFINE kept == {i \in 1 .. Len(q) : q[i] >= keep}
    <2>1. CASE kept = {}
      <3>1. EvictBefore(q, keep) = <<>>  BY <2>1 DEF EvictBefore
      <3>2. Len(q) = Len(<<>>) + Len(q) /\ 1 .. Len(<<>>) = {}  BY <1>0
      <3> QED  BY <1>0, <3>1, <3>2 DEF IsRest
    <2>2. CASE kept # {}
      <3>1. kept \subseteq Nat /\ kept \subseteq 1 .. Len(q)  BY <1>0
      <3>2. EvictBefore(q, keep) = SubSeq(q, Min(kept), Len(q))  BY <2>2 DEF EvictBefore
      <3> HIDE DEF kept
      <3>3. PICK m \in kept : \A y \in kept : m <= y  BY <2>2, <3>1, LeastMember
      <3>4. Min(kept) \in kept  BY <3>3 DEF Min
      <3> DEFINE k == Min(kept)
      <3> HIDE DEF k
      <3>5. k \in 1 .. Len(q)  BY <3>1, <3>4 DEF k
      <3>6. k \in 1 .. Len(q) + 1  BY <1>0, <3>5
      <3>7. IsRest(SubSeq(q, k, Len(q)), q)  BY <3>6, RestFrom
      <3> QED  BY <3>2, <3>7 DEF k
    <2> QED  BY <2>1, <2>2
  <1> QED  BY <1>1, RestOfAll DEF EvictBehind

(* What is known of a store is known of its rest, and what is found in the rest *)
(* is found in the store.                                                     *)
LEMMA RestKnown ==
    ASSUME NEW q \in Seq(SeqNumbers), NEW s \in Seq(SeqNumbers), IsRest(s, q),
           NEW next \in Nat, NEW P
    PROVE  /\ StoreKnown(q, next, P) => StoreKnown(s, next, P)
           /\ Findable(s, next) => Findable(q, next)
  <1>0. Len(s) \in Nat /\ Len(q) \in Nat  BY LenProperties
  <1>1. PICK k \in Nat : Len(q) = Len(s) + k /\ \A i \in 1 .. Len(s) : s[i] = q[i + k]
    BY DEF IsRest
  <1>2. ASSUME StoreKnown(q, next, P) PROVE StoreKnown(s, next, P)
    <2> SUFFICES ASSUME NEW i \in 1 .. Len(s)
                 PROVE  /\ s[i] <= next \/ s[i] \in P
                        /\ s[i] = next => \A j \in 1 .. i - 1 : s[j] < next
      BY DEF StoreKnown
    <2>1. i + k \in 1 .. Len(q) /\ s[i] = q[i + k]  BY <1>0, <1>1
    <2>2. /\ q[i + k] <= next \/ q[i + k] \in P
          /\ q[i + k] = next => \A j \in 1 .. (i + k) - 1 : q[j] < next
      BY <1>2, <2>1 DEF StoreKnown
    <2>3. ASSUME s[i] = next, NEW j \in 1 .. i - 1 PROVE s[j] < next
      <3>1. j \in 1 .. Len(s) /\ j + k \in 1 .. (i + k) - 1  BY <1>0, <1>1
      <3> QED  BY <1>1, <2>1, <2>2, <2>3, <3>1
    <2> QED  BY <2>1, <2>2, <2>3
  <1>3. ASSUME Findable(s, next) PROVE Findable(q, next)
    <2>1. PICK i \in 1 .. Len(s) : s[i] = next /\ \A j \in i .. Len(s) : s[j] >= next
      BY <1>3 DEF Findable
    <2>2. i + k \in 1 .. Len(q) /\ q[i + k] = next  BY <1>0, <1>1, <2>1
    <2>3. ASSUME NEW j \in i + k .. Len(q) PROVE q[j] >= next
      <3>1. j - k \in i .. Len(s) /\ j - k \in 1 .. Len(s) /\ (j - k) + k = j  BY <1>0, <1>1
      <3> QED  BY <1>1, <2>1, <3>1
    <2> QED  BY <2>2, <2>3 DEF Findable
  <1> QED  BY <1>2, <1>3

(* An arrival that is not the next number. *)
LEMMA ArrivalKnown ==
    ASSUME NEW q \in Seq(SeqNumbers), NEW seq \in SeqNumbers, NEW next \in Nat, NEW P, NEW Q,
           StoreKnown(q, next, P), P \subseteq Q, seq < next \/ (seq \in Q /\ seq # next)
    PROVE  /\ StoreKnown(Append(q, seq), next, Q)
           /\ Findable(Append(q, seq), next) => Findable(q, next)
  <1> DEFINE L == Len(q)
             longer == Append(q, seq)
  <1>0. L \in Nat /\ seq \in Nat  BY LenProperties, PipelineAssumption
  <1>1. Len(longer) = L + 1 /\ longer[L + 1] = seq /\ \A i \in 1 .. L : longer[i] = q[i]
    BY AppendProperties
  <1> HIDE DEF L, longer
  <1>2. seq # next  BY <1>0
  <1>3. ASSUME NEW i \in 1 .. L + 1
        PROVE  /\ longer[i] <= next \/ longer[i] \in Q
               /\ longer[i] = next => \A j \in 1 .. i - 1 : longer[j] < next
    <2>1. CASE i = L + 1  BY <1>0, <1>1, <1>2, <2>1
    <2>2. CASE i # L + 1
      <3>1. i \in 1 .. L /\ \A j \in 1 .. i - 1 : j \in 1 .. L  BY <1>0, <2>2
      <3>2. /\ q[i] <= next \/ q[i] \in P
            /\ q[i] = next => \A j \in 1 .. i - 1 : q[j] < next
        BY <3>1 DEF StoreKnown, L
      <3> QED  BY <1>1, <3>1, <3>2
    <2> QED  BY <2>1, <2>2
  <1>4. ASSUME Findable(longer, next) PROVE Findable(q, next)
    <2>1. PICK i \in 1 .. L + 1 : longer[i] = next /\ \A j \in i .. L + 1 : longer[j] >= next
      BY <1>1, <1>4 DEF Findable
    <2>2. i \in 1 .. L  BY <1>0, <1>1, <1>2, <2>1
    <2>3. ASSUME NEW j \in i .. L PROVE q[j] >= next
      <3>1. j \in i .. L + 1 /\ j \in 1 .. L  BY <1>0, <2>2
      <3> QED  BY <1>1, <2>1, <3>1
    <2>4. q[i] = next  BY <1>1, <2>1, <2>2
    <2> QED  BY <2>2, <2>3, <2>4 DEF Findable, L
  <1>5. StoreKnown(longer, next, Q)  BY <1>1, <1>3 DEF StoreKnown
  <1> QED  BY <1>4, <1>5 DEF longer

(* Once next_expected has gone past all that was known, nothing is left to find. *)
LEMMA PassedKnown ==
    ASSUME NEW q \in Seq(SeqNumbers), NEW next \in Nat, NEW P, StoreKnown(q, next, P),
           NEW e \in Nat, e > next, e \notin P, NEW Q, \A x \in P : x < e \/ x \in Q
    PROVE  StoreKnown(q, e, Q) /\ ~Findable(q, e)
  <1>1. ASSUME NEW i \in 1 .. Len(q) PROVE (q[i] < e \/ q[i] \in Q) /\ q[i] # e
    <2>1. q[i] \in Nat  BY ElementOfSeq, PipelineAssumption
    <2>2. q[i] <= next \/ q[i] \in P  BY DEF StoreKnown
    <2> QED  BY <2>1, <2>2
  <1>2. ASSUME NEW i \in 1 .. Len(q) PROVE q[i] <= e \/ q[i] \in Q
    <2>1. q[i] \in Nat  BY ElementOfSeq, PipelineAssumption
    <2> QED  BY <1>1, <2>1
  <1> QED  BY <1>1, <1>2 DEF StoreKnown, Findable

(* The number that forces the tracker over a gap is the greatest. *)
LEMMA ForcedKnown ==
    ASSUME NEW q \in Seq(SeqNumbers), NEW seq \in SeqNumbers, NEW next \in Nat, NEW P,
           StoreKnown(q, next, P), seq > next, \A x \in P : x < seq, NEW Q
    PROVE  StoreKnown(Append(q, seq), seq, Q)
  <1> DEFINE L == Len(q)
             longer == Append(q, seq)
  <1>0. L \in Nat /\ seq \in Nat  BY LenProperties, PipelineAssumption
  <1>1. Len(longer) = L + 1 /\ longer[L + 1] = seq /\ \A i \in 1 .. L : longer[i] = q[i]
    BY AppendProperties
  <1>2. ASSUME NEW i \in 1 .. L PROVE longer[i] < seq
    <2>1. q[i] \in Nat  BY ElementOfSeq, PipelineAssumption
    <2>2. q[i] <= next \/ q[i] \in P  BY DEF StoreKnown
    <2> QED  BY <1>0, <1>1, <2>1, <2>2
  <1>3. ASSUME NEW i \in 1 .. L PROVE longer[i] \in Nat
    BY <1>1, ElementOfSeq, PipelineAssumption
  <1> HIDE DEF L, longer
  <1>4. ASSUME NEW i \in 1 .. L + 1
        PROVE  /\ longer[i] <= seq
               /\ longer[i] = seq => \A j \in 1 .. i - 1 : longer[j] < seq
    <2>1. CASE i = L + 1
      <3>1. \A j \in 1 .. i - 1 : j \in 1 .. L  BY <1>0, <2>1
      <3> QED  BY <1>0, <1>1, <1>2, <2>1, <3>1
    <2>2. CASE i # L + 1
      <3>1. i \in 1 .. L  BY <1>0, <2>2
      <3>2. longer[i] < seq /\ longer[i] \in Nat  BY <1>2, <1>3, <3>1
      <3> QED  BY <1>0, <3>2
    <2> QED  BY <2>1, <2>2
  <1>5. StoreKnown(longer, seq, Q)  BY <1>1, <1>4 DEF StoreKnown
  <1> QED  BY <1>5 DEF longer

(* The loop over a set of numbers meets each of them. *)
LEMMA AscendingMeets ==
    ASSUME NEW S \in SUBSET (Nat \ {0}), NEW n \in Nat, \A s \in S : s <= n, NEW x \in S
    PROVE  \E i \in 1 .. Cardinality(S) : Ascending(S)[i] = x
  <1> DEFINE c == Cardinality(UpTo(S, x))
             y == CHOOSE s \in S : Cardinality({r \in S : r <= s}) = c
  <1>0. S \in SUBSET Nat /\ x \in Nat /\ UpTo(S, n) = S  BY DEF UpTo
  <1>1. IsFiniteSet(S) /\ Cardinality(S) \in Nat /\ c \in Nat
    <2>1. IsFiniteSet(UpTo(S, n)) /\ Cardinality(UpTo(S, n)) \in Nat  BY <1>0, UpToFinite
    <2>2. Cardinality(UpTo(S, x)) \in Nat  BY <1>0, UpToFinite
    <2> QED  BY <1>0, <2>1, <2>2
  <1>2. c >= 1
    <2>1. Cardinality(UpTo(S, 0)) < Cardinality(UpTo(S, x))  BY <1>0, UpToStrict
    <2>2. Cardinality(UpTo(S, 0)) = 0  BY UpToZero
    <2> QED  BY <1>1, <2>1, <2>2
  <1>3. c <= Cardinality(S)
    <2>1. UpTo(S, x) \subseteq S  BY DEF UpTo
    <2> QED  BY <1>1, <2>1, FS_Subset
  <1>4. y \in S /\ Cardinality(UpTo(S, y)) = c
    <2>1. Cardinality({r \in S : r <= x}) = c  BY DEF UpTo
    <2>2. y \in S /\ Cardinality({r \in S : r <= y}) = c  BY <2>1
    <2> HIDE DEF y
    <2> QED  BY <2>2 DEF UpTo
  <1>5. c \in 1 .. Cardinality(S)  BY <1>1, <1>2, <1>3
  <1>6. Ascending(S)[c] = y  BY <1>5 DEF Ascending
  <1> HIDE DEF c, y
  <1>7. y = x
    <2>1. y \in Nat  BY <1>0, <1>4
    <2>2. CASE y < x
      <3>1. Cardinality(UpTo(S, y)) < Cardinality(UpTo(S, x))  BY <1>0, <2>1, <2>2, UpToStrict
      <3> QED  BY <1>1, <1>4, <3>1 DEF c
    <2>3. CASE x < y
      <3>1. Cardinality(UpTo(S, x)) < Cardinality(UpTo(S, y))  BY <1>0, <1>4, <2>3, UpToStrict
      <3> QED  BY <1>1, <1>4, <3>1 DEF c
    <2> QED  BY <1>0, <2>1, <2>2, <2>3
  <1> QED  BY <1>5, <1>6, <1>7

(* Only a gap that is buffered is looked up. *)
LEMMA NothingRequested ==
    ASSUME NEW t, NEW v, NEW seq, NEW q, StatusOf(t, seq) # "GapBuffered"
    PROVE  RequestRecovery(t, v, seq, q) = <<>>
  <1> DEFINE S == {m \in RequestedRange(t, seq) : Lookup(q, m)}
             asc == Ascending(S)
  <1>1. S = {}  BY DEF RequestedRange
  <1>2. Cardinality(S) = 0  BY <1>1, FS_EmptySet
  <1>3. DOMAIN asc = {}  BY <1>2 DEF Ascending
  <1>4. RequestRecovery(t, v, seq, q) = [i \in DOMAIN asc |-> [venue |-> v, sequence |-> asc[i]]]
    BY DEF RequestRecovery
  <1> HIDE DEF asc
  <1>5. [i \in DOMAIN asc |-> [venue |-> v, sequence |-> asc[i]]] = [i \in {} |-> i]
    BY <1>3, Zenon
  <1>6. [i \in {} |-> i] = <<>>  OBVIOUS
  <1> QED  BY <1>4, <1>5, <1>6

(* The events found are of venue v, and past, waiting or the next. *)
Fetched(found, v, n, P) ==
    \A k \in 1 .. Len(found) :
        found[k].venue = v /\ (found[k].sequence <= n \/ found[k].sequence \in P)

(* The event v, n is among the events rec. *)
Among(rec, v, n) == \E k \in 1 .. Len(rec) : rec[k] = [venue |-> v, sequence |-> n]

(* What request_recovery returns: requested numbers that are in the store, and  *)
(* among them next_expected if it can be found.                              *)
LEMMA RequestFacts ==
    ASSUME NEW t \in TrackerType, NEW v \in Venues, NEW seq \in SeqNumbers,
           NEW q \in Seq(SeqNumbers), NEW P, StoreKnown(q, t.next_expected, P),
           NEW found, found = RequestRecovery(t, v, seq, q)
    PROVE  /\ found \in Seq(Event)
           /\ Fetched(found, v, t.next_expected, P)
           /\ StatusOf(t, seq) = "GapBuffered" /\ Findable(q, t.next_expected) =>
                 Among(found, v, t.next_expected)
  <1> DEFINE n == t.next_expected
             S == {m \in RequestedRange(t, seq) : Lookup(q, m)}
             asc == Ascending(S)
  <1>0. seq \in Nat /\ n \in Nat /\ n >= 1  BY TrackerFields, PipelineAssumption
  <1>1. found \in Seq(Event)  BY RequestType
  <1>2. S \in SUBSET (Nat \ {0}) /\ \A s \in S : s <= seq
    <2>1. RequestedRange(t, seq) \subseteq Nat \ {0} /\ \A m \in RequestedRange(t, seq) : m <= seq
      BY <1>0, TrackerFields DEF RequestedRange
    <2> QED  BY <2>1
  <1>3. asc \in Seq(S) /\ Len(asc) = Cardinality(S) /\ Len(asc) \in Nat
    <2>1. asc \in Seq(S) /\ Len(asc) = Cardinality(S)  BY <1>0, <1>2, AscendingType
    <2> QED  BY <2>1, LenProperties
  <1>4. found = [i \in DOMAIN asc |-> [venue |-> v, sequence |-> asc[i]]]  BY DEF RequestRecovery
  <1>5. \A m \in S : \E at \in 1 .. Len(q) : q[at] = m
    <2> TAKE m \in S
    <2>1. PICK at \in DOMAIN q : q[at] = m  BY DEF Lookup
    <2> QED  BY <2>1, LenProperties
  <1>6. \A m \in S : m <= n \/ m \in P
    <2> TAKE m \in S
    <2>1. PICK at \in 1 .. Len(q) : q[at] = m  BY <1>5
    <2> QED  BY <2>1 DEF StoreKnown
  <1>8. StatusOf(t, seq) = "GapBuffered" /\ Findable(q, n) => n \in S
    <2> SUFFICES ASSUME StatusOf(t, seq) = "GapBuffered", Findable(q, n) PROVE n \in S  OBVIOUS
    <2>1. n \in RequestedRange(t, seq)
      <3>1. seq > n  BY <1>0 DEF StatusOf
      <3> QED  BY <1>0, <3>1 DEF RequestedRange
    <2>2. PICK at \in 1 .. Len(q) : q[at] = n /\ \A j \in at .. Len(q) : q[j] >= n  BY DEF Findable
    <2>3. \A j \in 1 .. at - 1 : q[j] < n  BY <2>2 DEF StoreKnown
    <2>4. Lookup(q, n)  BY <1>0, <2>2, <2>3, LookupFinds
    <2> QED  BY <2>1, <2>4
  <1> HIDE DEF S
  <1>9. \A x \in S : \E i \in 1 .. Len(asc) : asc[i] = x  BY <1>0, <1>2, <1>3, AscendingMeets
  <1>10. DOMAIN asc = 1 .. Len(asc)  BY <1>3, LenProperties
  <1> HIDE DEF asc
  <1>11. Len(found) = Len(asc) /\ \A k \in 1 .. Len(asc) : found[k] = [venue |-> v, sequence |-> asc[k]]
    <2>1. DOMAIN found = 1 .. Len(asc)  BY <1>4, <1>10
    <2>2. Len(found) \in Nat /\ DOMAIN found = 1 .. Len(found)  BY <1>1, LenProperties
    <2>3. Len(found) = Len(asc)
      <3>1. 1 .. Len(found) = 1 .. Len(asc)  BY <2>1, <2>2
      <3> QED  BY <1>3, <2>2, <3>1
    <2> QED  BY <1>4, <1>10, <2>3
  <1>13. ASSUME NEW k \in 1 .. Len(found)
         PROVE  found[k].venue = v /\ (found[k].sequence <= n \/ found[k].sequence \in P)
    <2>1. k \in 1 .. Len(asc)  BY <1>11
    <2>2. asc[k] \in S  BY <1>3, <2>1, ElementOfSeq
    <2>3. found[k] = [venue |-> v, sequence |-> asc[k]]  BY <1>11, <2>1
    <2>4. found[k].venue = v /\ found[k].sequence = asc[k]  BY <2>3
    <2> QED  BY <1>6, <2>2, <2>4
  <1>14. ASSUME StatusOf(t, seq) = "GapBuffered", Findable(q, n)
         PROVE  \E k \in 1 .. Len(found) : found[k] = [venue |-> v, sequence |-> n]
    <2>0. n \in S  BY <1>8, <1>14
    <2>1. PICK i \in 1 .. Len(asc) : asc[i] = n  BY <1>9, <2>0
    <2>2. i \in 1 .. Len(found) /\ found[i] = [venue |-> v, sequence |-> n]  BY <1>11, <2>1
    <2> QED  BY <2>2
  <1> QED  BY <1>1, <1>13, <1>14 DEF Fetched, Among

(* What process_event does to its venue, and nothing to the others. *)
Outcome(v, seq, q) ==
    LET n == trackers[v].next_expected
        m == trackers'[v].next_expected
        buffered == StatusOf(trackers[v], seq) = "GapBuffered"
    IN \/ ~buffered /\ seq < n /\ m = n /\ pending'[v] = pending[v] /\ store'[v] = q
       \/ buffered /\ seq > n /\ m = n /\ pending'[v] = pending[v] \cup {seq} /\ store'[v] = q
       \/ /\ ~buffered /\ seq > n + GapWindow /\ m = seq /\ pending'[v] = {}
          /\ (\A x \in pending[v] : x < seq) /\ store'[v] = EvictBehind(q, m)
       \/ /\ ~buffered /\ seq = n /\ m \in Nat /\ m > n /\ m \notin pending[v]
          /\ (\A x \in pending[v] : x < m \/ x \in pending'[v]) /\ store'[v] = EvictBehind(q, m)

LEMMA ProcessOutcome ==
    ASSUME PipelineInv, NEW v \in Venues, NEW seq \in SeqNumbers, NEW q \in Seq(SeqNumbers),
           NEW counted, ProcessEvent(v, seq, q, counted)
    PROVE  /\ Outcome(v, seq, q)
           /\ \A u \in Venues : u # v => /\ trackers'[u] = trackers[u] /\ pending'[u] = pending[u]
                                         /\ store'[u] = store[u]
  <1> DEFINE t == trackers[v]
             n == t.next_expected
  <1>0. seq \in Nat /\ n \in Nat /\ n >= 1 /\ t \in TrackerType /\ Windowed(t)
        /\ pending[v] = HeldTags(t)
    BY VenueParts, PipelineAssumption
  <1>d. DOMAIN trackers = Venues /\ DOMAIN pending = Venues /\ DOMAIN store = Venues
    BY DEF PipelineInv, TypeOK
  <1>1. CASE DropDuplicate(v, seq, q, counted)
    <2>1. UNCHANGED <<trackers, pending>> /\ store' = [store EXCEPT ![v] = q]
          /\ StatusOf(t, seq) = "DuplicateOrOld"
      BY <1>1 DEF DropDuplicate
    <2>2. seq < n  BY <1>0, <2>1 DEF StatusOf
    <2>3. store'[v] = q /\ StatusOf(t, seq) # "GapBuffered"  BY <1>d, <2>1
    <2>4. Outcome(v, seq, q)  BY <2>1, <2>2, <2>3 DEF Outcome
    <2> QED  BY <1>d, <2>1, <2>4
  <1>2. CASE ForceOverGap(v, seq, q, counted)
    <2> DEFINE u == ForceAdvance(OnSequence(t, seq), seq)
               evicted == {s \in pending[v] : s < seq}
               left == EvictBehind(q, trackers'[v].next_expected)
    <2>1. /\ StatusOf(t, seq) = "GapTooLarge" /\ trackers' = [trackers EXCEPT ![v] = u]
          /\ pending' = [pending EXCEPT ![v] = pending[v] \ evicted]
          /\ store' = [store EXCEPT ![v] = left]
      BY <1>2 DEF ForceOverGap
    <2>2. u.next_expected = seq /\ \A s \in pending[v] : s < seq
      BY <1>0, <2>1, AfterForceAdvance
    <2>3. seq > n + GapWindow  BY <1>0, <2>1, GapWindowAssumption DEF StatusOf
    <2> HIDE DEF u
    <2>4. pending[v] \ evicted = {}  BY <2>2
    <2> HIDE DEF evicted
    <2>5. trackers'[v] = u /\ pending'[v] = {} /\ store'[v] = left  BY <1>d, <2>1, <2>4
    <2>6. StatusOf(t, seq) # "GapBuffered"  BY <2>1
    <2>7. Outcome(v, seq, q)  BY <2>2, <2>3, <2>5, <2>6 DEF Outcome
    <2> HIDE DEF left
    <2> QED  BY <1>d, <2>1, <2>7
  <1>3. CASE BufferBehindGap(v, seq, q, counted)
    <2> DEFINE u == OnSequence(t, seq)
    <2>1. /\ StatusOf(t, seq) = "GapBuffered" /\ trackers' = [trackers EXCEPT ![v] = u]
          /\ pending' = [pending EXCEPT ![v] = pending[v] \cup {seq}]
          /\ store' = [store EXCEPT ![v] = q]
      BY <1>3 DEF BufferBehindGap
    <2>2. u.next_expected = n /\ seq > n  BY <1>0, <2>1, AfterGapBuffered
    <2> HIDE DEF u
    <2>3. trackers'[v] = u /\ pending'[v] = pending[v] \cup {seq} /\ store'[v] = q  BY <1>d, <2>1
    <2>4. Outcome(v, seq, q)  BY <2>1, <2>2, <2>3 DEF Outcome
    <2> QED  BY <1>d, <2>1, <2>4
  <1>4. CASE PublishInOrder(v, seq, q, counted)
    <2> DEFINE u == OnSequence(t, seq)
               e == u.next_expected
               released == seq + 1 .. seq + ReleasedCount(t, seq) - 1
               left == EvictBehind(q, trackers'[v].next_expected)
    <2>1. /\ StatusOf(t, seq) = "InOrder" /\ trackers' = [trackers EXCEPT ![v] = u]
          /\ pending' = [pending EXCEPT ![v] = pending[v] \ released]
          /\ store' = [store EXCEPT ![v] = left]
      BY <1>4 DEF PublishInOrder
    <2>2. seq = n /\ e \in Nat /\ e > seq /\ ReleasedCount(t, seq) = e - seq /\ e \notin pending[v]
      BY <1>0, <2>1, AfterInOrder
    <2> HIDE DEF u
    <2>3. released = seq + 1 .. e - 1  BY <1>0, <2>2
    <2>4. \A x \in pending[v] : x < e \/ x \in pending[v] \ released
      <3> TAKE x \in pending[v]
      <3>1. x \in Nat  BY <1>0, HeldInWindow
      <3> QED  BY <1>0, <2>2, <2>3, <3>1
    <2> HIDE DEF released
    <2>5. trackers'[v] = u /\ pending'[v] = pending[v] \ released /\ store'[v] = left
      BY <1>d, <2>1
    <2>6. StatusOf(t, seq) # "GapBuffered"  BY <2>1
    <2>7. Outcome(v, seq, q)  BY <2>2, <2>4, <2>5, <2>6 DEF Outcome
    <2> HIDE DEF left
    <2> QED  BY <1>d, <2>1, <2>7
  <1> QED  BY <1>1, <1>2, <1>3, <1>4 DEF ProcessEvent

------------------------------------------------------------------------------
(* The invariant behind StoredGapIsHealed. *)

(* HealInv of one venue, with next_expected n, waiting numbers P, store q and  *)
(* the loop's events rec.                                                     *)
Healing(v, n, P, q, rec) ==
    /\ StoreKnown(q, n, P)
    /\ P # {} /\ Findable(q, n) => Among(rec, v, n)

(* The loop's events rec are past, wait, or are the next ones. *)
PastOrWaiting(rec, next, waits) ==
    \A k \in 1 .. Len(rec) :
        rec[k].sequence <= next[rec[k].venue].next_expected
            \/ rec[k].sequence \in waits[rec[k].venue]

LEMMA HealParts ==
    HealInv <=> /\ simulated = <<>> /\ PastOrWaiting(recovered, trackers, pending)
                /\ \A v \in Venues :
                       Healing(v, trackers[v].next_expected, pending[v], store[v], recovered)
  BY Zenon DEF HealInv, PastOrWaiting, Healing, Among

LEMMA HealPartsNext ==
    HealInv' <=> /\ simulated' = <<>> /\ PastOrWaiting(recovered', trackers', pending')
                 /\ \A v \in Venues :
                        Healing(v, trackers'[v].next_expected, pending'[v], store'[v], recovered')
  BY Zenon DEF HealInv, PastOrWaiting, Healing, Among

(* The loop's first event goes, the others stay. *)
LEMMA TailKeeps ==
    ASSUME NEW rec \in Seq(Event), rec # <<>>
    PROVE  /\ Head(rec) = rec[1] /\ 1 \in 1 .. Len(rec)
           /\ \A j \in 1 .. Len(Tail(rec)) : \E k \in 1 .. Len(rec) : Tail(rec)[j] = rec[k]
           /\ \A k \in 1 .. Len(rec) : rec[k] # Head(rec) =>
                 \E j \in 1 .. Len(Tail(rec)) : Tail(rec)[j] = rec[k]
  <1>1. /\ Head(rec) = rec[1] /\ Len(rec) \in Nat /\ Len(rec) >= 1 /\ Len(Tail(rec)) = Len(rec) - 1
        /\ \A j \in 1 .. Len(Tail(rec)) : Tail(rec)[j] = rec[j + 1]
    BY HeadTailProperties, LenProperties, EmptySeq
  <1>2. ASSUME NEW j \in 1 .. Len(Tail(rec))
        PROVE  \E k \in 1 .. Len(rec) : Tail(rec)[j] = rec[k]
    <2>1. j + 1 \in 1 .. Len(rec)  BY <1>1
    <2> QED  BY <1>1, <2>1
  <1>3. ASSUME NEW k \in 1 .. Len(rec), rec[k] # Head(rec)
        PROVE  \E j \in 1 .. Len(Tail(rec)) : Tail(rec)[j] = rec[k]
    <2>1. k # 1  BY <1>1, <1>3
    <2>2. k - 1 \in 1 .. Len(Tail(rec)) /\ (k - 1) + 1 = k  BY <1>1, <2>1
    <2> QED  BY <1>1, <2>2
  <1>4. 1 \in 1 .. Len(rec)  BY <1>1
  <1> QED  BY <1>1, <1>2, <1>3, <1>4

(* A turn of the loop leaves a venue alone, and its event is not the one that  *)
(* the venue waits for.                                                      *)
LEMMA TurnHeals ==
    ASSUME NEW rec \in Seq(Event), rec # <<>>, NEW v, NEW n, NEW P, NEW q,
           Healing(v, n, P, q, rec),
           P # {} /\ Findable(q, n) => Head(rec).venue # v \/ Head(rec).sequence # n
    PROVE  Healing(v, n, P, q, Tail(rec))
  <1> SUFFICES ASSUME P # {}, Findable(q, n)
               PROVE  Among(Tail(rec), v, n)
    BY DEF Healing
  <1>1. PICK k \in 1 .. Len(rec) : rec[k] = [venue |-> v, sequence |-> n]
    BY DEF Healing, Among
  <1>2. rec[k].venue = v /\ rec[k].sequence = n  BY <1>1
  <1>3. rec[k] # Head(rec)
    <2> SUFFICES ASSUME rec[k] = Head(rec) PROVE FALSE  OBVIOUS
    <2>1. Head(rec).venue = v /\ Head(rec).sequence = n  BY <1>2
    <2> QED  BY <2>1
  <1>4. PICK j \in 1 .. Len(Tail(rec)) : Tail(rec)[j] = rec[k]  BY <1>3, TailKeeps
  <1> QED  BY <1>1, <1>4 DEF Among

LEMMA HealInit == InitFailover => HealInv
  <1> SUFFICES ASSUME InitFailover PROVE HealInv  OBVIOUS
  <1>1. /\ simulated = <<>> /\ recovered = <<>> /\ pending = [v \in Venues |-> {}]
        /\ store = [v \in Venues |-> <<>>]
    BY DEF InitFailover, Init
  <1>2. 1 .. Len(<<>>) = {}  OBVIOUS
  <1> QED  BY <1>1, <1>2 DEF HealInv, StoreKnown

(* A step that touches neither trackers nor stores nor the loop. *)
LEMMA HealRests ==
    ASSUME HealInv, UNCHANGED <<trackers, pending, store, simulated, recovered>>
    PROVE  HealInv'
  BY Zenon DEF HealInv

(* What on_event leaves of its venue's store. *)
LEMMA ArrivalHeals ==
    ASSUME PipelineInv, NEW v \in Venues, NEW seq \in SeqNumbers, NEW q,
           q = RecordEvent(store[v], seq), Outcome(v, seq, q),
           StoreKnown(store[v], trackers[v].next_expected, pending[v]),
           pending[v] = {} \/ ~Findable(store[v], trackers[v].next_expected)
    PROVE  /\ StoreKnown(store'[v], trackers'[v].next_expected, pending'[v])
           /\ StatusOf(trackers[v], seq) # "GapBuffered" =>
                 pending'[v] = {} \/ ~Findable(store'[v], trackers'[v].next_expected)
           /\ StatusOf(trackers[v], seq) = "GapBuffered" =>
                 trackers'[v].next_expected = trackers[v].next_expected /\ store'[v] = q
  <1> DEFINE n == trackers[v].next_expected
             m == trackers'[v].next_expected
             P == pending[v]
             R == pending'[v]
             old == store[v]
             longer == Append(old, seq)
  <1>0. seq \in Nat /\ n \in Nat /\ P \in SUBSET SeqNumbers /\ old \in Seq(SeqNumbers)
    BY VenueParts, PipelineAssumption DEF PipelineInv, TypeOK
  <1>1. longer \in Seq(SeqNumbers) /\ q \in Seq(SeqNumbers)  BY <1>0, AppendProperties, RecordType
  <1>2. IsRest(q, longer)  BY <1>0, RecordRest
  <1>3. ASSUME NEW e \in Nat, NEW W
        PROVE  /\ StoreKnown(longer, e, W) => StoreKnown(q, e, W)
               /\ Findable(q, e) => Findable(longer, e)
    BY <1>1, <1>2, RestKnown
  <1>4. ASSUME NEW e \in Nat, NEW W
        PROVE  /\ StoreKnown(q, e, W) => StoreKnown(EvictBehind(q, e), e, W)
               /\ Findable(EvictBehind(q, e), e) => Findable(q, e)
    BY <1>1, EvictRest, EvictType, RestKnown
  <1> HIDE DEF longer, old
  <1>5. CASE StatusOf(trackers[v], seq) # "GapBuffered" /\ seq < n /\ m = n /\ R = P /\ store'[v] = q
    <2>1. StoreKnown(longer, n, P) /\ (Findable(longer, n) => Findable(old, n))
      BY <1>0, <1>5, ArrivalKnown DEF longer, old
    <2> QED  BY <1>0, <1>3, <1>5, <2>1 DEF old
  <1>6. CASE StatusOf(trackers[v], seq) = "GapBuffered" /\ seq > n /\ m = n /\ R = P \cup {seq}
             /\ store'[v] = q
    <2>1. StoreKnown(longer, n, R)
      <3>1. P \subseteq R /\ seq \in R /\ seq # n  BY <1>0, <1>6
      <3> QED  BY <1>0, <3>1, ArrivalKnown DEF longer, old
    <2> QED  BY <1>0, <1>3, <1>6, <2>1
  <1>7. CASE /\ StatusOf(trackers[v], seq) # "GapBuffered" /\ seq > n + GapWindow /\ m = seq /\ R = {}
             /\ (\A x \in P : x < seq) /\ store'[v] = EvictBehind(q, m)
    <2>1. seq > n  BY <1>0, <1>7, GapWindowAssumption
    <2>2. StoreKnown(longer, seq, {})  BY <1>0, <1>7, <2>1, ForcedKnown DEF longer, old
    <2>3. StoreKnown(q, seq, {})  BY <1>0, <1>3, <2>2
    <2>4. StoreKnown(EvictBehind(q, seq), seq, {})  BY <1>0, <1>4, <2>3
    <2> QED  BY <1>7, <2>4
  <1>8. CASE /\ StatusOf(trackers[v], seq) # "GapBuffered" /\ seq = n /\ m > n /\ m \in Nat /\ m \notin P
             /\ (\A x \in P : x < m \/ x \in R) /\ store'[v] = EvictBehind(q, m)
    <2>1. StoreKnown(old, m, R) /\ ~Findable(old, m)  BY <1>0, <1>8, PassedKnown DEF old
    <2>2. StoreKnown(longer, m, R) /\ ~Findable(longer, m)
      BY <1>0, <1>8, <2>1, ArrivalKnown DEF longer
    <2>3. StoreKnown(q, m, R) /\ ~Findable(q, m)  BY <1>3, <1>8, <2>2
    <2>4. StoreKnown(EvictBehind(q, m), m, R) /\ ~Findable(EvictBehind(q, m), m)
      BY <1>4, <1>8, <2>3
    <2> QED  BY <1>8, <2>4
  <1> QED  BY <1>5, <1>6, <1>7, <1>8 DEF Outcome

(* on_event up to its loop. *)
LEMMA OnEventHeals ==
    ASSUME PipelineInv, HealInv, NEW v \in Venues, NEW seq \in SeqNumbers, OnEvent(v, seq)
    PROVE  HealInv'
  <1> DEFINE q == RecordEvent(store[v], seq)
             t == trackers[v]
             found == RequestRecovery(t, v, seq, q)
             buffered == StatusOf(t, seq) = "GapBuffered"
  <1>0. /\ simulated = <<>> /\ recovered = <<>> /\ ProcessEvent(v, seq, q, stats)
        /\ recovered' = <<>> \o found /\ simulated' = <<>>
    BY HealParts DEF OnEvent, Idle
  <1>1. /\ store[v] \in Seq(SeqNumbers) /\ t \in TrackerType /\ t.next_expected \in Nat
        /\ pending[v] \in SUBSET SeqNumbers
    BY VenueParts DEF PipelineInv, TypeOK
  <1>2. q \in Seq(SeqNumbers)  BY <1>1, RecordType
  <1>3. recovered' = found /\ found \in Seq(Event)
    <2>1. found \in Seq(Event)  BY <1>1, <1>2, RequestType
    <2> QED  BY <1>0, <2>1
  <1>4. /\ Outcome(v, seq, q)
        /\ \A u \in Venues : u # v => /\ trackers'[u] = trackers[u] /\ pending'[u] = pending[u]
                                      /\ store'[u] = store[u]
    BY <1>0, <1>2, ProcessOutcome
  (* Before the call nothing waited for a number that could be found. *)
  <1>5. ASSUME NEW u \in Venues
        PROVE  /\ StoreKnown(store[u], trackers[u].next_expected, pending[u])
               /\ pending[u] = {} \/ ~Findable(store[u], trackers[u].next_expected)
    <2>1. Healing(u, trackers[u].next_expected, pending[u], store[u], recovered)  BY HealParts
    <2>2. 1 .. Len(recovered) = {}  BY <1>0
    <2> QED  BY <2>1, <2>2 DEF Healing, Among
  <1>6. /\ StoreKnown(store'[v], trackers'[v].next_expected, pending'[v])
        /\ ~buffered => pending'[v] = {} \/ ~Findable(store'[v], trackers'[v].next_expected)
        /\ buffered => trackers'[v].next_expected = t.next_expected /\ store'[v] = q
    BY <1>4, <1>5, ArrivalHeals
  <1> HIDE DEF q, found
  <1>7. CASE buffered
    <2>1. StoreKnown(q, t.next_expected, pending'[v])  BY <1>6, <1>7
    <2>2. /\ Fetched(found, v, t.next_expected, pending'[v])
          /\ buffered /\ Findable(q, t.next_expected) => Among(found, v, t.next_expected)
      BY <1>1, <1>2, <2>1, RequestFacts DEF found
    <2>3. PastOrWaiting(found, trackers', pending')
      <3> SUFFICES ASSUME NEW k \in 1 .. Len(found)
                   PROVE  \/ found[k].sequence <= trackers'[found[k].venue].next_expected
                          \/ found[k].sequence \in pending'[found[k].venue]
        BY DEF PastOrWaiting
      <3>1. found[k].venue = v  BY <2>2 DEF Fetched
      <3>2. found[k].sequence <= t.next_expected \/ found[k].sequence \in pending'[v]
        BY <2>2 DEF Fetched
      <3>3. trackers'[v].next_expected = t.next_expected  BY <1>6, <1>7
      <3> QED  BY <3>1, <3>2, <3>3
    <2>4. ASSUME NEW u \in Venues
          PROVE  Healing(u, trackers'[u].next_expected, pending'[u], store'[u], found)
      <3>1. CASE u = v
        <4>1. trackers'[v].next_expected = t.next_expected /\ store'[v] = q  BY <1>6, <1>7
        <4> QED  BY <1>6, <1>7, <2>2, <3>1, <4>1 DEF Healing
      <3>2. CASE u # v  BY <1>4, <1>5, <3>2 DEF Healing
      <3> QED  BY <3>1, <3>2
    <2> QED  BY <1>0, <1>3, <2>3, <2>4, HealPartsNext
  <1>8. CASE ~buffered
    <2>2. found = <<>>  BY <1>8, NothingRequested DEF found
    <2>3. 1 .. Len(found) = {}  BY <2>2
    <2>4. PastOrWaiting(found, trackers', pending')  BY <2>3 DEF PastOrWaiting
    <2>5. ASSUME NEW u \in Venues
          PROVE  Healing(u, trackers'[u].next_expected, pending'[u], store'[u], found)
      <3>1. CASE u = v  BY <1>6, <1>8, <3>1 DEF Healing
      <3>2. CASE u # v  BY <1>4, <1>5, <3>2 DEF Healing
      <3> QED  BY <3>1, <3>2
    <2> QED  BY <1>0, <1>3, <2>4, <2>5, HealPartsNext
  <1> QED  BY <1>7, <1>8

(* A turn of the loop whose event waits: not the one that is waited for. *)
LEMMA SkipHeals ==
    ASSUME PipelineInv, RecoveryInv, HealInv, SkipPending
    PROVE  HealInv'
  <1> DEFINE r == Head(recovered)
  <1>0. /\ recovered # <<>> /\ recovered \in Seq(Event) /\ recovered' = Tail(recovered)
        /\ r.sequence \in pending[r.venue]
        /\ UNCHANGED <<trackers, pending, store, simulated>>
    BY DEF SkipPending, RecoveryInv
  <1>1. simulated = <<>> /\ PastOrWaiting(recovered, trackers, pending)  BY HealParts
  <1>2. PastOrWaiting(recovered', trackers', pending')
    <2>1. PastOrWaiting(Tail(recovered), trackers, pending)
      <3> SUFFICES ASSUME NEW j \in 1 .. Len(Tail(recovered))
                   PROVE  LET e == Tail(recovered)[j] IN
                          \/ e.sequence <= trackers[e.venue].next_expected
                          \/ e.sequence \in pending[e.venue]
        BY DEF PastOrWaiting
      <3>1. PICK k \in 1 .. Len(recovered) : Tail(recovered)[j] = recovered[k]
        BY <1>0, TailKeeps
      <3> QED  BY <1>1, <3>1 DEF PastOrWaiting
    <2> QED  BY <1>0, <2>1
  <1>3. ASSUME NEW u \in Venues
        PROVE  Healing(u, trackers'[u].next_expected, pending'[u], store'[u], recovered')
    <2>1. Healing(u, trackers[u].next_expected, pending[u], store[u], recovered)  BY HealParts
    <2>2. r.venue # u \/ r.sequence # trackers[u].next_expected
      <3> SUFFICES ASSUME r.venue = u, r.sequence = trackers[u].next_expected PROVE FALSE  OBVIOUS
      <3>1. trackers[u].next_expected \in HeldTags(trackers[u])  BY <1>0, VenueParts
      <3>2. trackers[u].next_expected > trackers[u].next_expected
        BY <3>1, VenueParts, HeldInWindow
      <3> QED  BY <3>2, VenueParts
    <2>3. Healing(u, trackers[u].next_expected, pending[u], store[u], Tail(recovered))
      BY <1>0, <2>1, <2>2, TurnHeals
    <2> QED  BY <1>0, <2>3
  <1> QED  BY <1>0, <1>1, <1>2, <1>3, HealPartsNext

(* A turn of the loop that processes its event again: an old number, or the    *)
(* one that is waited for, after which nothing that could be found is missing. *)
LEMMA ReinjectHeals ==
    ASSUME PipelineInv, RecoveryInv, HealInv, Reinject
    PROVE  HealInv'
  <1> DEFINE r == Head(recovered)
             v == r.venue
             seq == r.sequence
             counted == [stats EXCEPT !.recovery_reinjected = @ + 1]
             n == trackers[v].next_expected
             m == trackers'[v].next_expected
  <1>0. /\ recovered # <<>> /\ recovered \in Seq(Event) /\ recovered' = Tail(recovered)
        /\ seq \notin pending[v] /\ ProcessEvent(v, seq, store[v], counted)
        /\ simulated' = simulated \o RequestRecovery(trackers[v], v, seq, store[v])
    BY DEF Reinject, RecoveryInv
  <1>1. simulated = <<>> /\ PastOrWaiting(recovered, trackers, pending)  BY HealParts
  <1>2. v \in Venues /\ seq \in SeqNumbers  BY <1>0, RecoveredHead
  <1>3. /\ seq \in Nat /\ n \in Nat /\ store[v] \in Seq(SeqNumbers) /\ trackers[v] \in TrackerType
        /\ pending[v] \in SUBSET SeqNumbers
    BY <1>2, VenueParts, PipelineAssumption DEF PipelineInv, TypeOK
  <1>4. seq <= n
    <2>1. r = recovered[1] /\ 1 \in 1 .. Len(recovered)  BY <1>0, TailKeeps
    <2> QED  BY <1>0, <1>1, <2>1 DEF PastOrWaiting
  <1>5. /\ Outcome(v, seq, store[v])
        /\ \A u \in Venues : u # v => /\ trackers'[u] = trackers[u] /\ pending'[u] = pending[u]
                                      /\ store'[u] = store[u]
    BY <1>0, <1>2, <1>3, ProcessOutcome
  <1>6. StoreKnown(store[v], n, pending[v])  BY <1>2, HealParts DEF Healing
  <1> HIDE DEF counted, r, v, seq
  (* The outcomes that are left. *)
  <1>7. /\ StatusOf(trackers[v], seq) # "GapBuffered"
        /\ \/ seq < n /\ m = n /\ pending'[v] = pending[v] /\ store'[v] = store[v]
           \/ /\ seq = n /\ m \in Nat /\ m > n /\ m \notin pending[v]
              /\ (\A x \in pending[v] : x < m \/ x \in pending'[v])
              /\ store'[v] = EvictBehind(store[v], m)
    BY <1>3, <1>4, <1>5, GapWindowAssumption DEF Outcome
  <1>8. simulated' = <<>>
    <2>1. RequestRecovery(trackers[v], v, seq, store[v]) = <<>>  BY <1>7, NothingRequested
    <2> QED  BY <1>0, <1>1, <2>1
  <1>9. PastOrWaiting(recovered', trackers', pending')
    <2> SUFFICES ASSUME NEW j \in 1 .. Len(Tail(recovered)), NEW e, e = Tail(recovered)[j]
                 PROVE  \/ e.sequence <= trackers'[e.venue].next_expected
                        \/ e.sequence \in pending'[e.venue]
      BY <1>0 DEF PastOrWaiting
    <2>1. PICK k \in 1 .. Len(recovered) : e = recovered[k]  BY <1>0, TailKeeps
    <2>2. e.venue \in Venues /\ e.sequence \in Nat
      <3>1. e \in Event  BY <1>0, <2>1, ElementOfSeq
      <3> QED  BY <3>1, PipelineAssumption DEF Event
    <2>3. e.sequence <= trackers[e.venue].next_expected \/ e.sequence \in pending[e.venue]
      BY <1>1, <2>1 DEF PastOrWaiting
    <2>4. CASE e.venue # v  BY <1>5, <2>2, <2>3, <2>4
    <2>5. CASE e.venue = v
      <3>1. e.sequence <= n \/ e.sequence \in pending[v]  BY <2>3, <2>5
      <3>2. e.sequence <= m \/ e.sequence \in pending'[v]  BY <1>3, <1>7, <2>2, <3>1
      <3> QED  BY <2>5, <3>2
    <2> QED  BY <2>4, <2>5
  <1>10. ASSUME NEW u \in Venues
         PROVE  Healing(u, trackers'[u].next_expected, pending'[u], store'[u], recovered')
    <2>1. Healing(u, trackers[u].next_expected, pending[u], store[u], recovered)  BY HealParts
    <2>2. CASE u # v
      <3>1. Healing(u, trackers[u].next_expected, pending[u], store[u], Tail(recovered))
        BY <1>0, <2>1, <2>2, TurnHeals DEF v, r
      <3> QED  BY <1>0, <1>5, <2>2, <3>1
    <2>3. CASE u = v /\ seq < n
      <3>1. Head(recovered).sequence # trackers[u].next_expected
        BY <1>3, <2>3 DEF seq, r
      <3>2. Healing(u, trackers[u].next_expected, pending[u], store[u], Tail(recovered))
        BY <1>0, <2>1, <3>1, TurnHeals
      <3>3. m = n /\ pending'[v] = pending[v] /\ store'[v] = store[v]  BY <1>3, <1>7, <2>3
      <3> QED  BY <1>0, <2>3, <3>2, <3>3
    <2>4. CASE u = v /\ seq = n
      <3>1. /\ m \in Nat /\ m > n /\ m \notin pending[v]
            /\ (\A x \in pending[v] : x < m \/ x \in pending'[v])
            /\ store'[v] = EvictBehind(store[v], m)
        BY <1>3, <1>7, <2>4
      <3>2. StoreKnown(store[v], m, pending'[v]) /\ ~Findable(store[v], m)
        BY <1>3, <1>6, <3>1, PassedKnown
      <3>3. StoreKnown(store'[v], m, pending'[v]) /\ ~Findable(store'[v], m)
        <4>1. store'[v] \in Seq(SeqNumbers) /\ IsRest(store'[v], store[v])
          BY <1>3, <3>1, EvictRest, EvictType
        <4>2. m \in Nat  BY <3>1
        <4> QED  BY <1>3, <3>2, <4>1, <4>2, RestKnown
      <3> QED  BY <2>4, <3>3 DEF Healing
    <2> QED  BY <1>3, <1>4, <2>2, <2>3, <2>4
  <1> QED  BY <1>8, <1>9, <1>10, HealPartsNext

LEMMA HealStep == FailoverInv /\ HealInv /\ [NextFailover]_allVars => HealInv'
  <1> SUFFICES ASSUME FailoverInv, HealInv, [NextFailover]_allVars PROVE HealInv'  OBVIOUS
  <1>i. PipelineInv /\ RecoveryInv /\ handed \in Seq(Event)  BY DEF FailoverInv, HandedTypeOK
  <1>1. CASE Direct  BY <1>i, <1>1, OnEventHeals DEF Direct
  <1>2. CASE RaceArrival  BY <1>2, HealRests DEF RaceArrival, vars
  <1>3. CASE DrillStep  BY <1>3, HealRests DEF DrillStep, vars
  <1>4. CASE TakeReady  BY <1>4, HealRests DEF TakeReady, vars
  <1>5. CASE HandOver
    <2>1. handed # <<>> /\ OnEvent(Head(handed).venue, Head(handed).sequence)
      BY <1>5 DEF HandOver
    <2>2. Head(handed).venue \in Venues /\ Head(handed).sequence \in SeqNumbers
      BY <1>i, <2>1, RecoveredHead
    <2> QED  BY <1>i, <2>1, <2>2, OnEventHeals
  <1>6. CASE Continue
    <2>1. CASE SkipPending  BY <1>i, <2>1, SkipHeals
    <2>2. CASE Reinject  BY <1>i, <2>2, ReinjectHeals
    <2>3. CASE PopNext  BY <2>3, HealRests DEF PopNext
    <2>4. CASE Drained  BY <2>4, HealRests DEF Drained
    <2> QED  BY <1>6, <2>1, <2>2, <2>3, <2>4 DEF Continue
  <1>7. CASE CallFinalize  BY <1>7, HealRests DEF CallFinalize, Finalize
  <1>8. CASE UNCHANGED allVars  BY <1>8, HealRests DEF allVars, vars
  <1> QED  BY <1>1, <1>2, <1>3, <1>4, <1>5, <1>6, <1>7, <1>8 DEF NextFailover

(* In a store in sequence order nothing smaller follows. *)
LEMMA SortedStore ==
    ASSUME NEW q \in Seq(SeqNumbers), \A i \in 1 .. Len(q) - 1 : q[i] <= q[i + 1],
           NEW at \in 1 .. Len(q)
    PROVE  \A j \in at .. Len(q) : q[j] >= q[at]
  <1>0. Len(q) \in Nat /\ \A i \in 1 .. Len(q) : q[i] \in Nat
    BY LenProperties, ElementOfSeq, PipelineAssumption
  <1> DEFINE T == {j \in at .. Len(q) : ~(q[j] >= q[at])}
  <1> SUFFICES ASSUME T # {} PROVE FALSE  OBVIOUS
  <1>1. T \subseteq Nat  BY <1>0
  <1>2. PICK j \in T : \A y \in T : j <= y  BY <1>1, LeastMember
  <1>3. j # at  BY <1>0, <1>2
  <1>4. j - 1 \in at .. Len(q) /\ j - 1 \in 1 .. Len(q) - 1 /\ (j - 1) + 1 = j
        /\ j \in 1 .. Len(q)
    BY <1>0, <1>2, <1>3
  <1>5. j - 1 \notin T  BY <1>1, <1>2, <1>4
  <1>6. q[j - 1] >= q[at] /\ q[j - 1] <= q[j]  BY <1>4, <1>5
  <1>7. q[j - 1] \in Nat /\ q[j] \in Nat /\ q[at] \in Nat  BY <1>0, <1>4
  <1> QED  BY <1>2, <1>6, <1>7

(* A gap whose missing event is in the replay store does not stay open once    *)
(* on_event returns, when the store is in sequence order: request_recovery's   *)
(* bisection finds the event, and drain_recovered's loop processes it.        *)
THEOREM GapsHeal == SpecFailover => []StoredGapIsHealed
  <1>1. ASSUME FailoverInv, HealInv PROVE StoredGapIsHealed
    <2> SUFFICES ASSUME NEW v \in Venues, Idle, pending[v] # {},
                        \A i \in 1 .. Len(store[v]) - 1 : store[v][i] <= store[v][i + 1],
                        trackers[v].next_expected \in ToSet(store[v])
                 PROVE  FALSE
      BY DEF StoredGapIsHealed
    <2> DEFINE n == trackers[v].next_expected
    <2>1. store[v] \in Seq(SeqNumbers)  BY <1>1 DEF FailoverInv, PipelineInv, TypeOK
    <2>2. PICK at \in 1 .. Len(store[v]) : store[v][at] = n
      BY <2>1, LenProperties DEF ToSet
    <2>3. \A j \in at .. Len(store[v]) : store[v][j] >= n  BY <2>1, <2>2, SortedStore
    <2>4. Findable(store[v], n)  BY <2>2, <2>3 DEF Findable
    <2>5. Among(recovered, v, n)  BY <1>1, <2>4, HealParts DEF Healing
    <2>6. 1 .. Len(recovered) = {}  BY DEF Idle
    <2> QED  BY <2>5, <2>6 DEF Among
  <1>2. SpecFailover => []HealInv
    BY HealInit, HealStep, FailoverInvariant, PTL DEF SpecFailover
  <1> QED  BY <1>1, <1>2, FailoverInvariant, PTL

------------------------------------------------------------------------------
(* The inductive invariant. TagsInWindow and HeldAreArrivals need each other: *)
(* a slot is free for a new tag because the arrivals that could share it lie  *)
(* outside the window.                                                       *)
TrackerInv == ArrivalTypeOK /\ TagsInWindow /\ HeldAreArrivals

LEMMA ArrivalFields ==
    ASSUME ArrivalTypeOK
    PROVE  /\ tracker.next_expected \in Nat /\ tracker.next_expected >= 1
           /\ tracker.buffered_tags \in [SlotIndex -> Nat]
           /\ arrived \subseteq Nat
           /\ tracker = [next_expected |-> tracker.next_expected,
                         buffered_tags |-> tracker.buffered_tags]
  BY SequencesAssumption DEF ArrivalTypeOK, TrackerType

(* Above next_expected a number is tagged exactly if it has arrived.          *)
LEMMA TaggedIsArrived ==
    ASSUME TrackerInv, NEW n \in Nat, n > tracker.next_expected
    PROVE  Tagged(tracker, n) <=> n \in arrived
  <1> USE ArrivalFields DEF TrackerInv
  <1>1. n # 0 /\ n % Slots \in SlotIndex  BY SlotInIndex
  <1>2. ASSUME Tagged(tracker, n) PROVE n \in arrived
    <2>1. n \in HeldTags(tracker)  BY <1>1, <1>2 DEF Tagged, HeldTags
    <2> QED  BY <2>1 DEF HeldAreArrivals
  <1>3. ASSUME n \in arrived PROVE Tagged(tracker, n)
    <2>1. n \in HeldTags(tracker)  BY <1>3 DEF HeldAreArrivals
    <2>2. PICK i \in SlotIndex : tracker.buffered_tags[i] = n  BY <2>1 DEF HeldTags
    <2>3. n % Slots = i  BY <1>1, <2>2 DEF TagsInWindow
    <2> QED  BY <2>2, <2>3 DEF Tagged
  <1> QED  BY <1>2, <1>3

(* The release loop ends inside the window, at the first number that is not   *)
(* tagged.                                                                   *)
LEMMA ArrivalReleaseEnd ==
    ASSUME TrackerInv, NEW n, n = tracker.next_expected + 1,
           NEW e, e = ReleaseEnd(tracker, n)
    PROVE  /\ e \in n .. n + GapWindow
           /\ ~Tagged(tracker, e)
           /\ \A k \in n .. e - 1 : Tagged(tracker, k)
  <1> USE ArrivalFields, SlotsFacts DEF TrackerInv
  <1>0. n \in Nat /\ n > tracker.next_expected  OBVIOUS
  <1> DEFINE U == {m \in n .. n + Slots : ~Tagged(tracker, m)}
  <1>1. ~Tagged(tracker, n + GapWindow)
    <2> SUFFICES ASSUME Tagged(tracker, n + GapWindow) PROVE FALSE  OBVIOUS
    <2>1. n + GapWindow \in Nat /\ (n + GapWindow) % Slots \in SlotIndex
      BY SlotInIndex
    <2> QED  BY <1>0, <2>1 DEF Tagged, TagsInWindow
  <1>2. n + GapWindow \in U /\ U \subseteq Nat  BY <1>0, <1>1
  <1>3. PICK m \in U : \A y \in U : m <= y  BY <1>2, LeastMember
  <1>4. \A k \in n .. m - 1 : Tagged(tracker, k)
    <2> SUFFICES ASSUME NEW k \in n .. m - 1, ~Tagged(tracker, k) PROVE FALSE
      OBVIOUS
    <2>1. k \in U  BY <1>0, <1>3
    <2>2. m <= k /\ m \in Nat /\ k \in Nat  BY <2>1, <1>2, <1>3
    <2> QED  BY <2>2
  <1>5. \E x \in n .. n + Slots :
            ~Tagged(tracker, x) /\ \A k \in n .. x - 1 : Tagged(tracker, k)
    BY <1>3, <1>4
  <1>6. /\ e \in n .. n + Slots /\ ~Tagged(tracker, e)
        /\ \A k \in n .. e - 1 : Tagged(tracker, k)
    BY <1>5 DEF ReleaseEnd
  <1>7. e <= n + GapWindow
    <2> SUFFICES ASSUME e > n + GapWindow PROVE FALSE
      BY <1>0, <1>6
    <2>1. n + GapWindow \in n .. e - 1  BY <1>0, <1>6
    <2> QED  BY <2>1, <1>1, <1>6
  <1> QED  BY <1>0, <1>6, <1>7

------------------------------------------------------------------------------
LEMMA InitTrackerInv == ArrivalInit => TrackerInv
  <1> SUFFICES ASSUME ArrivalInit PROVE TrackerInv  OBVIOUS
  <1>1. tracker = [next_expected |-> 1, buffered_tags |-> [i \in SlotIndex |-> 0]]
        /\ arrived = {}
    BY DEF ArrivalInit, NewTracker
  <1>2. ArrivalTypeOK  BY <1>1 DEF ArrivalTypeOK, TrackerType
  <1>3. TagsInWindow  BY <1>1 DEF TagsInWindow
  <1>4. HeldAreArrivals  BY <1>1 DEF HeldAreArrivals, HeldTags
  <1> QED  BY <1>2, <1>3, <1>4 DEF TrackerInv

(* An expected number: the release loop clears exactly the tags it passes.    *)
LEMMA InOrderInv ==
    ASSUME TrackerInv, NEW seq \in Sequences, InOrder(seq)
    PROVE  /\ TrackerInv'
           /\ seq = tracker.next_expected
           /\ tracker'.next_expected = ReleaseEnd(tracker, seq + 1)
  <1> USE ArrivalFields, SlotsFacts, SequencesAssumption DEF TrackerInv
  <1> DEFINE e == ReleaseEnd(tracker, seq + 1)
  <1>1. seq = tracker.next_expected /\ arrived' = arrived \cup {seq}
    BY DEF InOrder, Offer, StatusOf
  <1>2. tracker' = [next_expected |-> e, buffered_tags |-> ClearTags(tracker, seq + 1, e - 1)]
    BY DEF InOrder, Offer, OnSequence, ReleaseInOrder
  <1>3. /\ e \in seq + 1 .. seq + 1 + GapWindow
        /\ ~Tagged(tracker, e)
        /\ \A k \in seq + 1 .. e - 1 : Tagged(tracker, k)
    BY <1>1, ArrivalReleaseEnd
  <1> HIDE DEF e
  <1>4. /\ tracker'.next_expected = e
        /\ tracker'.buffered_tags = ClearTags(tracker, seq + 1, e - 1)
    BY <1>2
  <1>5. ASSUME NEW i \in SlotIndex
        PROVE  tracker'.buffered_tags[i] =
                 IF \E k \in seq + 1 .. e - 1 : i = k % Slots
                 THEN 0 ELSE tracker.buffered_tags[i]
    BY <1>4 DEF ClearTags
  <1>6. ArrivalTypeOK'
    <2>1. tracker'.buffered_tags \in [SlotIndex -> Nat]
      BY <1>4 DEF ClearTags
    <2>2. e \in Nat \ {0}  BY <1>1, <1>3
    <2>3. tracker' \in TrackerType  BY <1>2, <1>4, <2>1, <2>2 DEF TrackerType
    <2> QED  BY <1>1, <2>3 DEF ArrivalTypeOK
  (* A tag that is left was not passed, and is not the one the loop stopped at. *)
  <1>7. ASSUME NEW i \in SlotIndex, tracker'.buffered_tags[i] # 0
        PROVE  /\ tracker'.buffered_tags[i] = tracker.buffered_tags[i]
               /\ tracker.buffered_tags[i] % Slots = i
               /\ tracker.buffered_tags[i] > e
               /\ tracker.buffered_tags[i] <= e + GapWindow
    <2> DEFINE tag == tracker.buffered_tags[i]
    <2>1. ~(\E k \in seq + 1 .. e - 1 : i = k % Slots) /\ tracker'.buffered_tags[i] = tag
      BY <1>5, <1>7
    <2>2. tag \in Nat /\ tag # 0  BY <1>7, <2>1
    <2>3. tag % Slots = i /\ tag > seq /\ tag <= seq + GapWindow
      BY <1>1, <2>2 DEF TagsInWindow
    <2>4. tag # e  BY <1>3, <2>3 DEF Tagged
    <2>5. tag \notin seq + 1 .. e - 1  BY <2>1, <2>3
    <2> QED  BY <1>1, <1>3, <2>1, <2>2, <2>3, <2>4, <2>5
  <1>8. TagsInWindow'  BY <1>4, <1>7 DEF TagsInWindow
  <1>9. HeldAreArrivals'
    <2>1. ASSUME NEW s \in HeldTags(tracker') PROVE s \in arrived' /\ s > e
      <3>1. PICK i \in SlotIndex : s = tracker'.buffered_tags[i] /\ s # 0
        BY <2>1 DEF HeldTags
      <3>2. s = tracker.buffered_tags[i] /\ s > e  BY <1>7, <3>1
      <3>3. s \in HeldTags(tracker)  BY <3>1, <3>2 DEF HeldTags
      <3> QED  BY <1>1, <3>2, <3>3 DEF HeldAreArrivals
    <2>2. ASSUME NEW s \in arrived', s > e PROVE s \in HeldTags(tracker')
      <3>1. s \in arrived /\ s \in Nat /\ s > tracker.next_expected /\ s # 0
        BY <1>1, <1>3, <2>2
      <3>2. Tagged(tracker, s)  BY <3>1, TaggedIsArrived
      <3>3. s % Slots \in SlotIndex  BY <3>1, SlotInIndex
      <3>4. ~(\E k \in seq + 1 .. e - 1 : s % Slots = k % Slots)
        BY <1>1, <1>3, <2>2, <3>1, <3>2 DEF Tagged
      <3>5. tracker'.buffered_tags[s % Slots] = s
        BY <1>5, <3>2, <3>3, <3>4 DEF Tagged
      <3> QED  BY <3>1, <3>3, <3>5 DEF HeldTags
    <2> QED  BY <1>4, <2>1, <2>2 DEF HeldAreArrivals
  <1> QED  BY <1>1, <1>4, <1>6, <1>8, <1>9 DEF e

(* An early number inside the window: its slot is free or already its own.    *)
LEMMA ArrivalGapBufferedInv ==
    ASSUME TrackerInv, NEW seq \in Sequences, GapBuffered(seq)
    PROVE  /\ TrackerInv'
           /\ seq > tracker.next_expected
           /\ seq <= tracker.next_expected + GapWindow
           /\ tracker'.next_expected = tracker.next_expected
  <1> USE ArrivalFields, SlotsFacts, SequencesAssumption DEF TrackerInv
  <1>1. /\ seq > tracker.next_expected /\ seq <= tracker.next_expected + GapWindow
        /\ seq \in Nat /\ arrived' = arrived \cup {seq}
    BY DEF GapBuffered, Offer, StatusOf
  <1>2. tracker' = [tracker EXCEPT !.buffered_tags[seq % Slots] = seq]
    BY DEF GapBuffered, Offer, OnSequence, MarkBuffered
  <1>3. seq % Slots \in SlotIndex  BY <1>1, SlotInIndex
  <1>4. /\ tracker'.next_expected = tracker.next_expected
        /\ tracker'.buffered_tags = [tracker.buffered_tags EXCEPT ![seq % Slots] = seq]
    BY <1>2
  <1>5. ArrivalTypeOK'
    <2>1. tracker'.buffered_tags \in [SlotIndex -> Nat]  BY <1>1, <1>4
    <2>2. tracker' \in TrackerType  BY <1>2, <1>4, <2>1 DEF TrackerType, ArrivalTypeOK
    <2> QED  BY <1>1, <2>2 DEF ArrivalTypeOK
  <1>6. TagsInWindow'
    <2> SUFFICES ASSUME NEW i \in SlotIndex, tracker'.buffered_tags[i] # 0
                 PROVE  /\ tracker'.buffered_tags[i] % Slots = i
                        /\ tracker'.buffered_tags[i] > tracker.next_expected
                        /\ tracker'.buffered_tags[i] <= tracker.next_expected + GapWindow
      BY <1>4 DEF TagsInWindow
    <2>1. CASE i = seq % Slots  BY <1>1, <1>4, <2>1
    <2>2. CASE i # seq % Slots  BY <1>4, <2>2 DEF TagsInWindow
    <2> QED  BY <2>1, <2>2
  <1>7. tracker.buffered_tags[seq % Slots] \in {0, seq}
    <2> DEFINE old == tracker.buffered_tags[seq % Slots]
    <2> SUFFICES ASSUME old # 0 PROVE old = seq  OBVIOUS
    <2>1. /\ old \in Nat /\ old % Slots = seq % Slots
          /\ old > tracker.next_expected /\ old <= tracker.next_expected + GapWindow
      BY <1>3 DEF TagsInWindow
    <2>2. old - seq < Slots /\ seq - old < Slots  BY <1>1, <2>1
    <2> QED  BY <1>1, <2>1, <2>2, ModWindow
  <1>8. HeldTags(tracker') = HeldTags(tracker) \cup {seq}
    <2>1. ASSUME NEW i \in SlotIndex
          PROVE  tracker'.buffered_tags[i] =
                   IF i = seq % Slots THEN seq ELSE tracker.buffered_tags[i]
      BY <1>4
    <2>2. seq # 0  BY <1>1
    <2> QED  BY <1>3, <1>7, <2>1, <2>2 DEF HeldTags
  <1>9. HeldAreArrivals'  BY <1>1, <1>4, <1>8 DEF HeldAreArrivals
  <1> QED  BY <1>1, <1>4, <1>5, <1>6, <1>9

(* An old number leaves the tracker alone. *)
LEMMA ArrivalDuplicateInv ==
    ASSUME TrackerInv, NEW seq \in Sequences, DuplicateOrOld(seq)
    PROVE  TrackerInv' /\ tracker' = tracker /\ seq < tracker.next_expected
  <1> USE ArrivalFields, SlotsFacts, SequencesAssumption DEF TrackerInv
  <1>1. seq < tracker.next_expected /\ seq \in Nat /\ arrived' = arrived \cup {seq}
    BY DEF DuplicateOrOld, Offer, StatusOf
  <1>2. tracker' = tracker  BY DEF DuplicateOrOld, Offer, OnSequence
  <1>3. ArrivalTypeOK'  BY <1>1, <1>2 DEF ArrivalTypeOK
  <1>4. TagsInWindow'  BY <1>2 DEF TagsInWindow
  <1>5. HeldAreArrivals'  BY <1>1, <1>2 DEF HeldAreArrivals
  <1> QED  BY <1>1, <1>2, <1>3, <1>4, <1>5

(* A number beyond the window: the jump leaves no tag behind. *)
LEMMA ArrivalGapTooLargeInv ==
    ASSUME TrackerInv, NEW seq \in Sequences, GapTooLarge(seq)
    PROVE  /\ TrackerInv'
           /\ seq > tracker.next_expected + GapWindow
           /\ tracker'.next_expected = seq
  <1> USE ArrivalFields, SlotsFacts, SequencesAssumption DEF TrackerInv
  <1>1. /\ seq > tracker.next_expected + GapWindow
        /\ seq \in Nat /\ arrived' = arrived \cup {seq}
    BY DEF GapTooLarge, Offer, StatusOf
  <1>2. tracker' = ForceAdvance(tracker, seq)
    BY DEF GapTooLarge, Offer, OnSequence
  <1>3. /\ tracker'.next_expected = seq
        /\ tracker'.buffered_tags = [i \in SlotIndex |-> 0]
        /\ tracker' = [next_expected |-> seq, buffered_tags |-> [i \in SlotIndex |-> 0]]
    <2>1. CASE seq - tracker.next_expected >= Slots
      BY <1>1, <1>2, <2>1 DEF ForceAdvance
    <2>2. CASE ~(seq - tracker.next_expected >= Slots)
      <3>1. GapWindow = 0  BY <1>1, <2>2
      <3>2. ASSUME NEW i \in SlotIndex PROVE tracker.buffered_tags[i] = 0
        <4>1. tracker.buffered_tags[i] \in Nat  OBVIOUS
        <4> QED  BY <3>1, <4>1 DEF TagsInWindow
      <3> DEFINE tags == [i \in SlotIndex |->
                            IF \E s \in tracker.next_expected .. seq - 1 :
                                   i = s % Slots /\ tracker.buffered_tags[i] = s
                            THEN 0 ELSE tracker.buffered_tags[i]]
      <3>3. tags = [i \in SlotIndex |-> 0]  BY <3>2
      <3>4. tracker' = [next_expected |-> seq, buffered_tags |-> tags]
        BY <1>1, <1>2, <2>2 DEF ForceAdvance
      <3> QED  BY <3>3, <3>4
    <2> QED  BY <2>1, <2>2
  <1>4. ArrivalTypeOK'  BY <1>1, <1>3 DEF ArrivalTypeOK, TrackerType
  <1>5. TagsInWindow'  BY <1>3 DEF TagsInWindow
  <1>6. HeldTags(tracker') = {}  BY <1>3 DEF HeldTags
  <1>7. ASSUME NEW s \in arrived', s > seq PROVE FALSE
    <2>1. s \in arrived /\ s \in Nat /\ s > tracker.next_expected  BY <1>1, <1>7
    <2>2. s \in HeldTags(tracker)  BY <2>1 DEF HeldAreArrivals
    <2>3. PICK i \in SlotIndex : tracker.buffered_tags[i] = s /\ s # 0
      BY <2>2 DEF HeldTags
    <2>4. s <= tracker.next_expected + GapWindow  BY <2>3 DEF TagsInWindow
    <2> QED  BY <1>1, <1>7, <2>1, <2>4
  <1>8. HeldAreArrivals'  BY <1>3, <1>6, <1>7 DEF HeldAreArrivals
  <1> QED  BY <1>1, <1>3, <1>4, <1>5, <1>8

LEMMA StepTrackerInv == TrackerInv /\ [ArrivalNext]_arrivalVars => TrackerInv'
  <1> SUFFICES ASSUME TrackerInv, [ArrivalNext]_arrivalVars PROVE TrackerInv'  OBVIOUS
  <1>1. CASE ArrivalNext
    <2>1. PICK seq \in Sequences : \/ InOrder(seq) \/ GapBuffered(seq)
                                   \/ DuplicateOrOld(seq) \/ GapTooLarge(seq)
      BY <1>1 DEF ArrivalNext
    <2> QED  BY <2>1, InOrderInv, ArrivalGapBufferedInv, ArrivalDuplicateInv, ArrivalGapTooLargeInv
  <1>2. CASE UNCHANGED arrivalVars
    BY <1>2 DEF arrivalVars, TrackerInv, ArrivalTypeOK, TagsInWindow, HeldAreArrivals
  <1> QED  BY <1>1, <1>2

------------------------------------------------------------------------------
(* next_expected, the ring of tags and the history always have their types.   *)
THEOREM TrackerTypeOK == ArrivalSpec => []ArrivalTypeOK
  <1>1. TrackerInv => ArrivalTypeOK  BY DEF TrackerInv
  <1> QED  BY <1>1, InitTrackerInv, StepTrackerInv, PTL DEF ArrivalSpec

(* Every tag is in its own slot and inside the window above next_expected, so *)
(* mark_buffered never overwrites the tag of another buffered number.         *)
THEOREM TrackerTagsInWindow == ArrivalSpec => []TagsInWindow
  <1>1. TrackerInv => TagsInWindow  BY DEF TrackerInv
  <1> QED  BY <1>1, InitTrackerInv, StepTrackerInv, PTL DEF ArrivalSpec

(* The tags are exactly the numbers that arrived early: on_sequence and       *)
(* force_advance neither lose nor invent one.                                *)
THEOREM TrackerHoldsArrivals == ArrivalSpec => []HeldAreArrivals
  <1>1. TrackerInv => HeldAreArrivals  BY DEF TrackerInv
  <1> QED  BY <1>1, InitTrackerInv, StepTrackerInv, PTL DEF ArrivalSpec

(* next_expected only moves forward, and only over numbers that arrived or    *)
(* in a jump of more than the gap window.                                    *)
THEOREM TrackerNoSilentSkip == ArrivalSpec => NoSilentSkip
  <1> DEFINE Step == /\ tracker'.next_expected >= tracker.next_expected
                     /\ \/ tracker'.next_expected > tracker.next_expected + GapWindow
                        \/ \A s \in tracker.next_expected .. tracker'.next_expected - 1 :
                               s \in arrived'
  <1>1. ASSUME TrackerInv, [ArrivalNext]_arrivalVars PROVE [Step]_arrivalVars
    <2> USE <1>1, ArrivalFields, SlotsFacts, SequencesAssumption
    <2>0. ArrivalTypeOK  BY DEF TrackerInv
    <2> SUFFICES ASSUME ArrivalNext PROVE Step  BY DEF arrivalVars
    <2>1. PICK seq \in Sequences : \/ InOrder(seq) \/ GapBuffered(seq)
                                   \/ DuplicateOrOld(seq) \/ GapTooLarge(seq)
      BY DEF ArrivalNext
    <2>2. CASE InOrder(seq)
      <3> DEFINE e == ReleaseEnd(tracker, seq + 1)
      <3>1. seq = tracker.next_expected /\ tracker'.next_expected = e
        BY <2>2, InOrderInv
      <3>2. e \in seq + 1 .. seq + 1 + GapWindow
            /\ \A k \in seq + 1 .. e - 1 : Tagged(tracker, k)
        BY <3>1, <2>0, ArrivalReleaseEnd
      <3> HIDE DEF e
      <3>3. arrived' = arrived \cup {seq}  BY <2>2 DEF InOrder, Offer
      <3>4. ASSUME NEW k \in seq .. e - 1 PROVE k \in arrived'
        <4>1. CASE k = seq  BY <3>3, <4>1
        <4>2. CASE k # seq
          <5>1. k \in Nat /\ k > tracker.next_expected /\ k \in seq + 1 .. e - 1
            BY <2>0, <3>1, <3>2, <4>2
          <5> QED  BY <3>2, <3>3, <5>1, TaggedIsArrived
        <4> QED  BY <4>1, <4>2
      <3> QED  BY <2>0, <3>1, <3>2, <3>4
    <2>3. CASE GapBuffered(seq)  BY <2>0, <2>3, ArrivalGapBufferedInv
    <2>4. CASE DuplicateOrOld(seq)  BY <2>0, <2>4, ArrivalDuplicateInv
    <2>5. CASE GapTooLarge(seq)  BY <2>0, <2>5, ArrivalGapTooLargeInv
    <2> QED  BY <2>1, <2>2, <2>3, <2>4, <2>5
  <1>2. ArrivalSpec => []TrackerInv  BY InitTrackerInv, StepTrackerInv, PTL DEF ArrivalSpec
  <1> QED  BY <1>1, <1>2, PTL DEF ArrivalSpec, NoSilentSkip

------------------------------------------------------------------------------
(* Where the release loop stops is the first number that never arrived.       *)
LEMMA ReleaseEndIsFirstMissing ==
    ASSUME TrackerInv, NEW n, n = tracker.next_expected
    PROVE  ReleaseEnd(tracker, n + 1) = Abstract!FirstMissing(n, arrived)
  <1> USE ArrivalFields, SlotsFacts
  <1>0. ArrivalTypeOK /\ n \in Nat  BY DEF TrackerInv
  <1> DEFINE e == ReleaseEnd(tracker, n + 1)
             First(m) == m \notin arrived /\ \A k \in n + 1 .. m - 1 : k \in arrived
  <1>1. /\ e \in n + 1 .. n + 1 + GapWindow
        /\ ~Tagged(tracker, e)
        /\ \A k \in n + 1 .. e - 1 : Tagged(tracker, k)
    BY ArrivalReleaseEnd
  <1> HIDE DEF e
  <1>2. e \in n + 1 .. n + GapWindow + 1  BY <1>0, <1>1
  <1>3. First(e)
    <2>1. e \in Nat /\ e > n  BY <1>0, <1>1
    <2>2. e \notin arrived  BY <1>1, <2>1, TaggedIsArrived
    <2>3. ASSUME NEW k \in n + 1 .. e - 1 PROVE k \in arrived
      <3>1. k \in Nat /\ k > n  BY <1>0, <2>1
      <3> QED  BY <1>1, <3>1, TaggedIsArrived
    <2> QED  BY <2>2, <2>3
  <1>4. ASSUME NEW m \in n + 1 .. n + GapWindow + 1, First(m) PROVE m = e
    <2>1. ~(m < e)
      <3> SUFFICES ASSUME m < e PROVE FALSE  OBVIOUS
      <3>1. m \in n + 1 .. e - 1  BY <1>0, <1>1
      <3> QED  BY <1>3, <1>4, <3>1
    <2>2. ~(e < m)
      <3> SUFFICES ASSUME e < m PROVE FALSE  OBVIOUS
      <3>1. e \in n + 1 .. m - 1  BY <1>0, <1>1
      <3> QED  BY <1>3, <1>4, <3>1
    <2> QED  BY <1>0, <1>1, <2>1, <2>2
  <1> HIDE DEF First
  <1>5. (CHOOSE m \in n + 1 .. n + GapWindow + 1 : First(m)) = e
    BY <1>2, <1>3, <1>4
  <1>6. Abstract!FirstMissing(n, arrived)
          = CHOOSE m \in n + 1 .. n + GapWindow + 1 : First(m)
    BY DEF Abstract!FirstMissing, First
  <1> QED  BY <1>5, <1>6 DEF e

(* Each answer of the tracker is the corresponding step of the sequencer.     *)
LEMMA StepSequencer == TrackerInv /\ [ArrivalNext]_arrivalVars => [Abstract!Next]_(Abstract!vars)
  <1> SUFFICES ASSUME TrackerInv, [ArrivalNext]_arrivalVars PROVE [Abstract!Next]_(Abstract!vars)
    OBVIOUS
  <1> USE ArrivalFields, SlotsFacts, SequencesAssumption
  <1>0. ArrivalTypeOK  BY DEF TrackerInv
  <1>1. CASE UNCHANGED arrivalVars  BY <1>1 DEF arrivalVars, Abstract!vars
  <1>2. CASE ArrivalNext
    <2>1. PICK seq \in Sequences : \/ InOrder(seq) \/ GapBuffered(seq)
                                   \/ DuplicateOrOld(seq) \/ GapTooLarge(seq)
      BY <1>2 DEF ArrivalNext
    <2>2. CASE InOrder(seq)
      <3>1. Abstract!Accept(seq)
        BY <2>2, InOrderInv, ReleaseEndIsFirstMissing DEF Abstract!Accept, InOrder, Offer
      <3> QED  BY <3>1 DEF Abstract!Next
    <2>3. CASE GapBuffered(seq)
      <3>1. Abstract!Hold(seq)
        BY <2>3, ArrivalGapBufferedInv DEF Abstract!Hold, GapBuffered, Offer
      <3> QED  BY <3>1 DEF Abstract!Next
    <2>4. CASE DuplicateOrOld(seq)
      <3>1. Abstract!Ignore(seq)
        BY <2>4, ArrivalDuplicateInv DEF Abstract!Ignore, DuplicateOrOld, Offer
      <3> QED  BY <3>1 DEF Abstract!Next
    <2>5. CASE GapTooLarge(seq)
      <3>1. Abstract!Skip(seq)
        BY <2>5, ArrivalGapTooLargeInv DEF Abstract!Skip, GapTooLarge, Offer
      <3> QED  BY <3>1 DEF Abstract!Next
    <2> QED  BY <2>1, <2>2, <2>3, <2>4, <2>5
  <1> QED  BY <1>1, <1>2

(* SequenceTracker's bounded ring of tags behaves as the sequencer that       *)
(* remembers every number it was ever offered.                               *)
THEOREM TrackerImplementsSequencer == ArrivalSpec => ImplementsSequencer
  <1>1. ArrivalInit => Abstract!Init  BY DEF ArrivalInit, NewTracker, Abstract!Init
  <1>2. ArrivalSpec => []TrackerInv  BY InitTrackerInv, StepTrackerInv, PTL DEF ArrivalSpec
  <1> QED
    BY <1>1, <1>2, StepSequencer, PTL DEF ArrivalSpec, ImplementsSequencer, Abstract!Spec
==============================================================================
