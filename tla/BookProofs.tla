------------------------------ MODULE BookProofs ------------------------------
(***************************************************************************)
(* The books behind the live feed. The order table, for every size, hash      *)
(* function and set of keys, implements a map; the tracker of the Bitfinex    *)
(* feed, for every set of rows and every grain, agrees with the exchange's    *)
(* book at the number it has reached, and a sidecar with the events since     *)
(* restores it.                                                              *)
(***************************************************************************)
EXTENDS TableSpec, BitfinexFeed, ArithmeticLemmas, FiniteSetTheorems, SequenceTheorems, TLAPS

Table == [slots : [SlotIndex -> Slot], order_count : Nat, dropped_order_inserts : Nat]

Entry(key, value) == [state |-> Live, key |-> key, value |-> value]

(* Probing for key would come to slot i. *)
Reaches(t, key, i) ==
    \E n \in SlotIndex : Probe(key, n) = i /\ \A m \in 0 .. n - 1 : ~Stops(t, key, m)

(* Every entry can be reached. This is inductive as it stands. *)
AllReached(t) == \A i \in SlotIndex : t.slots[i].state = Live => Reaches(t, t.slots[i].key, i)

LEMMA SizeType == Size \in Nat \ {0} /\ Hash \in [Keys -> 0 .. Size - 1]
  BY TableAssumption

LEMMA ProbeType ==
    ASSUME NEW key \in Keys, NEW n \in Nat
    PROVE  Probe(key, n) \in SlotIndex
  <1>1. Hash[key] + n \in Nat  BY SizeType
  <1> QED  BY <1>1, SizeType, DivMod DEF Probe, SlotIndex

(* The turns of one loop look at different slots. *)
LEMMA ProbeInjective ==
    ASSUME NEW key \in Keys, NEW m \in SlotIndex, NEW n \in SlotIndex,
           Probe(key, m) = Probe(key, n)
    PROVE  m = n
  <1> DEFINE a == Hash[key] + m
             b == Hash[key] + n
  <1>1. a \in Nat /\ b \in Nat  BY SizeType DEF SlotIndex
  <1>2. a - b < Size /\ b - a < Size  BY SizeType DEF SlotIndex
  <1>3. a % Size = b % Size  BY DEF Probe
  <1>4. a = b
    <2> HIDE DEF a, b
    <2> QED  BY <1>1, <1>2, <1>3, SizeType, ModWindow
  <1> QED  BY <1>4, SizeType DEF SlotIndex

(* ProbeEnd is the first turn that stops. *)
LEMMA ProbeEndFirst ==
    ASSUME NEW t, NEW key \in Keys
    PROVE  /\ ProbeEnd(t, key) \in 0 .. Size
           /\ ProbeEnd(t, key) < Size => Stops(t, key, ProbeEnd(t, key))
           /\ \A m \in SlotIndex : m < ProbeEnd(t, key) => ~Stops(t, key, m)
  <1> DEFINE T == {n \in SlotIndex : Stops(t, key, n)}
             First(n) == Stops(t, key, n) /\ \A m \in 0 .. n - 1 : ~Stops(t, key, m)
  <1>1. CASE T = {}
    <2>1. ProbeEnd(t, key) = Size  BY <1>1 DEF ProbeEnd
    <2> QED  BY <1>1, <2>1, SizeType
  <1>2. CASE T # {}
    <2>1. T \subseteq Nat  BY SizeType DEF SlotIndex
    <2>2. PICK n \in T : \A m \in T : n <= m  BY <1>2, <2>1, LeastMember
    <2>3. n \in SlotIndex /\ First(n)
      <3>1. ASSUME NEW m \in 0 .. n - 1 PROVE ~Stops(t, key, m)
        <4>1. m \in SlotIndex /\ ~(n <= m)  BY <2>2, SizeType DEF SlotIndex
        <4> QED  BY <4>1, <2>2
      <3> QED  BY <3>1, <2>2
    <2>4. ProbeEnd(t, key) = CHOOSE k \in SlotIndex : First(k)
      BY <1>2 DEF ProbeEnd
    <2>5. ProbeEnd(t, key) \in SlotIndex /\ First(ProbeEnd(t, key))
      <3> HIDE DEF First
      <3> QED  BY <2>3, <2>4
    <2> QED  BY <2>5, SizeType DEF SlotIndex
  <1> QED  BY <1>1, <1>2

(* An entry that can be reached is where probing for its key ends. *)
LEMMA ReachedIsEnd ==
    ASSUME NEW t, NEW i \in SlotIndex, NEW key \in Keys,
           LiveAt(t, key, i), Reaches(t, key, i)
    PROVE  /\ ProbeEnd(t, key) \in SlotIndex
           /\ Probe(key, ProbeEnd(t, key)) = i
           /\ Found(t, key)
           /\ OrderOf(t, key) = t.slots[i].value
  <1>1. PICK n \in SlotIndex : Probe(key, n) = i /\ \A m \in 0 .. n - 1 : ~Stops(t, key, m)
    BY DEF Reaches
  <1>2. Stops(t, key, n)  BY <1>1 DEF Stops
  <1> DEFINE e == ProbeEnd(t, key)
  <1>3. /\ e \in 0 .. Size
        /\ e < Size => Stops(t, key, e)
        /\ \A m \in SlotIndex : m < e => ~Stops(t, key, m)
    BY ProbeEndFirst
  <1> HIDE DEF e
  <1>4. ~(n < e)  BY <1>2, <1>3
  <1>5. ~(e < n)
    <2> SUFFICES ASSUME e < n PROVE FALSE  OBVIOUS
    <2>1. e \in 0 .. n - 1 /\ e < Size  BY <1>3, SizeType DEF SlotIndex
    <2> QED  BY <2>1, <1>1, <1>3
  <1>6. e = n  BY <1>3, <1>4, <1>5, SizeType DEF SlotIndex
  <1>7. e \in SlotIndex /\ Probe(key, e) = i /\ e < Size
    BY <1>1, <1>6, SizeType DEF SlotIndex
  <1> QED  BY <1>7 DEF e, Found, OrderOf

(* With every entry reached, find_order finds the keys that have an entry. *)
LEMMA FoundIsLive ==
    ASSUME NEW t \in Table, AllReached(t), NEW key \in Keys
    PROVE  Found(t, key) <=> \E i \in SlotIndex : LiveAt(t, key, i)
  <1>1. ASSUME Found(t, key) PROVE \E i \in SlotIndex : LiveAt(t, key, i)
    <2>1. ProbeEnd(t, key) \in Nat  BY ProbeEndFirst, SizeType
    <2>2. Probe(key, ProbeEnd(t, key)) \in SlotIndex  BY <2>1, ProbeType
    <2> QED  BY <1>1, <2>2 DEF Found
  <1>2. ASSUME NEW i \in SlotIndex, LiveAt(t, key, i) PROVE Found(t, key)
    <2>1. Reaches(t, key, i)  BY <1>2 DEF AllReached, LiveAt
    <2> QED  BY <1>2, <2>1, ReachedIsEnd
  <1> QED  BY <1>1, <1>2

(* Where find_order ends for a key that it finds. *)
LEMMA FoundSlot ==
    ASSUME NEW t \in Table, NEW key \in Keys, Found(t, key)
    PROVE  /\ Probe(key, ProbeEnd(t, key)) \in SlotIndex
           /\ LiveAt(t, key, Probe(key, ProbeEnd(t, key)))
  <1>1. ProbeEnd(t, key) \in Nat  BY ProbeEndFirst, SizeType
  <1> QED  BY <1>1, ProbeType DEF Found

(* A new entry goes to a slot that is not live, at a turn of the loop. *)
LEMMA InsertionTurn ==
    ASSUME NEW t \in Table, NEW key \in Keys, ProbeEnd(t, key) # Size, ~Found(t, key)
    PROVE  \E n \in SlotIndex : /\ n <= ProbeEnd(t, key)
                                /\ InsertionSlot(t, key) = Probe(key, n)
                                /\ t.slots[Probe(key, n)].state # Live
  <1> DEFINE e == ProbeEnd(t, key)
             passed == {n \in 0 .. e - 1 : t.slots[Probe(key, n)].state = Tombstone}
  <1>1. e \in SlotIndex /\ Stops(t, key, e)  BY ProbeEndFirst, SizeType DEF SlotIndex
  <1>2. CASE passed = {}
    <2>1. InsertionSlot(t, key) = Probe(key, e)  BY <1>2 DEF InsertionSlot
    <2>2. ~LiveAt(t, key, Probe(key, e))  BY <1>1, SizeType DEF Found, SlotIndex
    <2>3. t.slots[Probe(key, e)].state = Free  BY <1>1, <2>2 DEF Stops
    <2> QED  BY <1>1, <2>1, <2>3 DEF Free, Live, SlotIndex
  <1>3. CASE passed # {}
    <2>1. passed \subseteq Nat  BY <1>1 DEF SlotIndex
    <2>2. \E n \in passed : \A m \in passed : n <= m
      <3> HIDE DEF passed
      <3> QED  BY <1>3, <2>1, LeastMember
    <2>3. PICK n \in passed : InsertionSlot(t, key) = Probe(key, n)
      BY <1>3, <2>2 DEF InsertionSlot
    <2>4. n \in 0 .. e - 1 /\ t.slots[Probe(key, n)].state = Tombstone
      BY <2>3
    <2>5. n \in SlotIndex /\ n <= e
      <3> HIDE DEF e, passed
      <3> QED  BY <1>1, <2>4, SizeType DEF SlotIndex
    <2> QED  BY <2>3, <2>4, <2>5 DEF Tombstone, Live
  <1> QED  BY <1>2, <1>3

(* Putting a new entry there keeps every entry reached: it stops no probe for  *)
(* another key, and the loop for its own key comes to it.                     *)
LEMMA InsertKeepsReached ==
    ASSUME NEW t \in Table, AllReached(t), NEW key \in Keys, NEW value \in Values,
           ProbeEnd(t, key) # Size, ~Found(t, key), NEW u,
           u.slots = [t.slots EXCEPT ![InsertionSlot(t, key)] = Entry(key, value)]
    PROVE  AllReached(u)
  <1> DEFINE j == InsertionSlot(t, key)
  <1>1. PICK n \in SlotIndex : /\ n <= ProbeEnd(t, key) /\ j = Probe(key, n)
                               /\ t.slots[j].state # Live
    BY InsertionTurn
  <1>2. j \in SlotIndex  BY <1>1, ProbeType DEF SlotIndex
  <1>3. /\ u.slots[j] = Entry(key, value)
        /\ \A i \in SlotIndex \ {j} : u.slots[i] = t.slots[i]
    BY <1>2 DEF Table
  <1> HIDE DEF j
  <1>4. Reaches(u, key, j)
    <2>1. ASSUME NEW m \in 0 .. n - 1 PROVE ~Stops(u, key, m)
      <3>1. m \in SlotIndex /\ m # n /\ m < ProbeEnd(t, key)
        BY <1>1, ProbeEndFirst, SizeType DEF SlotIndex
      <3>2. Probe(key, m) \in SlotIndex \ {j}
        BY <3>1, <1>1, ProbeType, ProbeInjective DEF SlotIndex
      <3>3. ~Stops(t, key, m)  BY <3>1, ProbeEndFirst
      <3> QED  BY <3>2, <3>3, <1>3 DEF Stops, LiveAt
    <2> QED  BY <1>1, <2>1 DEF Reaches
  <1>5. ASSUME NEW i \in SlotIndex \ {j}, u.slots[i].state = Live
        PROVE  Reaches(u, u.slots[i].key, i)
    <2> DEFINE k == t.slots[i].key
    <2>1. u.slots[i] = t.slots[i] /\ t.slots[i].state = Live  BY <1>3, <1>5
    <2>2. k \in Keys  BY <2>1 DEF Table, Slot, Live, Free, Tombstone
    <2>3. k # key  BY <2>1, FoundIsLive DEF LiveAt
    <2>4. PICK a \in SlotIndex : Probe(k, a) = i /\ \A m \in 0 .. a - 1 : ~Stops(t, k, m)
      BY <2>1 DEF AllReached, Reaches
    <2>5. ASSUME NEW m \in 0 .. a - 1 PROVE ~Stops(u, k, m)
      <3>1. Probe(k, m) \in SlotIndex  BY <2>2, <2>4, ProbeType DEF SlotIndex
      <3>2. CASE Probe(k, m) = j
        BY <3>2, <1>3, <2>3 DEF Stops, LiveAt, Entry, Live, Free
      <3>3. CASE Probe(k, m) # j
        BY <3>1, <3>3, <1>3, <2>4 DEF Stops, LiveAt
      <3> QED  BY <3>2, <3>3
    <2> QED  BY <2>1, <2>4, <2>5 DEF Reaches
  <1>6. u.slots[j].key = key  BY <1>3 DEF Entry
  <1> QED  BY <1>4, <1>5, <1>6 DEF AllReached

(* Writing a new value into the entry of a key changes no probe. *)
LEMMA OverwriteKeepsReached ==
    ASSUME NEW t \in Table, AllReached(t), NEW key \in Keys, NEW value \in Values,
           NEW j \in SlotIndex, LiveAt(t, key, j), NEW u,
           u.slots = [t.slots EXCEPT ![j] = Entry(key, value)]
    PROVE  AllReached(u)
  <1>1. \A i \in SlotIndex : u.slots[i].state = t.slots[i].state /\ u.slots[i].key = t.slots[i].key
    BY DEF LiveAt, Entry, Table
  <1>2. \A k \in Keys, m \in Nat : Stops(u, k, m) <=> Stops(t, k, m)
    BY <1>1, ProbeType DEF Stops, LiveAt
  <1>3. ASSUME NEW i \in SlotIndex, u.slots[i].state = Live
        PROVE  Reaches(u, u.slots[i].key, i)
    <2>1. t.slots[i].state = Live /\ u.slots[i].key = t.slots[i].key  BY <1>1, <1>3
    <2>2. t.slots[i].key \in Keys  BY <2>1 DEF Table, Slot, Live, Free, Tombstone
    <2>3. Reaches(t, t.slots[i].key, i)  BY <2>1 DEF AllReached
    <2> QED  BY <1>2, <2>1, <2>2, <2>3 DEF Reaches, SlotIndex
  <1> QED  BY <1>3 DEF AllReached

(* A tombstone stops no probe. *)
LEMMA EraseKeepsReached ==
    ASSUME NEW t \in Table, AllReached(t), NEW j \in SlotIndex, NEW u,
           u.slots = [t.slots EXCEPT ![j] = ErasedSlot]
    PROVE  AllReached(u)
  <1>1. /\ u.slots[j].state = Tombstone
        /\ \A i \in SlotIndex \ {j} : u.slots[i] = t.slots[i]
    BY DEF Table, ErasedSlot
  <1>2. \A k \in Keys, m \in Nat : Stops(u, k, m) => Stops(t, k, m)
    BY <1>1, ProbeType DEF Stops, LiveAt, Tombstone, Free, Live
  <1>3. ASSUME NEW i \in SlotIndex, u.slots[i].state = Live
        PROVE  Reaches(u, u.slots[i].key, i)
    <2>1. u.slots[i] = t.slots[i] /\ t.slots[i].state = Live
      BY <1>1, <1>3 DEF Tombstone, Live
    <2>2. t.slots[i].key \in Keys  BY <2>1 DEF Table, Slot, Live, Free, Tombstone
    <2>3. Reaches(t, t.slots[i].key, i)  BY <2>1 DEF AllReached
    <2> QED  BY <1>2, <2>1, <2>2, <2>3 DEF Reaches, SlotIndex
  <1> QED  BY <1>3 DEF AllReached

--------------------------------------------------------------------------------
LiveIn(t) == {i \in SlotIndex : t.slots[i].state = Live}

Counted(t) == t.order_count = Cardinality(LiveIn(t))

(* One slot gets contents c, and the count changes by d. *)
SlotChanged(t, u, j, c, d) ==
    /\ u.slots = [t.slots EXCEPT ![j] = c]
    /\ u.order_count = t.order_count + d
    /\ u.dropped_order_inserts = t.dropped_order_inserts

(* The three outcomes of put_order. *)
Refused(t, u) == /\ u.slots = t.slots /\ u.order_count = t.order_count
                 /\ u.dropped_order_inserts = t.dropped_order_inserts + 1

Overwritten(t, u, key, value) ==
    \E j \in SlotIndex : LiveAt(t, key, j) /\ SlotChanged(t, u, j, Entry(key, value), 0)

Inserted(t, u, key, value) ==
    \E j \in SlotIndex : /\ t.slots[j].state # Live
                         /\ \A i \in SlotIndex : ~LiveAt(t, key, i)
                         /\ SlotChanged(t, u, j, Entry(key, value), 1)

Erased(t, u, key) ==
    \E j \in SlotIndex : LiveAt(t, key, j) /\ SlotChanged(t, u, j, ErasedSlot, -1)

LEMMA LiveInFinite ==
    ASSUME NEW t PROVE IsFiniteSet(LiveIn(t)) /\ Cardinality(LiveIn(t)) \in Nat
  <1>1. IsFiniteSet(SlotIndex)  BY SizeType, FS_Interval DEF SlotIndex
  <1>2. LiveIn(t) \subseteq SlotIndex  BY DEF LiveIn
  <1> QED  BY <1>1, <1>2, FS_Subset, FS_CardinalityType

Update(t, j, c, n) == [t EXCEPT !.slots[j] = c, !.order_count = n]

LEMMA ChangedTable ==
    ASSUME NEW t \in Table, NEW j \in SlotIndex, NEW c \in Slot, NEW d \in Int, NEW u,
           t.order_count + d \in Nat,
           u = Update(t, j, c, t.order_count + d)
    PROVE  u \in Table /\ SlotChanged(t, u, j, c, d)
  <1> DEFINE f == [t.slots EXCEPT ![j] = c]
             r == [slots |-> f, order_count |-> t.order_count + d,
                   dropped_order_inserts |-> t.dropped_order_inserts]
  <1>1. f \in [SlotIndex -> Slot]  BY DEF Table
  <1>2. t = [slots |-> t.slots, order_count |-> t.order_count,
             dropped_order_inserts |-> t.dropped_order_inserts]  BY DEF Table
  <1>3. u = r  BY <1>2 DEF Update
  <1> HIDE DEF f
  <1>4. r \in Table /\ r.slots = f /\ r.order_count = t.order_count + d
        /\ r.dropped_order_inserts = t.dropped_order_inserts
    BY <1>1 DEF Table
  <1> QED  BY <1>3, <1>4 DEF SlotChanged, f

LEMMA PutOutcome ==
    ASSUME NEW t \in Table, AllReached(t), NEW key \in Keys, NEW value \in Values
    PROVE  LET u == PutOrder(t, key, value) IN
           /\ u \in Table /\ AllReached(u)
           /\ Refused(t, u) \/ Overwritten(t, u, key, value) \/ Inserted(t, u, key, value)
  <1> DEFINE u == PutOrder(t, key, value)
  <1>0. Entry(key, value) \in Slot  BY DEF Entry, Slot
  <1>1. CASE t.order_count > Size \div 2 \/ ProbeEnd(t, key) = Size
    <2>1. u = Dropped(t)  BY <1>1 DEF PutOrder
    <2>2. u \in Table /\ Refused(t, u)  BY <2>1 DEF Dropped, Table, Refused
    <2>3. AllReached(u)
      <3>1. u.slots = t.slots  BY <2>2 DEF Refused
      <3> HIDE DEF u
      <3> QED  BY <3>1 DEF AllReached, Reaches, Stops, LiveAt
    <2> QED  BY <2>2, <2>3
  <1>2. CASE ~(t.order_count > Size \div 2 \/ ProbeEnd(t, key) = Size) /\ Found(t, key)
    <2> DEFINE j == Probe(key, ProbeEnd(t, key))
    <2>1. j \in SlotIndex /\ LiveAt(t, key, j)  BY <1>2, FoundSlot
    <2>2. u = [t EXCEPT !.slots[j] = Entry(key, value)]
      BY <1>2 DEF PutOrder, SetOrder, Entry
    <2> HIDE DEF j, u
    <2>3. u \in Table /\ SlotChanged(t, u, j, Entry(key, value), 0)
      BY <1>0, <2>1, <2>2 DEF Table, SlotChanged
    <2>4. AllReached(u)
      <3>1. u.slots = [t.slots EXCEPT ![j] = Entry(key, value)]  BY <2>3 DEF SlotChanged
      <3> QED  BY <2>1, <3>1, OverwriteKeepsReached
    <2> QED  BY <2>1, <2>3, <2>4 DEF Overwritten, u
  <1>3. CASE ~(t.order_count > Size \div 2 \/ ProbeEnd(t, key) = Size) /\ ~Found(t, key)
    <2> DEFINE j == InsertionSlot(t, key)
    <2>1. j \in SlotIndex /\ t.slots[j].state # Live
      BY <1>3, InsertionTurn, ProbeType DEF SlotIndex
    <2>2. \A i \in SlotIndex : ~LiveAt(t, key, i)  BY <1>3, FoundIsLive
    <2>3. u = [t EXCEPT !.slots[j] = Entry(key, value), !.order_count = @ + 1]
      BY <1>3 DEF PutOrder, Entry
    <2>4. u.slots = [t.slots EXCEPT ![j] = Entry(key, value)]  BY <2>3 DEF Table
    <2>7. u = Update(t, j, Entry(key, value), t.order_count + 1)
      BY <2>3 DEF Update
    <2>8. t.order_count + 1 \in Nat  BY DEF Table
    <2>5. AllReached(u)
      <3> HIDE DEF u
      <3> QED  BY <1>3, <2>4, InsertKeepsReached
    <2> HIDE DEF j, u
    <2>6. u \in Table /\ SlotChanged(t, u, j, Entry(key, value), 1)
      BY <1>0, <2>1, <2>7, <2>8, ChangedTable
    <2> QED  BY <2>1, <2>2, <2>5, <2>6 DEF Inserted, u
  <1> QED  BY <1>1, <1>2, <1>3

LEMMA EraseOutcome ==
    ASSUME NEW t \in Table, AllReached(t), Counted(t), NEW key \in Keys
    PROVE  LET u == EraseOrder(t, key) IN
           /\ u \in Table /\ AllReached(u)
           /\ \/ u = t /\ \A i \in SlotIndex : ~LiveAt(t, key, i)
              \/ Erased(t, u, key)
  <1> DEFINE u == EraseOrder(t, key)
  <1>1. CASE ~Found(t, key)
    <2>1. u = t  BY <1>1 DEF EraseOrder
    <2> HIDE DEF u
    <2> QED  BY <1>1, <2>1, FoundIsLive DEF u
  <1>2. CASE Found(t, key)
    <2> DEFINE j == Probe(key, ProbeEnd(t, key))
    <2>1. j \in SlotIndex /\ LiveAt(t, key, j)  BY <1>2, FoundSlot
    <2>2. u = [t EXCEPT !.slots[j] = ErasedSlot, !.order_count = IF @ > 0 THEN @ - 1 ELSE @]
      BY <1>2 DEF EraseOrder
    <2> HIDE DEF j, u
    <2>3. t.order_count > 0
      <3>1. j \in LiveIn(t)  BY <2>1 DEF LiveIn, LiveAt
      <3>2. Cardinality(LiveIn(t)) # 0  BY <3>1, LiveInFinite, FS_EmptySet
      <3> QED  BY <3>2, LiveInFinite DEF Counted
    <2>4. ErasedSlot \in Slot  BY DEF ErasedSlot, Slot
    <2>7. t.order_count + (-1) \in Nat /\ t.order_count - 1 = t.order_count + (-1)
      BY <2>3 DEF Table
    <2>8. u = Update(t, j, ErasedSlot, t.order_count + (-1))
      BY <2>2, <2>3, <2>7 DEF Update
    <2>5. u \in Table /\ SlotChanged(t, u, j, ErasedSlot, -1)
      BY <2>1, <2>4, <2>7, <2>8, ChangedTable
    <2>6. AllReached(u)
      <3>1. u.slots = [t.slots EXCEPT ![j] = ErasedSlot]  BY <2>5 DEF SlotChanged
      <3> QED  BY <2>1, <3>1, EraseKeepsReached
    <2> QED  BY <2>1, <2>5, <2>6 DEF Erased, u
  <1> QED  BY <1>1, <1>2

(* The count follows the entries in every outcome. *)
LEMMA CountKept ==
    ASSUME NEW t \in Table, NEW u \in Table, Counted(t), NEW key \in Keys, NEW value \in Values,
           \/ Refused(t, u) \/ Overwritten(t, u, key, value)
           \/ Inserted(t, u, key, value) \/ Erased(t, u, key)
    PROVE  Counted(u)
  <1>1. CASE Refused(t, u)
    <2>1. LiveIn(u) = LiveIn(t)  BY <1>1 DEF Refused, LiveIn
    <2> QED  BY <1>1, <2>1 DEF Refused, Counted
  <1>2. CASE Overwritten(t, u, key, value)
    <2>1. PICK j \in SlotIndex : LiveAt(t, key, j) /\ SlotChanged(t, u, j, Entry(key, value), 0)
      BY <1>2 DEF Overwritten
    <2>2. LiveIn(u) = LiveIn(t)  BY <2>1 DEF SlotChanged, LiveIn, LiveAt, Entry, Table
    <2>3. u.order_count = t.order_count  BY <2>1 DEF SlotChanged, Table
    <2> QED  BY <2>2, <2>3 DEF Counted
  <1>3. CASE Inserted(t, u, key, value)
    <2>1. PICK j \in SlotIndex : t.slots[j].state # Live /\ SlotChanged(t, u, j, Entry(key, value), 1)
      BY <1>3 DEF Inserted
    <2>2. LiveIn(u) = LiveIn(t) \cup {j} /\ j \notin LiveIn(t)
      BY <2>1 DEF SlotChanged, LiveIn, Entry, Table
    <2>3. Cardinality(LiveIn(u)) = Cardinality(LiveIn(t)) + 1
      BY <2>2, LiveInFinite, FS_AddElement
    <2> QED  BY <2>1, <2>3 DEF Counted, SlotChanged
  <1>4. CASE Erased(t, u, key)
    <2>1. PICK j \in SlotIndex : LiveAt(t, key, j) /\ SlotChanged(t, u, j, ErasedSlot, -1)
      BY <1>4 DEF Erased
    <2>2. LiveIn(u) = LiveIn(t) \ {j} /\ j \in LiveIn(t)
      BY <2>1 DEF SlotChanged, LiveIn, LiveAt, ErasedSlot, Table, Tombstone, Live
    <2>3. Cardinality(LiveIn(u)) = Cardinality(LiveIn(t)) - 1
      BY <2>2, LiveInFinite, FS_RemoveElement
    <2>4. Cardinality(LiveIn(t)) \in Nat  BY LiveInFinite
    <2> QED  BY <2>1, <2>3, <2>4 DEF Counted, SlotChanged, Table
  <1> QED  BY <1>1, <1>2, <1>3, <1>4

--------------------------------------------------------------------------------
(* The inductive invariant: types, the count, and every entry reached. *)
TableInv == /\ table \in Table
            /\ AllReached(table)
            /\ Counted(table)
            /\ table.dropped_order_inserts <= MaxDropped

LEMMA InitTableInv == CallsInit => TableInv
  <1> SUFFICES ASSUME CallsInit PROVE TableInv  OBVIOUS
  <1>1. EmptySlot \in Slot  BY DEF EmptySlot, Slot
  <1>2. table \in Table  BY <1>1 DEF CallsInit, EmptyTable, Table
  <1>3. \A i \in SlotIndex : table.slots[i].state # Live
    BY DEF CallsInit, EmptyTable, EmptySlot, Free, Live
  <1>4. AllReached(table)  BY <1>3 DEF AllReached
  <1>5. LiveIn(table) = {}  BY <1>3 DEF LiveIn
  <1>6. Counted(table)  BY <1>5, FS_EmptySet DEF Counted, CallsInit, EmptyTable
  <1> QED  BY <1>2, <1>4, <1>6, TableSpecAssumption DEF TableInv, CallsInit, EmptyTable

LEMMA PutStep ==
    ASSUME TableInv, NEW k \in Keys, NEW v \in Values, CallPut(k, v)
    PROVE  /\ TableInv'
           /\ \/ Refused(table, table') \/ Overwritten(table, table', k, v)
              \/ Inserted(table, table', k, v)
  <1>1. table' = PutOrder(table, k, v) /\ table.dropped_order_inserts < MaxDropped
    BY DEF CallPut
  <1>2. /\ table' \in Table /\ AllReached(table')
        /\ \/ Refused(table, table') \/ Overwritten(table, table', k, v)
           \/ Inserted(table, table', k, v)
    BY <1>1, PutOutcome DEF TableInv
  <1>3. Counted(table')  BY <1>2, CountKept DEF TableInv
  <1>4. table'.dropped_order_inserts <= MaxDropped
    BY <1>1, <1>2, TableSpecAssumption
       DEF TableInv, Table, Refused, Overwritten, Inserted, SlotChanged
  <1> QED  BY <1>2, <1>3, <1>4 DEF TableInv, AllReached, Counted, Reaches, Stops, LiveAt, LiveIn

LEMMA EraseStep ==
    ASSUME TableInv, NEW k \in Keys, CallErase(k)
    PROVE  /\ TableInv'
           /\ \/ table' = table /\ \A i \in SlotIndex : ~LiveAt(table, k, i)
              \/ Erased(table, table', k)
  <1>1. table' = EraseOrder(table, k)  BY DEF CallErase
  <1>2. /\ table' \in Table /\ AllReached(table')
        /\ \/ table' = table /\ \A i \in SlotIndex : ~LiveAt(table, k, i)
           \/ Erased(table, table', k)
    BY <1>1, EraseOutcome DEF TableInv
  <1>3. Counted(table') /\ table'.dropped_order_inserts <= MaxDropped
    <2>1. CASE table' = table  BY <2>1 DEF TableInv
    <2>2. CASE Erased(table, table', k)
      <3>1. Counted(table')
        <4>1. PICK j \in SlotIndex : LiveAt(table, k, j) BY <2>2 DEF Erased
        <4>2. table.slots[j].value \in Values
          BY <4>1 DEF TableInv, Table, Slot, LiveAt, Live, Free, Tombstone
        <4> QED  BY <1>2, <2>2, <4>2, CountKept DEF TableInv
      <3>2. table'.dropped_order_inserts = table.dropped_order_inserts
        BY <2>2 DEF Erased, SlotChanged
      <3> QED  BY <3>1, <3>2 DEF TableInv
    <2> QED  BY <1>2, <2>1, <2>2
  <1> QED  BY <1>2, <1>3 DEF TableInv, AllReached, Counted, Reaches, Stops, LiveAt, LiveIn

LEMMA TableInvariant == CallsSpec => []TableInv
  <1>1. CallsInit => TableInv  BY InitTableInv
  <1>2. TableInv /\ [CallsNext]_callsVars => TableInv'
    <2> SUFFICES ASSUME TableInv, [CallsNext]_callsVars PROVE TableInv'  OBVIOUS
    <2>1. CASE \E k \in Keys, v \in Values : CallPut(k, v)  BY <2>1, PutStep
    <2>2. CASE \E k \in Keys : CallErase(k)  BY <2>2, EraseStep
    <2>3. CASE UNCHANGED callsVars
      <3>1. table' = table  BY <2>3 DEF callsVars
      <3> QED  BY <3>1 DEF TableInv, AllReached, Counted, Reaches, Stops, LiveAt, LiveIn
    <2> QED  BY <2>1, <2>2, <2>3 DEF CallsNext
  <1> QED  BY <1>1, <1>2, PTL DEF CallsSpec

(* order_count_ counts the entries of the table, and its slots keep their      *)
(* types, through every sequence of put_order and erase_order.               *)
THEOREM TableTypeOK == CallsSpec => []SlotsTypeOK
  <1>1. TableInv => SlotsTypeOK
    <2> SUFFICES ASSUME TableInv PROVE SlotsTypeOK  OBVIOUS
    <2>1. LiveSlots = LiveIn(table)  BY DEF LiveSlots, LiveIn
    <2>2. table.slots \in [SlotIndex -> Slot] /\ table.dropped_order_inserts \in Nat
      BY DEF TableInv, Table
    <2> QED  BY <2>1, <2>2, TableSpecAssumption DEF TableInv, SlotsTypeOK, Counted
  <1> QED  BY <1>1, TableInvariant, PTL

(* find_order reaches every entry, whatever was erased and put before, for     *)
(* every hash function and every table size.                                 *)
THEOREM TableFindsEveryEntry == CallsSpec => []EveryEntryFound
  <1>1. TableInv => EveryEntryFound
    <2> SUFFICES ASSUME TableInv, NEW i \in LiveSlots
                 PROVE  LET key == table.slots[i].key IN
                        Found(table, key) /\ Probe(key, ProbeEnd(table, key)) = i
      BY DEF EveryEntryFound
    <2> DEFINE key == table.slots[i].key
    <2>1. i \in SlotIndex /\ table.slots[i].state = Live  BY DEF LiveSlots
    <2>2. key \in Keys /\ LiveAt(table, key, i)
      BY <2>1 DEF TableInv, Table, Slot, Live, Free, Tombstone, LiveAt
    <2>3. Reaches(table, key, i)  BY <2>1 DEF TableInv, AllReached
    <2> HIDE DEF key
    <2>4. Found(table, key) /\ Probe(key, ProbeEnd(table, key)) = i
      BY <2>1, <2>2, <2>3, ReachedIsEnd
    <2> QED  BY <2>4 DEF key
  <1> QED  BY <1>1, TableInvariant, PTL

--------------------------------------------------------------------------------
(* The map that find_order shows. *)
MapOf(t) == [k \in {k \in Keys : Found(t, k)} |-> OrderOf(t, k)]

LEMMA MapIsEntries ==
    ASSUME NEW t \in Table, AllReached(t), NEW k \in Keys
    PROVE  /\ Found(t, k) <=> \E i \in SlotIndex : LiveAt(t, k, i)
           /\ \A i \in SlotIndex : LiveAt(t, k, i) => OrderOf(t, k) = t.slots[i].value
  <1>1. ASSUME NEW i \in SlotIndex, LiveAt(t, k, i) PROVE OrderOf(t, k) = t.slots[i].value
    <2>1. Reaches(t, k, i)  BY <1>1 DEF AllReached, LiveAt
    <2> QED  BY <1>1, <2>1, ReachedIsEnd
  <1> QED  BY <1>1, FoundIsLive

(* Tables with the same slots show the same map. *)
LEMMA SameSlots ==
    ASSUME NEW t, NEW u, u.slots = t.slots
    PROVE  MapOf(u) = MapOf(t)
  <1>1. \A k \in Keys : ProbeEnd(u, k) = ProbeEnd(t, k)  BY DEF ProbeEnd, Stops, LiveAt
  <1> QED  BY <1>1 DEF MapOf, Found, OrderOf, LiveAt

(* A slot gets the entry of k, which had its entry there or had none: the map  *)
(* takes k to its value and is otherwise unchanged.                          *)
LEMMA PutMap ==
    ASSUME NEW t \in Table, NEW u \in Table, AllReached(t), AllReached(u),
           NEW k \in Keys, NEW v \in Values,
           Overwritten(t, u, k, v) \/ Inserted(t, u, k, v)
    PROVE  MapOf(u) = [x \in DOMAIN MapOf(t) \cup {k} |-> IF x = k THEN v ELSE MapOf(t)[x]]
  <1>1. PICK j \in SlotIndex : /\ u.slots = [t.slots EXCEPT ![j] = Entry(k, v)]
                               /\ LiveAt(t, k, j) \/ t.slots[j].state # Live
    BY DEF Overwritten, Inserted, SlotChanged
  <1>2. u.slots[j] = Entry(k, v) /\ \A i \in SlotIndex \ {j} : u.slots[i] = t.slots[i]
    BY <1>1 DEF Table
  <1>3. LiveAt(u, k, j) /\ u.slots[j].value = v  BY <1>2 DEF LiveAt, Entry
  <1>4. Found(u, k) /\ OrderOf(u, k) = v  BY <1>3, MapIsEntries
  <1>5. ASSUME NEW x \in Keys \ {k}
        PROVE  /\ Found(u, x) <=> Found(t, x)
               /\ Found(t, x) => OrderOf(u, x) = OrderOf(t, x)
    <2>1. \A i \in SlotIndex : LiveAt(u, x, i) <=> LiveAt(t, x, i)
      BY <1>1, <1>2 DEF LiveAt, Entry
    <2>2. Found(u, x) <=> Found(t, x)  BY <2>1, MapIsEntries
    <2>3. ASSUME Found(t, x) PROVE OrderOf(u, x) = OrderOf(t, x)
      <3>1. PICK i \in SlotIndex : LiveAt(t, x, i)  BY <2>3, MapIsEntries
      <3>2. i # j  BY <1>1, <3>1 DEF LiveAt
      <3>3. u.slots[i].value = t.slots[i].value /\ LiveAt(u, x, i)  BY <1>2, <2>1, <3>1, <3>2
      <3> QED  BY <3>1, <3>3, MapIsEntries
    <2> QED  BY <2>2, <2>3
  <1> DEFINE D == {x \in Keys : Found(t, x)}
             E == {x \in Keys : Found(u, x)}
  <1>6. E = D \cup {k}  BY <1>4, <1>5
  <1>7. \A x \in E : OrderOf(u, x) = IF x = k THEN v ELSE OrderOf(t, x)  BY <1>4, <1>5
  <1>8. DOMAIN MapOf(t) = D /\ \A x \in D : MapOf(t)[x] = OrderOf(t, x)  BY DEF MapOf
  <1>9. MapOf(u) = [x \in E |-> OrderOf(u, x)]  BY DEF MapOf
  <1> HIDE DEF D, E
  <1> QED  BY <1>6, <1>7, <1>8, <1>9

(* The only entry of k is erased: the map loses k and is otherwise unchanged. *)
LEMMA EraseMap ==
    ASSUME NEW t \in Table, NEW u \in Table, AllReached(t), AllReached(u), NEW k \in Keys,
           Erased(t, u, k)
    PROVE  MapOf(u) = [x \in DOMAIN MapOf(t) \ {k} |-> MapOf(t)[x]]
  <1>1. PICK j \in SlotIndex : LiveAt(t, k, j) /\ u.slots = [t.slots EXCEPT ![j] = ErasedSlot]
    BY DEF Erased, SlotChanged
  <1>2. u.slots[j] = ErasedSlot /\ \A i \in SlotIndex \ {j} : u.slots[i] = t.slots[i]
    BY <1>1 DEF Table
  <1>3. ~LiveAt(u, k, j)  BY <1>2 DEF LiveAt, ErasedSlot, Live, Tombstone
  <1>4. ~Found(u, k)
    <2>1. ASSUME NEW i \in SlotIndex, LiveAt(u, k, i) PROVE FALSE
      <3>1. i # j /\ LiveAt(t, k, i)  BY <1>2, <1>3, <2>1 DEF LiveAt
      <3>2. Reaches(t, k, i) /\ Reaches(t, k, j)  BY <1>1, <3>1 DEF AllReached, LiveAt
      <3>3. Probe(k, ProbeEnd(t, k)) = i  BY <3>1, <3>2, ReachedIsEnd
      <3>4. Probe(k, ProbeEnd(t, k)) = j  BY <1>1, <3>2, ReachedIsEnd
      <3> QED  BY <3>1, <3>3, <3>4
    <2> QED  BY <2>1, FoundIsLive
  <1>5. ASSUME NEW x \in Keys \ {k}
        PROVE  /\ Found(u, x) <=> Found(t, x)
               /\ Found(t, x) => OrderOf(u, x) = OrderOf(t, x)
    <2>1. \A i \in SlotIndex : LiveAt(u, x, i) <=> LiveAt(t, x, i)
      BY <1>1, <1>2 DEF LiveAt, ErasedSlot, Live, Tombstone
    <2>2. Found(u, x) <=> Found(t, x)  BY <2>1, MapIsEntries
    <2>3. ASSUME Found(t, x) PROVE OrderOf(u, x) = OrderOf(t, x)
      <3>1. PICK i \in SlotIndex : LiveAt(t, x, i)  BY <2>3, MapIsEntries
      <3>2. i # j  BY <1>1, <3>1 DEF LiveAt
      <3>3. u.slots[i].value = t.slots[i].value /\ LiveAt(u, x, i)  BY <1>2, <2>1, <3>1, <3>2
      <3> QED  BY <3>1, <3>3, MapIsEntries
    <2> QED  BY <2>2, <2>3
  <1> DEFINE D == {x \in Keys : Found(t, x)}
             E == {x \in Keys : Found(u, x)}
  <1>6. E = D \ {k}  BY <1>4, <1>5
  <1>7. \A x \in E : OrderOf(u, x) = OrderOf(t, x)  BY <1>4, <1>5
  <1>8. DOMAIN MapOf(t) = D /\ \A x \in D : MapOf(t)[x] = OrderOf(t, x)  BY DEF MapOf
  <1>9. MapOf(u) = [x \in E |-> OrderOf(u, x)]  BY DEF MapOf
  <1> HIDE DEF D, E
  <1> QED  BY <1>6, <1>7, <1>8, <1>9

(* The table of slots and tombstones is a map from order keys to orders that   *)
(* may refuse an order and never loses or revives one, for every hash        *)
(* function and every table size.                                            *)
THEOREM TableImplementsMap == CallsSpec => ImplementsMap
  <1>1. CallsInit => Abstract!Init
    <2> SUFFICES ASSUME CallsInit PROVE Abstract!Init  OBVIOUS
    <2>1. table \in Table /\ AllReached(table)  BY InitTableInv DEF TableInv
    <2>2. \A i \in SlotIndex, k \in Keys : ~LiveAt(table, k, i)
      BY DEF CallsInit, EmptyTable, EmptySlot, Free, Live, LiveAt
    <2>3. {k \in Keys : Found(table, k)} = {}  BY <2>1, <2>2, FoundIsLive
    <2> QED  BY <2>3 DEF CallsInit, Abstract!Init
  <1>2. TableInv /\ TableInv' /\ [CallsNext]_callsVars => [Abstract!Next]_<<MapOf(table), called>>
    <2> SUFFICES ASSUME TableInv, TableInv', [CallsNext]_callsVars
                 PROVE  [Abstract!Next]_<<MapOf(table), called>>
      OBVIOUS
    <2>1. ASSUME NEW k \in Keys, NEW v \in Values, CallPut(k, v) PROVE Abstract!Next
      <3>1. CASE Refused(table, table')
        <4>1. MapOf(table') = MapOf(table)  BY <3>1, SameSlots DEF Refused
        <4>2. Abstract!Refuse(k, v)  BY <2>1, <4>1 DEF CallPut, Abstract!Refuse, MapOf
        <4> QED  BY <4>2 DEF Abstract!Next
      <3>2. CASE Overwritten(table, table', k, v) \/ Inserted(table, table', k, v)
        <4>1. Abstract!Put(k, v)
          BY <2>1, <3>2, PutMap DEF CallPut, Abstract!Put, MapOf, TableInv
        <4> QED  BY <4>1 DEF Abstract!Next
      <3> QED  BY <2>1, <3>1, <3>2, PutStep
    <2>2. ASSUME NEW k \in Keys, CallErase(k) PROVE Abstract!Next
      <3>1. CASE table' = table /\ \A i \in SlotIndex : ~LiveAt(table, k, i)
        <4>1. k \notin DOMAIN MapOf(table)  BY <3>1, FoundIsLive DEF MapOf, TableInv
        <4>2. MapOf(table') = MapOf(table)  BY <3>1
        <4>3. MapOf(table) = [x \in DOMAIN MapOf(table) \ {k} |-> MapOf(table)[x]]
          BY <4>1 DEF MapOf
        <4>4. Abstract!Erase(k)  BY <2>2, <4>2, <4>3 DEF CallErase, Abstract!Erase, MapOf
        <4> QED  BY <4>4 DEF Abstract!Next
      <3>2. CASE Erased(table, table', k)
        <4>1. Abstract!Erase(k)
          BY <2>2, <3>2, EraseMap DEF CallErase, Abstract!Erase, MapOf, TableInv
        <4> QED  BY <4>1 DEF Abstract!Next
      <3> QED  BY <2>2, <3>1, <3>2, EraseStep
    <2>3. CASE UNCHANGED callsVars
      <3>1. table' = table /\ called' = called  BY <2>3 DEF callsVars
      <3> QED  BY <3>1 DEF MapOf, Found, OrderOf, ProbeEnd, Stops, LiveAt
    <2> QED  BY <2>1, <2>2, <2>3 DEF CallsNext
  <1> QED  BY <1>1, <1>2, TableInvariant, PTL DEF CallsSpec, ImplementsMap, Abstract!Spec, MapOf

------------------------------------------------------------------------------
(* The largest index of a finite set of indices is one of them. *)
LEMMA MaxIsMember ==
    ASSUME NEW S \in SUBSET Nat, IsFiniteSet(S), S # {}
    PROVE  Max(S) \in S
  <1>1. PICK x \in S : \A y \in S : y <= x  BY GreatestMember
  <1>2. \A y \in S : x >= y  BY <1>1
  <1> QED  BY <1>2, Zenon DEF Max

(* A set of indices of a sequence is a finite set of numbers. *)
LEMMA IndicesFinite ==
    ASSUME NEW S, NEW s \in Seq(S), NEW J \in SUBSET DOMAIN s
    PROVE  J \in SUBSET Nat /\ IsFiniteSet(J)
  <1>1. Len(s) \in Nat /\ DOMAIN s = 1 .. Len(s)  BY LenProperties
  <1>2. J \in SUBSET Nat /\ \A j \in J : j <= Len(s)  BY <1>1
  <1> QED  BY <1>1, <1>2, FS_BoundedSetOfNaturals

(* An entry of a sequence without one of its entries is one of its entries. *)
LEMMA RemoveAtEntries ==
    ASSUME NEW S, NEW s \in Seq(S), NEW i \in DOMAIN s
    PROVE  /\ RemoveAt(s, i) \in Seq(S)
           /\ \A k \in DOMAIN RemoveAt(s, i) : \E j \in DOMAIN s : RemoveAt(s, i)[k] = s[j]
  <1>1. Len(s) \in Nat /\ DOMAIN s = 1 .. Len(s) /\ i \in 1 .. Len(s)  BY LenProperties
  <1>2. \A k \in 1 .. Len(s) : s[k] \in S  BY ElementOfSeq
  <1> DEFINE a == SubSeq(s, 1, i - 1)
             b == SubSeq(s, i + 1, Len(s))
  <1>3. /\ a \in Seq(S) /\ Len(a) = i - 1 /\ \A k \in 1 .. i - 1 : a[k] = s[k]
    <2>1. \A k \in 1 .. i - 1 : s[k] \in S  BY <1>1, <1>2
    <2>2. i - 1 \in Int /\ 1 \in Int /\ (i - 1) - 1 + 1 = i - 1  BY <1>1
    <2>3. a \in Seq(S) /\ Len(a) = (IF 1 <= i - 1 THEN (i - 1) - 1 + 1 ELSE 0)
          /\ \A k \in 1 .. (i - 1) - 1 + 1 : a[k] = s[1 + k - 1]
      BY <2>1, <2>2, SubSeqProperties
    <2> HIDE DEF a
    <2> QED  BY <1>1, <2>3
  <1>4. /\ b \in Seq(S) /\ Len(b) = Len(s) - i /\ \A k \in 1 .. Len(s) - i : b[k] = s[i + k]
    <2>1. \A k \in i + 1 .. Len(s) : s[k] \in S  BY <1>1, <1>2
    <2>2. i + 1 \in Int /\ Len(s) \in Int  BY <1>1
    <2>3. b \in Seq(S) /\ Len(b) = (IF i + 1 <= Len(s) THEN Len(s) - (i + 1) + 1 ELSE 0)
          /\ \A k \in 1 .. Len(s) - (i + 1) + 1 : b[k] = s[(i + 1) + k - 1]
      BY <2>1, <2>2, SubSeqProperties
    <2> HIDE DEF b
    <2>4. Len(b) = Len(s) - i /\ Len(s) - (i + 1) + 1 = Len(s) - i  BY <1>1, <2>3
    <2>5. ASSUME NEW k \in 1 .. Len(s) - i PROVE b[k] = s[i + k]
      <3>1. (i + 1) + k - 1 = i + k  BY <1>1
      <3> QED  BY <2>3, <2>4, <3>1
    <2> QED  BY <2>3, <2>4, <2>5
  <1> HIDE DEF a, b
  <1>5. /\ a \o b \in Seq(S) /\ Len(a \o b) = Len(a) + Len(b)
        /\ \A k \in 1 .. Len(a) + Len(b) : (a \o b)[k] = IF k <= Len(a) THEN a[k] ELSE b[k - Len(a)]
    BY <1>3, <1>4, ConcatProperties
  <1>6. DOMAIN (a \o b) = 1 .. Len(a \o b)  BY <1>5, LenProperties
  <1>7. ASSUME NEW k \in DOMAIN (a \o b) PROVE \E j \in DOMAIN s : (a \o b)[k] = s[j]
    <2>1. k \in 1 .. Len(a) + Len(b)  BY <1>5, <1>6
    <2>2. CASE k <= Len(a)
      <3>1. k \in 1 .. Len(s) /\ (a \o b)[k] = s[k]  BY <1>1, <1>3, <1>4, <1>5, <2>1, <2>2
      <3> QED  BY <1>1, <3>1
    <2>3. CASE k > Len(a)
      <3>1. k - Len(a) \in 1 .. Len(s) - i  BY <1>1, <1>3, <1>4, <2>1, <2>3
      <3>2. (a \o b)[k] = b[k - Len(a)]  BY <1>1, <1>3, <1>5, <2>1, <2>3
      <3>3. (a \o b)[k] = s[i + (k - Len(a))]  BY <1>4, <3>1, <3>2
      <3>4. i + (k - Len(a)) \in 1 .. Len(s)  BY <1>1, <1>3, <3>1
      <3> QED  BY <1>1, <3>3, <3>4
    <2> QED  BY <1>1, <1>3, <1>4, <2>1, <2>2, <2>3
  <1> QED  BY <1>5, <1>7 DEF RemoveAt, a, b

------------------------------------------------------------------------------
(* The books of the exchange. *)
LEMMA BookFacts ==
    ASSUME NEW book \in Books
    PROVE  /\ DOMAIN book \subseteq Keys /\ IsFiniteSet(DOMAIN book)
           /\ \A id \in DOMAIN book :
                 /\ book[id] \in WireRows /\ book[id] \in Rows
                 /\ book[id].order_id = id /\ book[id].price # 0
  <1>1. PICK ids \in SUBSET Keys : book \in [ids -> WireRows]  BY DEF Books
  <1>2. IsFiniteSet(DOMAIN book) /\ \A id \in DOMAIN book : book[id].order_id = id  BY DEF Books
  <1>3. \A row \in WireRows : row \in Rows /\ row.price # 0  BY BitfinexAssumption DEF Rows
  <1> QED  BY <1>1, <1>2, <1>3

LEMMA EmptyBook == <<>> \in Books
  <1>1. <<>> \in [{} -> WireRows]  OBVIOUS
  <1>2. DOMAIN <<>> = {}  OBVIOUS
  <1>3. IsFiniteSet(DOMAIN <<>>)  BY <1>2, FS_EmptySet, Zenon
  <1> QED  BY <1>1, <1>2, <1>3, Zenon DEF Books

(* A change of the exchange's book leaves a book. *)
LEMMA ChangedBook ==
    ASSUME NEW book \in Books, NEW row \in Rows, row.price = 0 \/ row \in WireRows
    PROVE  Changed(book, row) \in Books
  <1> DEFINE id == row.order_id
  <1>1. id \in Keys  BY DEF Rows
  <1>2. CASE row.price = 0
    <2> DEFINE new == [y \in DOMAIN book \ {id} |-> book[y]]
    <2>1. Changed(book, row) = new  BY <1>2 DEF Changed, Removal, Drop
    <2>2. new \in [DOMAIN book \ {id} -> WireRows] /\ DOMAIN book \ {id} \in SUBSET Keys  BY BookFacts
    <2>3. IsFiniteSet(DOMAIN new)
      <3>1. DOMAIN new = DOMAIN book \ {id}  OBVIOUS
      <3>2. IsFiniteSet(DOMAIN book)  BY BookFacts
      <3> QED  BY <3>1, <3>2, FS_RemoveElement
    <2>4. \A y \in DOMAIN new : new[y].order_id = y  BY BookFacts
    <2> HIDE DEF new
    <2> QED  BY <2>1, <2>2, <2>3, <2>4, Zenon DEF Books
  <1>3. CASE row.price # 0
    <2> DEFINE new == [y \in DOMAIN book \cup {id} |-> IF y = id THEN row ELSE book[y]]
    <2>1. Changed(book, row) = new  BY <1>3 DEF Changed, Removal, Put
    <2>2. new \in [DOMAIN book \cup {id} -> WireRows] /\ DOMAIN book \cup {id} \in SUBSET Keys
      BY <1>1, <1>3, BookFacts
    <2>3. IsFiniteSet(DOMAIN new)
      <3>1. DOMAIN new = DOMAIN book \cup {id}  OBVIOUS
      <3>2. IsFiniteSet(DOMAIN book)  BY BookFacts
      <3> QED  BY <3>1, <3>2, FS_AddElement
    <2>4. \A y \in DOMAIN new : new[y].order_id = y  BY BookFacts
    <2> HIDE DEF new
    <2> QED  BY <2>1, <2>2, <2>3, <2>4, Zenon DEF Books
  <1> QED  BY <1>2, <1>3

(* The rows of a snapshot are the rows of the book, in some order. *)
LEMMA RowsOfBook ==
    ASSUME NEW book \in Books
    PROVE  /\ RowsOf(book) \in Seq(Rows)
           /\ \A i \in DOMAIN RowsOf(book) : \E id \in DOMAIN book : RowsOf(book)[i] = book[id]
           /\ \A id \in DOMAIN book : \E i \in DOMAIN RowsOf(book) : RowsOf(book)[i] = book[id]
  <1> DEFINE S == {book[id] : id \in DOMAIN book}
             n == Cardinality(S)
             g == [id \in DOMAIN book |-> book[id]]
             rows == RowsOf(book)
  <1>1. IsFiniteSet(S)
    <2>1. g \in Surjection(DOMAIN book, S)  BY DEF Surjection
    <2>2. IsFiniteSet(DOMAIN book)  BY BookFacts
    <2> QED  BY <2>1, <2>2, FS_Surjection
  <1>2. n \in Nat /\ ExistsBijection(1 .. n, S)  BY <1>1, FS_CardinalityType
  <1>3. \E f \in [1 .. n -> S] : IsInjective(f)
    BY <1>2 DEF ExistsBijection, Bijection, Injection
  <1>4. rows \in [1 .. n -> S] /\ IsInjective(rows)
    <2> HIDE DEF n, S
    <2>1. rows = CHOOSE f \in [1 .. n -> S] : IsInjective(f)  BY Zenon DEF RowsOf, SetToSeq, n, S
    <2> HIDE DEF rows
    <2> QED  BY <1>3, <2>1, Zenon
  <1>5. rows \in Injection(1 .. n, S)  BY <1>4 DEF Injection
  <1>6. Cardinality(1 .. n) = n
    <2> HIDE DEF n
    <2> QED  BY <1>2, FS_Interval
  <1>7. rows \in Surjection(1 .. n, S)
    <2> HIDE DEF rows, S
    <2>1. Cardinality(1 .. n) = Cardinality(S)  BY <1>6
    <2> QED  BY <1>1, <1>5, <2>1, FS_Injection
  <1>8. S \subseteq Rows  BY BookFacts
  <1> HIDE DEF rows, n
  <1>9. rows \in [1 .. n -> Rows] /\ DOMAIN rows = 1 .. n  BY <1>4, <1>8
  <1>10. rows \in Seq(Rows)  BY <1>2, <1>9, FunctionIsSeq
  <1>11. \A i \in DOMAIN rows : \E id \in DOMAIN book : rows[i] = book[id]  BY <1>4, <1>9
  <1>12. \A id \in DOMAIN book : \E i \in DOMAIN rows : rows[i] = book[id]
    BY <1>7, <1>9 DEF Surjection
  <1> QED  BY <1>10, <1>11, <1>12 DEF rows

------------------------------------------------------------------------------
(* What lower_snapshot_rows leaves in the tracker: every order of a row that   *)
(* fits, with the price and quantity of one of its rows.                      *)
LEMMA SnapshotBook ==
    ASSUME NEW rows \in Seq(Rows)
    PROVE  /\ DOMAIN LowerSnapshotBook(rows) =
                {rows[i].order_id : i \in {j \in DOMAIN rows : Lowered(rows[j])}}
           /\ \A id \in DOMAIN LowerSnapshotBook(rows) : \E i \in DOMAIN rows :
                 /\ Lowered(rows[i]) /\ rows[i].order_id = id
                 /\ LowerSnapshotBook(rows)[id] = Resting(rows[i])
  <1> DEFINE kept == {j \in DOMAIN rows : Lowered(rows[j])}
             of(id) == {j \in kept : rows[j].order_id = id}
             book == LowerSnapshotBook(rows)
             ids == {rows[i].order_id : i \in kept}
  <1>1. book = [id \in ids |-> Resting(rows[Max(of(id))])]  BY DEF LowerSnapshotBook
  <1> HIDE DEF book
  <1>2. DOMAIN book = ids  BY <1>1
  <1>3. ASSUME NEW id \in ids
        PROVE  \E i \in DOMAIN rows : Lowered(rows[i]) /\ rows[i].order_id = id /\ book[id] = Resting(rows[i])
    <2>1. of(id) # {}  OBVIOUS
    <2>2. of(id) \in SUBSET DOMAIN rows  OBVIOUS
    <2>3. of(id) \in SUBSET Nat /\ IsFiniteSet(of(id))  BY <2>2, IndicesFinite
    <2> DEFINE m == Max(of(id))
    <2>4. m \in of(id)
      <3> HIDE DEF of
      <3> QED  BY <2>1, <2>3, MaxIsMember
    <2>5. book[id] = Resting(rows[m])  BY <1>1, Zenon
    <2> HIDE DEF m
    <2> QED  BY <2>4, <2>5
  <1> QED  BY <1>2, <1>3 DEF book

(* A snapshot of a book is tracked. *)
LEMMA SnapshotTracks ==
    ASSUME NEW book \in Books
    PROVE  Tracks(LowerSnapshotBook(RowsOf(book)), book)
  <1> DEFINE rows == RowsOf(book)
             on_book == LowerSnapshotBook(rows)
  <1>1. rows \in Seq(Rows)  BY RowsOfBook
  <1>2. \A i \in DOMAIN rows : \E id \in DOMAIN book : rows[i] = book[id]  BY RowsOfBook
  <1>3. \A id \in DOMAIN book : \E i \in DOMAIN rows : rows[i] = book[id]  BY RowsOfBook
  <1>4. \A id \in DOMAIN book : book[id].order_id = id /\ book[id].price # 0  BY BookFacts
  <1> HIDE DEF rows
  <1>5. DOMAIN on_book = {rows[i].order_id : i \in {j \in DOMAIN rows : Lowered(rows[j])}}
    BY <1>1, SnapshotBook
  <1>6. \A id \in DOMAIN on_book : \E i \in DOMAIN rows :
           Lowered(rows[i]) /\ rows[i].order_id = id /\ on_book[id] = Resting(rows[i])
    BY <1>1, SnapshotBook
  <1> HIDE DEF on_book
  <1>7. DOMAIN on_book \subseteq DOMAIN book  BY <1>2, <1>4, <1>5
  <1>8. ASSUME NEW id \in DOMAIN book, Representable(book[id])
        PROVE  id \in DOMAIN on_book /\ on_book[id] = Resting(book[id])
    <2>1. PICK i \in DOMAIN rows : rows[i] = book[id]  BY <1>3
    <2>2. Lowered(rows[i]) /\ rows[i].order_id = id  BY <1>4, <1>8, <2>1 DEF Lowered, Removal
    <2>3. id \in DOMAIN on_book  BY <1>5, <2>2
    <2>4. PICK k \in DOMAIN rows : rows[k].order_id = id /\ on_book[id] = Resting(rows[k])
      BY <1>6, <2>3
    <2>5. rows[k] = book[id]  BY <1>2, <1>4, <2>4
    <2> QED  BY <2>3, <2>4, <2>5
  <1> QED  BY <1>7, <1>8 DEF Tracks, on_book, rows

(* A change of a book that is tracked is tracked. *)
LEMMA LowerTracks ==
    ASSUME NEW book \in Books, NEW row \in Rows, NEW on_book, Tracks(on_book, book)
    PROVE  Tracks(LowerRow(on_book, row).on_book, Changed(book, row))
  <1> DEFINE id == row.order_id
  <1>1. CASE Removal(row)
    <2>1. LowerRow(on_book, row).on_book = Drop(on_book, id)  BY <1>1 DEF LowerRow
    <2>2. Changed(book, row) = Drop(book, id)  BY <1>1 DEF Changed
    <2>3. Tracks(Drop(on_book, id), Drop(book, id))  BY DEF Tracks, Drop
    <2> QED  BY <2>1, <2>2, <2>3
  <1>2. CASE ~Removal(row) /\ ~Representable(row)
    <2>1. LowerRow(on_book, row).on_book = on_book  BY <1>2 DEF LowerRow
    <2>2. Changed(book, row) = Put(book, id, row)  BY <1>2 DEF Changed
    <2>3. Tracks(on_book, Put(book, id, row))  BY <1>2 DEF Tracks, Put
    <2> QED  BY <2>1, <2>2, <2>3
  <1>3. CASE ~Removal(row) /\ Representable(row)
    <2>1. LowerRow(on_book, row).on_book = Put(on_book, id, Resting(row))  BY <1>3 DEF LowerRow
    <2>2. Changed(book, row) = Put(book, id, row)  BY <1>3 DEF Changed
    <2>3. Tracks(Put(on_book, id, Resting(row)), Put(book, id, row))  BY <1>3 DEF Tracks, Put
    <2> QED  BY <2>1, <2>2, <2>3
  <1> QED  BY <1>1, <1>2, <1>3

------------------------------------------------------------------------------
(* A row without an exponent comes back from the sidecar as it was, so that   *)
(* the tracker comes back but for the orders that were misread.               *)
LEMMA ReadBack ==
    ASSUME NEW rows \in Seq(Rows)
    PROVE  Without(LowerSnapshotBook(ReadSidecar(rows)), Misread(rows))
              = Without(LowerSnapshotBook(rows), Misread(rows))
  <1> DEFINE read == ReadSidecar(rows)
             bad == Misread(rows)
             keptOf(rs) == {j \in DOMAIN rs : Lowered(rs[j])}
             of(rs, id) == {j \in keptOf(rs) : rs[j].order_id = id}
             idsOf(rs) == {rs[i].order_id : i \in keptOf(rs)}
             a == LowerSnapshotBook(read)
             b == LowerSnapshotBook(rows)
  <1>1. /\ DOMAIN read = DOMAIN rows
        /\ \A i \in DOMAIN rows : read[i] = [rows[i] EXCEPT !.price = ReadNumber(@), !.amount = ReadNumber(@)]
    BY DEF ReadSidecar
  <1>2. \A i \in DOMAIN rows : rows[i] \in Rows  BY LenProperties, ElementOfSeq
  <1> HIDE DEF read
  <1>3. \A i \in DOMAIN rows : read[i].order_id = rows[i].order_id  BY <1>1, <1>2 DEF Rows
  <1>4. ASSUME NEW i \in DOMAIN rows, rows[i].order_id \notin bad PROVE read[i] = rows[i]
    <2>1. ~Exponent(rows[i].price) /\ ~Exponent(rows[i].amount)  BY <1>4 DEF Misread
    <2>2. ReadNumber(rows[i].price) = rows[i].price /\ ReadNumber(rows[i].amount) = rows[i].amount
      BY <2>1 DEF ReadNumber
    <2>3. ASSUME NEW r \in Rows, NEW p, NEW q, p = r.price, q = r.amount
          PROVE  [r EXCEPT !.price = p, !.amount = q] = r
      BY <2>3 DEF Rows
    <2>4. read[i] = [rows[i] EXCEPT !.price = ReadNumber(rows[i].price),
                                    !.amount = ReadNumber(rows[i].amount)]
      BY <1>1, <1>2 DEF Rows
    <2> QED  BY <1>2, <2>2, <2>3, <2>4
  <1>5. /\ a = [id \in idsOf(read) |-> Resting(read[Max(of(read, id))])]
        /\ b = [id \in idsOf(rows) |-> Resting(rows[Max(of(rows, id))])]
    BY DEF LowerSnapshotBook
  <1> HIDE DEF a, b, bad
  <1>6. ASSUME NEW id, id \notin bad
        PROVE  /\ id \in DOMAIN a <=> id \in DOMAIN b
               /\ id \in DOMAIN b => a[id] = b[id]
    <2>1. of(read, id) = of(rows, id)  BY <1>1, <1>3, <1>4, <1>6
    <2>2. DOMAIN a = idsOf(read) /\ DOMAIN b = idsOf(rows)  BY <1>5
    <2>3. (id \in idsOf(read) <=> of(read, id) # {}) /\ (id \in idsOf(rows) <=> of(rows, id) # {})
      OBVIOUS
    <2>4. ASSUME id \in DOMAIN b PROVE a[id] = b[id]
      <3> DEFINE m == Max(of(rows, id))
      <3>1. of(rows, id) \in SUBSET DOMAIN rows /\ of(rows, id) # {}  BY <2>2, <2>3, <2>4
      <3>2. of(rows, id) \in SUBSET Nat /\ IsFiniteSet(of(rows, id))  BY <3>1, IndicesFinite
      <3>3. m \in of(rows, id)
        <4> HIDE DEF of
        <4> QED  BY <3>1, <3>2, MaxIsMember
      <3>4. m \in DOMAIN rows /\ rows[m].order_id = id  BY <3>3
      <3>5. id \in idsOf(read) /\ id \in idsOf(rows)  BY <2>1, <2>2, <2>3, <2>4
      <3>6. a[id] = Resting(read[m]) /\ b[id] = Resting(rows[m])
        <4> HIDE DEF idsOf, of
        <4> QED  BY <1>5, <2>1, <3>5, Zenon
      <3> HIDE DEF m
      <3>7. read[m] = rows[m]  BY <1>4, <1>6, <3>4
      <3> QED  BY <3>6, <3>7
    <2> QED  BY <2>1, <2>2, <2>3, <2>4
  <1>7. DOMAIN a \ bad = DOMAIN b \ bad  BY <1>6
  <1>8. \A id \in DOMAIN b \ bad : a[id] = b[id]  BY <1>6
  <1>9. Without(a, bad) = Without(b, bad)  BY <1>7, <1>8 DEF Without
  <1> QED  BY <1>9 DEF a, b, bad, read

------------------------------------------------------------------------------
(* The books of a replay, event by event. *)
ReplayPrefixes(book, events, f) ==
    f = [n \in 0 .. Len(events) |-> IF n = 0 THEN book ELSE Replayed(f[n - 1], events[n])]

LEMMA ReplayPrefixesExist ==
    ASSUME NEW S, NEW events \in Seq(S), NEW book
    PROVE  \E f : ReplayPrefixes(book, events, f)
  <1> DEFINE L == Len(events)
             Good(m, f) == /\ DOMAIN f = 0 .. m
                           /\ f[0] = book
                           /\ \A k \in 1 .. m : f[k] = Replayed(f[k - 1], events[k])
             T == {m \in 0 .. L : \A f : ~Good(m, f)}
  <1>1. L \in Nat  BY LenProperties
  <1> HIDE DEF L
  <1>2. T = {}
    <2> SUFFICES ASSUME T # {} PROVE FALSE  OBVIOUS
    <2>1. T \subseteq Nat  BY <1>1
    <2>2. PICK m \in T : \A y \in T : m <= y  BY <2>1, LeastMember
    <2>3. m \in 0 .. L /\ \A f : ~Good(m, f)  OBVIOUS
    <2>4. m # 0
      <3> DEFINE f0 == [n \in 0 .. 0 |-> book]
      <3>1. Good(0, f0)  OBVIOUS
      <3> QED  BY <2>3, <3>1
    <2>5. m - 1 \in 0 .. L /\ m - 1 \notin T  BY <1>1, <2>1, <2>2, <2>3, <2>4
    <2>6. PICK f : Good(m - 1, f)  BY <2>5
    <2> DEFINE g == [n \in 0 .. m |-> IF n = m THEN Replayed(f[m - 1], events[m]) ELSE f[n]]
    <2>7. DOMAIN g = 0 .. m /\ g[0] = book /\ g[m] = Replayed(f[m - 1], events[m])
      BY <1>1, <2>3, <2>4, <2>6
    <2>8. \A n \in 0 .. m - 1 : g[n] = f[n]  BY <1>1, <2>3
    <2>9. ASSUME NEW k \in 1 .. m PROVE g[k] = Replayed(g[k - 1], events[k])
      <3>1. k - 1 \in 0 .. m - 1  BY <1>1, <2>3
      <3>2. CASE k = m  BY <2>7, <2>8, <3>1, <3>2
      <3>3. CASE k # m
        <4>1. k \in 0 .. m - 1 /\ k \in 1 .. m - 1  BY <1>1, <2>3, <3>3
        <4> HIDE DEF g
        <4> QED  BY <2>6, <2>8, <3>1, <4>1
      <3> QED  BY <3>2, <3>3
    <2> HIDE DEF g
    <2> QED  BY <2>3, <2>7, <2>9
  <1>3. PICK f : Good(L, f)  BY <1>1, <1>2
  <1> DEFINE h == [n \in 0 .. L |-> IF n = 0 THEN book ELSE Replayed(f[n - 1], events[n])]
             g == [n \in 0 .. L |-> f[n]]
  <1>4. ASSUME NEW n \in 0 .. L
        PROVE  g[n] = IF n = 0 THEN book ELSE Replayed(g[n - 1], events[n])
    <2>1. CASE n = 0  BY <1>1, <1>3, <2>1
    <2>2. CASE n # 0
      <3>1. n \in 1 .. L /\ n - 1 \in 0 .. L  BY <1>1, <2>2
      <3>2. g[n] = f[n] /\ g[n - 1] = f[n - 1]  BY <3>1
      <3> HIDE DEF g
      <3> QED  BY <1>3, <2>2, <3>1, <3>2
    <2> QED  BY <2>1, <2>2
  <1>5. g = [n \in 0 .. L |-> IF n = 0 THEN book ELSE Replayed(g[n - 1], events[n])]
    BY <1>4
  <1> HIDE DEF g
  <1>6. ReplayPrefixes(book, events, g)  BY <1>5 DEF ReplayPrefixes, L
  <1> QED  BY <1>6

(* A replay is the last of these books. *)
LEMMA ReplayIsLast ==
    ASSUME NEW S, NEW events \in Seq(S), NEW book
    PROVE  \E f : /\ f[0] = book /\ Replay(book, events) = f[Len(events)]
                  /\ \A k \in 1 .. Len(events) : f[k] = Replayed(f[k - 1], events[k])
  <1> DEFINE f == CHOOSE g : ReplayPrefixes(book, events, g)
  <1>1. ReplayPrefixes(book, events, f)  BY ReplayPrefixesExist, Zenon
  <1>2. Replay(book, events) = f[Len(events)]  BY Zenon DEF Replay, ReplayPrefixes
  <1> HIDE DEF f
  <1>3. Len(events) \in Nat  BY LenProperties
  <1>4. \A n \in 0 .. Len(events) : f[n] = IF n = 0 THEN book ELSE Replayed(f[n - 1], events[n])
    BY <1>1 DEF ReplayPrefixes
  <1>5. f[0] = book  BY <1>3, <1>4
  <1>6. \A k \in 1 .. Len(events) : f[k] = Replayed(f[k - 1], events[k])  BY <1>3, <1>4
  <1> QED  BY <1>2, <1>5, <1>6

LEMMA ReplayNothing ==
    ASSUME NEW book PROVE Replay(book, <<>>) = book
  <1>1. ASSUME NEW S, NEW none \in Seq(S), Len(none) = 0 PROVE Replay(book, none) = book
    <2>1. PICK f : f[0] = book /\ Replay(book, none) = f[Len(none)]  BY ReplayIsLast
    <2> QED  BY <1>1, <2>1
  <1>2. <<>> \in Seq(FeedEvents) /\ Len(<<>>) = 0  BY EmptySeq
  <1> QED  BY <1>1, <1>2

(* One event more. *)
LEMMA ReplayAppend ==
    ASSUME NEW S, NEW events \in Seq(S), NEW e \in S, NEW book
    PROVE  Replay(book, Append(events, e)) = Replayed(Replay(book, events), e)
  <1> DEFINE L == Len(events)
             more == Append(events, e)
  <1>1. L \in Nat  BY LenProperties
  <1>2. more \in Seq(S) /\ Len(more) = L + 1 /\ more[L + 1] = e /\ \A i \in 1 .. L : more[i] = events[i]
    BY AppendProperties
  <1> HIDE DEF L, more
  <1>3. PICK f : /\ f[0] = book /\ Replay(book, events) = f[L]
                 /\ \A k \in 1 .. L : f[k] = Replayed(f[k - 1], events[k])
    BY ReplayIsLast DEF L
  <1>4. PICK g : /\ g[0] = book /\ Replay(book, more) = g[L + 1]
                 /\ \A k \in 1 .. L + 1 : g[k] = Replayed(g[k - 1], more[k])
    BY <1>2, ReplayIsLast
  <1> DEFINE T == {n \in 0 .. L : f[n] # g[n]}
  <1>5. T = {}
    <2> SUFFICES ASSUME T # {} PROVE FALSE  OBVIOUS
    <2>1. T \subseteq Nat  BY <1>1
    <2>2. PICK m \in T : \A y \in T : m <= y  BY <2>1, LeastMember
    <2>3. m \in 0 .. L /\ f[m] # g[m]  OBVIOUS
    <2>4. m # 0  BY <1>3, <1>4, <2>3
    <2>5. m - 1 \in 0 .. L /\ m - 1 \notin T  BY <1>1, <2>1, <2>2, <2>3, <2>4
    <2>6. f[m - 1] = g[m - 1]  BY <2>5
    <2>7. m \in 1 .. L /\ m \in 1 .. L + 1  BY <1>1, <2>3, <2>4
    <2>8. f[m] = Replayed(f[m - 1], events[m]) /\ g[m] = Replayed(g[m - 1], more[m]) /\ more[m] = events[m]
      BY <1>2, <1>3, <1>4, <2>7
    <2> QED  BY <2>3, <2>6, <2>8
  <1>6. f[L] = g[L]  BY <1>1, <1>5
  <1>7. g[L + 1] = Replayed(g[(L + 1) - 1], more[L + 1]) /\ (L + 1) - 1 = L  BY <1>1, <1>4
  <1> QED  BY <1>2, <1>3, <1>4, <1>6, <1>7 DEF more

LEMMA RoundedInt == \A n \in Int : Rounded(n) \in Int
  BY BitfinexAssumption DEF Rounded

(* The event that a row is lowered to does to a replayed book what the row     *)
(* does to the tracker.                                                      *)
LEMMA LoweredReplayed ==
    ASSUME NEW row \in Rows, NEW on_book, NEW restored, NEW ids,
           Without(restored, ids) = Without(on_book, ids)
    PROVE  LET lowered == LowerRow(on_book, row) IN
           \/ lowered.events = <<>> /\ Without(restored, ids) = Without(lowered.on_book, ids)
           \/ \E e \in FeedEvents : /\ lowered.events = <<e>>
                          /\ Without(Replayed(restored, e), ids) = Without(lowered.on_book, ids)
  <1> DEFINE id == row.order_id
             lowered == LowerRow(on_book, row)
  <1>1. /\ \A x : x \in DOMAIN restored \ ids <=> x \in DOMAIN on_book \ ids
        /\ \A x \in DOMAIN on_book \ ids : restored[x] = on_book[x]
    <2>1. DOMAIN Without(restored, ids) = DOMAIN restored \ ids
          /\ \A x \in DOMAIN restored \ ids : Without(restored, ids)[x] = restored[x]
      BY DEF Without
    <2>2. DOMAIN Without(on_book, ids) = DOMAIN on_book \ ids
          /\ \A x \in DOMAIN on_book \ ids : Without(on_book, ids)[x] = on_book[x]
      BY DEF Without
    <2> QED  BY <2>1, <2>2
  <1>2. id \in Keys /\ row.price \in Int /\ row.amount \in Int  BY DEF Rows
  <1>3. /\ Without(Drop(restored, id), ids) = Without(Drop(on_book, id), ids)
        /\ \A v : Without(Put(restored, id, v), ids) = Without(Put(on_book, id, v), ids)
    BY <1>1 DEF Without, Drop, Put
  <1>4. CASE Removal(row) /\ id \in DOMAIN on_book
    <2> DEFINE e == LoweredEvent("Cancel", row, 0)
    <2>1. lowered.events = <<e>> /\ lowered.on_book = Drop(on_book, id)  BY <1>4 DEF LowerRow
    <2>2. e \in FeedEvents /\ e.type = "Cancel" /\ e.order_id = id
      BY <1>2 DEF LoweredEvent, FeedEvents, SideFromAmount
    <2>3. Replayed(restored, e) = Drop(restored, id)  BY <2>2 DEF Replayed
    <2> QED  BY <1>3, <2>1, <2>2, <2>3
  <1>5. CASE Removal(row) /\ id \notin DOMAIN on_book
    <2>1. lowered.events = <<>> /\ lowered.on_book = Drop(on_book, id)  BY <1>5 DEF LowerRow
    <2>2. Without(Drop(on_book, id), ids) = Without(on_book, ids)  BY <1>5 DEF Without, Drop
    <2> QED  BY <2>1, <2>2
  <1>6. CASE ~Removal(row) /\ ~Representable(row)
    BY <1>6 DEF LowerRow
  <1>7. CASE ~Removal(row) /\ Representable(row)
    <2> DEFINE e == IF id \in DOMAIN on_book THEN LoweredEvent("Replace", row, id)
                    ELSE LoweredEvent("Add", row, 0)
    <2>1. lowered.events = <<e>> /\ lowered.on_book = Put(on_book, id, Resting(row))
      BY <1>7 DEF LowerRow
    <2>2. Resting(row).price \in Int /\ Resting(row).qty \in Int
      BY <1>2, RoundedInt DEF Resting, Magnitude
    <2>3. e \in FeedEvents /\ e.type # "Cancel" /\ e.order_id = id
          /\ [price |-> e.price, qty |-> e.qty] = Resting(row)
      <3>1. /\ LoweredEvent("Replace", row, id).type = "Replace" /\ LoweredEvent("Add", row, 0).type = "Add"
            /\ [price |-> Resting(row).price, qty |-> Resting(row).qty] = Resting(row)
        BY DEF LoweredEvent, Resting
      <3>2. SideFromAmount(row.amount) \in {"Buy", "Sell", "Unknown"}  BY DEF SideFromAmount
      <3> QED  BY <1>2, <2>2, <3>1, <3>2 DEF LoweredEvent, FeedEvents
    <2>4. Replayed(restored, e) = Put(restored, id, Resting(row))
      <3> HIDE DEF e
      <3> QED  BY <2>3 DEF Replayed
    <2> HIDE DEF e
    <2> QED  BY <1>3, <2>1, <2>3, <2>4
  <1> QED  BY <1>4, <1>5, <1>6, <1>7

------------------------------------------------------------------------------
(* The initial state. *)
LEMMA FeedInit == Init => FeedInv
  <1> SUFFICES ASSUME Init PROVE FeedInv  OBVIOUS
  <1> USE DEF Init
  <1>1. TypeOK
    <2>1. exchange \in Books  BY EmptyBook
    <2>2. history \in Seq(Books) /\ wire \in Seq(Frames) /\ since \in Seq(FeedEvents)
          /\ sidecar.rows \in Seq(Rows)
      BY EmptySeq
    <2>3. sidecar \in [rows : Seq(Rows), written : BOOLEAN]  BY EmptySeq
    <2>4. partial \in BOOLEAN  BY Zenon
    <2> QED  BY <2>1, <2>2, <2>3, <2>4 DEF TypeOK
  <1>2. WireAnnounces  BY DEF WireAnnounces
  <1>3. ClosedIsGapped /\ SubscribedIsCurrent /\ FeedNumbered  BY DEF ClosedIsGapped, SubscribedIsCurrent, FeedNumbered
  <1>4. TracksExchange /\ SidecarRestores  BY DEF TracksExchange, SidecarRestores
  <1> QED  BY <1>1, <1>2, <1>3, <1>4 DEF FeedInv

(* A step that leaves the tracker and the file alone keeps what restores it. *)
LEMMA KeepsSidecar ==
    ASSUME SidecarRestores, sidecar' = sidecar, since' = since, feed'.on_book = feed.on_book
    PROVE  SidecarRestores'
  BY DEF SidecarRestores

(* Frames announce the same when the exchange's history grows. *)
LEMMA AnnouncesLonger ==
    ASSUME NEW frame \in Frames, NEW books \in Seq(Books), NEW book \in Books, Announces(frame, books)
    PROVE  Announces(frame, Append(books, book))
  <1> DEFINE more == Append(books, book)
  <1>1. Len(books) \in Nat /\ DOMAIN books = 1 .. Len(books)  BY LenProperties
  <1>2. more \in Seq(Books) /\ Len(more) = Len(books) + 1 /\ \A i \in 1 .. Len(books) : more[i] = books[i]
    BY AppendProperties
  <1>3. DOMAIN more = 1 .. Len(books) + 1  BY <1>2, LenProperties
  <1> HIDE DEF more
  <1>4. \A i \in DOMAIN books : i \in DOMAIN more /\ more[i] = books[i]  BY <1>1, <1>2, <1>3
  <1>5. Announces(frame, more)  BY <1>4 DEF Announces
  <1> QED  BY <1>5 DEF more

(* A frame at the end of the wire. *)
LEMMA WireAppend ==
    ASSUME WireAnnounces, wire \in Seq(Frames), NEW frame \in Frames, wire' = Append(wire, frame),
           sequenced' = sequenced,
           frame.kind = "update" => Len(frame.rows) = 1,
           IF sequenced THEN Announces(frame, history') ELSE frame.sequence = 0,
           \A i \in DOMAIN wire : Announces(wire[i], history) => Announces(wire[i], history')
    PROVE  wire' \in Seq(Frames) /\ WireAnnounces'
  <1>1. Len(wire) \in Nat /\ DOMAIN wire = 1 .. Len(wire)  BY LenProperties
  <1>2. /\ wire' \in Seq(Frames) /\ Len(wire') = Len(wire) + 1
        /\ wire'[Len(wire) + 1] = frame /\ \A i \in 1 .. Len(wire) : wire'[i] = wire[i]
    BY AppendProperties
  <1>3. DOMAIN wire' = 1 .. Len(wire) + 1  BY <1>2, LenProperties
  <1>4. \A i \in DOMAIN wire' : (i \in DOMAIN wire /\ wire'[i] = wire[i]) \/ wire'[i] = frame
    BY <1>1, <1>2, <1>3
  <1> QED  BY <1>2, <1>4 DEF WireAnnounces

(* Fewer frames on the wire. *)
LEMMA WireFewer ==
    ASSUME WireAnnounces, sequenced' = sequenced, history' = history,
           \A k \in DOMAIN wire' : \E i \in DOMAIN wire : wire'[k] = wire[i]
    PROVE  WireAnnounces'
  BY DEF WireAnnounces

LEMMA FrameType ==
    ASSUME sequenced \in BOOLEAN,
           NEW kind \in {"control", "hb", "snapshot", "update"}, NEW rows \in Seq(Rows), NEW n \in Nat
    PROVE  Frame(kind, rows, n) \in Frames
  BY DEF Frame, Frames

LEMMA FeedConnect ==
    ASSUME FeedInv, Connect PROVE FeedInv'
  <1> USE DEF Connect
  <1>1. TypeOK'
    <2>1. history' \in Seq(Books)  BY EmptySeq
    <2> QED  BY <2>1 DEF FeedInv, TypeOK
  <1>2. wire' = <<>> /\ feed' = feed /\ feed.state = "Gapped"  BY DEF FeedInv, ClosedIsGapped
  <1>3. WireAnnounces' /\ FeedNumbered' /\ TracksExchange'
    BY <1>2 DEF FeedInv, WireAnnounces, FeedNumbered, TracksExchange
  <1>4. ClosedIsGapped' /\ SubscribedIsCurrent'  BY DEF ClosedIsGapped, SubscribedIsCurrent
  <1>5. SidecarRestores'  BY KeepsSidecar DEF FeedInv
  <1> QED  BY <1>1, <1>3, <1>4, <1>5 DEF FeedInv

LEMMA FeedHeartbeat ==
    ASSUME FeedInv, Heartbeat PROVE FeedInv'
  <1> USE DEF Heartbeat
  <1> DEFINE frame == Frame("hb", <<>>, 0)
  <1>1. frame \in Frames /\ frame.kind = "hb" /\ frame.sequence = 0
    <2>1. <<>> \in Seq(Rows)  BY EmptySeq
    <2> QED  BY <2>1, FrameType DEF Frame, FeedInv, TypeOK
  <1> HIDE DEF frame
  <1>2. wire' = <<frame>>  BY DEF frame
  <1>3. wire' \in Seq(Frames) /\ \A i \in DOMAIN wire' : wire'[i] = frame  BY <1>1, <1>2
  <1>4. WireAnnounces'  BY <1>1, <1>3 DEF WireAnnounces, Announces
  <1>5. TypeOK'  BY <1>3 DEF FeedInv, TypeOK
  <1>6. ClosedIsGapped' /\ SubscribedIsCurrent' /\ FeedNumbered' /\ TracksExchange'
    BY DEF FeedInv, ClosedIsGapped, SubscribedIsCurrent, FeedNumbered, TracksExchange
  <1>7. SidecarRestores'  BY KeepsSidecar DEF FeedInv
  <1> QED  BY <1>4, <1>5, <1>6, <1>7 DEF FeedInv

LEMMA FeedLose ==
    ASSUME FeedInv, Lose PROVE FeedInv'
  <1> USE DEF Lose
  <1>1. PICK i \in DOMAIN wire : wire' = RemoveAt(wire, i)  OBVIOUS
  <1>2. wire \in Seq(Frames)  BY DEF FeedInv, TypeOK
  <1>3. wire' \in Seq(Frames) /\ \A k \in DOMAIN wire' : \E j \in DOMAIN wire : wire'[k] = wire[j]
    BY <1>1, <1>2, RemoveAtEntries
  <1>4. WireAnnounces'  BY <1>3, WireFewer DEF FeedInv
  <1>5. TypeOK'  BY <1>3 DEF FeedInv, TypeOK
  <1>6. SubscribedIsCurrent' /\ FeedNumbered' /\ TracksExchange'
    BY DEF FeedInv, SubscribedIsCurrent, FeedNumbered, TracksExchange
  <1>7. ClosedIsGapped'
    <2>1. wire # <<>>  BY <1>1
    <2> QED  BY <2>1 DEF FeedInv, ClosedIsGapped
  <1>8. SidecarRestores'  BY KeepsSidecar DEF FeedInv
  <1> QED  BY <1>4, <1>5, <1>6, <1>7, <1>8 DEF FeedInv

LEMMA FeedDisconnect ==
    ASSUME FeedInv, Disconnect PROVE FeedInv'
  <1> USE DEF Disconnect, OnDisconnect
  <1>1. /\ feed'.state = "Gapped" /\ feed'.have_seq = FALSE /\ feed'.on_book = feed.on_book
        /\ feed' \in [state : {"Live", "Gapped"}, have_seq : BOOLEAN, last_seq : Nat, on_book : {feed.on_book}]
    BY DEF FeedInv, TypeOK
  <1>2. TypeOK'
    <2>1. wire' \in Seq(Frames)  BY EmptySeq
    <2> QED  BY <1>1, <2>1 DEF FeedInv, TypeOK
  <1>3. WireAnnounces'  BY DEF WireAnnounces
  <1>4. ClosedIsGapped' /\ SubscribedIsCurrent' /\ FeedNumbered' /\ TracksExchange'
    BY <1>1 DEF ClosedIsGapped, SubscribedIsCurrent, FeedNumbered, TracksExchange
  <1>5. SidecarRestores'  BY <1>1, KeepsSidecar DEF FeedInv
  <1> QED  BY <1>2, <1>3, <1>4, <1>5 DEF FeedInv

(* The exchange's history grows by a book. *)
LEMMA HistoryLonger ==
    ASSUME TypeOK, WireAnnounces, FeedNumbered, TracksExchange,
           NEW book \in Books, history' = Append(history, book), feed' = feed, sequenced' = sequenced
    PROVE  /\ history' \in Seq(Books) /\ Len(history') = Len(history) + 1
           /\ DOMAIN history' = 1 .. Len(history) + 1 /\ history'[Len(history) + 1] = book
           /\ \A i \in DOMAIN history : i \in DOMAIN history' /\ history'[i] = history[i]
           /\ \A i \in DOMAIN wire : Announces(wire[i], history) => Announces(wire[i], history')
           /\ FeedNumbered' /\ TracksExchange'
  <1>0. history \in Seq(Books) /\ wire \in Seq(Frames)  BY DEF TypeOK
  <1>1. Len(history) \in Nat /\ DOMAIN history = 1 .. Len(history)  BY <1>0, LenProperties
  <1>2. /\ history' \in Seq(Books) /\ Len(history') = Len(history) + 1
        /\ history'[Len(history) + 1] = book /\ \A i \in 1 .. Len(history) : history'[i] = history[i]
    BY <1>0, AppendProperties
  <1>3. DOMAIN history' = 1 .. Len(history) + 1  BY <1>2, LenProperties
  <1>4. \A i \in DOMAIN history : i \in DOMAIN history' /\ history'[i] = history[i]
    BY <1>1, <1>2, <1>3
  <1>5. \A i \in DOMAIN wire : Announces(wire[i], history) => Announces(wire[i], history')
    <2>1. \A i \in DOMAIN wire : wire[i] \in Frames  BY <1>0, LenProperties, ElementOfSeq
    <2> QED  BY <1>0, <2>1, AnnouncesLonger
  <1>6. FeedNumbered'  BY <1>4 DEF FeedNumbered
  <1>7. TracksExchange'  BY <1>4 DEF FeedNumbered, TracksExchange
  <1> QED  BY <1>2, <1>3, <1>4, <1>5, <1>6, <1>7

LEMMA FeedSubscribe ==
    ASSUME FeedInv, Subscribe PROVE FeedInv'
  <1> DEFINE f1 == Frame("control", <<>>, 0)
             f2 == Frame("snapshot", RowsOf(exchange), Len(history) + 1)
  <1>1. /\ wire' = wire \o <<f1, f2>> /\ history' = Append(history, exchange) /\ socket' = "subscribed"
        /\ UNCHANGED <<exchange, sequenced, partial, feed, sidecar, since>>
    BY DEF Subscribe
  <1>2. TypeOK /\ exchange \in Books /\ wire \in Seq(Frames) /\ sequenced \in BOOLEAN /\ Len(history) \in Nat
    BY LenProperties DEF FeedInv, TypeOK
  <1>3. /\ history' \in Seq(Books) /\ Len(history') = Len(history) + 1
        /\ DOMAIN history' = 1 .. Len(history) + 1 /\ history'[Len(history) + 1] = exchange
        /\ \A i \in DOMAIN wire : Announces(wire[i], history) => Announces(wire[i], history')
        /\ FeedNumbered' /\ TracksExchange'
    BY <1>1, <1>2, HistoryLonger DEF FeedInv
  <1>4. f1 \in Frames /\ f1.kind = "control" /\ f1.sequence = 0
    <2>1. <<>> \in Seq(Rows)  BY EmptySeq
    <2> QED  BY <1>2, <2>1, FrameType DEF Frame
  <1>5. /\ f2 \in Frames /\ f2.kind = "snapshot" /\ f2.rows = RowsOf(exchange)
        /\ f2.sequence = IF sequenced THEN Len(history) + 1 ELSE 0
    <2>1. RowsOf(exchange) \in Seq(Rows)  BY <1>2, RowsOfBook
    <2> QED  BY <1>2, <2>1, FrameType DEF Frame
  <1> HIDE DEF f1, f2
  <1>6. sequenced => Announces(f1, history') /\ Announces(f2, history')
    <2>1. Len(history) + 1 \in DOMAIN history'  BY <1>2, <1>3
    <2> QED  BY <1>3, <1>4, <1>5, <2>1 DEF Announces
  <1>7. <<f1, f2>> \in Seq(Frames) /\ Len(<<f1, f2>>) = 2
        /\ \A k \in 1 .. 2 : <<f1, f2>>[k] \in {f1, f2}
    BY <1>4, <1>5
  <1>8. /\ wire' \in Seq(Frames) /\ Len(wire') = Len(wire) + 2
        /\ \A k \in 1 .. Len(wire) + 2 : wire'[k] = IF k <= Len(wire) THEN wire[k] ELSE <<f1, f2>>[k - Len(wire)]
    BY <1>1, <1>2, <1>7, ConcatProperties
  <1>9. \A k \in DOMAIN wire' : (k \in DOMAIN wire /\ wire'[k] = wire[k]) \/ wire'[k] \in {f1, f2}
    <2>1. Len(wire) \in Nat /\ DOMAIN wire = 1 .. Len(wire) /\ DOMAIN wire' = 1 .. Len(wire) + 2
      BY <1>2, <1>8, LenProperties
    <2> TAKE k \in DOMAIN wire'
    <2>2. CASE k <= Len(wire)  BY <1>8, <2>1, <2>2
    <2>3. CASE k > Len(wire)
      <3>1. k - Len(wire) \in 1 .. 2 /\ wire'[k] = <<f1, f2>>[k - Len(wire)]  BY <1>8, <2>1, <2>3
      <3> QED  BY <1>7, <3>1
    <2> QED  BY <2>1, <2>2, <2>3
  <1>10. WireAnnounces'
    <2> SUFFICES ASSUME NEW k \in DOMAIN wire'
                 PROVE  /\ wire'[k].kind = "update" => Len(wire'[k].rows) = 1
                        /\ IF sequenced' THEN Announces(wire'[k], history') ELSE wire'[k].sequence = 0
      BY DEF WireAnnounces
    <2>1. CASE k \in DOMAIN wire /\ wire'[k] = wire[k]
      BY <1>1, <1>3, <2>1 DEF FeedInv, WireAnnounces
    <2>2. CASE wire'[k] \in {f1, f2}  BY <1>1, <1>4, <1>5, <1>6, <2>2
    <2> QED  BY <1>9, <2>1, <2>2
  <1>11. TypeOK'  BY <1>1, <1>2, <1>3, <1>8 DEF TypeOK
  <1>12. SubscribedIsCurrent' /\ ClosedIsGapped'
    BY <1>1, <1>2, <1>3 DEF SubscribedIsCurrent, ClosedIsGapped
  <1>13. SidecarRestores'  BY <1>1, KeepsSidecar DEF FeedInv
  <1> QED  BY <1>3, <1>10, <1>11, <1>12, <1>13 DEF FeedInv

LEMMA FeedTrade ==
    ASSUME FeedInv, NEW row \in Rows, row.price = 0 \/ row \in WireRows, Trade(row) PROVE FeedInv'
  <1> DEFINE book == Changed(exchange, row)
             frame == Frame("update", <<row>>, Len(history) + 1)
  <1>1. exchange' = book /\ UNCHANGED <<sequenced, socket, partial, feed, sidecar, since>>
    BY DEF Trade
  <1>2. TypeOK /\ exchange \in Books /\ wire \in Seq(Frames) /\ sequenced \in BOOLEAN
        /\ history \in Seq(Books) /\ Len(history) \in Nat /\ DOMAIN history = 1 .. Len(history)
    BY LenProperties DEF FeedInv, TypeOK
  <1>3. book \in Books  BY <1>2, ChangedBook
  <1>4. SidecarRestores'  BY <1>1, KeepsSidecar DEF FeedInv
  <1>5. CASE socket = "subscribed"
    <2>1. history' = Append(history, book) /\ wire' = Append(wire, frame)  BY <1>5 DEF Trade
    <2>2. Len(history) > 0 /\ history[Len(history)] = exchange
      BY <1>5 DEF FeedInv, SubscribedIsCurrent
    <2>3. /\ frame \in Frames /\ frame.kind = "update" /\ frame.rows = <<row>>
          /\ frame.sequence = IF sequenced THEN Len(history) + 1 ELSE 0
      <3>1. <<row>> \in Seq(Rows) /\ Len(history) + 1 \in Nat  BY <1>2
      <3>2. "update" \in {"control", "hb", "snapshot", "update"}  OBVIOUS
      <3>3. frame \in Frames  BY <1>2, <3>1, <3>2, FrameType
      <3>4. frame = [kind |-> "update", rows |-> <<row>>,
                     sequence |-> IF sequenced THEN Len(history) + 1 ELSE 0]
        BY Zenon DEF Frame
      <3> QED  BY <3>3, <3>4
    <2>4. Len(frame.rows) = 1 /\ frame.rows[1] = row  BY <2>3
    <2> HIDE DEF frame
    <2>5. /\ history' \in Seq(Books) /\ Len(history') = Len(history) + 1
          /\ DOMAIN history' = 1 .. Len(history) + 1 /\ history'[Len(history) + 1] = book
          /\ \A i \in DOMAIN history : i \in DOMAIN history' /\ history'[i] = history[i]
          /\ \A i \in DOMAIN wire : Announces(wire[i], history) => Announces(wire[i], history')
          /\ FeedNumbered' /\ TracksExchange'
      <3> HIDE DEF book
      <3> QED  BY <1>1, <1>2, <1>3, <2>1, HistoryLonger DEF FeedInv
    <2>6. ASSUME sequenced PROVE Announces(frame, history')
      <3>1. frame.sequence = Len(history) + 1 /\ frame.sequence - 1 = Len(history)  BY <1>2, <2>3, <2>6
      <3>2. Len(history) \in DOMAIN history /\ Len(history) + 1 \in DOMAIN history'  BY <1>2, <2>2, <2>5
      <3>3. history'[frame.sequence] = Changed(history'[frame.sequence - 1], frame.rows[1])
        BY <2>2, <2>4, <2>5, <3>1, <3>2
      <3> QED  BY <2>3, <2>5, <3>1, <3>2, <3>3 DEF Announces
    <2>7. wire' \in Seq(Frames) /\ WireAnnounces'
      <3> HIDE DEF book
      <3>1. IF sequenced THEN Announces(frame, history') ELSE frame.sequence = 0  BY <2>3, <2>6
      <3> QED  BY <1>1, <1>2, <2>1, <2>3, <2>4, <2>5, <3>1, WireAppend DEF FeedInv
    <2> HIDE DEF book
    <2>8. TypeOK'
      <3>1. exchange' \in Books /\ history' \in Seq(Books) /\ wire' \in Seq(Frames)
        BY <1>1, <1>3, <2>5, <2>7
      <3> QED  BY <1>1, <1>2, <3>1 DEF TypeOK
    <2>9. ClosedIsGapped' /\ SubscribedIsCurrent'
      BY <1>1, <1>2, <1>5, <2>5 DEF ClosedIsGapped, SubscribedIsCurrent
    <2> QED  BY <1>4, <2>5, <2>7, <2>8, <2>9 DEF FeedInv
  <1>6. CASE socket # "subscribed"
    <2>1. history' = history /\ wire' = wire  BY <1>6 DEF Trade
    <2>2. WireAnnounces' /\ FeedNumbered' /\ TracksExchange' /\ ClosedIsGapped' /\ SubscribedIsCurrent'
      BY <1>1, <1>6, <2>1
         DEF FeedInv, WireAnnounces, FeedNumbered, TracksExchange, ClosedIsGapped, SubscribedIsCurrent
    <2> HIDE DEF book
    <2>3. TypeOK'  BY <1>1, <1>2, <1>3, <2>1 DEF TypeOK
    <2> QED  BY <1>4, <2>2, <2>3 DEF FeedInv
  <1> QED  BY <1>5, <1>6

------------------------------------------------------------------------------
(* The frame that is read, and the wire behind it. *)
LEMMA ReadFrame ==
    ASSUME FeedInv, wire # <<>>, wire' = Tail(wire), history' = history, sequenced' = sequenced
    PROVE  /\ Head(wire) \in Frames /\ wire' \in Seq(Frames) /\ WireAnnounces'
           /\ Head(wire).kind = "update" => Len(Head(wire).rows) = 1
           /\ IF sequenced THEN Announces(Head(wire), history) ELSE Head(wire).sequence = 0
  <1>0. wire \in Seq(Frames)  BY DEF FeedInv, TypeOK
  <1>1. Len(wire) \in Nat \ {0} /\ DOMAIN wire = 1 .. Len(wire)  BY <1>0, EmptySeq, LenProperties
  <1>2. /\ Head(wire) \in Frames /\ wire' \in Seq(Frames) /\ Len(wire') = Len(wire) - 1
        /\ \A k \in 1 .. Len(wire') : wire'[k] = wire[k + 1]
    BY <1>0, <1>1, HeadTailProperties
  <1>3. DOMAIN wire' = 1 .. Len(wire')  BY <1>2, LenProperties
  <1>4. \A k \in DOMAIN wire' : \E i \in DOMAIN wire : wire'[k] = wire[i]
    <2> TAKE k \in DOMAIN wire'
    <2>1. k + 1 \in DOMAIN wire /\ wire'[k] = wire[k + 1]  BY <1>1, <1>2, <1>3
    <2> QED  BY <2>1
  <1>5. WireAnnounces'  BY <1>4, WireFewer DEF FeedInv
  <1>6. 1 \in DOMAIN wire /\ Head(wire) = wire[1]  BY <1>0, <1>1
  <1>7. /\ wire[1].kind = "update" => Len(wire[1].rows) = 1
        /\ IF sequenced THEN Announces(wire[1], history) ELSE wire[1].sequence = 0
    BY <1>6 DEF FeedInv, WireAnnounces
  <1> QED  BY <1>2, <1>5, <1>6, <1>7

(* What is left of the invariant when a frame is read: the parts about the     *)
(* feed, the socket and the file.                                             *)
LEMMA ReadInv ==
    ASSUME FeedInv, wire # <<>>, wire' = Tail(wire), partial' = FALSE,
           UNCHANGED <<exchange, history, sequenced>>,
           socket' \in {"open", socket},
           feed' \in [state : {"Live", "Gapped"}, have_seq : BOOLEAN, last_seq : Nat, on_book : {feed'.on_book}],
           DOMAIN feed'.on_book \subseteq Keys,
           sidecar' \in [rows : Seq(Rows), written : BOOLEAN], since' \in Seq(FeedEvents),
           FeedNumbered', TracksExchange', SidecarRestores'
    PROVE  FeedInv'
  <1>1. wire' \in Seq(Frames) /\ WireAnnounces'  BY ReadFrame
  <1>2. TypeOK'  BY <1>1 DEF FeedInv, TypeOK
  <1>3. ClosedIsGapped'  BY DEF FeedInv, ClosedIsGapped
  <1>4. SubscribedIsCurrent'  BY DEF FeedInv, SubscribedIsCurrent
  <1> QED  BY <1>1, <1>2, <1>3, <1>4 DEF FeedInv

LEMMA FeedOnSnapshot ==
    ASSUME FeedInv, wire # <<>>, wire' = Tail(wire), partial' = FALSE,
           UNCHANGED <<exchange, history, sequenced>>,
           NEW frame, frame = Head(wire), frame.kind = "snapshot", OnSnapshot(frame)
    PROVE  FeedInv'
  <1> DEFINE new == LowerSnapshotBook(frame.rows)
  <1>0. history \in Seq(Books) /\ sidecar \in [rows : Seq(Rows), written : BOOLEAN]
    BY DEF FeedInv, TypeOK
  <1>1. /\ frame \in Frames
        /\ IF sequenced THEN Announces(frame, history) ELSE frame.sequence = 0
    BY ReadFrame
  <1>2. frame.rows \in Seq(Rows) /\ frame.sequence \in Nat  BY <1>1 DEF Frames
  <1>3. /\ feed' = [state |-> "Live", have_seq |-> frame.sequence # 0, last_seq |-> frame.sequence,
                    on_book |-> new]
        /\ since' = <<>> /\ socket' = socket /\ WriteSidecar(frame.rows)
    BY Zenon DEF OnSnapshot
  <1>4. DOMAIN new \subseteq Keys
    <2>1. \A i \in DOMAIN frame.rows : frame.rows[i] \in Rows  BY <1>2, LenProperties, ElementOfSeq
    <2>2. \A r \in Rows : r.order_id \in Keys  BY DEF Rows
    <2>3. DOMAIN new = {frame.rows[i].order_id : i \in {j \in DOMAIN frame.rows : Lowered(frame.rows[j])}}
      BY <1>2, SnapshotBook
    <2> QED  BY <2>1, <2>2, <2>3, Zenon
  <1> HIDE DEF new
  <1>5. /\ feed'.state = "Live" /\ feed'.have_seq = (frame.sequence # 0)
        /\ feed'.last_seq = frame.sequence /\ feed'.on_book = new
        /\ feed' \in [state : {"Live", "Gapped"}, have_seq : BOOLEAN, last_seq : Nat, on_book : {feed'.on_book}]
    BY <1>2, <1>3
  <1>6. FeedNumbered' /\ TracksExchange'
    <2>1. CASE sequenced
      <3>1. frame.sequence \in DOMAIN history /\ frame.rows = RowsOf(history[frame.sequence])
        BY <1>1, <2>1 DEF Announces
      <3>2. history[frame.sequence] \in Books  BY <1>0, <3>1, LenProperties, ElementOfSeq
      <3>3. Tracks(new, history[frame.sequence])  BY <3>1, <3>2, SnapshotTracks DEF new
      <3> QED  BY <1>5, <2>1, <3>1, <3>3 DEF FeedNumbered, TracksExchange
    <2>2. CASE ~sequenced
      <3>1. frame.sequence = 0  BY <1>1, <2>2, Zenon
      <3>2. ~feed'.have_seq  BY <1>5, <3>1
      <3> QED  BY <3>2 DEF FeedNumbered, TracksExchange
    <2> QED  BY <2>1, <2>2, Zenon
  <1>7. /\ sidecar' \in [rows : Seq(Rows), written : BOOLEAN]
        /\ sidecar'.written => sidecar'.rows = frame.rows
    <2>1. CASE sidecar' = [rows |-> frame.rows, written |-> TRUE]  BY <1>2, <2>1
    <2>2. CASE sidecar' = [sidecar EXCEPT !.written = FALSE]  BY <1>0, <2>2
    <2>3. CASE \E n \in 0 .. Len(frame.rows) - 1 :
                  sidecar' = [rows |-> SubSeq(frame.rows, 1, n), written |-> FALSE]
      <3>1. PICK n \in 0 .. Len(frame.rows) - 1 :
                  sidecar' = [rows |-> SubSeq(frame.rows, 1, n), written |-> FALSE]
        BY <2>3
      <3>2. Len(frame.rows) \in Nat /\ \A i \in 1 .. Len(frame.rows) : frame.rows[i] \in Rows
        BY <1>2, LenProperties, ElementOfSeq
      <3>3. n \in Int /\ 1 \in Int /\ \A i \in 1 .. n : frame.rows[i] \in Rows  BY <3>2
      <3>4. SubSeq(frame.rows, 1, n) \in Seq(Rows)  BY <3>3, SubSeqProperties
      <3> QED  BY <3>1, <3>4
    <2> QED  BY <1>3, <2>1, <2>2, <2>3 DEF WriteSidecar
  <1>8. since' \in Seq(FeedEvents)  BY <1>3, EmptySeq
  <1>9. SidecarRestores'
    <2>1. ASSUME sidecar'.written
          PROVE  Without(Replay(LowerSnapshotBook(ReadSidecar(sidecar'.rows)), since'), Misread(sidecar'.rows))
                    = Without(feed'.on_book, Misread(sidecar'.rows))
      <3>1. sidecar'.rows = frame.rows  BY <1>7, <2>1
      <3>2. Replay(LowerSnapshotBook(ReadSidecar(frame.rows)), since') = LowerSnapshotBook(ReadSidecar(frame.rows))
        BY <1>3, ReplayNothing
      <3> QED  BY <1>2, <1>5, <3>1, <3>2, ReadBack DEF new
    <2> QED  BY <2>1, Zenon DEF SidecarRestores
  <1>10. socket' \in {"open", socket} /\ DOMAIN feed'.on_book \subseteq Keys  BY <1>3, <1>4, <1>5
  <1> QED  BY <1>5, <1>6, <1>7, <1>8, <1>9, <1>10, ReadInv

(* A step on the feed that leaves the tracker alone and makes it gapped, or    *)
(* changes nothing of it.                                                     *)
LEMMA FeedGapped ==
    ASSUME FeedInv, wire # <<>>, wire' = Tail(wire), partial' = FALSE,
           UNCHANGED <<exchange, history, sequenced, sidecar, since>>,
           socket' \in {"open", socket},
           \/ feed' = feed
           \/ feed' = [feed EXCEPT !.state = "Gapped", !.have_seq = FALSE, !.last_seq = 0]
    PROVE  FeedInv'
  <1>1. /\ feed \in [state : {"Live", "Gapped"}, have_seq : BOOLEAN, last_seq : Nat, on_book : {feed.on_book}]
        /\ DOMAIN feed.on_book \subseteq Keys
        /\ sidecar' \in [rows : Seq(Rows), written : BOOLEAN] /\ since' \in Seq(FeedEvents)
    BY DEF FeedInv, TypeOK
  <1>2. /\ feed' \in [state : {"Live", "Gapped"}, have_seq : BOOLEAN, last_seq : Nat, on_book : {feed'.on_book}]
        /\ feed'.on_book = feed.on_book
    <2>1. CASE feed' = feed  BY <1>1, <2>1
    <2>2. CASE feed' = [feed EXCEPT !.state = "Gapped", !.have_seq = FALSE, !.last_seq = 0]
      BY <1>1, <2>2
    <2> QED  BY <2>1, <2>2
  <1>3. FeedNumbered' /\ TracksExchange'
    <2>1. CASE feed' = feed  BY <2>1 DEF FeedInv, FeedNumbered, TracksExchange
    <2>2. CASE feed' = [feed EXCEPT !.state = "Gapped", !.have_seq = FALSE, !.last_seq = 0]
      <3>1. feed'.state = "Gapped" /\ feed'.have_seq = FALSE  BY <1>1, <2>2
      <3> QED  BY <3>1 DEF FeedNumbered, TracksExchange
    <2> QED  BY <2>1, <2>2
  <1>4. SidecarRestores'  BY <1>2, KeepsSidecar DEF FeedInv
  <1> QED  BY <1>1, <1>2, <1>3, <1>4, ReadInv

(* An update that is in sequence. *)
LEMMA FeedApplied ==
    ASSUME FeedInv, wire # <<>>, wire' = Tail(wire), partial' = FALSE,
           UNCHANGED <<exchange, history, sequenced, sidecar, socket>>,
           NEW frame, frame = Head(wire), frame.kind = "update",
           feed.state = "Live", InSequence(frame),
           NEW lowered, lowered = LowerRow(feed.on_book, frame.rows[1]),
           feed' = [feed EXCEPT !.on_book = lowered.on_book,
                                !.last_seq = IF frame.sequence = 0 THEN @ ELSE frame.sequence],
           since' = since \o lowered.events
    PROVE  FeedInv'
  <1> DEFINE row == frame.rows[1]
             ids == Misread(sidecar.rows)
             before == Replay(LowerSnapshotBook(ReadSidecar(sidecar.rows)), since)
  <1>0. /\ history \in Seq(Books) /\ since \in Seq(FeedEvents)
        /\ feed \in [state : {"Live", "Gapped"}, have_seq : BOOLEAN, last_seq : Nat, on_book : {feed.on_book}]
        /\ DOMAIN feed.on_book \subseteq Keys /\ sidecar \in [rows : Seq(Rows), written : BOOLEAN]
    BY DEF FeedInv, TypeOK
  <1>1. /\ frame \in Frames /\ Len(frame.rows) = 1
        /\ IF sequenced THEN Announces(frame, history) ELSE frame.sequence = 0
    BY ReadFrame
  <1>2. frame.rows \in Seq(Rows) /\ frame.sequence \in Nat /\ row \in Rows  BY <1>1, ElementOfSeq DEF Frames
  <1>3. /\ feed'.state = "Live" /\ feed'.have_seq = feed.have_seq /\ feed'.on_book = lowered.on_book
        /\ feed'.last_seq = IF frame.sequence = 0 THEN feed.last_seq ELSE frame.sequence
        /\ feed' \in [state : {"Live", "Gapped"}, have_seq : BOOLEAN, last_seq : Nat, on_book : {feed'.on_book}]
    BY <1>0, <1>2
  <1>4. DOMAIN feed'.on_book \subseteq Keys
    <2>1. row.order_id \in Keys  BY <1>2 DEF Rows
    <2>2. lowered.on_book \in {feed.on_book, Drop(feed.on_book, row.order_id), Put(feed.on_book, row.order_id, Resting(row))}
      BY DEF LowerRow
    <2> QED  BY <1>0, <1>3, <2>1, <2>2 DEF Drop, Put
  <1> HIDE DEF row
  <1>5. FeedNumbered' /\ TracksExchange'
    <2>1. CASE sequenced /\ feed.have_seq
      <3>1. /\ frame.sequence \in DOMAIN history /\ frame.sequence - 1 \in DOMAIN history
            /\ history[frame.sequence] = Changed(history[frame.sequence - 1], row)
        BY <1>1, <2>1 DEF Announces, row
      <3>2. frame.sequence # 0  BY <1>0, <3>1, LenProperties
      <3>3. feed.last_seq = frame.sequence - 1  BY <1>0, <1>2, <3>2 DEF InSequence
      <3>4. history[frame.sequence - 1] \in Books  BY <1>0, <3>1, LenProperties, ElementOfSeq
      <3>5. Tracks(feed.on_book, history[frame.sequence - 1])  BY <2>1, <3>3 DEF FeedInv, TracksExchange
      <3>6. Tracks(lowered.on_book, history[frame.sequence])
        BY <1>2, <3>1, <3>4, <3>5, LowerTracks DEF row
      <3>7. feed'.last_seq = frame.sequence  BY <1>3, <3>2
      <3> QED  BY <1>3, <2>1, <3>1, <3>6, <3>7 DEF FeedNumbered, TracksExchange
    <2>2. CASE ~feed.have_seq
      <3>1. ~feed'.have_seq  BY <1>3, <2>2
      <3> QED  BY <3>1 DEF FeedNumbered, TracksExchange
    <2>3. CASE ~sequenced  BY <2>2, <2>3 DEF FeedInv, FeedNumbered
    <2> QED  BY <2>1, <2>2, <2>3, Zenon
  <1>6. /\ since' \in Seq(FeedEvents)
        /\ sidecar.written => Without(Replay(LowerSnapshotBook(ReadSidecar(sidecar.rows)), since'), ids)
                                 = Without(lowered.on_book, ids)
    <2> DEFINE base == LowerSnapshotBook(ReadSidecar(sidecar.rows))
    <2> HIDE DEF base, ids
    <2>1. sidecar.written => Without(Replay(base, since), ids) = Without(feed.on_book, ids)
      BY DEF FeedInv, SidecarRestores, base, ids
    <2>2. \/ /\ lowered.events = <<>>
             /\ sidecar.written => Without(Replay(base, since), ids) = Without(lowered.on_book, ids)
          \/ \E e \in FeedEvents :
                /\ lowered.events = <<e>>
                /\ sidecar.written => Without(Replayed(Replay(base, since), e), ids) = Without(lowered.on_book, ids)
      <3>1. CASE sidecar.written
        <4>1. lowered = LowerRow(feed.on_book, row)  BY DEF row
        <4> DEFINE restored == Replay(base, since)
        <4>2. Without(restored, ids) = Without(feed.on_book, ids)  BY <2>1, <3>1
        <4> HIDE DEF restored
        <4>3. \/ lowered.events = <<>> /\ Without(restored, ids) = Without(lowered.on_book, ids)
              \/ \E e \in FeedEvents : /\ lowered.events = <<e>>
                             /\ Without(Replayed(restored, e), ids) = Without(lowered.on_book, ids)
          BY <1>2, <4>1, <4>2, LoweredReplayed
        <4> QED  BY <4>3, Zenon DEF restored
      <3>2. CASE ~sidecar.written
        <4>1. lowered.events = <<>> \/ \E e \in FeedEvents : lowered.events = <<e>>
          BY <1>2, LoweredReplayed DEF row
        <4> QED  BY <3>2, <4>1, Zenon
      <3> QED  BY <3>1, <3>2, Zenon
    <2>3. CASE lowered.events = <<>>
               /\ (sidecar.written => Without(Replay(base, since), ids) = Without(lowered.on_book, ids))
      <3>1. since' = since  BY <1>0, <2>3, ConcatEmptySeq
      <3> QED  BY <1>0, <2>3, <3>1 DEF base
    <2>4. ASSUME NEW e \in FeedEvents, lowered.events = <<e>>,
                 sidecar.written => Without(Replayed(Replay(base, since), e), ids) = Without(lowered.on_book, ids)
          PROVE  /\ since' \in Seq(FeedEvents)
                 /\ sidecar.written => Without(Replay(base, since'), ids) = Without(lowered.on_book, ids)
      <3>1. since \in Seq(FeedEvents) /\ since' = since \o <<e>>  BY <1>0, <2>4, Zenon
      <3>2. since \o <<e>> = Append(since, e)  BY <3>1, AppendIsConcat, Zenon
      <3>3. Append(since, e) \in Seq(FeedEvents)  BY <3>1, AppendProperties, Zenon
      <3>4. Replay(base, Append(since, e)) = Replayed(Replay(base, since), e)
        BY <3>1, ReplayAppend, Zenon
      <3> QED  BY <2>4, <3>1, <3>2, <3>3, <3>4, Zenon
    <2> QED  BY <2>2, <2>3, <2>4, Zenon DEF base
  <1>7. SidecarRestores'  BY <1>3, <1>6, Zenon DEF SidecarRestores, ids
  <1>8. sidecar' \in [rows : Seq(Rows), written : BOOLEAN] /\ socket' \in {"open", socket}  BY <1>0
  <1> QED  BY <1>3, <1>4, <1>5, <1>6, <1>7, <1>8, ReadInv

LEMMA FeedRead ==
    ASSUME FeedInv, ReadMessage PROVE FeedInv'
  <1> DEFINE frame == Head(wire)
  <1>1. wire # <<>> /\ wire' = Tail(wire) /\ partial' = FALSE /\ UNCHANGED <<exchange, history, sequenced>>
    BY DEF ReadMessage
  <1>2. frame \in Frames  BY <1>1, ReadFrame
  <1>3. CASE ~partial /\ ParseFrame(frame) = "snapshot"
    <2>1. OnSnapshot(frame)  BY <1>3 DEF ReadMessage
    <2>2. frame.kind = "snapshot"  BY <1>3 DEF ParseFrame
    <2> QED  BY <1>1, <2>1, <2>2, FeedOnSnapshot
  <1>4. CASE ~partial /\ ParseFrame(frame) = "update"
    <2>1. OnUpdate(frame)  BY <1>4 DEF ReadMessage
    <2>2. frame.kind = "update"  BY <1>4 DEF ParseFrame
    <2> DEFINE lowered == LowerRow(feed.on_book, frame.rows[1])
    <2>3. CASE /\ feed.state = "Live" /\ InSequence(frame)
               /\ feed' = [feed EXCEPT !.on_book = lowered.on_book,
                                       !.last_seq = IF frame.sequence = 0 THEN @ ELSE frame.sequence]
               /\ since' = since \o lowered.events /\ UNCHANGED <<sidecar, socket>>
      <3> HIDE DEF frame
      <3>1. frame = Head(wire)  BY DEF frame
      <3> QED  BY <1>1, <2>2, <2>3, <3>1, FeedApplied
    <2>4. CASE /\ \/ feed' = feed
                  \/ feed' = [feed EXCEPT !.state = "Gapped", !.have_seq = FALSE, !.last_seq = 0]
               /\ socket' = "open" /\ UNCHANGED <<sidecar, since>>
      BY <1>1, <2>4, FeedGapped
    <2> QED  BY <2>1, <2>3, <2>4, Zenon DEF OnUpdate, Resubscribe
  <1>5. CASE ~partial /\ ParseFrame(frame) # "snapshot" /\ ParseFrame(frame) # "update"
    <2>1. UNCHANGED <<socket, feed, sidecar, since>>  BY <1>5 DEF ReadMessage
    <2> QED  BY <1>1, <2>1, FeedGapped
  <1>6. CASE partial
    <2>1. socket' \in {"open", socket} /\ UNCHANGED <<feed, sidecar, since>>
      BY <1>6 DEF ReadMessage, OnGlued, Resubscribe
    <2> QED  BY <1>1, <2>1, FeedGapped
  <1> QED  BY <1>3, <1>4, <1>5, <1>6

(* A step that changes nothing. *)
LEMMA FeedStutter ==
    ASSUME FeedInv, UNCHANGED vars PROVE FeedInv'
  BY DEF vars, FeedInv, TypeOK, ClosedIsGapped, SubscribedIsCurrent, WireAnnounces, FeedNumbered,
         TracksExchange, SidecarRestores

LEMMA FeedStep ==
    ASSUME FeedInv, [Next]_vars PROVE FeedInv'
  <1>1. CASE Connect  BY <1>1, FeedConnect
  <1>2. CASE Subscribe  BY <1>2, FeedSubscribe
  <1>3. CASE Heartbeat  BY <1>3, FeedHeartbeat
  <1>4. CASE Lose  BY <1>4, FeedLose
  <1>5. CASE ReadMessage  BY <1>5, FeedRead
  <1>6. CASE Disconnect  BY <1>6, FeedDisconnect
  <1>7. ASSUME NEW row \in WireRows, Trade(row) PROVE FeedInv'
    <2>1. row \in Rows  BY BitfinexAssumption DEF Rows
    <2> QED  BY <1>7, <2>1, FeedTrade
  <1>8. ASSUME NEW id \in DOMAIN exchange, Trade(Gone(exchange[id])) PROVE FeedInv'
    <2> DEFINE row == Gone(exchange[id])
    <2>1. exchange \in Books  BY DEF FeedInv, TypeOK
    <2>2. exchange[id] \in Rows  BY <2>1, BookFacts
    <2>3. row \in Rows /\ row.price = 0
      <3>1. \A r \in Rows : Gone(r) \in Rows /\ Gone(r).price = 0
        <4> TAKE r \in Rows
        <4> DEFINE a == IF r.amount > 0 THEN One ELSE -One
        <4>1. a \in Int  BY BitfinexAssumption
        <4> HIDE DEF a
        <4>2. Gone(r) = [r EXCEPT !.price = 0, !.amount = a]  BY DEF Gone, Rows, a
        <4>3. Gone(r) = [order_id |-> r.order_id, price |-> 0, amount |-> a]  BY <4>2 DEF Rows
        <4>4. r.order_id \in Keys  BY DEF Rows
        <4> HIDE DEF Gone
        <4> QED  BY <4>1, <4>3, <4>4 DEF Rows
      <3> QED  BY <2>2, <3>1
    <2> HIDE DEF row
    <2>4. Trade(row)  BY <1>8 DEF row
    <2> QED  BY <2>3, <2>4, FeedTrade
  <1> QED  BY <1>1, <1>2, <1>3, <1>4, <1>5, <1>6, <1>7, <1>8, FeedStutter DEF Next

(* The invariant of the feed: what is on the wire is what the exchange's book  *)
(* was and became at each number of the connection, nothing survives the      *)
(* connection it came from, and the tracker and the sidecar agree with it.    *)
THEOREM FeedInvariant == Spec => []FeedInv
  <1>1. Init => FeedInv  BY FeedInit
  <1>2. FeedInv /\ [Next]_vars => FeedInv'  BY FeedStep
  <1> QED  BY <1>1, <1>2, PTL DEF Spec

(* ResyncStateMachine: a live and numbered tracker is the exchange's book at   *)
(* the number it has reached, for every set of rows, every rounding and any   *)
(* number of lost frames, gaps, resubscriptions and disconnects.              *)
THEOREM TrackerIsExchangeBook == Spec => []TracksExchange
  <1>1. FeedInv => TracksExchange  BY DEF FeedInv
  <1> QED  BY <1>1, FeedInvariant, PTL

(* write_sidecar and read_sidecar: a file that was written through, read back  *)
(* and continued with the events emitted since, gives the tracker, but for    *)
(* the orders whose numbers were printed with an exponent.                    *)
THEOREM SidecarIsTracker == Spec => []SidecarRestores
  <1>1. FeedInv => SidecarRestores  BY DEF FeedInv
  <1> QED  BY <1>1, FeedInvariant, PTL
================================================================================
