---------------------------- MODULE JournalProofs ----------------------------
(***************************************************************************)
(* Journal for every buffer size and number of events: JournalInv is         *)
(* inductive, so that what is delivered was appended, tears are reported,    *)
(* and what flush made durable stays.                                        *)
(***************************************************************************)
EXTENDS Journal, ArithmeticLemmas, SequenceTheorems, TLAPS

(* Part p of the n-th record of an intended file. *)
LEMMA IntendedAt ==
    ASSUME NEW n \in Nat, NEW p \in 1 .. RecordUnits
    PROVE  IntendedUnit(1 + RecordUnits * n + p) = [event |-> n + 1, seq |-> n + 1, part |-> p]
  <1> DEFINE i == 1 + RecordUnits * n + p
  <1>1. i # 1 /\ i - 2 = 4 * n + (p - 1) /\ p - 1 \in 0 .. 3  BY DEF RecordUnits
  <1>2. (i - 2) \div RecordUnits = n /\ (i - 2) % RecordUnits = p - 1
    BY <1>1 DEF RecordUnits
  <1>3. IntendedUnit(i) = Record(n + 1, n + 1)[(p - 1) + 1]
    BY <1>1, <1>2 DEF IntendedUnit
  <1>4. (p - 1) + 1 = p  OBVIOUS
  <1> QED  BY <1>3, <1>4 DEF Record

(* Every unit behind the header is a part of a record. *)
LEMMA UnitOfRecord ==
    ASSUME NEW i \in Nat, i >= 2
    PROVE  \E n \in Nat, p \in 1 .. RecordUnits : i = 1 + RecordUnits * n + p
  <1> DEFINE n == (i - 2) \div 4
             p == ((i - 2) % 4) + 1
  <1>1. n \in Nat /\ p \in 1 .. 4 /\ i = 1 + 4 * n + p  OBVIOUS
  <1> QED  BY <1>1 DEF RecordUnits

LEMMA IntendedIsUnit ==
    ASSUME NEW i \in Nat \ {0} PROVE IntendedUnit(i) \in Units
  <1>1. CASE i = 1  BY <1>1 DEF IntendedUnit, FileHeader, Units, RecordUnits
  <1>2. CASE i >= 2
    <2>1. PICK n \in Nat, p \in 1 .. RecordUnits : i = 1 + RecordUnits * n + p
      BY <1>2, UnitOfRecord
    <2>2. IntendedUnit(i) = [event |-> n + 1, seq |-> n + 1, part |-> p]
      BY <2>1, IntendedAt
    <2> QED  BY <2>2 DEF Units, RecordUnits
  <1> QED  BY <1>1, <1>2

(* The units of an intended file follow each other. *)
LEMMA IntendedFollows ==
    ASSUME NEW i \in Nat \ {0}, NEW a \in Nat, IntendedUnit(i + 1).event <= a
    PROVE  Follows(IntendedUnit(i), IntendedUnit(i + 1), a)
  <1>1. CASE i = 1
    <2>1. IntendedUnit(2) = [event |-> 1, seq |-> 1, part |-> 1]
      <3>1. 0 \in Nat /\ 1 \in 1 .. RecordUnits /\ 2 = 1 + RecordUnits * 0 + 1
            /\ 0 + 1 = 1
        BY DEF RecordUnits
      <3>2. IntendedUnit(1 + RecordUnits * 0 + 1) = [event |-> 0 + 1, seq |-> 0 + 1, part |-> 1]
        BY <3>1, IntendedAt
      <3> QED  BY <3>1, <3>2
    <2>2. IntendedUnit(1).event = 0  BY DEF IntendedUnit, FileHeader
    <2> QED  BY <1>1, <2>1, <2>2 DEF Follows
  <1>2. CASE i >= 2
    <2>1. PICK n \in Nat, p \in 1 .. RecordUnits : i = 1 + RecordUnits * n + p
      BY <1>2, UnitOfRecord
    <2>2. IntendedUnit(i) = [event |-> n + 1, seq |-> n + 1, part |-> p]
      BY <2>1, IntendedAt
    <2>3. CASE p < RecordUnits
      <3>1. i + 1 = 1 + RecordUnits * n + (p + 1) /\ p + 1 \in 1 .. RecordUnits
        BY <2>1, <2>3 DEF RecordUnits
      <3>2. IntendedUnit(i + 1) = [event |-> n + 1, seq |-> n + 1, part |-> p + 1]
        BY <3>1, IntendedAt
      <3> QED  BY <2>2, <3>2 DEF Follows
    <2>4. CASE p = RecordUnits
      <3>1. i + 1 = 1 + RecordUnits * (n + 1) + 1 /\ n + 1 \in Nat /\ 1 \in 1 .. RecordUnits
        BY <2>1, <2>4 DEF RecordUnits
      <3>2. IntendedUnit(i + 1) = [event |-> (n + 1) + 1, seq |-> (n + 1) + 1, part |-> 1]
        BY <3>1, IntendedAt
      <3> QED  BY <2>2, <3>2 DEF Follows
    <2> QED  BY <2>3, <2>4 DEF RecordUnits
  <1> QED  BY <1>1, <1>2

(* What writev leaves: the file, and behind it the first k units. *)
LEMMA WriteBehind ==
    ASSUME NEW f \in Seq(Units), NEW b \in Seq(Units), NEW k \in 0 .. Len(b)
    PROVE  LET g == f \o Prefix(b, k) IN
           /\ g \in Seq(Units) /\ Len(g) = Len(f) + k
           /\ \A i \in 1 .. Len(f) : g[i] = f[i]
           /\ \A j \in 1 .. k : g[Len(f) + j] = b[j]
  <1>1. /\ Prefix(b, k) \in Seq(Units) /\ Len(Prefix(b, k)) = k
        /\ \A j \in 1 .. k : Prefix(b, k)[j] = b[j]
    <2>1. k \in Int /\ 1 \in Int /\ \A i \in 1 .. k : b[i] \in Units  OBVIOUS
    <2>2. /\ SubSeq(b, 1, k) \in Seq(Units)
          /\ Len(SubSeq(b, 1, k)) = IF 1 <= k THEN k - 1 + 1 ELSE 0
          /\ \A i \in 1 .. k - 1 + 1 : SubSeq(b, 1, k)[i] = b[1 + i - 1]
      BY <2>1, SubSeqProperties
    <2> QED  BY <2>2 DEF Prefix
  <1> DEFINE h == Prefix(b, k)
             g == f \o h
  <1>2. h \in Seq(Units) /\ Len(h) = k /\ Len(f) \in Nat /\ k \in Nat  BY <1>1
  <1> HIDE DEF h
  <1>3. /\ g \in Seq(Units) /\ Len(g) = Len(f) + k
        /\ \A i \in 1 .. Len(f) + k : g[i] = IF i <= Len(f) THEN f[i] ELSE h[i - Len(f)]
    BY <1>2, ConcatProperties
  <1> HIDE DEF g
  <1>4. \A i \in 1 .. Len(f) : g[i] = f[i]  BY <1>2, <1>3
  <1>5. ASSUME NEW j \in 1 .. k PROVE g[Len(f) + j] = b[j]
    <2>1. Len(f) + j \in 1 .. Len(f) + k /\ ~(Len(f) + j <= Len(f)) /\ (Len(f) + j) - Len(f) = j
      BY <1>2
    <2>2. g[Len(f) + j] = h[j]  BY <1>3, <2>1
    <2> QED  BY <1>1, <2>2 DEF h
  <1> QED  BY <1>3, <1>4, <1>5 DEF g, h
(* The units of an intended file from record n + 1 to record a. *)
LEMMA IntendedEvents ==
    ASSUME NEW n \in Nat, NEW a \in Nat, NEW i \in 2 + RecordUnits * n .. 1 + RecordUnits * a
    PROVE  IntendedUnit(i).event > n /\ IntendedUnit(i).event <= a
  <1>1. i \in Nat /\ i >= 2  BY DEF RecordUnits
  <1>2. PICK m \in Nat, p \in 1 .. RecordUnits : i = 1 + RecordUnits * m + p
    BY <1>1, UnitOfRecord
  <1>3. IntendedUnit(i) = [event |-> m + 1, seq |-> m + 1, part |-> p]  BY <1>2, IntendedAt
  <1>4. m >= n /\ m < a  BY <1>2 DEF RecordUnits
  <1> QED  BY <1>3, <1>4

(* Writing any prefix of the buffer keeps the file chained, and as intended if *)
(* it was.                                                                    *)
LEMMA WriteChained ==
    ASSUME NEW f \in Seq(Units), NEW b \in Seq(Units), NEW a \in Nat, NEW n \in 0 .. a,
           NEW k \in 0 .. Len(b), f # <<>>, Chained(f, a), Len(b) = RecordUnits * (a - n),
           \A j \in 1 .. Len(b) : b[j] = IntendedUnit(1 + RecordUnits * n + j),
           f[Len(f)].event <= n
    PROVE  LET g == f \o Prefix(b, k) IN
           /\ g \in Seq(Units) /\ g # <<>> /\ Len(g) = Len(f) + k
           /\ \A i \in 1 .. Len(f) : g[i] = f[i]
           /\ Chained(g, a)
           /\ g[Len(g)].event <= a
           /\ AsIntended(f) /\ Len(f) = 1 + RecordUnits * n => AsIntended(g)
  <1> DEFINE g == f \o Prefix(b, k)
  <1>1. /\ g \in Seq(Units) /\ Len(g) = Len(f) + k
        /\ \A i \in 1 .. Len(f) : g[i] = f[i]
        /\ \A j \in 1 .. k : g[Len(f) + j] = b[j]
    BY WriteBehind
  <1> HIDE DEF g
  <1>l. Len(f) \in Nat /\ Len(f) >= 1 /\ k \in Nat /\ Len(b) \in Nat /\ n \in Nat
        /\ f[Len(f)] \in Units
    <2>1. Len(f) \in Nat /\ Len(f) # 0 /\ Len(b) \in Nat  BY EmptySeq
    <2> QED  BY <2>1
  <1>2. ASSUME NEW j \in 1 .. k
        PROVE  /\ g[Len(f) + j] = IntendedUnit(1 + RecordUnits * n + j)
               /\ IntendedUnit(1 + RecordUnits * n + j).event > n
               /\ IntendedUnit(1 + RecordUnits * n + j).event <= a
    <2>1. j \in 1 .. Len(b) /\ 1 + RecordUnits * n + j \in 2 + RecordUnits * n .. 1 + RecordUnits * a
      BY <1>l DEF RecordUnits
    <2> QED  BY <1>1, <1>l, <2>1, IntendedEvents
  <1>3. Chained(g, a)
    <2>1. g[1] = FileHeader  BY <1>1, <1>l DEF Chained
    <2>2. ASSUME NEW i \in 2 .. Len(g) PROVE Follows(g[i - 1], g[i], a)
      <3>1. CASE i <= Len(f)
        <4>1. i \in 2 .. Len(f) /\ i \in 1 .. Len(f) /\ i - 1 \in 1 .. Len(f)
          BY <1>l, <3>1
        <4> QED  BY <1>1, <4>1 DEF Chained
      <3>2. CASE i = Len(f) + 1
        <4>1. 1 \in 1 .. k /\ Len(f) \in 1 .. Len(f) /\ i - 1 = Len(f)
          BY <1>1, <1>l, <3>2
        <4>2. g[i - 1] = f[Len(f)] /\ g[i] = IntendedUnit(1 + RecordUnits * n + 1)
          BY <1>1, <1>2, <3>2, <4>1
        <4>3. 1 \in 1 .. RecordUnits  BY DEF RecordUnits
        <4>4. g[i] = [event |-> n + 1, seq |-> n + 1, part |-> 1]
          BY <4>2, <4>3, <1>l, IntendedAt
        <4>5. g[i].event <= a  BY <1>2, <4>1, <4>2
        <4>6. f[Len(f)].event \in Nat  BY <1>l DEF Units
        <4> QED  BY <1>l, <4>2, <4>4, <4>5, <4>6 DEF Follows
      <3>3. CASE i > Len(f) + 1
        <4> DEFINE j == i - Len(f)
                   x == RecordUnits * n + j
        <4>1. j \in 1 .. k /\ j - 1 \in 1 .. k /\ i = Len(f) + j /\ i - 1 = Len(f) + (j - 1)
          BY <1>1, <1>l, <3>3
        <4>2. g[i] = IntendedUnit(1 + RecordUnits * n + j)
              /\ g[i - 1] = IntendedUnit(1 + RecordUnits * n + (j - 1))
              /\ IntendedUnit(1 + RecordUnits * n + j).event <= a
          BY <1>2, <4>1
        <4>3. x \in Nat \ {0} /\ 1 + RecordUnits * n + j = x + 1
              /\ 1 + RecordUnits * n + (j - 1) = x
          BY <1>l, <4>1 DEF RecordUnits
        <4> HIDE DEF x
        <4>4. Follows(IntendedUnit(x), IntendedUnit(x + 1), a)
          BY <4>2, <4>3, IntendedFollows
        <4> QED  BY <4>2, <4>3, <4>4
      <3> QED  BY <1>1, <1>l, <3>1, <3>2, <3>3
    <2> QED  BY <2>1, <2>2 DEF Chained
  <1>4. g[Len(g)].event <= a
    <2>1. CASE k = 0
      <3>1. Len(g) = Len(f) /\ Len(f) \in 1 .. Len(f)  BY <1>1, <1>l, <2>1
      <3>2. f[Len(f)].event \in Nat  BY <1>l DEF Units
      <3> QED  BY <1>1, <1>l, <3>1, <3>2
    <2>2. CASE k # 0
      <3>1. k \in 1 .. k  BY <1>l, <2>2
      <3> QED  BY <1>1, <1>2, <3>1
    <2> QED  BY <2>1, <2>2
  <1>5. ASSUME AsIntended(f), Len(f) = 1 + RecordUnits * n PROVE AsIntended(g)
    <2> SUFFICES ASSUME NEW i \in 1 .. Len(g) PROVE g[i] = IntendedUnit(i)
      BY DEF AsIntended
    <2>1. CASE i <= Len(f)
      <3>1. i \in 1 .. Len(f)  BY <1>l, <2>1
      <3> QED  BY <1>1, <1>5, <3>1 DEF AsIntended
    <2>2. CASE i > Len(f)
      <3> DEFINE j == i - Len(f)
      <3>1. j \in 1 .. k /\ i = Len(f) + j  BY <1>1, <1>l, <2>2
      <3>2. g[Len(f) + j] = IntendedUnit(1 + RecordUnits * n + j)  BY <1>2, <3>1
      <3> QED  BY <1>5, <3>1, <3>2
    <2> QED  BY <1>1, <1>l, <2>1, <2>2
  <1>6. g # <<>>  BY <1>1, <1>l, EmptySeq
  <1> QED  BY <1>1, <1>3, <1>4, <1>5, <1>6 DEF g
(* A chain stays one when more events are appended, and when its end is cut off. *)
LEMMA ChainedMore ==
    ASSUME NEW units, NEW n \in Nat, NEW m \in Nat, n <= m, Chained(units, n)
    PROVE  Chained(units, m)
  BY DEF Chained, Follows

LEMMA PrefixChained ==
    ASSUME NEW f \in Seq(Units), NEW k \in 0 .. Len(f), NEW n \in Nat, Chained(f, n)
    PROVE  LET g == Prefix(f, k) IN
           /\ g \in Seq(Units) /\ Len(g) = k
           /\ \A i \in 1 .. k : g[i] = f[i]
           /\ Chained(g, n)
           /\ AsIntended(f) => AsIntended(g)
  <1> DEFINE g == Prefix(f, k)
  <1>1. k \in Nat /\ Len(f) \in Nat  OBVIOUS
  <1>2. k \in Int /\ 1 \in Int /\ \A i \in 1 .. k : f[i] \in Units  OBVIOUS
  <1>3. /\ SubSeq(f, 1, k) \in Seq(Units)
        /\ Len(SubSeq(f, 1, k)) = IF 1 <= k THEN k - 1 + 1 ELSE 0
        /\ \A i \in 1 .. k - 1 + 1 : SubSeq(f, 1, k)[i] = f[1 + i - 1]
    BY <1>2, SubSeqProperties
  <1>4. g \in Seq(Units) /\ Len(g) = k /\ \A i \in 1 .. k : g[i] = f[i]
    BY <1>3, <1>1 DEF Prefix
  <1> HIDE DEF g
  <1>5. ASSUME g # <<>> PROVE k \in Nat \ {0}  BY <1>4, <1>5, EmptySeq
  <1>6. ASSUME g # <<>> PROVE f # <<>>  BY <1>5, <1>6, EmptySeq
  <1>7. ASSUME g # <<>>, NEW i \in 2 .. Len(g) PROVE Follows(g[i - 1], g[i], n)
    <2>1. i \in 2 .. Len(f) /\ i \in 1 .. k /\ i - 1 \in 1 .. k  BY <1>1, <1>4, <1>7
    <2> QED  BY <1>4, <1>6, <1>7, <2>1 DEF Chained
  <1>8. ASSUME g # <<>> PROVE g[1] = FileHeader
    <2>1. 1 \in 1 .. k  BY <1>5, <1>8
    <2> QED  BY <1>4, <1>6, <1>8, <2>1 DEF Chained
  <1>9. Chained(g, n)  BY <1>7, <1>8 DEF Chained
  <1>10. AsIntended(f) => AsIntended(g)  BY <1>1, <1>4 DEF AsIntended
  <1> QED  BY <1>4, <1>9, <1>10 DEF g

LEMMA RecordUnitsOf ==
    ASSUME NEW a \in Nat
    PROVE  LET b == Record(a + 1, a + 1) IN
           /\ b \in Seq(Units) /\ Len(b) = RecordUnits
           /\ \A p \in 1 .. RecordUnits : b[p] = IntendedUnit(1 + RecordUnits * a + p)
  <1> DEFINE b == Record(a + 1, a + 1)
  <1>1. RecordUnits \in Nat /\ RecordUnits = 4  BY DEF RecordUnits
  <1>2. \A p \in 1 .. RecordUnits : [event |-> a + 1, seq |-> a + 1, part |-> p] \in Units
    BY DEF Units, RecordUnits
  <1>3. b \in [1 .. RecordUnits -> Units]  BY <1>2 DEF Record
  <1>4. b \in Seq(Units) /\ Len(b) = RecordUnits
    <2> HIDE DEF b
    <2> QED  BY <1>1, <1>3, FunctionIsSeq
  <1>5. \A p \in 1 .. RecordUnits : b[p] = [event |-> a + 1, seq |-> a + 1, part |-> p]
    BY DEF Record
  <1> QED  BY <1>4, <1>5, IntendedAt

------------------------------------------------------------------------------
(* The writer's steps. *)

(* A write of k units by flush_active_buffer, or by the process that dies in it. *)
LEMMA FileGrows ==
    ASSUME JournalInv, fd = "open", NEW k \in 0 .. Len(buffer),
           NEW g, g = file \o Prefix(buffer, k)
    PROVE  /\ g \in Seq(Units) /\ g # <<>> /\ Chained(g, appended)
           /\ g[Len(g)].event <= appended
           /\ ~failed => AsIntended(g)
           /\ ~failed /\ k = Len(buffer) => Len(g) = 1 + RecordUnits * appended
           /\ Len(g) \in Nat /\ Len(file) <= Len(g) /\ synced <= Len(g)
           /\ \A i \in 1 .. Len(file) : g[i] = file[i]
  <1>1. /\ buffer \in Seq(Units) /\ file \in Seq(Units) /\ appended \in Nat /\ synced \in Nat
        /\ file # <<>> /\ Chained(file, appended) /\ synced <= Len(file)
        /\ ~failed => AsIntended(file)
    BY DEF JournalInv, TypeOK, WriterSound, SyncSound
  <1>2. PICK n \in 0 .. appended : BufferedFrom(n)  BY DEF JournalInv, WriterSound
  <1>3. /\ Len(buffer) = RecordUnits * (appended - n)
        /\ \A j \in 1 .. Len(buffer) : buffer[j] = IntendedUnit(1 + RecordUnits * n + j)
        /\ file[Len(file)].event <= n
        /\ ~failed => Len(file) = 1 + RecordUnits * n
    BY <1>2 DEF BufferedFrom
  <1>4. /\ g \in Seq(Units) /\ g # <<>> /\ Len(g) = Len(file) + k
        /\ \A i \in 1 .. Len(file) : g[i] = file[i]
        /\ Chained(g, appended)
        /\ g[Len(g)].event <= appended
        /\ AsIntended(file) /\ Len(file) = 1 + RecordUnits * n => AsIntended(g)
    BY <1>1, <1>2, <1>3, WriteChained
  <1>5. Len(file) \in Nat /\ k \in Nat /\ Len(g) \in Nat  BY <1>1, <1>4
  <1>6. ~failed /\ k = Len(buffer) => Len(g) = 1 + RecordUnits * appended
    <2> SUFFICES ASSUME ~failed, k = Len(buffer) PROVE Len(g) = 1 + RecordUnits * appended
      OBVIOUS
    <2>1. Len(g) = (1 + RecordUnits * n) + RecordUnits * (appended - n)
      BY <1>3, <1>4
    <2>2. n \in Nat /\ appended \in Nat  BY <1>1, <1>2
    <2> QED  BY <2>1, <2>2 DEF RecordUnits
  <1> QED  BY <1>1, <1>3, <1>4, <1>5, <1>6

(* A step of the writer leaves what a reader has mapped and delivered valid. *)
LEMMA ReaderUntouched ==
    ASSUME JournalInv, reader' = reader, appended' \in Nat, appended <= appended',
           failed => failed'
    PROVE  ReaderSound' /\ DeliversWhatWasAppended'
  <1>1. appended \in Nat  BY DEF JournalInv, TypeOK
  <1>2. ASSUME reader.at # "idle" PROVE MappingSound' /\ ErrorsTell' /\ CleanRead'
    <2>1. MappingSound /\ ErrorsTell /\ CleanRead  BY <1>2 DEF JournalInv, ReaderSound
    <2>2. Chained(reader.mapped, appended')  BY <1>1, <2>1, ChainedMore DEF MappingSound
    <2>3. MappingSound'  BY <2>1, <2>2 DEF MappingSound, DeliveredBehind
    <2>4. ErrorsTell'  BY <2>1 DEF ErrorsTell, Left
    <2>5. CleanRead'  BY <2>1 DEF CleanRead, Left
    <2> QED  BY <2>3, <2>4, <2>5
  <1>3. ReaderSound'  BY <1>2 DEF ReaderSound, JournalInv
  <1>4. DeliversWhatWasAppended'
    <2>1. DeliversWhatWasAppended  BY DEF JournalInv
    <2> QED  BY <1>1, <2>1 DEF DeliversWhatWasAppended
  <1> QED  BY <1>3, <1>4

(* The file only grows, so that what is durable stays. *)
LEMMA SyncKept ==
    ASSUME JournalInv, synced' = synced, durable' = durable,
           file' \in Seq(Units), Len(file') >= synced,
           \A i \in 1 .. synced : file'[i] = file[i]
    PROVE  SyncSound'
  <1>1. SyncSound /\ synced \in Nat /\ durable \in Nat /\ file \in Seq(Units)
    BY DEF JournalInv, TypeOK
  <1>2. ASSUME durable > 0, NEW i \in 1 .. 1 + RecordUnits * durable
        PROVE  file'[i] = IntendedUnit(i)
    <2>1. i \in 1 .. synced  BY <1>1, <1>2 DEF SyncSound, RecordUnits
    <2> QED  BY <1>1, <1>2, <2>1 DEF SyncSound
  <1>3. Len(file') \in Nat  OBVIOUS
  <1> QED  BY <1>1, <1>2, <1>3 DEF SyncSound
LEMMA InitJournalInv == Init => JournalInv
  <1> SUFFICES ASSUME Init PROVE JournalInv  OBVIOUS
  <1> USE DEF Init, NoReader
  <1>e. <<>> \in Seq(Units) /\ <<>> \in Seq(Deliveries)  BY EmptySeq
  <1>1. TypeOK  BY <1>e DEF TypeOK
  <1>2. WriterSound  BY DEF WriterSound, Chained, AsIntended
  <1>3. SyncSound  BY DEF SyncSound
  <1>4. ReaderSound  BY DEF ReaderSound
  <1>5. DeliversWhatWasAppended  BY DEF DeliversWhatWasAppended
  <1> QED  BY <1>1, <1>2, <1>3, <1>4, <1>5 DEF JournalInv

LEMMA OpenInv == JournalInv /\ Open => JournalInv'
  <1> SUFFICES ASSUME JournalInv, Open PROVE JournalInv'  OBVIOUS
  <1> USE DEF Open
  <1>t. TypeOK /\ WriterSound /\ SyncSound  BY DEF JournalInv
  <1>h. /\ file' \in Seq(Units) /\ Len(file') = 1 /\ file'[1] = FileHeader /\ file' # <<>>
    <2>1. FileHeader \in Units  BY DEF FileHeader, Units, RecordUnits
    <2> QED  BY <2>1
  <1>a. appended = 0 /\ next_seq = 1 /\ ~failed /\ buffer = <<>>
    BY <1>t DEF WriterSound
  <1>1. TypeOK'  BY <1>t, <1>h DEF TypeOK
  <1>2. WriterSound'
    <2>1. Chained(file', 0)  BY <1>h DEF Chained
    <2>2. AsIntended(file')  BY <1>h DEF AsIntended, IntendedUnit
    <2>3. BufferedFrom(0)'
      BY <1>a, <1>h DEF BufferedFrom, FileHeader, RecordUnits
    <2> QED  BY <1>a, <1>h, <2>1, <2>2, <2>3 DEF WriterSound
  <1>3. SyncSound'
    <2>1. synced = 0  BY <1>t DEF SyncSound, TypeOK
    <2>2. Len(file') >= synced /\ \A i \in 1 .. synced : file'[i] = file[i]  BY <1>h, <2>1
    <2> QED  BY <1>h, <2>2, SyncKept
  <1>4. ReaderSound' /\ DeliversWhatWasAppended'
    <2>1. appended' \in Nat /\ appended <= appended'  BY <1>a
    <2> QED  BY <2>1, ReaderUntouched
  <1> QED  BY <1>1, <1>2, <1>3, <1>4 DEF JournalInv

(* What flush and close have in common. *)
LEMMA FlushedInv ==
    ASSUME JournalInv, fd = "open", \E k \in 0 .. Len(buffer) : Written(k), buffer' = <<>>,
           Fsync, fd' \in {"open", "closed"},
           UNCHANGED <<next_seq, appended, reader>>
    PROVE  JournalInv'
  <1>t. TypeOK /\ WriterSound /\ SyncSound /\ appended \in Nat
    BY DEF JournalInv, TypeOK
  <1>w. PICK k \in 0 .. Len(buffer) : Written(k)  OBVIOUS
  <1>f. file' = file \o Prefix(buffer, k) /\ failed' = (failed \/ k < Len(buffer))
    BY <1>w DEF Written
  <1>g. /\ file' \in Seq(Units) /\ file' # <<>> /\ Chained(file', appended)
        /\ file'[Len(file')].event <= appended
        /\ ~failed => AsIntended(file')
        /\ ~failed /\ k = Len(buffer) => Len(file') = 1 + RecordUnits * appended
        /\ Len(file') \in Nat /\ Len(file) <= Len(file') /\ synced <= Len(file')
        /\ \A i \in 1 .. Len(file) : file'[i] = file[i]
    BY <1>f, FileGrows
  <1>k. ~failed' => ~failed /\ k = Len(buffer)
    <2>1. Len(buffer) \in Nat  BY <1>t DEF TypeOK
    <2>2. k < Len(buffer) \/ k = Len(buffer)  BY <2>1
    <2> QED  BY <1>f, <2>2, Zenon
  <1>e. buffer' \in Seq(Units) /\ Len(buffer') = 0  BY EmptySeq
  <1>b. failed' \in BOOLEAN /\ (failed => failed')  BY <1>f
  <1>s. synced' \in Nat /\ (synced' = Len(file') \/ synced' = synced) /\ synced' <= Len(file')
    BY <1>t, <1>g DEF Fsync, Synced, TypeOK
  <1>1. TypeOK'
    <2>1. durable' \in Nat  BY <1>t DEF Fsync, TypeOK
    <2>2. sync_failed' \in BOOLEAN  BY <1>t DEF Fsync, TypeOK
    <2> QED  BY <1>t, <1>g, <1>e, <1>b, <1>s, <2>1, <2>2 DEF TypeOK
  <1>2. WriterSound'
    <2>1. ~failed' => AsIntended(file')  BY <1>g, <1>k
    <2>2. appended \in 0 .. appended /\ BufferedFrom(appended)'
      BY <1>t, <1>e, <1>g, <1>k DEF BufferedFrom, RecordUnits
    <2>3. next_seq' = appended' + 1  BY <1>t DEF WriterSound
    <2> QED  BY <1>g, <2>1, <2>2, <2>3 DEF WriterSound
  <1>3. SyncSound'
    <2>1. CASE Reached /\ ~failed'
      <3>1. AsIntended(file') /\ Len(file') = 1 + RecordUnits * appended
            /\ synced' = Len(file') /\ durable' = appended
        BY <1>g, <1>k, <2>1 DEF Fsync, Synced
      <3> QED  BY <1>t, <1>g, <3>1 DEF SyncSound, AsIntended
    <2>2. CASE ~(Reached /\ ~failed')
      <3>1. durable' = durable /\ synced' >= synced
        BY <1>t, <1>g, <1>s, <2>2 DEF Fsync, TypeOK
      <3>2. ASSUME durable > 0
            PROVE  /\ synced' >= 1 + RecordUnits * durable
                   /\ \A i \in 1 .. 1 + RecordUnits * durable : file'[i] = IntendedUnit(i)
        <4>1. /\ synced \in Nat /\ synced >= 1 + RecordUnits * durable /\ synced <= Len(file)
              /\ \A i \in 1 .. 1 + RecordUnits * durable : file[i] = IntendedUnit(i)
          BY <1>t, <3>2 DEF SyncSound, TypeOK
        <4>2. durable \in Nat /\ Len(file) \in Nat /\ synced' \in Nat
          BY <1>t, <1>s DEF TypeOK
        <4>3. ASSUME NEW i \in 1 .. 1 + RecordUnits * durable
              PROVE  file'[i] = IntendedUnit(i)
          <5>1. i \in 1 .. Len(file)  BY <4>1, <4>2 DEF RecordUnits
          <5> QED  BY <1>g, <4>1, <5>1
        <4> QED  BY <3>1, <4>1, <4>2, <4>3 DEF RecordUnits
      <3> QED  BY <1>s, <3>1, <3>2 DEF SyncSound
    <2> QED  BY <2>1, <2>2
  <1>4. ReaderSound' /\ DeliversWhatWasAppended'
    BY <1>t, <1>b, ReaderUntouched
  <1> QED  BY <1>1, <1>2, <1>3, <1>4 DEF JournalInv
LEMMA FlushInv == JournalInv /\ Flush => JournalInv'
  <1> SUFFICES ASSUME JournalInv, Flush PROVE JournalInv'  OBVIOUS
  <1>1. /\ fd = "open" /\ (\E k \in 0 .. Len(buffer) : Written(k)) /\ buffer' = <<>>
        /\ Fsync /\ fd' = "open"
        /\ UNCHANGED <<next_seq, appended, reader>>
    BY DEF Flush
  <1>2. fd' \in {"open", "closed"}  BY <1>1
  <1> QED  BY <1>1, <1>2, FlushedInv

LEMMA CloseInv == JournalInv /\ Close => JournalInv'
  <1> SUFFICES ASSUME JournalInv, Close PROVE JournalInv'  OBVIOUS
  <1>1. /\ fd = "open" /\ (\E k \in 0 .. Len(buffer) : Written(k)) /\ buffer' = <<>>
        /\ Fsync /\ fd' = "closed"
        /\ UNCHANGED <<next_seq, appended, reader>>
    BY DEF Close
  <1>2. fd' \in {"open", "closed"}  BY <1>1
  <1> QED  BY <1>1, <1>2, FlushedInv

LEMMA AppendInv == JournalInv /\ AppendEvent => JournalInv'
  <1> SUFFICES ASSUME JournalInv, AppendEvent PROVE JournalInv'  OBVIOUS
  <1>t. TypeOK /\ WriterSound /\ SyncSound /\ appended \in Nat /\ next_seq = appended + 1
        /\ buffer \in Seq(Units) /\ file \in Seq(Units) /\ synced \in Nat /\ fd = "open"
    BY DEF JournalInv, TypeOK, WriterSound, AppendEvent
  <1>a. /\ appended' = appended + 1 /\ next_seq' = appended' + 1
        /\ UNCHANGED <<fd, synced, sync_failed, durable, reader>>
    BY <1>t DEF AppendEvent
  <1>i. appended' \in Nat /\ appended <= appended' /\ next_seq' \in Nat  BY <1>t, <1>a
  <1> DEFINE b == Record(appended + 1, appended + 1)
  <1>b. /\ b \in Seq(Units) /\ Len(b) = RecordUnits
        /\ \A p \in 1 .. RecordUnits : b[p] = IntendedUnit(1 + RecordUnits * appended + p)
    BY <1>t, RecordUnitsOf
  <1>r. Record(appended', next_seq) = b  BY <1>t, <1>a
  <1> HIDE DEF b
  <1>1. CASE /\ \E k \in 0 .. Len(buffer) : Written(k)
             /\ buffer' = Record(appended', next_seq)
    <2>w. PICK k \in 0 .. Len(buffer) : Written(k)  BY <1>1
    <2>f. file' = file \o Prefix(buffer, k) /\ failed' = (failed \/ k < Len(buffer))
      BY <2>w DEF Written
    <2>g. /\ file' \in Seq(Units) /\ file' # <<>> /\ Chained(file', appended)
          /\ file'[Len(file')].event <= appended
          /\ ~failed => AsIntended(file')
          /\ ~failed /\ k = Len(buffer) => Len(file') = 1 + RecordUnits * appended
          /\ Len(file') \in Nat /\ Len(file) <= Len(file') /\ synced <= Len(file')
          /\ \A i \in 1 .. Len(file) : file'[i] = file[i]
      BY <1>t, <2>f, FileGrows
    <2>k. ~failed' => ~failed /\ k = Len(buffer)
      <3>1. Len(buffer) \in Nat  BY <1>t
      <3>2. k < Len(buffer) \/ k = Len(buffer)  BY <3>1
      <3> QED  BY <2>f, <3>2, Zenon
    <2>b. failed' \in BOOLEAN /\ (failed => failed')  BY <2>f
    <2>1. TypeOK'  BY <1>t, <1>a, <1>i, <1>b, <1>r, <1>1, <2>g, <2>b DEF TypeOK
    <2>2. WriterSound'
      <3>1. Chained(file', appended')  BY <1>t, <1>i, <2>g, ChainedMore
      <3>0. PICK m \in 0 .. appended' : m = appended  BY <1>t, <1>i
      <3>2. BufferedFrom(m)'
        <4>1. buffer' = b /\ appended' - m = 1  BY <1>t, <1>a, <1>r, <1>1, <3>0
        <4>2. Len(buffer') = RecordUnits * (appended' - m)  BY <1>b, <4>1 DEF RecordUnits
        <4>3. \A j \in 1 .. Len(buffer') : buffer'[j] = IntendedUnit(1 + RecordUnits * m + j)
          BY <1>b, <3>0, <4>1
        <4> QED  BY <2>g, <2>k, <3>0, <4>2, <4>3 DEF BufferedFrom
      <3> QED  BY <1>t, <1>a, <2>g, <2>k, <3>0, <3>1, <3>2 DEF WriterSound
    <2>3. SyncSound'
      <3>1. \A i \in 1 .. synced : file'[i] = file[i]
        BY <1>t, <2>g DEF SyncSound
      <3> QED  BY <1>t, <1>a, <2>g, <3>1, SyncKept
    <2>4. ReaderSound' /\ DeliversWhatWasAppended'
      BY <1>a, <1>i, <2>b, ReaderUntouched
    <2> QED  BY <2>1, <2>2, <2>3, <2>4 DEF JournalInv
  <1>2. CASE /\ buffer' = buffer \o Record(appended', next_seq)
             /\ UNCHANGED <<file, failed>>
    <2>n. PICK n \in 0 .. appended : BufferedFrom(n)  BY <1>t DEF WriterSound
    <2>c. /\ buffer' \in Seq(Units) /\ Len(buffer') = Len(buffer) + RecordUnits
          /\ \A i \in 1 .. Len(buffer) + RecordUnits :
                buffer'[i] = IF i <= Len(buffer) THEN buffer[i] ELSE b[i - Len(buffer)]
      <3>1. buffer' = buffer \o b  BY <1>r, <1>2
      <3>2. /\ buffer \o b \in Seq(Units) /\ Len(buffer \o b) = Len(buffer) + Len(b)
            /\ \A i \in 1 .. Len(buffer) + Len(b) :
                 (buffer \o b)[i] = IF i <= Len(buffer) THEN buffer[i] ELSE b[i - Len(buffer)]
        BY <1>t, <1>b, ConcatProperties
      <3> QED  BY <1>b, <3>1, <3>2
    <2>1. TypeOK'  BY <1>t, <1>a, <1>i, <1>2, <2>c DEF TypeOK
    <2>2. BufferedFrom(n)'
      <3>1. /\ Len(buffer) = RecordUnits * (appended - n) /\ Len(buffer) \in Nat
            /\ n \in Nat /\ file[Len(file)].event <= n
            /\ ~failed => Len(file) = 1 + RecordUnits * n
        BY <1>t, <2>n DEF BufferedFrom
      <3>2. Len(buffer') = RecordUnits * (appended' - n)
        <4>1. /\ appended' = appended + 1 /\ appended \in Nat
              /\ Len(buffer') = Len(buffer) + RecordUnits
          BY <1>t, <1>a, <2>c
        <4>2. Len(buffer) = RecordUnits * (appended - n) /\ n \in Nat  BY <3>1
        <4> QED  BY <4>1, <4>2 DEF RecordUnits
      <3>3. ASSUME NEW j \in 1 .. Len(buffer')
            PROVE  buffer'[j] = IntendedUnit(1 + RecordUnits * n + j)
        <4>1. CASE j <= Len(buffer)
          <5>1. j \in 1 .. Len(buffer) + RecordUnits /\ j \in 1 .. Len(buffer)
            BY <2>c, <3>1, <4>1 DEF RecordUnits
          <5> QED  BY <2>c, <2>n, <4>1, <5>1 DEF BufferedFrom
        <4>2. CASE j > Len(buffer)
          <5> DEFINE p == j - Len(buffer)
          <5>1. /\ j \in 1 .. Len(buffer) + RecordUnits /\ ~(j <= Len(buffer))
                /\ p \in 1 .. RecordUnits
            BY <2>c, <3>1, <4>2 DEF RecordUnits
          <5>2. 1 + RecordUnits * n + j = 1 + RecordUnits * appended + p
            <6>1. Len(buffer) = RecordUnits * (appended - n) /\ n \in Nat /\ appended \in Nat
                  /\ j \in Nat /\ p = j - Len(buffer)
              BY <1>t, <3>1, <5>1
            <6> HIDE DEF p
            <6> QED  BY <6>1 DEF RecordUnits
          <5>3. buffer'[j] = b[p]  BY <2>c, <5>1
          <5> HIDE DEF p
          <5> QED  BY <1>b, <5>1, <5>2, <5>3
        <4>3. j \in Nat /\ Len(buffer) \in Nat  BY <2>c, <3>1
        <4> QED  BY <4>1, <4>2, <4>3
      <3> QED  BY <1>2, <3>1, <3>2, <3>3 DEF BufferedFrom
    <2>3. WriterSound'
      <3>1. Chained(file', appended')
        BY <1>t, <1>i, <1>2, ChainedMore DEF WriterSound
      <3>2. n \in 0 .. appended'
        <4>1. n \in Nat /\ n <= appended  BY <1>t, <2>n
        <4> QED  BY <1>t, <1>i, <4>1
      <3> QED  BY <1>t, <1>a, <1>2, <2>2, <3>1, <3>2 DEF WriterSound
    <2>4. SyncSound'  BY <1>t, <1>a, <1>2 DEF SyncSound
    <2>5. ReaderSound' /\ DeliversWhatWasAppended'
      BY <1>a, <1>i, <1>2, ReaderUntouched
    <2> QED  BY <2>1, <2>3, <2>4, <2>5 DEF JournalInv
  <1> QED  BY <1>1, <1>2 DEF AppendEvent

LEMMA CrashInv == JournalInv /\ Crash => JournalInv'
  <1> SUFFICES ASSUME JournalInv, Crash PROVE JournalInv'  OBVIOUS
  <1>t. TypeOK /\ WriterSound /\ SyncSound /\ appended \in Nat /\ synced \in Nat
        /\ file \in Seq(Units)
    BY DEF JournalInv, TypeOK
  <1>c. /\ fd = "open" /\ fd' = "closed" /\ buffer' = <<>>
        /\ UNCHANGED <<next_seq, synced, appended, failed, sync_failed, durable, reader>>
    BY DEF Crash
  <1>k. PICK k \in 0 .. Len(buffer) : file' = file \o Prefix(buffer, k)  BY DEF Crash
  <1>g. /\ file' \in Seq(Units) /\ file' # <<>> /\ Chained(file', appended)
        /\ ~failed => AsIntended(file')
        /\ Len(file') \in Nat /\ Len(file) <= Len(file') /\ synced <= Len(file')
        /\ \A i \in 1 .. Len(file) : file'[i] = file[i]
    BY <1>c, <1>k, FileGrows
  <1>1. TypeOK'  BY <1>t, <1>c, <1>g, EmptySeq DEF TypeOK
  <1>2. WriterSound'  BY <1>t, <1>c, <1>g DEF WriterSound
  <1>3. SyncSound'
    <2>1. \A i \in 1 .. synced : file'[i] = file[i]  BY <1>t, <1>g DEF SyncSound
    <2> QED  BY <1>t, <1>c, <1>g, <2>1, SyncKept
  <1>4. ReaderSound' /\ DeliversWhatWasAppended'  BY <1>t, <1>c, ReaderUntouched
  <1> QED  BY <1>1, <1>2, <1>3, <1>4 DEF JournalInv

LEMMA PowerLossInv == JournalInv /\ PowerLoss => JournalInv'
  <1> SUFFICES ASSUME JournalInv, PowerLoss PROVE JournalInv'  OBVIOUS
  <1>t. TypeOK /\ WriterSound /\ SyncSound /\ appended \in Nat /\ synced \in Nat
        /\ file \in Seq(Units) /\ Chained(file, appended)
    BY DEF JournalInv, TypeOK, WriterSound
  <1>k. PICK k \in synced .. Len(file) : file' = Prefix(file, k)  BY DEF PowerLoss
  <1>p. /\ fd' = "closed" /\ buffer' = <<>> /\ reader' = NoReader
        /\ next_seq' = (IF file' = <<>> THEN 1 ELSE next_seq)
        /\ appended' = (IF file' = <<>> THEN 0 ELSE appended)
        /\ failed' = (failed /\ file' # <<>>) /\ sync_failed' = FALSE
        /\ UNCHANGED <<synced, durable>>
    BY DEF PowerLoss
  <1>g. /\ file' \in Seq(Units) /\ Len(file') = k
        /\ \A i \in 1 .. k : file'[i] = file[i]
        /\ Chained(file', appended)
        /\ AsIntended(file) => AsIntended(file')
    <2>1. k \in 0 .. Len(file)  BY <1>t, <1>k
    <2> QED  BY <1>t, <1>k, <2>1, PrefixChained
  <1>e. <<>> \in Seq(Units) /\ <<>> \in Seq(Deliveries)  BY EmptySeq
  <1>1. TypeOK'
    <2>1. appended' \in Nat /\ next_seq' \in Nat  BY <1>t, <1>p DEF TypeOK
    <2>2. failed' \in BOOLEAN  BY <1>p
    <2>3. reader' \in [mapped : Seq(Units), off : Nat, at : {"idle", "reading", "limit", "done"},
                       limit : Nat, delivered : Seq(Deliveries), had_error : BOOLEAN,
                       crc_failures : Nat]
      BY <1>p, <1>e DEF NoReader
    <2> QED  BY <1>t, <1>p, <1>g, <1>e, <2>1, <2>2, <2>3 DEF TypeOK
  <1>2. WriterSound'
    <2>1. Chained(file', appended')  BY <1>p, <1>g DEF Chained
    <2>2. next_seq' = appended' + 1  BY <1>t, <1>p DEF WriterSound
    <2>3. ~failed' => AsIntended(file')
      <3>1. CASE file' = <<>>
        <4>1. Len(file') = 0  BY <3>1, EmptySeq
        <4> QED  BY <4>1 DEF AsIntended
      <3>2. CASE file' # <<>>
        <4>1. ~failed' => ~failed  BY <1>p, <3>2, Zenon
        <4> QED  BY <1>t, <1>g, <4>1 DEF WriterSound
      <3> QED  BY <3>1, <3>2
    <2>4. file' = <<>> => appended' = 0 /\ ~failed'  BY <1>p, Zenon
    <2> QED  BY <1>p, <2>1, <2>2, <2>3, <2>4 DEF WriterSound
  <1>3. SyncSound'
    <2>1. Len(file') >= synced /\ \A i \in 1 .. synced : file'[i] = file[i]
      BY <1>t, <1>k, <1>g
    <2> QED  BY <1>p, <1>g, <2>1, SyncKept
  <1>4. ReaderSound'  BY <1>p DEF ReaderSound, NoReader
  <1>5. DeliversWhatWasAppended'
    <2>1. reader'.delivered = <<>>  BY <1>p DEF NoReader
    <2> QED  BY <2>1 DEF DeliversWhatWasAppended
  <1> QED  BY <1>1, <1>2, <1>3, <1>4, <1>5 DEF JournalInv
------------------------------------------------------------------------------
(* The reader's steps. *)

ReaderStates ==
    [mapped : Seq(Units), off : Nat, at : {"idle", "reading", "limit", "done"}, limit : Nat,
     delivered : Seq(Deliveries), had_error : BOOLEAN, crc_failures : Nat]

(* A reader's step leaves the writer alone. *)
LEMMA WriterUntouched ==
    ASSUME JournalInv,
           UNCHANGED <<fd, buffer, next_seq, file, synced, appended, failed, sync_failed, durable>>
    PROVE  WriterSound' /\ SyncSound' /\ (reader' \in ReaderStates => TypeOK')
  <1>1. WriterSound'
    BY DEF JournalInv, WriterSound, BufferedFrom
  <1>2. SyncSound'  BY DEF JournalInv, SyncSound
  <1>3. reader' \in ReaderStates => TypeOK'  BY DEF JournalInv, TypeOK, ReaderStates
  <1> QED  BY <1>1, <1>2, <1>3

LEMMA OpenReaderInv == JournalInv /\ OpenReader => JournalInv'
  <1> SUFFICES ASSUME JournalInv, OpenReader PROVE JournalInv'  OBVIOUS
  <1>u. UNCHANGED <<fd, buffer, next_seq, file, synced, appended, failed, sync_failed, durable>>
    BY DEF OpenReader
  <1>w. WriterSound' /\ SyncSound' /\ (reader' \in ReaderStates => TypeOK')
    BY <1>u, WriterUntouched
  <1>t. file \in Seq(Units) /\ file # <<>> /\ Chained(file, appended)
        /\ (~failed => AsIntended(file)) /\ Len(file) \in Nat \ {0}
    BY EmptySeq DEF JournalInv, TypeOK, WriterSound, OpenReader
  <1>l. PICK limit \in Limits :
            reader' = [reader EXCEPT !.mapped = file, !.off = 1, !.at = "reading",
                                     !.limit = limit]
    BY DEF OpenReader
  <1>r. reader = NoReader  BY DEF JournalInv, ReaderSound, OpenReader
  <1>f. reader' = [mapped |-> file, off |-> 1, at |-> "reading", limit |-> limit,
                   delivered |-> <<>>, had_error |-> FALSE, crc_failures |-> 0]
    BY <1>l, <1>r DEF NoReader
  <1>e. Len(<<>>) = 0 /\ <<>> \in Seq(Deliveries)  BY EmptySeq
  <1>1. TypeOK'
    <2>1. limit \in Nat  BY JournalAssumption
    <2>2. reader' \in ReaderStates  BY <1>f, <1>t, <1>e, <2>1 DEF ReaderStates
    <2> QED  BY <1>w, <2>2
  <1>2. MappingSound'
    BY <1>t, <1>f, <1>u DEF MappingSound, DeliveredBehind
  <1>3. ErrorsTell'  BY <1>f, <1>e DEF ErrorsTell, RecordUnits
  <1>4. CleanRead'  BY <1>f, <1>e DEF CleanRead, RecordUnits
  <1>5. DeliversWhatWasAppended'  BY <1>f, <1>e DEF DeliversWhatWasAppended
  <1>6. ReaderSound'  BY <1>f, <1>2, <1>3, <1>4 DEF ReaderSound
  <1> QED  BY <1>w, <1>1, <1>5, <1>6 DEF JournalInv

(* What is known of the reader in a turn of its loop. *)
LEMMA InTurn ==
    ASSUME JournalInv, reader.at = "reading"
    PROVE  /\ reader \in ReaderStates /\ appended \in Nat
           /\ MappingSound /\ ErrorsTell /\ CleanRead /\ DeliversWhatWasAppended
           /\ Len(reader.mapped) \in Nat /\ Len(reader.delivered) \in Nat
           /\ reader.off \in Nat /\ reader.off >= 1
           /\ Left \in Nat /\ reader.off + Left = Len(reader.mapped)
  <1>1. reader \in ReaderStates /\ appended \in Nat /\ DeliversWhatWasAppended
    BY DEF JournalInv, TypeOK, ReaderStates
  <1>2. MappingSound /\ ErrorsTell /\ CleanRead  BY DEF JournalInv, ReaderSound
  <1>3. Len(reader.mapped) \in Nat /\ Len(reader.delivered) \in Nat /\ reader.off \in Nat
    BY <1>1 DEF ReaderStates
  <1>4. reader.off \in 1 .. Len(reader.mapped)  BY <1>2 DEF MappingSound
  <1> QED  BY <1>1, <1>2, <1>3, <1>4 DEF Left

(* The units of a chain never go back in events, and a second unit comes       *)
(* behind the first of its record.                                           *)
LEMMA ChainedUnits ==
    ASSUME JournalInv, reader.at = "reading", NEW i \in 1 .. Left
    PROVE  /\ Unit(i) \in Units /\ Unit(i - 1) \in Units
           /\ Follows(Unit(i - 1), Unit(i), appended)
           /\ Unit(i).event >= Unit(i - 1).event
  <1>1. /\ reader \in ReaderStates /\ appended \in Nat /\ MappingSound
        /\ Len(reader.mapped) \in Nat /\ reader.off \in Nat /\ reader.off >= 1
        /\ Left \in Nat /\ reader.off + Left = Len(reader.mapped)
    BY InTurn
  <1> DEFINE j == reader.off + i
  <1>2. j \in 2 .. Len(reader.mapped) /\ j - 1 = reader.off + (i - 1)
        /\ j \in 1 .. Len(reader.mapped) /\ j - 1 \in 1 .. Len(reader.mapped)
    BY <1>1
  <1>3. reader.mapped \in Seq(Units) /\ Chained(reader.mapped, appended)
        /\ reader.mapped # <<>>
    BY <1>1 DEF ReaderStates, MappingSound
  <1>4. Unit(i) = reader.mapped[j] /\ Unit(i - 1) = reader.mapped[j - 1]
    BY <1>2 DEF Unit
  <1>5. Unit(i) \in Units /\ Unit(i - 1) \in Units  BY <1>2, <1>3, <1>4
  <1>6. Follows(Unit(i - 1), Unit(i), appended)  BY <1>2, <1>3, <1>4 DEF Chained
  <1>7. Unit(i).event >= Unit(i - 1).event  BY <1>5, <1>6 DEF Follows, Units
  <1> QED  BY <1>5, <1>6, <1>7
(* The next record of a file that journal_diff finds identical to the intended *)
(* one.                                                                       *)
LEMMA CleanRecord ==
    ASSUME NEW units \in Seq(Units), NEW n \in Nat,
           Identical(units, Intended(CatalogCount(units))),
           Len(units) - (1 + RecordUnits * n) >= RecordUnits
    PROVE  \A p \in 1 .. RecordUnits : units[1 + RecordUnits * n + p] =
                                          [event |-> n + 1, seq |-> n + 1, part |-> p]
  <1> DEFINE c == CatalogCount(units)
  <1>1. c \in Int /\ c >= n + 1  BY DEF CatalogCount, RecordUnits
  <1>2. \A i \in 2 .. 1 + RecordUnits * c : units[i] = Intended(c)[i]
    BY DEF Identical
  <1> HIDE DEF c
  <1>3. ASSUME NEW i \in 2 .. 1 + RecordUnits * c PROVE units[i] = IntendedUnit(i)
    <2>1. i \in 1 .. 1 + RecordUnits * c  BY <1>1 DEF RecordUnits
    <2> QED  BY <1>2, <2>1 DEF Intended
  <1>4. ASSUME NEW p \in 1 .. RecordUnits
        PROVE  units[1 + RecordUnits * n + p] = [event |-> n + 1, seq |-> n + 1, part |-> p]
    <2>1. 1 + RecordUnits * n + p \in 2 .. 1 + RecordUnits * c  BY <1>1 DEF RecordUnits
    <2>2. IntendedUnit(1 + RecordUnits * n + p) = [event |-> n + 1, seq |-> n + 1, part |-> p]
      BY IntendedAt
    <2> QED  BY <1>3, <2>1, <2>2
  <1> QED  BY <1>4

(* A turn meets no error in a clean file as long as a record is left. *)
LEMMA CleanTurn ==
    ASSUME JournalInv, reader.at = "reading", Left >= RecordUnits,
           Identical(reader.mapped, Intended(CatalogCount(reader.mapped)))
    PROVE  /\ LengthFits /\ CrcFits
           /\ Unit(RecordUnits).event = Len(reader.delivered) + 1
           /\ Unit(1).seq = Len(reader.delivered) + 1
  <1> DEFINE n == Len(reader.delivered)
  <1>1. /\ reader \in ReaderStates /\ CleanRead /\ n \in Nat
        /\ Len(reader.mapped) \in Nat /\ reader.off \in Nat
        /\ Left \in Nat /\ reader.off + Left = Len(reader.mapped)
    BY InTurn
  <1>2. reader.off = 1 + RecordUnits * n /\ reader.mapped \in Seq(Units)
    BY <1>1 DEF CleanRead, ReaderStates
  <1>3. Len(reader.mapped) - (1 + RecordUnits * n) >= RecordUnits
    BY <1>1, <1>2 DEF RecordUnits
  <1> HIDE DEF n
  <1>4. \A p \in 1 .. RecordUnits : reader.mapped[1 + RecordUnits * n + p] =
                                       [event |-> n + 1, seq |-> n + 1, part |-> p]
    BY <1>1, <1>2, <1>3, CleanRecord
  <1>5. \A p \in 1 .. RecordUnits : Unit(p) = [event |-> n + 1, seq |-> n + 1, part |-> p]
    BY <1>2, <1>4 DEF Unit
  <1>6. 1 \in 1 .. RecordUnits /\ HeaderUnits \in 1 .. RecordUnits
        /\ RecordUnits \in 1 .. RecordUnits
        /\ \A p \in HeaderUnits + 1 .. RecordUnits : p \in 1 .. RecordUnits
    BY DEF RecordUnits, HeaderUnits
  <1>7. LengthFits  BY <1>5, <1>6 DEF LengthFits
  <1>8. CrcFits  BY <1>5, <1>6 DEF CrcFits
  <1> QED  BY <1>5, <1>6, <1>7, <1>8 DEF n

(* The loop of next ends, or an error inside a record ends it. *)
LEMMA StopInv ==
    ASSUME JournalInv, reader.at = "reading", NEW err \in BOOLEAN, NEW n \in {0, 1},
           UNCHANGED <<fd, buffer, next_seq, file, synced, appended, failed, sync_failed, durable>>,
           reader' = Stop(err, n),
           \/ Left < HeaderUnits /\ (err <=> Left > 0) /\ n = 0
           \/ /\ Left >= HeaderUnits /\ (~LengthFits \/ Left < RecordUnits)
              /\ err /\ n = 1
    PROVE  JournalInv'
  <1>w. WriterSound' /\ SyncSound' /\ (reader' \in ReaderStates => TypeOK')
    BY WriterUntouched
  <1>t. /\ reader \in ReaderStates /\ appended \in Nat
        /\ MappingSound /\ ErrorsTell /\ CleanRead /\ DeliversWhatWasAppended
        /\ Len(reader.mapped) \in Nat /\ Len(reader.delivered) \in Nat
        /\ reader.off \in Nat /\ reader.off >= 1
        /\ Left \in Nat /\ reader.off + Left = Len(reader.mapped)
    BY InTurn
  <1>f. /\ reader'.mapped = reader.mapped /\ reader'.off = reader.off
        /\ reader'.delivered = reader.delivered /\ reader'.at = "done"
        /\ reader'.had_error = (reader.had_error \/ err)
        /\ reader'.crc_failures = reader.crc_failures + n
    BY <1>t DEF Stop, ReaderStates
  <1>l. Left' = Left  BY <1>f DEF Left
  <1>1. reader' \in ReaderStates
    <2>1. (reader.had_error \/ err) \in BOOLEAN  OBVIOUS
    <2>2. reader.crc_failures + n \in Nat  BY <1>t DEF ReaderStates
    <2> DEFINE e == reader.had_error \/ err
               m == reader.crc_failures + n
    <2>3. reader' = [reader EXCEPT !.at = "done", !.had_error = e, !.crc_failures = m]
      BY DEF Stop
    <2> HIDE DEF e, m
    <2>4. e \in BOOLEAN /\ m \in Nat  BY <2>1, <2>2 DEF e, m
    <2> QED  BY <1>t, <2>3, <2>4 DEF ReaderStates
  <1>2. MappingSound'  BY <1>t, <1>f DEF MappingSound, DeliveredBehind
  <1>3. ErrorsTell'
    <2>1. CASE Left < HeaderUnits /\ (err <=> Left > 0) /\ n = 0
      <3>1. ~reader'.had_error => ~reader.had_error /\ ~err  BY <1>f, Zenon
      <3>2. reader'.crc_failures = reader.crc_failures
        BY <1>t, <1>f, <2>1 DEF ReaderStates
      <3> QED  BY <1>t, <1>f, <1>l, <2>1, <3>1, <3>2 DEF ErrorsTell
    <2>2. CASE err /\ n = 1
      <3>1. reader'.had_error  BY <1>f, <2>2, Zenon
      <3>2. reader'.crc_failures # 0  BY <1>t, <1>f, <2>2 DEF ReaderStates
      <3> QED  BY <3>1, <3>2 DEF ErrorsTell
    <2> QED  BY <2>1, <2>2
  <1>4. CleanRead'
    <2> SUFFICES ASSUME Identical(reader.mapped, Intended(CatalogCount(reader.mapped)))
                 PROVE  /\ reader.off = 1 + RecordUnits * Len(reader.delivered)
                        /\ \A i \in 1 .. Len(reader.delivered) :
                              reader.delivered[i] = [event |-> i, seq |-> i]
                        /\ Left < RecordUnits
                        /\ reader'.had_error => Left > 0
      BY <1>f, <1>l DEF CleanRead
    <2>1. /\ reader.off = 1 + RecordUnits * Len(reader.delivered)
          /\ \A i \in 1 .. Len(reader.delivered) :
                reader.delivered[i] = [event |-> i, seq |-> i]
          /\ ~reader.had_error
      BY <1>t DEF CleanRead
    <2>2. Left < RecordUnits
      <3>1. Left >= RecordUnits => LengthFits  BY CleanTurn
      <3> QED  BY <1>t, <3>1 DEF RecordUnits, HeaderUnits
    <2>3. reader'.had_error => err  BY <1>f, <2>1, Zenon
    <2>4. err => Left > 0  BY <1>t DEF HeaderUnits
    <2> QED  BY <2>1, <2>2, <2>3, <2>4
  <1>5. DeliversWhatWasAppended'  BY <1>t, <1>f DEF DeliversWhatWasAppended
  <1>6. ReaderSound'  BY <1>f, <1>2, <1>3, <1>4 DEF ReaderSound
  <1> QED  BY <1>w, <1>1, <1>5, <1>6 DEF JournalInv
(* Nothing before a whole record's end is later than its last unit. *)
LEMMA TurnOver ==
    ASSUME JournalInv, reader.at = "reading", Left >= RecordUnits
    PROVE  /\ \A i \in 0 .. RecordUnits : Unit(i) \in Units
           /\ Unit(RecordUnits).event >= Unit(0).event
           /\ \A i \in 1 .. RecordUnits : Follows(Unit(i - 1), Unit(i), appended)
  <1> USE DEF RecordUnits
  <1>1. Left \in Nat  BY InTurn
  <1>2. \A i \in 1 .. 4 : i \in 1 .. Left  BY <1>1
  <1>3. ASSUME NEW i \in 1 .. 4
        PROVE  /\ Unit(i) \in Units /\ Unit(i - 1) \in Units
               /\ Follows(Unit(i - 1), Unit(i), appended)
               /\ Unit(i).event >= Unit(i - 1).event
    BY <1>2, ChainedUnits
  <1>4. 1 \in 1 .. 4 /\ 2 \in 1 .. 4 /\ 3 \in 1 .. 4 /\ 4 \in 1 .. 4
        /\ 1 - 1 = 0 /\ 2 - 1 = 1 /\ 3 - 1 = 2 /\ 4 - 1 = 3
    OBVIOUS
  <1>5. Unit(0) \in Units /\ Unit(1) \in Units /\ Unit(2) \in Units /\ Unit(3) \in Units
        /\ Unit(4) \in Units
    BY <1>3, <1>4
  <1>6. Unit(1).event >= Unit(0).event /\ Unit(2).event >= Unit(1).event
        /\ Unit(3).event >= Unit(2).event /\ Unit(4).event >= Unit(3).event
    BY <1>3, <1>4
  <1>7. Unit(4).event >= Unit(0).event  BY <1>5, <1>6 DEF Units
  <1>8. \A i \in 0 .. 4 : i = 0 \/ i = 1 \/ i = 2 \/ i = 3 \/ i = 4  OBVIOUS
  <1> QED  BY <1>3, <1>5, <1>7, <1>8

(* A record whose CRC does not fit its payload is passed over. *)
LEMMA PassOverInv ==
    ASSUME JournalInv, reader.at = "reading", Left >= RecordUnits, ~CrcFits,
           UNCHANGED <<fd, buffer, next_seq, file, synced, appended, failed, sync_failed, durable>>,
           reader' = [reader EXCEPT !.off = @ + RecordUnits, !.had_error = TRUE,
                                    !.crc_failures = @ + 1]
    PROVE  JournalInv'
  <1>w. WriterSound' /\ SyncSound' /\ (reader' \in ReaderStates => TypeOK')
    BY WriterUntouched
  <1>t. /\ reader \in ReaderStates /\ appended \in Nat
        /\ MappingSound /\ ErrorsTell /\ CleanRead /\ DeliversWhatWasAppended
        /\ Len(reader.mapped) \in Nat /\ Len(reader.delivered) \in Nat
        /\ reader.off \in Nat /\ reader.off >= 1
        /\ Left \in Nat /\ reader.off + Left = Len(reader.mapped)
    BY InTurn
  <1>f. /\ reader'.mapped = reader.mapped /\ reader'.off = reader.off + RecordUnits
        /\ reader'.delivered = reader.delivered /\ reader'.at = "reading"
        /\ reader'.had_error = TRUE
        /\ reader'.crc_failures = reader.crc_failures + 1
    BY <1>t DEF ReaderStates
  <1>n. reader.off + RecordUnits \in Nat /\ reader.crc_failures + 1 \in Nat
        /\ reader.crc_failures \in Nat
    BY <1>t DEF ReaderStates, RecordUnits
  <1>1. reader' \in ReaderStates
    <2> DEFINE o == reader.off + RecordUnits
               m == reader.crc_failures + 1
    <2>1. reader' = [reader EXCEPT !.off = o, !.had_error = TRUE, !.crc_failures = m]
      OBVIOUS
    <2>2. o \in Nat /\ m \in Nat  BY <1>n
    <2> HIDE DEF o, m
    <2> QED  BY <1>t, <2>1, <2>2 DEF ReaderStates
  <1>2. MappingSound'
    <2>1. reader'.off \in 1 .. Len(reader.mapped)  BY <1>t, <1>f DEF RecordUnits
    <2>2. DeliveredBehind'
      <3> SUFFICES ASSUME reader.delivered # <<>>
                   PROVE  reader.delivered[Len(reader.delivered)].event <= Unit(RecordUnits).event
        BY <1>f DEF DeliveredBehind, Unit
      <3>1. reader.delivered[Len(reader.delivered)].event <= Unit(0).event
        <4>1. reader.off + 0 = reader.off  BY <1>t
        <4> QED  BY <1>t, <4>1 DEF MappingSound, DeliveredBehind, Unit
      <3>2. Unit(RecordUnits).event >= Unit(0).event /\ Unit(0) \in Units
            /\ Unit(RecordUnits) \in Units
        BY TurnOver DEF RecordUnits
      <3>3. reader.delivered[Len(reader.delivered)] \in Deliveries
        BY <1>t, EmptySeq DEF ReaderStates
      <3> QED  BY <3>1, <3>2, <3>3 DEF Units, Deliveries
    <2> QED  BY <1>t, <1>f, <2>1, <2>2 DEF MappingSound
  <1>3. ErrorsTell'  BY <1>f, <1>n DEF ErrorsTell
  <1>4. CleanRead'
    <2>1. ~Identical(reader.mapped, Intended(CatalogCount(reader.mapped)))  BY CleanTurn
    <2> QED  BY <1>f, <2>1 DEF CleanRead
  <1>5. DeliversWhatWasAppended'  BY <1>t, <1>f DEF DeliversWhatWasAppended
  <1>6. ReaderSound'  BY <1>f, <1>2, <1>3, <1>4 DEF ReaderSound
  <1> QED  BY <1>w, <1>1, <1>5, <1>6 DEF JournalInv

(* Only the first unit of a file is a file header. *)
LEMMA NoHeaderBehind ==
    ASSUME NEW u \in Units, NEW w, NEW n, Follows(u, w, n)
    PROVE  w.part # 0
  BY DEF Follows, Units, RecordUnits

(* The units of a record that fits are of one event, that no unit before it    *)
(* has.                                                                       *)
LEMMA FittingRecord ==
    ASSUME JournalInv, reader.at = "reading", Left >= RecordUnits, LengthFits, CrcFits
    PROVE  /\ Unit(0) \in Units /\ Unit(1) \in Units /\ Unit(4) \in Units
           /\ Unit(4).event = Unit(1).event /\ Unit(1).event > Unit(0).event
           /\ Unit(1).seq = Unit(1).event /\ Unit(1).event \in 1 .. appended
  <1>t. /\ reader \in ReaderStates /\ appended \in Nat /\ MappingSound
        /\ Len(reader.mapped) \in Nat /\ reader.off \in Nat /\ reader.off >= 1
        /\ Left \in Nat /\ reader.off + Left = Len(reader.mapped)
    BY InTurn
  <1>c. /\ \A i \in 0 .. RecordUnits : Unit(i) \in Units
        /\ \A i \in 1 .. RecordUnits : Follows(Unit(i - 1), Unit(i), appended)
    BY TurnOver
  <1>u. /\ Unit(0) \in Units /\ Unit(1) \in Units /\ Unit(2) \in Units /\ Unit(4) \in Units
        /\ Follows(Unit(0), Unit(1), appended) /\ Follows(Unit(1), Unit(2), appended)
        /\ Follows(Unit(3), Unit(4), appended)
    <2>1. 0 \in 0 .. 4 /\ 1 \in 0 .. 4 /\ 2 \in 0 .. 4 /\ 4 \in 0 .. 4
          /\ 1 \in 1 .. 4 /\ 2 \in 1 .. 4 /\ 4 \in 1 .. 4
          /\ 1 - 1 = 0 /\ 2 - 1 = 1 /\ 4 - 1 = 3
      OBVIOUS
    <2> QED  BY <1>c, <2>1 DEF RecordUnits
  <1>p. Unit(2).part = 2 /\ Unit(4).event = Unit(2).event
    <2>1. 4 \in HeaderUnits + 1 .. RecordUnits  BY DEF HeaderUnits, RecordUnits
    <2> QED  BY <2>1 DEF LengthFits, CrcFits, HeaderUnits
  <1>4. Unit(1).part = 1 /\ Unit(1).event = Unit(2).event
    BY <1>u, <1>p DEF Follows, Units, RecordUnits
  <1>5. Unit(1).seq = Unit(1).event /\ Unit(1).event \in 1 .. appended
    BY <1>u DEF Follows
  <1>6. Unit(1).event > Unit(0).event
    <2>1. CASE Unit(1).part = Unit(0).part + 1 /\ Unit(1).event = Unit(0).event
      <3>1. Unit(0).part = 0  BY <1>4, <1>u, <2>1 DEF Units, RecordUnits
      <3>2. Unit(0).event = 0
        <4>1. reader.off = 1
          <5> SUFFICES ASSUME reader.off # 1 PROVE FALSE  OBVIOUS
          <5>1. reader.off \in 2 .. Len(reader.mapped)  BY <1>t
          <5>2. reader.off - 1 \in 1 .. Len(reader.mapped)  BY <5>1, <1>t
          <5>3. reader.mapped \in Seq(Units) /\ reader.mapped[reader.off - 1] \in Units
            BY <1>t, <5>2 DEF ReaderStates
          <5>4. Follows(reader.mapped[reader.off - 1], reader.mapped[reader.off], appended)
            BY <1>t, <5>1 DEF MappingSound, Chained
          <5>5. Unit(0) = reader.mapped[reader.off]  BY <1>t DEF Unit
          <5> QED  BY <3>1, <5>3, <5>4, <5>5, NoHeaderBehind
        <4>2. Unit(0) = FileHeader
          BY <1>t, <4>1 DEF MappingSound, Chained, Unit
        <4> QED  BY <4>2 DEF FileHeader
      <3> QED  BY <1>t, <1>5, <2>1, <3>2
    <2>2. CASE Unit(1).event > Unit(0).event  BY <2>2
    <2> QED  BY <1>u, <2>1, <2>2 DEF Follows
  <1> QED  BY <1>u, <1>p, <1>4, <1>5, <1>6

(* Deliveries of appended events, in order. *)
Ordered(d, a) ==
    /\ \A i \in 1 .. Len(d) : d[i].event \in 1 .. a /\ d[i].seq = d[i].event
    /\ \A i \in 2 .. Len(d) : d[i - 1].event < d[i].event

(* A delivery of a later event than the last keeps the deliveries in order. *)
LEMMA OrderedAppend ==
    ASSUME NEW s \in Seq(Deliveries), NEW a \in Nat, NEW e \in 1 .. a,
           Ordered(s, a),
           Len(s) > 0 => s[Len(s)].event < e,
           NEW d, d = Append(s, [event |-> e, seq |-> e])
    PROVE  /\ d \in Seq(Deliveries) /\ Len(d) = Len(s) + 1
           /\ d[Len(s) + 1] = [event |-> e, seq |-> e]
           /\ \A i \in 1 .. Len(s) : d[i] = s[i]
           /\ Ordered(d, a)
  <1> DEFINE x == [event |-> e, seq |-> e]
             n == Len(s)
  <1>1. x \in Deliveries /\ x.event = e /\ x.seq = e  BY DEF Deliveries
  <1>2. n \in Nat  OBVIOUS
  <1>0. d = Append(s, x)  OBVIOUS
  <1> HIDE DEF x
  <1>3. d \in Seq(Deliveries) /\ Len(d) = n + 1 /\ d[n + 1] = x /\ \A i \in 1 .. n : d[i] = s[i]
    BY <1>0, <1>1, AppendProperties
  <1> HIDE DEF n
  <1>5. ASSUME NEW i \in 1 .. n + 1 PROVE d[i].event \in 1 .. a /\ d[i].seq = d[i].event
    <2>1. i \in 1 .. n \/ i = n + 1  BY <1>2
    <2> QED  BY <1>1, <1>3, <2>1 DEF n, Ordered
  <1>6. ASSUME NEW i \in 2 .. n + 1 PROVE d[i - 1].event < d[i].event
    <2>1. CASE i \in 2 .. n
      <3>1. i \in 1 .. n /\ i - 1 \in 1 .. n  BY <1>2, <2>1
      <3> QED  BY <1>3, <2>1, <3>1 DEF n, Ordered
    <2>2. CASE i = n + 1
      <3>1. n \in 1 .. n /\ i - 1 = n /\ n > 0  BY <1>2, <2>2
      <3>2. d[i - 1] = s[n] /\ d[i] = x  BY <1>3, <2>2, <3>1
      <3> QED  BY <1>1, <3>1, <3>2 DEF n
    <2>3. i \in 2 .. n \/ i = n + 1  BY <1>2
    <2> QED  BY <2>1, <2>2, <2>3
  <1> QED  BY <1>1, <1>3, <1>5, <1>6 DEF n, x, Ordered

(* The deliveries behind a record that fits. *)
LEMMA DeliveredInOrder ==
    ASSUME JournalInv, reader.at = "reading", Left >= RecordUnits, LengthFits, CrcFits,
           NEW d, d = Append(reader.delivered, [event |-> Unit(RecordUnits).event,
                                                seq   |-> Unit(1).seq])
    PROVE  LET n == Len(reader.delivered) IN
           /\ d \in Seq(Deliveries) /\ Len(d) = n + 1
           /\ d[n + 1] = [event |-> Unit(RecordUnits).event, seq |-> Unit(1).seq]
           /\ \A i \in 1 .. n : d[i] = reader.delivered[i]
           /\ Ordered(d, appended)
  <1> DEFINE x == [event |-> Unit(RecordUnits).event, seq |-> Unit(1).seq]
             n == Len(reader.delivered)
  <1>t. /\ reader \in ReaderStates /\ appended \in Nat
        /\ MappingSound /\ ErrorsTell /\ CleanRead /\ DeliversWhatWasAppended
        /\ Len(reader.mapped) \in Nat /\ n \in Nat
        /\ reader.off \in Nat /\ reader.off >= 1
        /\ Left \in Nat /\ reader.off + Left = Len(reader.mapped)
    BY InTurn
  <1>u. /\ Unit(0) \in Units /\ Unit(1) \in Units /\ Unit(4) \in Units
        /\ Unit(4).event = Unit(1).event /\ Unit(1).event > Unit(0).event
        /\ Unit(1).seq = Unit(1).event /\ Unit(1).event \in 1 .. appended
    BY FittingRecord
  <1>x. x = [event |-> Unit(1).event, seq |-> Unit(1).event]
    BY <1>u DEF RecordUnits
  <1>1. reader.delivered \in Seq(Deliveries) /\ DOMAIN reader.delivered = 1 .. n
    BY <1>t DEF ReaderStates
  <1>2. n > 0 => reader.delivered # <<>>  BY <1>1, EmptySeq
  <1>3. reader.mapped[reader.off] = Unit(0)  BY <1>t DEF Unit
  <1>4. n > 0 => reader.delivered[n].event < Unit(1).event
    <2> SUFFICES ASSUME n > 0 PROVE reader.delivered[n].event < Unit(1).event  OBVIOUS
    <2>1. reader.delivered[n].event <= Unit(0).event
      BY <1>t, <1>2, <1>3 DEF MappingSound, DeliveredBehind
    <2>2. reader.delivered[n].event \in Nat /\ Unit(0).event \in Nat /\ Unit(1).event \in Nat
      <3>1. reader.delivered[n] \in Deliveries
        <4>1. n \in 1 .. n  BY <1>t
        <4> QED  BY <1>1, <4>1, ElementOfSeq
      <3>2. reader.delivered[n].event \in Nat  BY <3>1 DEF Deliveries
      <3> QED  BY <1>u, <3>2 DEF Units
    <2> QED  BY <1>u, <2>1, <2>2
  <1>5. Ordered(reader.delivered, appended)
    BY <1>t, <1>1 DEF DeliversWhatWasAppended, Ordered
  <1>6. d = Append(reader.delivered, [event |-> Unit(1).event, seq |-> Unit(1).event])
    BY <1>x
  <1> DEFINE s == reader.delivered
             e == Unit(1).event
  <1>7. /\ s \in Seq(Deliveries) /\ appended \in Nat /\ e \in 1 .. appended
        /\ Ordered(s, appended)
        /\ Len(s) > 0 => s[Len(s)].event < e
    BY <1>t, <1>u, <1>1, <1>4, <1>5
  <1>8. d = Append(s, [event |-> e, seq |-> e]) /\ n = Len(s) /\ x = [event |-> e, seq |-> e]
    BY <1>x, <1>6
  <1> HIDE DEF s, e, n, x
  <1>9. /\ d \in Seq(Deliveries) /\ Len(d) = Len(s) + 1
        /\ d[Len(s) + 1] = [event |-> e, seq |-> e]
        /\ \A i \in 1 .. Len(s) : d[i] = s[i]
        /\ Ordered(d, appended)
    BY <1>7, <1>8, OrderedAppend
  <1> QED  BY <1>8, <1>9 DEF s

(* A record that fits is handed on: all its units are of one event, which no   *)
(* record before it had.                                                     *)
LEMMA DeliverInv ==
    ASSUME JournalInv, reader.at = "reading", Left >= RecordUnits, LengthFits, CrcFits,
           UNCHANGED <<fd, buffer, next_seq, file, synced, appended, failed, sync_failed, durable>>,
           NEW d, d = Append(reader.delivered, [event |-> Unit(RecordUnits).event,
                                                seq   |-> Unit(1).seq]),
           NEW at \in {"reading", "limit"},
           reader' = [reader EXCEPT !.off = @ + RecordUnits, !.delivered = d, !.at = at]
    PROVE  JournalInv'
  <1> DEFINE x == [event |-> Unit(RecordUnits).event, seq |-> Unit(1).seq]
             n == Len(reader.delivered)
  <1>w. WriterSound' /\ SyncSound' /\ (reader' \in ReaderStates => TypeOK')
    BY WriterUntouched
  <1>t. /\ reader \in ReaderStates /\ appended \in Nat
        /\ MappingSound /\ ErrorsTell /\ CleanRead /\ DeliversWhatWasAppended
        /\ Len(reader.mapped) \in Nat /\ n \in Nat
        /\ reader.off \in Nat /\ reader.off >= 1
        /\ Left \in Nat /\ reader.off + Left = Len(reader.mapped)
    BY InTurn
  <1>f. /\ reader'.mapped = reader.mapped /\ reader'.off = reader.off + RecordUnits
        /\ reader'.delivered = d /\ reader'.at = at
        /\ reader'.had_error = reader.had_error
        /\ reader'.crc_failures = reader.crc_failures
    BY <1>t DEF ReaderStates
  <1>u. /\ Unit(0) \in Units /\ Unit(1) \in Units /\ Unit(4) \in Units
        /\ Unit(4).event = Unit(1).event /\ Unit(1).event > Unit(0).event
        /\ Unit(1).seq = Unit(1).event /\ Unit(1).event \in 1 .. appended
    BY FittingRecord
  <1>x. x = [event |-> Unit(1).event, seq |-> Unit(1).event]
    BY <1>u DEF RecordUnits
  <1>o. /\ d \in Seq(Deliveries) /\ Len(d) = n + 1 /\ d[n + 1] = x
        /\ \A i \in 1 .. n : d[i] = reader.delivered[i]
        /\ Ordered(d, appended)
    BY DeliveredInOrder
  <1>a. d \in Seq(Deliveries) /\ Len(d) = n + 1 /\ d[n + 1] = x /\ d # <<>>
        /\ \A i \in 1 .. n : d[i] = reader.delivered[i]
    <2>1. Len(d) # 0  BY <1>t, <1>o
    <2> QED  BY <1>o, <2>1, EmptySeq
  <1> HIDE DEF x
  <1>2. reader' \in ReaderStates
    <2> DEFINE o == reader.off + RecordUnits
    <2>1. o \in Nat  BY <1>t DEF RecordUnits
    <2>2. reader' = [reader EXCEPT !.off = o, !.delivered = d, !.at = at]  OBVIOUS
    <2> HIDE DEF o
    <2> QED  BY <1>t, <1>a, <2>1, <2>2 DEF ReaderStates
  <1>3. MappingSound'
    <2>1. reader'.off \in 1 .. Len(reader.mapped)  BY <1>t, <1>f DEF RecordUnits
    <2>2. DeliveredBehind'
      <3>1. d[Len(d)] = x /\ reader.mapped[reader'.off] = Unit(4)
        BY <1>a, <1>f DEF Unit, RecordUnits
      <3>2. x.event <= Unit(4).event  BY <1>x, <1>u DEF Units
      <3> QED  BY <1>f, <3>1, <3>2 DEF DeliveredBehind
    <2> QED  BY <1>t, <1>f, <2>1, <2>2 DEF MappingSound
  <1>4. ErrorsTell'
    <2>1. reader.off = 1 + RecordUnits * n => reader.off + RecordUnits = 1 + RecordUnits * (n + 1)
      BY <1>t DEF RecordUnits
    <2> HIDE DEF n
    <2> QED  BY <1>t, <1>f, <1>a, <2>1 DEF ErrorsTell, n
  <1>5. CleanRead'
    <2> SUFFICES ASSUME Identical(reader.mapped, Intended(CatalogCount(reader.mapped)))
                 PROVE  /\ reader'.off = 1 + RecordUnits * Len(d)
                        /\ \A i \in 1 .. Len(d) : d[i] = [event |-> i, seq |-> i]
                        /\ ~reader.had_error
      BY <1>f DEF CleanRead
    <2>1. /\ reader.off = 1 + RecordUnits * n
          /\ \A i \in 1 .. n : reader.delivered[i] = [event |-> i, seq |-> i]
          /\ ~reader.had_error
      BY <1>t DEF CleanRead
    <2>2. x = [event |-> n + 1, seq |-> n + 1]  BY CleanTurn DEF x
    <2>3. reader'.off = 1 + RecordUnits * Len(d)
      <3>1. reader'.off = (1 + RecordUnits * n) + RecordUnits  BY <1>f, <2>1
      <3>2. (1 + RecordUnits * n) + RecordUnits = 1 + RecordUnits * (n + 1)
        BY <1>t DEF RecordUnits
      <3> QED  BY <1>a, <3>1, <3>2
    <2>4. ASSUME NEW i \in 1 .. Len(d) PROVE d[i] = [event |-> i, seq |-> i]
      <3>1. i \in 1 .. n \/ i = n + 1
        <4> HIDE DEF n
        <4> QED  BY <1>t, <1>a
      <3> QED  BY <1>a, <2>1, <2>2, <3>1
    <2> QED  BY <2>1, <2>3, <2>4
  <1>6. DeliversWhatWasAppended'
    <2>1. DOMAIN d = 1 .. Len(d)  BY <1>o
    <2> QED  BY <1>f, <1>o, <2>1 DEF DeliversWhatWasAppended, Ordered
  <1>7. ReaderSound'  BY <1>f, <1>3, <1>4, <1>5 DEF ReaderSound
  <1> QED  BY <1>w, <1>2, <1>6, <1>7 DEF JournalInv

LEMMA ReadRecordInv == JournalInv /\ ReadRecord => JournalInv'
  <1> SUFFICES ASSUME JournalInv, ReadRecord PROVE JournalInv'  OBVIOUS
  <1>r. /\ reader.at = "reading" /\ reader' = AfterTurn
        /\ UNCHANGED <<fd, buffer, next_seq, file, synced, appended, failed, sync_failed, durable>>
    BY DEF ReadRecord
  <1>l. Left \in Nat  BY <1>r, InTurn
  <1>1. CASE Left < HeaderUnits
    <2> DEFINE err == Left > 0
    <2>1. reader' = Stop(err, 0)  BY <1>r, <1>1 DEF AfterTurn, AfterRecords
    <2>2. err \in BOOLEAN /\ (err <=> Left > 0)  BY <1>l
    <2> HIDE DEF err
    <2> QED  BY <1>r, <1>1, <2>1, <2>2, StopInv
  <1>2. CASE Left >= HeaderUnits /\ (~LengthFits \/ Left < RecordUnits)
    <2>1. ~(Left < HeaderUnits)  BY <1>l, <1>2 DEF HeaderUnits
    <2>2. reader' = Stop(TRUE, 1)  BY <1>r, <1>2, <2>1 DEF AfterTurn
    <2> QED  BY <1>r, <1>2, <2>2, StopInv
  <1>3. CASE LengthFits /\ Left >= RecordUnits
    <2>1. ~(Left < HeaderUnits) /\ ~(Left < RecordUnits)
      BY <1>l, <1>3 DEF HeaderUnits, RecordUnits
    <2>2. CASE ~CrcFits
      <3>1. reader' = [reader EXCEPT !.off = @ + RecordUnits, !.had_error = TRUE,
                                     !.crc_failures = @ + 1]
        BY <1>r, <1>3, <2>1, <2>2 DEF AfterTurn
      <3> QED  BY <1>r, <1>3, <2>2, <3>1, PassOverInv
    <2>3. CASE CrcFits
      <3> DEFINE d == Append(reader.delivered, [event |-> Unit(RecordUnits).event,
                                                seq   |-> Unit(1).seq])
                 at == IF reader.limit > 0 /\ Len(d) >= reader.limit THEN "limit"
                       ELSE reader.at
      <3>1. reader' = [reader EXCEPT !.off = @ + RecordUnits, !.delivered = d, !.at = at]
        BY <1>r, <1>3, <2>1, <2>3 DEF AfterTurn
      <3>2. at \in {"reading", "limit"}  BY <1>r
      <3> HIDE DEF at
      <3> QED  BY <1>r, <1>3, <2>3, <3>1, <3>2, DeliverInv
    <2> QED  BY <2>2, <2>3
  <1> QED  BY <1>l, <1>1, <1>2, <1>3 DEF HeaderUnits, RecordUnits

LEMMA StepJournalInv == JournalInv /\ [Next]_vars => JournalInv'
  <1> SUFFICES ASSUME JournalInv, [Next]_vars PROVE JournalInv'  OBVIOUS
  <1>1. CASE UNCHANGED vars
    <2>1. UNCHANGED <<fd, buffer, next_seq, file, synced, appended, failed, sync_failed, durable,
                      reader>>
      BY <1>1 DEF vars
    <2>2. WriterSound' /\ SyncSound' /\ (reader' \in ReaderStates => TypeOK')
      BY <2>1, WriterUntouched
    <2>3. reader' \in ReaderStates  BY <2>1 DEF JournalInv, TypeOK, ReaderStates
    <2>4. ReaderSound' /\ DeliversWhatWasAppended'
      <3>1. appended' \in Nat /\ appended <= appended' /\ (failed => failed')
        BY <2>1 DEF JournalInv, TypeOK
      <3> QED  BY <2>1, <3>1, ReaderUntouched
    <2> QED  BY <2>2, <2>3, <2>4 DEF JournalInv
  <1> QED
    BY <1>1, OpenInv, AppendInv, FlushInv, CloseInv, CrashInv, PowerLossInv, OpenReaderInv,
       ReadRecordInv DEF Next
------------------------------------------------------------------------------

(* The writer's file is always a chain of units, the intended one where no     *)
(* write failed, what is synced is intended, and the reader's offset, errors   *)
(* and deliveries agree with the units it has passed, whatever writes fail,    *)
(* processes die and power is lost in between.                               *)
THEOREM JournalInvariant == Spec => []JournalInv
  BY InitJournalInv, StepJournalInv, PTL DEF Spec

(* Only appended events are delivered, each once and in order. *)
THEOREM DeliveredWasAppended == Spec => []DeliversWhatWasAppended
  <1>1. JournalInv => DeliversWhatWasAppended  BY DEF JournalInv
  <1> QED  BY <1>1, JournalInvariant, PTL

(* What flush and close have synced is in the file from then on, whatever         *)
(* writes and fsyncs fail afterwards.                                        *)
THEOREM FlushedStays == Spec => []FlushIsDurable
  <1>1. JournalInv => FlushIsDurable
    <2> SUFFICES ASSUME JournalInv, durable > 0
                 PROVE  LET units == 1 + RecordUnits * durable IN
                        Len(file) >= units /\ SubSeq(file, 1, units) = Intended(durable)
      BY DEF FlushIsDurable
    <2> DEFINE units == 1 + RecordUnits * durable
               s == SubSeq(file, 1, units)
    <2>1. /\ file \in Seq(Units) /\ synced \in Nat /\ durable \in Nat
          /\ synced <= Len(file) /\ synced >= units
          /\ \A i \in 1 .. units : file[i] = IntendedUnit(i)
      BY DEF JournalInv, TypeOK, SyncSound
    <2>2. Len(file) \in Nat /\ units \in Nat /\ units >= 1  BY <2>1 DEF RecordUnits
    <2>3. Len(file) >= units  BY <2>1, <2>2
    <2> HIDE DEF units
    <2>4. s \in Seq(Units) /\ Len(s) = units /\ \A i \in 1 .. units : s[i] = file[i]
      <3>1. units \in Int /\ 1 \in Int /\ \A i \in 1 .. units : file[i] \in Units
        BY <2>1, <2>2, <2>3
      <3>2. /\ s \in Seq(Units)
            /\ Len(s) = IF 1 <= units THEN units - 1 + 1 ELSE 0
            /\ \A i \in 1 .. units - 1 + 1 : s[i] = file[1 + i - 1]
        BY <3>1, SubSeqProperties
      <3> QED  BY <2>2, <3>2
    <2> HIDE DEF s
    <2>5. s = [i \in 1 .. units |-> s[i]]  BY <2>4, LenProperties
    <2>6. s = [i \in 1 .. units |-> IntendedUnit(i)]  BY <2>1, <2>4, <2>5
    <2> QED  BY <2>3, <2>6 DEF Intended, units, s
  <1> QED  BY <1>1, JournalInvariant, PTL

(* The file of n events without a failure has 1 + 4 n units. *)
LEMMA IntendedLength ==
    ASSUME NEW n \in Nat PROVE Intended(n) \in Seq(Units) /\ Len(Intended(n)) = 1 + RecordUnits * n
  <1>1. 1 + RecordUnits * n \in Nat  BY DEF RecordUnits
  <1>2. Intended(n) \in [1 .. 1 + RecordUnits * n -> Units]  BY IntendedIsUnit DEF Intended
  <1> QED  BY <1>1, <1>2, FunctionIsSeq

(* Where no write failed, journal_diff finds no difference. *)
LEMMA IntendedIdentical ==
    ASSUME NEW units \in Seq(Units), units # <<>>, AsIntended(units)
    PROVE  Identical(units, Intended(CatalogCount(units)))
  <1> DEFINE c == CatalogCount(units)
  <1>1. Len(units) \in Nat /\ Len(units) # 0  BY EmptySeq
  <1>2. c \in Nat /\ 1 + RecordUnits * c <= Len(units)
    BY <1>1 DEF CatalogCount, RecordUnits
  <1> HIDE DEF c
  <1>3. CatalogCount(Intended(c)) = c
    <2>1. Len(Intended(c)) = 1 + RecordUnits * c  BY <1>2, IntendedLength
    <2> QED  BY <1>2, <2>1 DEF CatalogCount, RecordUnits
  <1>4. ASSUME NEW i \in 1 .. 1 + RecordUnits * c PROVE units[i] = Intended(c)[i]
    <2>1. i \in 1 .. Len(units)  BY <1>1, <1>2 DEF RecordUnits
    <2>2. units[i] = IntendedUnit(i)  BY <2>1 DEF AsIntended
    <2> QED  BY <2>2 DEF Intended
  <1>5. 1 \in 1 .. 1 + RecordUnits * c
        /\ \A i \in 2 .. 1 + RecordUnits * c : i \in 1 .. 1 + RecordUnits * c
    BY <1>2 DEF RecordUnits
  <1> QED  BY <1>3, <1>4, <1>5 DEF Identical, c

(* A reader's offset between the records, with less than one left. *)
LEMMA RecordsPassed ==
    ASSUME NEW len \in Nat, NEW n \in Nat, NEW left \in Nat,
           len = 1 + RecordUnits * n + left, left < RecordUnits
    PROVE  n = (len - 1) \div RecordUnits /\ (len - 1) % RecordUnits = left
  BY DEF RecordUnits

(* A stream that ends OK has read nothing but whole records, the semantic CRC  *)
(* passes over less than a header, and where no write failed the catalogue,    *)
(* journal_diff and the stream agree on the records.                          *)
THEOREM TearsAreReported == Spec => []TearReported
  <1>1. JournalInv => TearReported
    <2> SUFFICES ASSUME JournalInv, reader.at = "done" PROVE TearReported
      BY DEF TearReported
    <2> DEFINE units == reader.mapped
               n == Len(reader.delivered)
    <2>t. /\ MappingSound /\ ErrorsTell /\ CleanRead
          /\ units \in Seq(Units) /\ n \in Nat /\ Len(units) \in Nat
          /\ Left \in Nat /\ Len(units) = reader.off + Left /\ reader.off \in Nat
      <3>1. MappingSound /\ ErrorsTell /\ CleanRead  BY DEF JournalInv, ReaderSound
      <3>2. /\ units \in Seq(Units) /\ reader.delivered \in Seq(Deliveries)
            /\ reader.off \in Nat
        BY DEF JournalInv, TypeOK
      <3>3. Len(units) \in Nat /\ n \in Nat  BY <3>2
      <3> QED  BY <3>1, <3>2, <3>3 DEF MappingSound, Left
    <2> HIDE DEF units, n
    <2>1. StreamIsOk => Len(units) = 1 + RecordUnits * n
      <3> SUFFICES ASSUME ~reader.had_error PROVE Len(units) = 1 + RecordUnits * n
        BY DEF StreamIsOk
      <3>1. reader.off = 1 + RecordUnits * n /\ Left = 0  BY <2>t DEF ErrorsTell, n
      <3> QED  BY <2>t, <3>1
    <2>2. SemanticCrcOk => n = CatalogCount(units) /\ Len(units) < 1 + RecordUnits * n + HeaderUnits
      <3> SUFFICES ASSUME reader.crc_failures = 0
                   PROVE  n = CatalogCount(units) /\ Len(units) < 1 + RecordUnits * n + HeaderUnits
        BY DEF SemanticCrcOk
      <3>1. reader.off = 1 + RecordUnits * n /\ Left < HeaderUnits  BY <2>t DEF ErrorsTell, n
      <3>2. Left < RecordUnits /\ Len(units) = 1 + RecordUnits * n + Left
        BY <2>t, <3>1 DEF RecordUnits, HeaderUnits
      <3>3. n = CatalogCount(units)  BY <2>t, <3>2, RecordsPassed DEF CatalogCount
      <3>4. Len(units) < 1 + RecordUnits * n + HeaderUnits
        BY <2>t, <3>1, <3>2 DEF RecordUnits, HeaderUnits
      <3> QED  BY <3>3, <3>4
    <2>3. ASSUME Identical(units, Intended(CatalogCount(units)))
          PROVE  /\ n = CatalogCount(units)
                 /\ \A i \in 1 .. n : reader.delivered[i] = [event |-> i, seq |-> i]
                 /\ CatalogAccepts(units) => ~reader.had_error
      <3>1. /\ reader.off = 1 + RecordUnits * n /\ Left < RecordUnits
            /\ \A i \in 1 .. n : reader.delivered[i] = [event |-> i, seq |-> i]
            /\ reader.had_error => Left > 0
        BY <2>t, <2>3 DEF CleanRead, n, units
      <3>2. Len(units) = 1 + RecordUnits * n + Left  BY <2>t, <3>1
      <3>3. n = (Len(units) - 1) \div RecordUnits /\ (Len(units) - 1) % RecordUnits = Left
        BY <2>t, <3>1, <3>2, RecordsPassed
      <3>4. CatalogAccepts(units) => Left = 0  BY <3>3 DEF CatalogAccepts
      <3>5. Left = 0 => ~(Left > 0)  BY <2>t
      <3> QED  BY <3>1, <3>3, <3>4, <3>5 DEF CatalogCount
    <2>4. CatalogAccepts(units) /\ ~failed => StreamIsOk /\ n = CatalogCount(units)
      <3> SUFFICES ASSUME CatalogAccepts(units), ~failed
                   PROVE  StreamIsOk /\ n = CatalogCount(units)
        OBVIOUS
      <3>1. units # <<>> /\ AsIntended(units)  BY <2>t DEF MappingSound, units
      <3>2. Identical(units, Intended(CatalogCount(units)))
        BY <2>t, <3>1, IntendedIdentical
      <3> QED  BY <2>3, <3>2 DEF StreamIsOk
    <2> QED  BY <2>1, <2>2, <2>3, <2>4 DEF TearReported, units, n
  <1> QED  BY <1>1, JournalInvariant, PTL
==============================================================================
