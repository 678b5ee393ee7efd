-------------------------- MODULE ConcurrencyProofs --------------------------
(***************************************************************************)
(* The two rings. SPSCRing for every ring size and every number of items:    *)
(* RingInv is inductive, the slots are free of races, and the ring           *)
(* implements the bounded FIFO queue. SPMCRing for every ring size, value     *)
(* width, number of readers and of published items: SeqlockInv is inductive, *)
(* no read is torn, and a reader skips only items that are lost to it.       *)
(* ShardedPipeline, which runs on the first ring, for every number of shards, *)
(* symbols and events: ShardedInv is inductive, so that workers see no gaps,  *)
(* symbols keep their order, and the final order is the deterministic merge.  *)
(***************************************************************************)
EXTENDS SPSCRing, SPMCRing, ShardedPipeline, ArithmeticLemmas, FiniteSetTheorems,
        SequenceTheorems, TLAPS

(* The index after the slot of item n is the slot of item n + 1. *)
LEMMA AdvanceSlot ==
    ASSUME NEW n \in Nat
    PROVE  /\ n % Size \in Slot
           /\ Advance(n % Size) = (n + 1) % Size
  BY RingAssumption, DivMod, ModSucc DEF Slot, Advance

(* Two different items that can be in the ring at once have different slots. *)
LEMMA SlotsDiffer ==
    ASSUME NEW m \in Nat, NEW n \in Nat, m < n, n - m < Size
    PROVE  m % Size # n % Size
  <1> SUFFICES ASSUME m % Size = n % Size PROVE FALSE  OBVIOUS
  <1>1. Size \in Nat \ {0} /\ m - n < Size  BY RingAssumption
  <1>2. m = n  BY <1>1, ModWindow
  <1> QED  BY <1>2

LEMMA InitRingInv == RingInit => RingInv
  <1> SUFFICES ASSUME RingInit PROVE RingInv  OBVIOUS
  <1> USE RingAssumption
  <1>1. 0 % Size = 0 /\ 0 \in Slot  BY ModUnique DEF Slot
  <1>2. RingTypeOK  BY <1>1 DEF RingInit, RingTypeOK
  <1>3. IndicesAgree  BY <1>1 DEF RingInit, IndicesAgree
  <1>4. ContentsIntact  BY DEF RingInit, ContentsIntact
  <1>5. ClaimsHold  BY DEF RingInit, ClaimsHold
  <1> QED  BY <1>2, <1>3, <1>4, <1>5 DEF RingInv

LEMMA StepRingInv == RingInv /\ [RingNext]_ringVars => RingInv'
  <1> SUFFICES ASSUME RingInv, [RingNext]_ringVars PROVE RingInv'  OBVIOUS
  <1> USE RingAssumption
  <1>t. RingTypeOK /\ IndicesAgree /\ ContentsIntact /\ ClaimsHold  BY DEF RingInv
  <1>i. /\ pushed \in Nat /\ pushed + 1 \in Nat /\ head = pushed % Size
        /\ popped \in Nat /\ popped + 1 \in Nat /\ tail = popped % Size
    BY <1>t DEF RingTypeOK, IndicesAgree
  <1>1. CASE PushClaim
    <2>0. PICK n \in tailSeen .. popped :
              Advance(head) # n % Size /\ tailSeen' = n
      BY <1>1 DEF PushClaim
    <2>1. RingTypeOK'  BY <1>t, <1>1, <2>0 DEF RingTypeOK, PushClaim
    <2>2. IndicesAgree'  BY <1>t, <1>1 DEF IndicesAgree, PushClaim
    <2>3. ContentsIntact'  BY <1>t, <1>1 DEF ContentsIntact, PushClaim
    <2>4. pushed - n < Size - 1
      <3>1. Advance(head) = (pushed + 1) % Size  BY <1>i, AdvanceSlot
      <3>2. pushed + 1 # n + Size
        <4> SUFFICES ASSUME pushed + 1 = n + Size PROVE FALSE  OBVIOUS
        <4> DEFINE q == n \div Size
                   m == n % Size
        <4>1. n \in Nat /\ pushed + 1 \in Nat  BY <1>t, <2>0 DEF RingTypeOK
        <4>2. q \in Nat /\ m \in 0 .. Size - 1 /\ n = Size * q + m  BY <4>1, DivMod
        <4> HIDE DEF q, m
        <4>3. pushed + 1 = Size * (q + 1) + m /\ q + 1 \in Nat  BY <4>1, <4>2
        <4>4. (pushed + 1) % Size = m  BY <4>1, <4>2, <4>3, ModUnique
        <4> QED  BY <4>4, <3>1, <2>0 DEF m
      <3> QED  BY <3>2, <2>0, <1>t DEF RingTypeOK, ClaimsHold
    <2>5. ClaimsHold'
      BY <1>t, <1>1, <2>0, <2>4 DEF RingTypeOK, ClaimsHold, PushClaim
    <2> QED  BY <2>1, <2>2, <2>3, <2>5 DEF RingInv
  <1>2. CASE PushWrite
    <2>1. RingTypeOK'  BY <1>t, <1>2 DEF RingTypeOK, PushWrite
    <2>2. IndicesAgree'  BY <1>t, <1>2 DEF IndicesAgree, PushWrite
    <2>3. ContentsIntact'
      <3> SUFFICES ASSUME NEW k \in popped .. pushed - 1
                   PROVE  buffer'[k % Size] = k
        BY <1>2 DEF ContentsIntact, PushWrite
      <3>1. k \in Nat /\ k < pushed /\ pushed - k < Size /\ pushed \in Nat
        BY <1>t DEF RingTypeOK, IndicesAgree
      <3>2. k % Size # head  BY <1>t, <3>1, SlotsDiffer DEF IndicesAgree
      <3>3. k % Size \in Slot  BY <3>1, AdvanceSlot
      <3> QED  BY <1>t, <1>2, <3>2, <3>3 DEF RingTypeOK, ContentsIntact, PushWrite
    <2>4. ClaimsHold'  BY <1>t, <1>2 DEF RingTypeOK, ClaimsHold, PushWrite
    <2> QED  BY <2>1, <2>2, <2>3, <2>4 DEF RingInv
  <1>3. CASE PushPublish
    <2>1. Advance(head) = (pushed + 1) % Size /\ Advance(head) \in Slot
      BY <1>i, AdvanceSlot
    <2>2. RingTypeOK'  BY <1>t, <1>3, <2>1 DEF RingTypeOK, ClaimsHold, PushPublish
    <2>3. IndicesAgree'
      BY <1>t, <1>3, <2>1 DEF RingTypeOK, IndicesAgree, ClaimsHold, PushPublish
    <2>4. ContentsIntact'
      BY <1>t, <1>3 DEF RingTypeOK, IndicesAgree, ContentsIntact, ClaimsHold, PushPublish
    <2>5. ClaimsHold'  BY <1>t, <1>3 DEF RingTypeOK, ClaimsHold, PushPublish
    <2> QED  BY <2>2, <2>3, <2>4, <2>5 DEF RingInv
  <1>4. CASE PopClaim
    <2>0. PICK n \in headSeen .. pushed : tail # n % Size /\ headSeen' = n
      BY <1>4 DEF PopClaim
    <2>1. RingTypeOK'  BY <1>t, <1>4, <2>0 DEF RingTypeOK, PopClaim
    <2>2. IndicesAgree'  BY <1>t, <1>4 DEF IndicesAgree, PopClaim
    <2>3. ContentsIntact'  BY <1>t, <1>4 DEF ContentsIntact, PopClaim
    <2>4. popped < n  BY <1>t, <2>0, SMTT(30) DEF RingTypeOK, IndicesAgree, ClaimsHold
    <2>5. ClaimsHold'
      BY <1>t, <1>4, <2>0, <2>4 DEF RingTypeOK, ClaimsHold, PopClaim
    <2> QED  BY <2>1, <2>2, <2>3, <2>5 DEF RingInv
  <1>5. CASE PopRead
    <2>1. RingTypeOK'  BY <1>t, <1>5 DEF RingTypeOK, PopRead
    <2>2. IndicesAgree'  BY <1>t, <1>5 DEF IndicesAgree, PopRead
    <2>3. ContentsIntact'  BY <1>t, <1>5 DEF ContentsIntact, PopRead
    <2>4. buffer[tail] = popped
      BY <1>t, <1>5 DEF RingTypeOK, IndicesAgree, ContentsIntact, ClaimsHold, PopRead
    <2>5. ClaimsHold'  BY <1>t, <1>5, <2>4 DEF RingTypeOK, ClaimsHold, PopRead
    <2> QED  BY <2>1, <2>2, <2>3, <2>5 DEF RingInv
  <1>6. CASE PopRelease
    <2>1. Advance(tail) = (popped + 1) % Size /\ Advance(tail) \in Slot
      BY <1>i, AdvanceSlot
    <2>2. RingTypeOK'  BY <1>t, <1>6, <2>1 DEF RingTypeOK, PopRelease
    <2>3. IndicesAgree'
      BY <1>t, <1>6, <2>1 DEF RingTypeOK, IndicesAgree, ClaimsHold, PopRelease
    <2>4. ContentsIntact'  BY <1>t, <1>6 DEF RingTypeOK, ContentsIntact, PopRelease
    <2>5. ClaimsHold'  BY <1>t, <1>6 DEF RingTypeOK, ClaimsHold, PopRelease
    <2> QED  BY <2>2, <2>3, <2>4, <2>5 DEF RingInv
  <1>7. CASE UNCHANGED ringVars
    BY <1>t, <1>7
    DEF ringVars, RingInv, RingTypeOK, IndicesAgree, ContentsIntact, ClaimsHold
  <1> QED
    BY <1>1, <1>2, <1>3, <1>4, <1>5, <1>6, <1>7 DEF RingNext

(* The ring's indices, contents and claims are right in every reachable state *)
(* of try_push and try_pop, for every Size and whatever stale indices the two *)
(* threads load.                                                             *)
THEOREM RingInvariant == RingSpec => []RingInv
  BY InitRingInv, StepRingInv, PTL DEF RingSpec

LEMMA NoRaceFromInv == RingInv => NoSlotRace
  <1> SUFFICES ASSUME RingInv, producer = "write", consumer = "read" PROVE head # tail
    BY DEF NoSlotRace
  <1>1. popped \in Nat /\ pushed \in Nat /\ popped < pushed /\ pushed - popped < Size
    BY RingAssumption DEF RingInv, RingTypeOK, IndicesAgree, ClaimsHold
  <1>2. popped % Size # pushed % Size  BY <1>1, SlotsDiffer
  <1> QED  BY <1>2 DEF RingInv, IndicesAgree

(* try_push never writes a slot that try_pop is reading. *)
THEOREM RaceFreedom == RingSpec => []NoSlotRace
  BY RingInvariant, NoRaceFromInv, PTL

(* Every step of the ring is a step of the queue or leaves it as it is.       *)
LEMMA StepFIFO == RingInv /\ [RingNext]_ringVars => [FIFO!Next]_(FIFO!vars)
  <1> SUFFICES ASSUME RingInv, [RingNext]_ringVars PROVE [FIFO!Next]_(FIFO!vars)  OBVIOUS
  <1> USE DEF FIFO!vars
  <1>1. CASE PushPublish
    <2>1. FIFO!Push
      BY <1>1, RingAssumption
      DEF FIFO!Push, PushPublish, RingInv, RingTypeOK, ClaimsHold
    <2> QED  BY <2>1 DEF FIFO!Next
  <1>2. CASE PopRelease
    <2>1. FIFO!Pop
      BY <1>2 DEF FIFO!Pop, PopRelease, RingInv, RingTypeOK, ClaimsHold
    <2> QED  BY <2>1 DEF FIFO!Next
  <1>3. CASE PushClaim  BY <1>3 DEF PushClaim
  <1>4. CASE PushWrite  BY <1>4 DEF PushWrite
  <1>5. CASE PopClaim  BY <1>5 DEF PopClaim
  <1>6. CASE PopRead  BY <1>6 DEF PopRead
  <1>7. CASE UNCHANGED ringVars  BY <1>7 DEF ringVars
  <1> QED  BY <1>1, <1>2, <1>3, <1>4, <1>5, <1>6, <1>7 DEF RingNext

(* SPSCRingBuffer is a FIFO queue of Size - 1 items.                          *)
THEOREM RingImplementsFIFO == RingSpec => ImplementsFIFO
  <1>1. RingInit => FIFO!Init  BY DEF RingInit, FIFO!Init
  <1> QED  BY <1>1, RingInvariant, StepFIFO, PTL DEF RingSpec, ImplementsFIFO, FIFO!Spec

------------------------------------------------------------------------------
(* Every item has a slot. *)
LEMMA HasSlot == ASSUME NEW n \in Nat PROVE n % RingSize \in SlotIndex
  BY SeqlockAssumption, DivMod DEF SlotIndex

(* An item has the slot of the item one round later. *)
LEMMA NextRound == ASSUME NEW n \in Nat PROVE (n + RingSize) % RingSize = n % RingSize
  <1> USE SeqlockAssumption
  <1> DEFINE q == n \div RingSize
             m == n % RingSize
  <1>1. q \in Nat /\ m \in 0 .. RingSize - 1 /\ n = RingSize * q + m  BY DivMod
  <1> HIDE DEF q, m
  <1>2. n + RingSize \in Nat /\ q + 1 \in Nat /\ n + RingSize = RingSize * (q + 1) + m  BY <1>1
  <1>3. (n + RingSize) % RingSize = m  BY <1>1, <1>2, ModUnique
  <1> QED  BY <1>3 DEF m

(* The stores of try_publish, to a version and to a word, keep a slot a slot. *)
LEMMA VersionStore ==
    ASSUME NEW s \in SlotStates, NEW v \in Versions
    PROVE  [s EXCEPT !.version = v] \in SlotStates
  BY DEF SlotStates

LEMMA WordStore ==
    ASSUME NEW s \in SlotStates, NEW k \in Word, NEW n \in Int
    PROVE  [s EXCEPT !.value[k] = n] \in SlotStates
  <1>1. [s.value EXCEPT ![k] = n] \in [Word -> Int]  BY DEF SlotStates
  <1> QED  BY <1>1 DEF SlotStates

LEMMA InitSeqlockInv == SeqlockInit => SeqlockInv
  <1> SUFFICES ASSUME SeqlockInit PROVE SeqlockInv  OBVIOUS
  <1> USE SeqlockAssumption DEF SeqlockInit, NeverWritten, Version
  <1>1. SeqlockTypeOK  BY DEF SeqlockTypeOK, Versions, SlotStates, Cursors, Calls, Results
  <1>2. CountersAgree  BY DEF CountersAgree
  <1>3. MarkAgrees  BY DEF MarkAgrees, Writing
  <1>4. VersionsCurrent  BY DEF VersionsCurrent, Begun, Writing
  <1>5. ContentsWhole  BY DEF ContentsWhole, Writing
  <1>6. CursorsBehind  BY DEF CursorsBehind
  <1>7. \A r \in Readers : CopySound(r)  BY DEF CopySound
  <1>8. NoTornRead  BY DEF NoTornRead
  <1> QED
    BY <1>1, <1>2, <1>3, <1>4, <1>5, <1>6, <1>7, <1>8 DEF SeqlockInv

------------------------------------------------------------------------------
(* The writer's steps. A reader in the middle of a copy is disturbed only by  *)
(* the first store, which takes its slot on to a later item.                 *)

LEMMA BeginWriteInv == SeqlockInv /\ BeginWrite => SeqlockInv'
  <1> SUFFICES ASSUME SeqlockInv, BeginWrite PROVE SeqlockInv'  OBVIOUS
  <1> USE SeqlockAssumption
  <1>t. SeqlockTypeOK /\ CountersAgree /\ MarkAgrees /\ VersionsCurrent /\ ContentsWhole
        /\ CursorsBehind /\ (\A r \in Readers : CopySound(r)) /\ NoTornRead
    BY DEF SeqlockInv
  <1>c. next_sequence \in Nat /\ Current \in SlotIndex /\ Current' = Current
    BY <1>t, HasSlot DEF SeqlockTypeOK, Versions, SlotStates, Current, BeginWrite
  <1>w. /\ ~ Writing /\ Writing' /\ Begun = next_sequence /\ Begun' = next_sequence + 1
    BY <1>t DEF BeginWrite, Writing, Begun, SeqlockTypeOK, Versions, SlotStates
  <1>s. /\ slots'[Current].version = Version(next_sequence, TRUE)
        /\ slots'[Current].value = slots[Current].value
        /\ \A i \in SlotIndex : i # Current => slots'[i] = slots[i]
    BY <1>t, <1>c DEF BeginWrite, SeqlockTypeOK, Versions, SlotStates
  <1>1. SeqlockTypeOK'
    <2>1. [slots[Current] EXCEPT !.version = Version(next_sequence, TRUE)] \in SlotStates
      <3>1. slots[Current] \in SlotStates  BY <1>t, <1>c DEF SeqlockTypeOK
      <3>2. Version(next_sequence, TRUE) \in Versions  BY <1>c DEF Version, Versions
      <3> QED  BY <3>1, <3>2, VersionStore
    <2> QED  BY <1>t, <1>c, <2>1 DEF SeqlockTypeOK, BeginWrite
  <1>2. CountersAgree'  BY <1>t DEF CountersAgree, BeginWrite
  <1>3. MarkAgrees'
    BY <1>t, <1>c, <1>w, <1>s DEF MarkAgrees, BeginWrite, Version
  <1>4. VersionsCurrent'
    <2>1. ASSUME NEW i \in SlotIndex PROVE slots'[i].version.sequence < Begun'
      BY <1>t, <1>c, <1>w, <1>s DEF VersionsCurrent, Version, SeqlockTypeOK, Versions, SlotStates
    <2>2. ASSUME NEW n \in 0 .. Begun' - 1 PROVE slots'[n % RingSize].version.sequence >= n
      <3>1. n \in Nat /\ n <= next_sequence /\ n % RingSize \in SlotIndex  BY <1>c, <1>w, HasSlot
      <3>2. CASE n % RingSize = Current  BY <1>s, <1>c, <3>1, <3>2 DEF Version
      <3>3. CASE n % RingSize # Current
        <4>1. n < next_sequence  BY <3>1, <3>3, <1>c DEF Current
        <4> QED  BY <1>t, <1>c, <1>w, <1>s, <3>1, <3>3, <4>1 DEF VersionsCurrent
      <3> QED  BY <3>2, <3>3
    <2> QED  BY <2>1, <2>2 DEF VersionsCurrent
  <1>5. ContentsWhole'
    BY <1>t, <1>c, <1>w, <1>s DEF ContentsWhole, BeginWrite, Version
  <1>6. CursorsBehind'  BY <1>t DEF CursorsBehind, BeginWrite
  <1>7. ASSUME NEW r \in Readers PROVE CopySound(r)'
    <2>1. Target(r)' = Target(r) /\ Target(r) \in Nat /\ Target(r) % RingSize \in SlotIndex
      BY <1>t, HasSlot DEF SeqlockTypeOK, Cursors, Target, BeginWrite
    <2>2. CASE Target(r) % RingSize = Current
      <3>1. CopySound(r) /\ SlotOf(r).version.sequence < next_sequence
        BY <1>t, <1>w, <2>1 DEF VersionsCurrent, SlotOf
      <3>2. SlotOf(r).version.sequence \in Int  BY <1>t, <2>1 DEF SeqlockTypeOK, Versions, SlotStates, SlotOf
      <3>3. SlotOf(r)'.version.sequence = next_sequence
        BY <1>s, <2>1, <2>2 DEF SlotOf, Version
      <3>4. reader' = reader  BY DEF BeginWrite
      <3> QED  BY <1>c, <2>1, <3>1, <3>2, <3>3, <3>4 DEF CopySound, Version
    <2>3. CASE Target(r) % RingSize # Current
      <3>1. SlotOf(r)' = SlotOf(r)  BY <1>s, <2>1, <2>3 DEF SlotOf
      <3>2. reader' = reader /\ CopySound(r)  BY <1>t DEF BeginWrite
      <3> QED  BY <2>1, <3>1, <3>2 DEF CopySound
    <2> QED  BY <2>2, <2>3
  <1>8. NoTornRead'  BY <1>t DEF NoTornRead, BeginWrite
  <1> QED
    BY <1>1, <1>2, <1>3, <1>4, <1>5, <1>6, <1>7, <1>8 DEF SeqlockInv

LEMMA WriteWordInv == SeqlockInv /\ WriteWord => SeqlockInv'
  <1> SUFFICES ASSUME SeqlockInv, WriteWord PROVE SeqlockInv'  OBVIOUS
  <1> USE SeqlockAssumption
  <1>t. SeqlockTypeOK /\ CountersAgree /\ MarkAgrees /\ VersionsCurrent /\ ContentsWhole
        /\ CursorsBehind /\ (\A r \in Readers : CopySound(r)) /\ NoTornRead
    BY DEF SeqlockInv
  <1>c. next_sequence \in Nat /\ Current \in SlotIndex /\ Current' = Current
    BY <1>t, HasSlot DEF SeqlockTypeOK, Versions, SlotStates, Current, WriteWord
  <1>w. Writing /\ Writing' /\ Begun' = Begun /\ Begun = next_sequence + 1
        /\ next_sequence' = next_sequence
    BY <1>t DEF WriteWord, Writing, Begun, SeqlockTypeOK, Word
  <1>s. /\ \A i \in SlotIndex : slots'[i].version = slots[i].version
        /\ \A i \in SlotIndex : i # Current => slots'[i] = slots[i]
        /\ \A w \in Word : slots'[Current].value[w] =
              IF w = writer THEN next_sequence ELSE slots[Current].value[w]
    BY <1>t, <1>c DEF WriteWord, SeqlockTypeOK, Versions, SlotStates
  <1>1. SeqlockTypeOK'
    <2>1. [slots[Current] EXCEPT !.value[writer] = next_sequence] \in SlotStates
      <3>1. slots[Current] \in SlotStates /\ writer \in Word /\ next_sequence \in Int
        BY <1>t, <1>c DEF SeqlockTypeOK, WriteWord
      <3> QED  BY <3>1, WordStore
    <2>2. slots' \in [SlotIndex -> SlotStates]  BY <1>t, <1>c, <2>1 DEF SeqlockTypeOK, WriteWord
    <2>3. writer' \in 0 .. Words + 2  BY DEF WriteWord, Word
    <2> QED  BY <1>t, <2>2, <2>3 DEF SeqlockTypeOK, WriteWord
  <1>2. CountersAgree'  BY <1>t DEF CountersAgree, WriteWord, Word
  <1>3. MarkAgrees'  BY <1>t, <1>c, <1>w, <1>s DEF MarkAgrees
  <1>4. VersionsCurrent'
    <2>1. \A i \in SlotIndex : slots'[i].version.sequence < Begun'
      BY <1>t, <1>w, <1>s DEF VersionsCurrent
    <2>2. ASSUME NEW n \in 0 .. Begun' - 1 PROVE slots'[n % RingSize].version.sequence >= n
      <3>1. n % RingSize \in SlotIndex /\ n \in 0 .. Begun - 1  BY <1>c, <1>w, HasSlot
      <3> QED  BY <1>t, <1>s, <3>1 DEF VersionsCurrent
    <2> QED  BY <2>1, <2>2 DEF VersionsCurrent
  <1>5. ContentsWhole'
    <2>1. ASSUME NEW i \in SlotIndex, ~ slots'[i].version.write_in_progress, NEW w \in Word
          PROVE  slots'[i].value[w] = slots'[i].version.sequence
      <3>1. i # Current  BY <1>t, <1>w, <1>s, <2>1 DEF MarkAgrees, Version
      <3> QED  BY <1>t, <1>s, <2>1, <3>1 DEF ContentsWhole
    <2>2. ASSUME NEW w \in 1 .. writer' - 1
          PROVE  slots'[Current].value[w] = next_sequence
      <3>1. w \in Word /\ (w = writer \/ w \in 1 .. writer - 1)
        BY <1>t DEF WriteWord, Word, SeqlockTypeOK, Versions, SlotStates
      <3> QED  BY <1>t, <1>w, <1>s, <3>1 DEF ContentsWhole
    <2> QED  BY <1>c, <1>w, <2>1, <2>2 DEF ContentsWhole
  <1>6. CursorsBehind'  BY <1>t DEF CursorsBehind, WriteWord
  <1>7. ASSUME NEW r \in Readers PROVE CopySound(r)'
    <2>1. Target(r)' = Target(r) /\ Target(r) % RingSize \in SlotIndex
      BY <1>t, HasSlot DEF SeqlockTypeOK, Cursors, Target, WriteWord
    <2>2. SlotOf(r)'.version = SlotOf(r).version  BY <1>s, <2>1 DEF SlotOf
    <2>3. reader' = reader /\ CopySound(r)  BY <1>t DEF WriteWord
    <2> QED  BY <2>1, <2>2, <2>3 DEF CopySound
  <1>8. NoTornRead'  BY <1>t DEF NoTornRead, WriteWord
  <1> QED
    BY <1>1, <1>2, <1>3, <1>4, <1>5, <1>6, <1>7, <1>8 DEF SeqlockInv
LEMMA EndWriteInv == SeqlockInv /\ EndWrite => SeqlockInv'
  <1> SUFFICES ASSUME SeqlockInv, EndWrite PROVE SeqlockInv'  OBVIOUS
  <1> USE SeqlockAssumption
  <1>t. SeqlockTypeOK /\ CountersAgree /\ MarkAgrees /\ VersionsCurrent /\ ContentsWhole
        /\ CursorsBehind /\ (\A r \in Readers : CopySound(r)) /\ NoTornRead
    BY DEF SeqlockInv
  <1>c. next_sequence \in Nat /\ Current \in SlotIndex
    BY <1>t, HasSlot DEF SeqlockTypeOK, Current
  <1>w. Writing /\ ~ Writing' /\ Begun' = Begun /\ Begun = next_sequence + 1
    BY <1>t DEF EndWrite, Writing, Begun, SeqlockTypeOK
  <1>m. slots[Current].version = Version(next_sequence, TRUE)
    BY <1>t, <1>w DEF MarkAgrees
  <1>s. /\ slots'[Current].version = Version(next_sequence, FALSE)
        /\ slots'[Current].value = slots[Current].value
        /\ \A i \in SlotIndex : i # Current => slots'[i] = slots[i]
        /\ \A i \in SlotIndex : slots'[i].version.sequence = slots[i].version.sequence
    BY <1>t, <1>c, <1>m DEF EndWrite, SeqlockTypeOK, Version
  <1>1. SeqlockTypeOK'
    <2>1. [slots[Current] EXCEPT !.version = Version(next_sequence, FALSE)] \in SlotStates
      <3>1. slots[Current] \in SlotStates  BY <1>t, <1>c DEF SeqlockTypeOK
      <3>2. Version(next_sequence, FALSE) \in Versions  BY <1>c DEF Version, Versions
      <3> QED  BY <3>1, <3>2, VersionStore
    <2> QED  BY <1>t, <1>c, <2>1 DEF SeqlockTypeOK, EndWrite
  <1>2. CountersAgree'  BY <1>t DEF CountersAgree, EndWrite, SeqlockTypeOK
  <1>3. MarkAgrees'
    <2>1. ASSUME NEW i \in SlotIndex PROVE ~ slots'[i].version.write_in_progress
      BY <1>t, <1>s DEF MarkAgrees, Version
    <2> QED  BY <1>w, <2>1 DEF MarkAgrees
  <1>4. VersionsCurrent'
    <2>1. \A i \in SlotIndex : slots'[i].version.sequence < Begun'
      BY <1>t, <1>w, <1>s DEF VersionsCurrent
    <2>2. ASSUME NEW n \in 0 .. Begun' - 1 PROVE slots'[n % RingSize].version.sequence >= n
      <3>1. n % RingSize \in SlotIndex /\ n \in 0 .. Begun - 1  BY <1>c, <1>w, HasSlot
      <3> QED  BY <1>t, <1>s, <3>1 DEF VersionsCurrent
    <2> QED  BY <2>1, <2>2 DEF VersionsCurrent
  <1>5. ContentsWhole'
    <2>1. ASSUME NEW i \in SlotIndex, ~ slots'[i].version.write_in_progress, NEW w \in Word
          PROVE  slots'[i].value[w] = slots'[i].version.sequence
      <3>1. CASE i = Current
        <4>1. w \in 1 .. writer - 1  BY DEF EndWrite, Word
        <4>2. slots[Current].value[w] = next_sequence  BY <1>t, <1>w, <4>1 DEF ContentsWhole
        <4> QED  BY <1>s, <3>1, <4>2 DEF Version
      <3>2. CASE i # Current  BY <1>t, <1>s, <2>1, <3>2 DEF ContentsWhole
      <3> QED  BY <3>1, <3>2
    <2> QED  BY <1>w, <2>1 DEF ContentsWhole
  <1>6. CursorsBehind'  BY <1>t DEF CursorsBehind, EndWrite
  <1>7. ASSUME NEW r \in Readers PROVE CopySound(r)'
    <2>1. Target(r)' = Target(r) /\ Target(r) % RingSize \in SlotIndex
      BY <1>t, HasSlot DEF SeqlockTypeOK, Cursors, Target, EndWrite
    <2>2. SlotOf(r)'.version.sequence = SlotOf(r).version.sequence
      BY <1>s, <2>1 DEF SlotOf
    <2>3. SlotOf(r).version = Version(Target(r), FALSE) => SlotOf(r)' = SlotOf(r)
      BY <1>s, <1>m, <2>1 DEF SlotOf, Version
    <2>4. reader' = reader /\ CopySound(r)  BY <1>t DEF EndWrite
    <2> QED  BY <2>1, <2>2, <2>3, <2>4 DEF CopySound
  <1>8. NoTornRead'  BY <1>t DEF NoTornRead, EndWrite
  <1> QED
    BY <1>1, <1>2, <1>3, <1>4, <1>5, <1>6, <1>7, <1>8 DEF SeqlockInv

LEMMA PublishInv == SeqlockInv /\ Publish => SeqlockInv'
  <1> SUFFICES ASSUME SeqlockInv, Publish PROVE SeqlockInv'  OBVIOUS
  <1> USE SeqlockAssumption DEF Publish
  <1>t. SeqlockTypeOK /\ CountersAgree /\ MarkAgrees /\ VersionsCurrent /\ ContentsWhole
        /\ CursorsBehind /\ (\A r \in Readers : CopySound(r)) /\ NoTornRead
    BY DEF SeqlockInv
  <1>w. ~ Writing /\ ~ Writing' /\ Begun' = Begun  BY DEF Writing, Begun
  <1>1. SeqlockTypeOK'  BY <1>t DEF SeqlockTypeOK
  <1>2. CountersAgree'  BY <1>t DEF CountersAgree
  <1>3. MarkAgrees'  BY <1>t, <1>w DEF MarkAgrees
  <1>4. VersionsCurrent'  BY <1>t, <1>w DEF VersionsCurrent
  <1>5. ContentsWhole'  BY <1>t, <1>w DEF ContentsWhole
  <1>6. CursorsBehind'  BY <1>t DEF SeqlockTypeOK, Cursors, CursorsBehind, CountersAgree
  <1>7. \A r \in Readers : CopySound(r)'
    BY <1>t DEF CopySound, SlotOf, Target
  <1>8. NoTornRead'  BY <1>t DEF NoTornRead
  <1> QED
    BY <1>1, <1>2, <1>3, <1>4, <1>5, <1>6, <1>7, <1>8 DEF SeqlockInv

------------------------------------------------------------------------------
(* The readers' steps. *)

Reading(r) == \/ ReadEmpty(r) \/ ReadOverrun(r) \/ ReadBegin(r)
              \/ LoadBefore(r) \/ CopyWord(r) \/ LoadAfter(r)

(* A reader changes nothing of the ring, and nothing of another reader. *)
LEMMA ReaderFrame ==
    ASSUME SeqlockTypeOK, NEW r \in Readers, Reading(r)
    PROVE  /\ UNCHANGED <<slots, next_sequence, published_sequence, writer>>
           /\ \A q \in Readers \ {r} : /\ cursor'[q] = cursor[q]
                                      /\ reader'[q] = reader[q]
                                      /\ result'[q] = result[q]
  <1> USE DEF SeqlockTypeOK
  <1>1. CASE ReadEmpty(r)  BY <1>1 DEF ReadEmpty, Return
  <1>2. CASE ReadOverrun(r)  BY <1>2 DEF ReadOverrun, Return
  <1>3. CASE ReadBegin(r)  BY <1>3 DEF ReadBegin
  <1>4. CASE LoadBefore(r)  BY <1>4 DEF LoadBefore, Retry, Return
  <1>5. CASE CopyWord(r)  BY <1>5 DEF CopyWord
  <1>6. CASE LoadAfter(r)  BY <1>6 DEF LoadAfter, Retry, Return
  <1> QED  BY <1>1, <1>2, <1>3, <1>4, <1>5, <1>6 DEF Reading
(* What a step of reader r leaves of its own state: it is well typed, behind   *)
(* the published count, sound in its copy, and its result is whole.          *)
ReaderSound(r) ==
    /\ cursor'[r] \in Cursors /\ reader'[r] \in Calls /\ result'[r] \in Results
    /\ cursor' = [cursor EXCEPT ![r] = cursor'[r]]
    /\ reader' = [reader EXCEPT ![r] = reader'[r]]
    /\ result' = [result EXCEPT ![r] = result'[r]]
    /\ cursor'[r].next_sequence <= cursor'[r].observed_published_sequence
    /\ cursor'[r].observed_published_sequence <= published_sequence
    /\ reader'[r].at # "idle" =>
          cursor'[r].next_sequence < cursor'[r].observed_published_sequence
    /\ CopySound(r)'
    /\ \A w \in Word : result'[r].out[w] = result'[r].target

(* A call that starts goes by a count between the cached and the published one. *)
LEMMA PublishedBetween ==
    ASSUME SeqlockInv, NEW r \in Readers
    PROVE  /\ cursor[r] \in Cursors /\ reader[r] \in Calls /\ result[r] \in Results
           /\ Published(r) \in Nat /\ published_sequence \in Nat
           /\ cursor[r].next_sequence <= Published(r)
           /\ Published(r) <= published_sequence
           /\ \A w \in Word : result[r].out[w] = result[r].target
  <1>1. cursor[r] \in Cursors /\ reader[r] \in Calls /\ result[r] \in Results
        /\ published_sequence \in Nat
    BY DEF SeqlockInv, SeqlockTypeOK
  <1>2. /\ cursor[r].next_sequence <= cursor[r].observed_published_sequence
        /\ cursor[r].observed_published_sequence <= published_sequence
    BY DEF SeqlockInv, CursorsBehind
  <1>3. \A w \in Word : result[r].out[w] = result[r].target
    BY DEF SeqlockInv, NoTornRead
  <1> QED  BY <1>1, <1>2, <1>3 DEF Published, Cursors

LEMMA ReturnSound ==
    ASSUME SeqlockInv, NEW r \in Readers, NEW status \in {"Empty", "Overrun", "RetryLimit"},
           Return(r, status)
    PROVE  /\ reader'[r] \in Calls /\ result'[r] \in Results /\ reader'[r].at = "idle"
           /\ reader' = [reader EXCEPT ![r] = reader'[r]]
           /\ result' = [result EXCEPT ![r] = result'[r]]
           /\ result'[r].status = status
           /\ \A w \in Word : result'[r].out[w] = result'[r].target
  <1>1. reader[r] \in Calls /\ result[r] \in Results
        /\ \A w \in Word : result[r].out[w] = result[r].target
    BY PublishedBetween
  <1>2. reader \in [Readers -> Calls] /\ result \in [Readers -> Results]
    BY DEF SeqlockInv, SeqlockTypeOK
  <1>3. /\ reader' = [reader EXCEPT ![r] = [reader[r] EXCEPT !.at = "idle"]]
        /\ result' = [result EXCEPT ![r] = [result[r] EXCEPT !.status = status]]
    BY <1>2 DEF Return
  <1>4. /\ reader'[r] = [reader[r] EXCEPT !.at = "idle"]
        /\ result'[r] = [result[r] EXCEPT !.status = status]
    BY <1>2, <1>3
  <1>5. [reader[r] EXCEPT !.at = "idle"] \in Calls  BY <1>1 DEF Calls
  <1>6. [result[r] EXCEPT !.status = status] \in Results  BY <1>1 DEF Results
  <1>7. /\ result'[r].status = status /\ result'[r].out = result[r].out
        /\ result'[r].target = result[r].target /\ reader'[r].at = "idle"
    BY <1>1, <1>4 DEF Results, Calls
  <1> QED  BY <1>1, <1>3, <1>4, <1>5, <1>6, <1>7

LEMMA RetrySound ==
    ASSUME SeqlockInv, NEW r \in Readers, Retry(r)
    PROVE  /\ reader'[r] \in Calls /\ result'[r] \in Results
           /\ reader'[r].at \in {"idle", "before"}
           /\ reader' = [reader EXCEPT ![r] = reader'[r]]
           /\ result' = [result EXCEPT ![r] = result'[r]]
           /\ \A w \in Word : result'[r].out[w] = result'[r].target
  <1>1. reader[r] \in Calls /\ result[r] \in Results
        /\ \A w \in Word : result[r].out[w] = result[r].target
    BY PublishedBetween
  <1>2. reader \in [Readers -> Calls] /\ result \in [Readers -> Results]
    BY DEF SeqlockInv, SeqlockTypeOK
  <1>3. CASE Return(r, "RetryLimit")  BY <1>3, ReturnSound
  <1>4. CASE /\ reader' = [reader EXCEPT ![r].at = "before", ![r].attempt = @ + 1]
             /\ UNCHANGED result
    <2> DEFINE n == reader[r].attempt + 1
               x == [reader[r] EXCEPT !.at = "before", !.attempt = n]
    <2>1. reader' = [reader EXCEPT ![r] = x] /\ reader'[r] = x  BY <1>2, <1>4
    <2>n. n \in Nat  BY <1>1 DEF Calls
    <2> HIDE DEF n
    <2>2. x \in Calls /\ x.at = "before"  BY <1>1, <2>n DEF Calls
    <2>3. result' = [result EXCEPT ![r] = result'[r]]  BY <1>2, <1>4
    <2> QED  BY <1>1, <1>4, <2>1, <2>2, <2>3
  <1> QED  BY <1>3, <1>4 DEF Retry
LEMMA ReaderStepSound ==
    ASSUME SeqlockInv, NEW r \in Readers, Reading(r)
    PROVE  ReaderSound(r)
  <1> USE SeqlockAssumption
  <1>t. /\ cursor \in [Readers -> Cursors] /\ reader \in [Readers -> Calls]
        /\ result \in [Readers -> Results]
    BY DEF SeqlockInv, SeqlockTypeOK
  <1>p. /\ cursor[r] \in Cursors /\ reader[r] \in Calls /\ result[r] \in Results
        /\ Published(r) \in Nat /\ published_sequence \in Nat
        /\ cursor[r].next_sequence <= Published(r)
        /\ Published(r) <= published_sequence
        /\ \A w \in Word : result[r].out[w] = result[r].target
    BY PublishedBetween
  <1>b. /\ cursor[r].next_sequence <= cursor[r].observed_published_sequence
        /\ cursor[r].observed_published_sequence <= published_sequence
        /\ reader[r].at # "idle" =>
              cursor[r].next_sequence < cursor[r].observed_published_sequence
    BY DEF SeqlockInv, CursorsBehind
  <1>k. CopySound(r)  BY DEF SeqlockInv
  <1>1. CASE ReadEmpty(r)
    <2>1. UNCHANGED cursor /\ Return(r, "Empty")  BY <1>1 DEF ReadEmpty
    <2> QED  BY <1>t, <1>p, <1>b, <2>1, ReturnSound DEF ReaderSound, CopySound
  <1>2. CASE ReadOverrun(r)
    <2> DEFINE o == cursor[r].overruns + (Published(r) - cursor[r].next_sequence) - RingSize
               n == Published(r) - RingSize
               c == [cursor[r] EXCEPT !.observed_published_sequence = Published(r),
                                      !.overruns = o, !.next_sequence = n]
    <2>1. cursor' = [cursor EXCEPT ![r] = c] /\ Return(r, "Overrun")
          /\ Published(r) - cursor[r].next_sequence > RingSize
      BY <1>t, <1>2 DEF ReadOverrun
    <2>2. o \in Nat /\ n \in Nat /\ n <= Published(r)  BY <1>p, <2>1 DEF Cursors
    <2>3. /\ c \in Cursors /\ c.observed_published_sequence = Published(r)
          /\ c.next_sequence = n
      <3> HIDE DEF o, n
      <3> QED  BY <1>p, <2>2 DEF Cursors
    <2>4. cursor'[r] = c  BY <1>t, <2>1
    <2> HIDE DEF c
    <2>5. c.next_sequence <= c.observed_published_sequence
          /\ c.observed_published_sequence <= published_sequence
      BY <1>p, <2>2, <2>3
    <2> QED  BY <1>t, <1>p, <2>1, <2>3, <2>4, <2>5, ReturnSound DEF ReaderSound, CopySound
  <1>3. CASE ReadBegin(r)
    <2> DEFINE c == [cursor[r] EXCEPT !.observed_published_sequence = Published(r)]
               x == [reader[r] EXCEPT !.at = "before", !.attempt = 0]
    <2>1. cursor' = [cursor EXCEPT ![r] = c] /\ reader' = [reader EXCEPT ![r] = x]
          /\ UNCHANGED result
      BY <1>t, <1>3 DEF ReadBegin
    <2>n. cursor[r].next_sequence < Published(r)
      BY <1>p, <1>3 DEF ReadBegin, Cursors
    <2>2. c \in Cursors /\ x \in Calls  BY <1>p DEF Cursors, Calls
    <2>3. /\ c.observed_published_sequence = Published(r)
          /\ c.next_sequence = cursor[r].next_sequence /\ x.at = "before"
      BY <1>p DEF Cursors, Calls
    <2>4. cursor'[r] = c /\ reader'[r] = x /\ result'[r] = result[r]
          /\ result' = [result EXCEPT ![r] = result'[r]]
      BY <1>t, <2>1
    <2> HIDE DEF c, x
    <2> QED  BY <1>p, <2>1, <2>n, <2>2, <2>3, <2>4 DEF ReaderSound, CopySound, Cursors
  <1>4. CASE LoadBefore(r)
    <2>0. UNCHANGED <<cursor, slots>> /\ reader[r].at = "before"
      BY <1>4 DEF LoadBefore
    <2>c. cursor'[r] = cursor[r] /\ cursor' = [cursor EXCEPT ![r] = cursor'[r]]
      BY <1>t, <2>0
    <2>1. CASE Retry(r)
      BY <1>t, <1>p, <1>b, <2>0, <2>1, <2>c, RetrySound DEF ReaderSound, CopySound
    <2>2. CASE /\ SlotOf(r).version = Version(Target(r), FALSE)
               /\ reader' = [reader EXCEPT ![r].at = "copy", ![r].word = 1,
                                           ![r].before = SlotOf(r).version]
               /\ UNCHANGED result
      <3> DEFINE v == Version(Target(r), FALSE)
                 x == [reader[r] EXCEPT !.at = "copy", !.word = 1, !.before = v]
      <3>1. reader' = [reader EXCEPT ![r] = x] /\ reader'[r] = x  BY <1>t, <2>2
      <3>2. v \in Versions  BY <1>p DEF Version, Versions, Target, Cursors
      <3>3. x \in Calls /\ x.at = "copy" /\ x.word = 1 /\ x.before = v
        <4> HIDE DEF v
        <4>1. 1 \in 1 .. Words + 1  OBVIOUS
        <4> QED  BY <1>p, <3>2, <4>1 DEF Calls
      <3>4. result'[r] = result[r] /\ result' = [result EXCEPT ![r] = result'[r]]
        BY <1>t, <2>2
      <3>5. SlotOf(r)' = SlotOf(r) /\ Target(r)' = Target(r)
        BY <2>0 DEF SlotOf, Target
      <3> HIDE DEF x
      <3>6. CopySound(r)'
        <4>1. 1 # Words + 1 /\ 1 .. 1 - 1 = {}  OBVIOUS
        <4> QED  BY <2>2, <3>1, <3>3, <3>5, <4>1 DEF CopySound
      <3> QED  BY <1>p, <1>b, <2>0, <2>c, <3>1, <3>3, <3>4, <3>6 DEF ReaderSound
    <2> QED  BY <1>4, <2>1, <2>2 DEF LoadBefore
  <1>5. CASE CopyWord(r)
    <2> DEFINE w == reader[r].word
               x == [reader[r] EXCEPT !.candidate[w] = SlotOf(r).value[w],
                                      !.word = w + 1,
                                      !.at = IF w = Words THEN "after" ELSE "copy"]
    <2>0. UNCHANGED <<cursor, slots, result>> /\ reader[r].at = "copy"
      BY <1>5 DEF CopyWord
    <2>c. /\ cursor'[r] = cursor[r] /\ cursor' = [cursor EXCEPT ![r] = cursor'[r]]
          /\ result'[r] = result[r] /\ result' = [result EXCEPT ![r] = result'[r]]
      BY <1>t, <2>0
    <2>1. reader' = [reader EXCEPT ![r] = x] /\ reader'[r] = x
      BY <1>t, <1>5 DEF CopyWord
    <2>w. w \in Word /\ w + 1 \in 1 .. Words + 1
      BY <1>p, <1>k, <2>0 DEF CopySound, Calls, Word
    <2>s. /\ Target(r) \in Nat /\ Target(r) % RingSize \in SlotIndex
          /\ SlotOf(r) \in SlotStates /\ SlotOf(r)' = SlotOf(r) /\ Target(r)' = Target(r)
      <3>1. Target(r) \in Nat  BY <1>p DEF Target, Cursors
      <3>2. Target(r) % RingSize \in SlotIndex  BY <3>1, HasSlot
      <3> QED  BY <2>0, <3>1, <3>2 DEF SeqlockInv, SeqlockTypeOK, SlotOf, Target
    <2>2. x \in Calls
      <3>1. SlotOf(r).value[w] \in Int  BY <2>s, <2>w DEF SlotStates
      <3>2. [reader[r].candidate EXCEPT ![w] = SlotOf(r).value[w]] \in [Word -> Int]
        BY <1>p, <3>1 DEF Calls
      <3> HIDE DEF w
      <3> QED  BY <1>p, <2>w, <3>2 DEF Calls
    <2>3. /\ x.word = w + 1 /\ x.before = reader[r].before
          /\ x.at = IF w = Words THEN "after" ELSE "copy"
          /\ x.candidate = [reader[r].candidate EXCEPT ![w] = SlotOf(r).value[w]]
      BY <1>p DEF Calls
    <2> HIDE DEF x
    <2>4. CopySound(r)'
      <3>1. x.word = Words + 1 <=> x.at = "after"  BY <2>w, <2>3 DEF Word
      <3>2. ASSUME SlotOf(r).version = Version(Target(r), FALSE),
                   \A u \in 1 .. w - 1 : reader[r].candidate[u] = Target(r),
                   NEW u \in 1 .. x.word - 1
            PROVE  x.candidate[u] = Target(r)
        <4>1. u \in Word /\ (u = w \/ u \in 1 .. w - 1)  BY <2>w, <2>3 DEF Word
        <4>2. SlotOf(r).value[w] = Target(r)
          BY <2>s, <2>w, <3>2 DEF SeqlockInv, ContentsWhole, SlotOf, Version
        <4>3. reader[r].candidate \in [Word -> Int]  BY <1>p DEF Calls
        <4> QED  BY <2>3, <2>w, <3>2, <4>1, <4>2, <4>3
      <3>3. reader[r].before = Version(Target(r), FALSE)  BY <1>k, <2>0 DEF CopySound
      <3>4. \/ SlotOf(r).version.sequence > Target(r)
            \/ /\ SlotOf(r).version = Version(Target(r), FALSE)
               /\ \A u \in 1 .. x.word - 1 : x.candidate[u] = Target(r)
        BY <1>k, <2>0, <3>2 DEF CopySound
      <3> QED  BY <2>1, <2>3, <2>s, <3>1, <3>3, <3>4 DEF CopySound
    <2> QED  BY <1>p, <1>b, <2>0, <2>c, <2>1, <2>2, <2>4 DEF ReaderSound
  <1>6. CASE LoadAfter(r)
    <2>0. reader[r].at = "after"  BY <1>6 DEF LoadAfter
    <2>1. CASE Retry(r) /\ UNCHANGED cursor
      <3>1. cursor'[r] = cursor[r] /\ cursor' = [cursor EXCEPT ![r] = cursor'[r]]
        BY <1>t, <2>1
      <3> QED
        BY <1>p, <1>b, <2>0, <2>1, <3>1, RetrySound DEF ReaderSound, CopySound
    <2>2. CASE /\ SlotOf(r).version = reader[r].before
               /\ cursor' = [cursor EXCEPT ![r].next_sequence = @ + 1]
               /\ reader' = [reader EXCEPT ![r].at = "idle"]
               /\ result' = [result EXCEPT ![r] = [status |-> "Success",
                              target |-> Target(r), out |-> reader[r].candidate]]
      <3> DEFINE n == cursor[r].next_sequence + 1
                 c == [cursor[r] EXCEPT !.next_sequence = n]
                 x == [reader[r] EXCEPT !.at = "idle"]
                 s == [status |-> "Success", target |-> Target(r),
                       out |-> reader[r].candidate]
      <3>1. /\ cursor' = [cursor EXCEPT ![r] = c] /\ cursor'[r] = c
            /\ reader' = [reader EXCEPT ![r] = x] /\ reader'[r] = x
            /\ result' = [result EXCEPT ![r] = s] /\ result'[r] = s
        BY <1>t, <2>2
      <3>2. n \in Nat /\ Target(r) \in Nat  BY <1>p DEF Cursors, Target
      <3>3. /\ c \in Cursors /\ c.next_sequence = n
            /\ c.observed_published_sequence = cursor[r].observed_published_sequence
        <4> HIDE DEF n
        <4> QED  BY <1>p, <3>2 DEF Cursors
      <3>4. x \in Calls /\ x.at = "idle"  BY <1>p DEF Calls
      <3>5. s \in Results  BY <1>p, <3>2 DEF Results, Calls
      <3>6. ASSUME NEW w \in Word PROVE s.out[w] = s.target
        <4>1. /\ reader[r].before = Version(Target(r), FALSE) /\ reader[r].word = Words + 1
          BY <1>k, <2>0 DEF CopySound
        <4>2. ~(SlotOf(r).version.sequence > Target(r))
          BY <2>2, <3>2, <4>1 DEF Version
        <4>3. \A u \in 1 .. reader[r].word - 1 : reader[r].candidate[u] = Target(r)
          BY <1>k, <2>0, <4>2 DEF CopySound
        <4> QED  BY <4>1, <4>3 DEF Word
      <3>7. n <= cursor[r].observed_published_sequence  BY <1>p, <1>b, <2>0 DEF Cursors
      <3> HIDE DEF c, x, s
      <3> QED  BY <1>b, <3>1, <3>3, <3>4, <3>5, <3>6, <3>7 DEF ReaderSound, CopySound
    <2> QED  BY <1>6, <2>1, <2>2 DEF LoadAfter
  <1> QED  BY <1>1, <1>2, <1>3, <1>4, <1>5, <1>6 DEF Reading
LEMMA ReaderInv ==
    ASSUME SeqlockInv, NEW r \in Readers, Reading(r)
    PROVE  SeqlockInv'
  <1>t. SeqlockTypeOK /\ CountersAgree /\ MarkAgrees /\ VersionsCurrent /\ ContentsWhole
        /\ CursorsBehind /\ (\A q \in Readers : CopySound(q)) /\ NoTornRead
    BY DEF SeqlockInv
  <1>f. /\ UNCHANGED <<slots, next_sequence, published_sequence, writer>>
        /\ \A q \in Readers \ {r} : /\ cursor'[q] = cursor[q]
                                   /\ reader'[q] = reader[q]
                                   /\ result'[q] = result[q]
    BY <1>t, ReaderFrame
  <1>s. ReaderSound(r)  BY ReaderStepSound
  <1>w. (Writing' <=> Writing) /\ Begun' = Begun /\ Current' = Current
    BY <1>f DEF Writing, Begun, Current
  <1>1. SeqlockTypeOK'  BY <1>t, <1>f, <1>s DEF SeqlockTypeOK, ReaderSound
  <1>2. CountersAgree'  BY <1>t, <1>f DEF CountersAgree
  <1>3. MarkAgrees'  BY <1>t, <1>f, <1>w DEF MarkAgrees
  <1>4. VersionsCurrent'  BY <1>t, <1>f, <1>w DEF VersionsCurrent
  <1>5. ContentsWhole'  BY <1>t, <1>f, <1>w DEF ContentsWhole
  <1>6. CursorsBehind'  BY <1>t, <1>f, <1>s DEF CursorsBehind, ReaderSound
  <1>7. ASSUME NEW q \in Readers PROVE CopySound(q)'
    <2>1. CASE q = r  BY <1>s, <2>1 DEF ReaderSound
    <2>2. CASE q # r
      <3>1. Target(q)' = Target(q) /\ SlotOf(q)' = SlotOf(q) /\ reader'[q] = reader[q]
        BY <1>f, <2>2 DEF Target, SlotOf
      <3> QED  BY <1>t, <3>1 DEF CopySound
    <2> QED  BY <2>1, <2>2
  <1>8. NoTornRead'  BY <1>t, <1>f, <1>s DEF NoTornRead, ReaderSound
  <1> QED
    BY <1>1, <1>2, <1>3, <1>4, <1>5, <1>6, <1>7, <1>8 DEF SeqlockInv

LEMMA StepSeqlockInv == SeqlockInv /\ [SeqlockNext]_seqlockVars => SeqlockInv'
  <1> SUFFICES ASSUME SeqlockInv, [SeqlockNext]_seqlockVars PROVE SeqlockInv'  OBVIOUS
  <1>1. CASE BeginWrite  BY <1>1, BeginWriteInv
  <1>2. CASE WriteWord  BY <1>2, WriteWordInv
  <1>3. CASE EndWrite  BY <1>3, EndWriteInv
  <1>4. CASE Publish  BY <1>4, PublishInv
  <1>5. CASE \E r \in Readers : Reading(r)
    <2>1. PICK r \in Readers : Reading(r)  BY <1>5
    <2> QED  BY <2>1, ReaderInv
  <1>6. CASE UNCHANGED seqlockVars
    BY <1>6 DEF seqlockVars, SeqlockInv, SeqlockTypeOK, CountersAgree, MarkAgrees, VersionsCurrent,
                ContentsWhole, CursorsBehind, CopySound, NoTornRead, Writing, Begun,
                Current, Target, SlotOf
  <1> QED  BY <1>1, <1>2, <1>3, <1>4, <1>5, <1>6 DEF SeqlockNext, Reading

(* The ring's invariant holds for every size, word count and set of readers. *)
THEOREM SeqlockInvariant == SeqlockSpec => []SeqlockInv
  BY InitSeqlockInv, StepSeqlockInv, PTL DEF SeqlockSpec

(* try_read_next never returns a value that mixes two items, nor another item *)
(* than the one the cursor asked for.                                        *)
THEOREM NeverTorn == SeqlockSpec => []NoTornRead
  <1>1. SeqlockInv => NoTornRead  BY DEF SeqlockInv
  <1> QED  BY <1>1, SeqlockInvariant, PTL

------------------------------------------------------------------------------
(* Every item a full round behind the published count has lost its slot. *)
LEMMA RoundBehindIsLost ==
    ASSUME SeqlockInv, NEW n \in Nat, n + RingSize < published_sequence
    PROVE  slots[n % RingSize].version.sequence > n
  <1> USE SeqlockAssumption
  <1>1. /\ next_sequence \in Nat /\ published_sequence \in Nat /\ Begun \in Nat
        /\ published_sequence <= Begun
    BY DEF SeqlockInv, SeqlockTypeOK, CountersAgree, Begun
  <1>2. n + RingSize \in 0 .. Begun - 1  BY <1>1
  <1>3. slots[(n + RingSize) % RingSize].version.sequence >= n + RingSize
    BY <1>2 DEF SeqlockInv, VersionsCurrent
  <1>4. slots[n % RingSize].version.sequence >= n + RingSize  BY <1>3, NextRound
  <1>5. slots[n % RingSize].version.sequence \in Int
    BY HasSlot DEF SeqlockInv, SeqlockTypeOK, SlotStates, Versions
  <1> QED  BY <1>4, <1>5
(* A step that leaves a cursor alone passes over nothing. *)
LEMMA CursorKept ==
    ASSUME SeqlockInv, NEW r \in Readers, cursor'[r] = cursor[r]
    PROVE  PassesOver(r)
  <1>1. cursor[r] \in Cursors  BY PublishedBetween
  <1>2. cursor[r].next_sequence \in Nat /\ cursor[r].overruns \in Nat  BY <1>1 DEF Cursors
  <1> QED  BY <1>2 DEF PassesOver

LEMMA ReaderPassesOver ==
    ASSUME SeqlockInv, NEW r \in Readers, Reading(r)
    PROVE  PassesOver(r)
  <1> USE SeqlockAssumption
  <1>t. /\ cursor \in [Readers -> Cursors] /\ result \in [Readers -> Results]
    BY DEF SeqlockInv, SeqlockTypeOK
  <1>p. /\ cursor[r] \in Cursors /\ Published(r) \in Nat /\ published_sequence \in Nat
        /\ cursor[r].next_sequence \in Nat /\ cursor[r].overruns \in Nat
        /\ Published(r) <= published_sequence
    BY PublishedBetween DEF Cursors
  <1>1. CASE ReadOverrun(r)
    <2> DEFINE from == cursor[r].next_sequence
               to   == Published(r) - RingSize
    <2>1. /\ cursor'[r].next_sequence = to
          /\ cursor'[r].overruns = cursor[r].overruns + (Published(r) - from) - RingSize
      BY <1>t, <1>1 DEF ReadOverrun, Cursors
    <2>2. Published(r) - from > RingSize  BY <1>1 DEF ReadOverrun
    <2>3. to >= from /\ to \in Nat  BY <1>p, <2>2
    <2>4. cursor'[r].overruns - cursor[r].overruns = to - from  BY <1>p, <2>1
    <2>5. ASSUME NEW n \in from .. to - 1 PROVE slots[n % RingSize].version.sequence > n
      <3>1. n \in Nat /\ n + RingSize < published_sequence  BY <1>p, <2>3
      <3> QED  BY <3>1, RoundBehindIsLost
    <2> QED  BY <2>1, <2>3, <2>4, <2>5 DEF PassesOver
  <1>2. CASE LoadAfter(r) /\ ~ UNCHANGED cursor
    <2>1. /\ cursor' = [cursor EXCEPT ![r].next_sequence = @ + 1]
          /\ result' = [result EXCEPT ![r] = [status |-> "Success", target |-> Target(r),
                                              out |-> reader[r].candidate]]
      BY <1>2 DEF LoadAfter
    <2>2. /\ cursor'[r].next_sequence = cursor[r].next_sequence + 1
          /\ cursor'[r].overruns = cursor[r].overruns
      BY <1>t, <2>1 DEF Cursors
    <2>3. result'[r].status = "Success"  BY <1>t, <2>1
    <2> QED  BY <1>p, <2>2, <2>3 DEF PassesOver
  <1>3. CASE ReadBegin(r)
    <2>1. /\ cursor'[r].next_sequence = cursor[r].next_sequence
          /\ cursor'[r].overruns = cursor[r].overruns
      BY <1>t, <1>3 DEF ReadBegin, Cursors
    <2> QED  BY <1>p, <2>1 DEF PassesOver
  <1>4. CASE UNCHANGED cursor  BY <1>4, CursorKept
  <1> QED
    BY <1>1, <1>2, <1>3, <1>4 DEF Reading, ReadEmpty, LoadBefore, CopyWord

(* Whatever the writer does meanwhile, a reader's cursor never goes back, and  *)
(* it moves past an item without delivering it only when the item's slot is  *)
(* already a later item's, counting each such item once in overruns.         *)
THEOREM OnlyLostItemsSkipped == SeqlockSpec => SkipsOnlyLostItems
  <1>1. SeqlockInv /\ [SeqlockNext]_seqlockVars => [\A r \in Readers : PassesOver(r)]_seqlockVars
    <2> SUFFICES ASSUME SeqlockInv, SeqlockNext, NEW q \in Readers PROVE PassesOver(q)
      OBVIOUS
    <2>1. CASE BeginWrite \/ WriteWord \/ EndWrite \/ Publish
      BY <2>1, CursorKept DEF BeginWrite, WriteWord, EndWrite, Publish
    <2>2. CASE \E r \in Readers : Reading(r)
      <3>1. PICK r \in Readers : Reading(r)  BY <2>2
      <3>2. CASE q = r  BY <3>1, <3>2, ReaderPassesOver
      <3>3. CASE q # r
        <4>1. cursor'[q] = cursor[q]  BY <3>1, <3>3, ReaderFrame DEF SeqlockInv
        <4> QED  BY <4>1, CursorKept
      <3> QED  BY <3>2, <3>3
    <2> QED  BY <2>1, <2>2 DEF SeqlockNext, Reading
  <1> QED  BY <1>1, SeqlockInvariant, PTL DEF SeqlockSpec, SkipsOnlyLostItems

------------------------------------------------------------------------------
(* Counting indices. *)

LEMMA CountType ==
    ASSUME NEW J \in SUBSET Nat, NEW i \in Nat
    PROVE  IsFiniteSet({j \in J : j <= i}) /\ CountUpTo(J, i) \in Nat
  BY UpToFinite DEF CountUpTo, UpTo

LEMMA CountZero ==
    ASSUME NEW J \in SUBSET (Nat \ {0}) PROVE CountUpTo(J, 0) = 0
  BY UpToZero DEF CountUpTo, UpTo

LEMMA CountStep ==
    ASSUME NEW J \in SUBSET Nat, NEW i \in Nat
    PROVE  CountUpTo(J, i + 1) = IF i + 1 \in J THEN CountUpTo(J, i) + 1 ELSE CountUpTo(J, i)
  BY UpToNext DEF CountUpTo, UpTo

LEMMA CountMono ==
    ASSUME NEW J \in SUBSET Nat, NEW i \in Nat, NEW k \in Nat, i <= k
    PROVE  CountUpTo(J, i) <= CountUpTo(J, k)
  <1> DEFINE A == {j \in J : j <= i}
             B == {j \in J : j <= k}
  <1>0. \A j \in J : j <= i => j <= k  OBVIOUS
  <1>1. A \in SUBSET B /\ IsFiniteSet(B)
    <2>1. IsFiniteSet(B)  BY CountType
    <2> QED  BY <1>0, <2>1
  <1> HIDE DEF A, B
  <1>2. Cardinality(A) <= Cardinality(B)  BY <1>1, FS_Subset
  <1> QED  BY <1>2 DEF CountUpTo, A, B

(* Only the indices up to i count. *)
LEMMA CountAgree ==
    ASSUME NEW J \in SUBSET Nat, NEW K \in SUBSET Nat, NEW i \in Nat,
           \A j \in Nat : j <= i => (j \in J <=> j \in K)
    PROVE  CountUpTo(J, i) = CountUpTo(K, i)
  <1>1. {j \in J : j <= i} = {j \in K : j <= i}  OBVIOUS
  <1> QED  BY <1>1 DEF CountUpTo

(* A member is counted behind everything before it. *)
LEMMA CountStrict ==
    ASSUME NEW J \in SUBSET Nat, NEW i \in Nat, NEW k \in J, i < k
    PROVE  CountUpTo(J, i) < CountUpTo(J, k)
  <1>1. k \in Nat /\ k - 1 \in Nat /\ i <= k - 1 /\ (k - 1) + 1 = k  OBVIOUS
  <1>2. CountUpTo(J, k) = CountUpTo(J, k - 1) + 1  BY <1>1, CountStep
  <1>3. CountUpTo(J, i) <= CountUpTo(J, k - 1)  BY <1>1, CountMono
  <1>4. CountUpTo(J, i) \in Nat /\ CountUpTo(J, k - 1) \in Nat  BY <1>1, CountType
  <1> QED  BY <1>2, <1>3, <1>4

LEMMA CountPositive ==
    ASSUME NEW J \in SUBSET (Nat \ {0}), NEW k \in J
    PROVE  CountUpTo(J, k) >= 1
  <1>1. J \in SUBSET Nat /\ 0 \in Nat /\ 0 < k /\ k \in Nat  OBVIOUS
  <1>2. CountUpTo(J, 0) < CountUpTo(J, k)  BY <1>1, CountStrict
  <1>3. CountUpTo(J, k) \in Nat  BY <1>1, CountType
  <1> QED  BY <1>2, <1>3, CountZero

(* Every count up to the last is that of a member. *)
LEMMA CountOnto ==
    ASSUME NEW J \in SUBSET (Nat \ {0}), NEW n \in Nat, NEW r \in 1 .. CountUpTo(J, n)
    PROVE  \E i \in J : i <= n /\ CountUpTo(J, i) = r
  <1>1. \A i : CountUpTo(J, i) = Cardinality(UpTo(J, i))  BY DEF CountUpTo, UpTo
  <1> QED  BY <1>1, UpToOnto

------------------------------------------------------------------------------
(* Counting the events of a venue in a sequence. *)

LEMMA VenueIndices ==
    ASSUME NEW S, NEW q \in Seq(S), NEW v
    PROVE  /\ OfVenue(q, v) \in SUBSET (Nat \ {0}) /\ OfVenue(q, v) \in SUBSET Nat
           /\ \A j \in OfVenue(q, v) : j \in 1 .. Len(q) /\ q[j].venue = v
           /\ \A j \in 1 .. Len(q) : q[j].venue = v => j \in OfVenue(q, v)
           /\ VenueCount(q, v) \in Nat
  <1>1. DOMAIN q = 1 .. Len(q) /\ Len(q) \in Nat  BY LenProperties
  <1>2. OfVenue(q, v) \in SUBSET Nat  BY <1>1 DEF OfVenue
  <1>3. VenueCount(q, v) \in Nat  BY <1>1, <1>2, CountType DEF VenueCount
  <1> QED  BY <1>1, <1>2, <1>3 DEF OfVenue

(* Two sequences that agree up to i count the same up to it. *)
LEMMA VenueCountAgree ==
    ASSUME NEW S, NEW q \in Seq(S), NEW d \in Seq(S), NEW v, NEW i \in Nat,
           i <= Len(q), i <= Len(d), \A j \in 1 .. i : d[j] = q[j]
    PROVE  CountUpTo(OfVenue(d, v), i) = CountUpTo(OfVenue(q, v), i)
  <1>1. DOMAIN q = 1 .. Len(q) /\ Len(q) \in Nat /\ DOMAIN d = 1 .. Len(d) /\ Len(d) \in Nat
    BY LenProperties
  <1>2. OfVenue(q, v) \in SUBSET Nat /\ OfVenue(d, v) \in SUBSET Nat  BY VenueIndices
  <1>3. ASSUME NEW j \in Nat, j <= i PROVE j \in OfVenue(d, v) <=> j \in OfVenue(q, v)
    <2>1. CASE j = 0  BY <1>1, <2>1 DEF OfVenue
    <2>2. CASE j # 0
      <3>1. j \in 1 .. i /\ j \in DOMAIN q /\ j \in DOMAIN d  BY <1>1, <1>3, <2>2
      <3> QED  BY <3>1 DEF OfVenue
    <2> QED  BY <2>1, <2>2
  <1> QED  BY <1>2, <1>3, CountAgree

LEMMA RankAgree ==
    ASSUME NEW S, NEW q \in Seq(S), NEW d \in Seq(S), NEW i \in 1 .. Len(q),
           i <= Len(d), \A j \in 1 .. i : d[j] = q[j]
    PROVE  VenueRank(d, i) = VenueRank(q, i)
  <1>1. Len(q) \in Nat /\ i \in Nat /\ i <= Len(q) /\ d[i] = q[i]  OBVIOUS
  <1>2. CountUpTo(OfVenue(d, q[i].venue), i) = CountUpTo(OfVenue(q, q[i].venue), i)
    BY <1>1, VenueCountAgree
  <1> QED  BY <1>1, <1>2 DEF VenueRank

(* How d counts, with one event e more than q. *)
CountsOneMore(d, q, e) ==
    /\ \A v : VenueCount(d, v) = IF e.venue = v THEN VenueCount(q, v) + 1 ELSE VenueCount(q, v)
    /\ \A i \in 1 .. Len(q) : VenueRank(d, i) = VenueRank(q, i)
    /\ VenueRank(d, Len(q) + 1) = VenueCount(q, e.venue) + 1

(* One more event at the end. *)
LEMMA VenueAppend ==
    ASSUME NEW S, NEW q \in Seq(S), NEW e \in S, NEW d, d = Append(q, e)
    PROVE  CountsOneMore(d, q, e)
  <1> DEFINE n == Len(q)
  <1>1. /\ d \in Seq(S) /\ Len(d) = n + 1 /\ n \in Nat
        /\ \A i \in 1 .. n : d[i] = q[i]
        /\ d[n + 1] = e
    BY AppendProperties, LenProperties
  <1> HIDE DEF n
  <1>2. ASSUME NEW v
        PROVE  VenueCount(d, v) = IF e.venue = v THEN VenueCount(q, v) + 1 ELSE VenueCount(q, v)
    <2>1. OfVenue(d, v) \in SUBSET Nat  BY <1>1, VenueIndices
    <2>2. CountUpTo(OfVenue(d, v), n) = CountUpTo(OfVenue(q, v), n)
      <3>1. n <= Len(q) /\ n <= Len(d)  BY <1>1 DEF n
      <3>2. \A j \in 1 .. n : d[j] = q[j]  BY <1>1
      <3> QED  BY <1>1, <3>1, <3>2, VenueCountAgree, ZenonT(40)
    <2>3. n + 1 \in OfVenue(d, v) <=> e.venue = v
      <3>1. n + 1 \in 1 .. Len(d)  BY <1>1
      <3>2. n + 1 \in DOMAIN d  BY <1>1, <3>1, LenProperties
      <3> QED  BY <1>1, <3>2 DEF OfVenue
    <2>4. CountUpTo(OfVenue(d, v), n + 1) = IF n + 1 \in OfVenue(d, v)
                                            THEN CountUpTo(OfVenue(d, v), n) + 1
                                            ELSE CountUpTo(OfVenue(d, v), n)
      BY <1>1, <2>1, CountStep
    <2> QED  BY <1>1, <2>2, <2>3, <2>4 DEF VenueCount, n
  <1>3. ASSUME NEW i \in 1 .. n PROVE VenueRank(d, i) = VenueRank(q, i)
    <2>1. i \in 1 .. Len(q) /\ i <= Len(d) /\ \A j \in 1 .. i : d[j] = q[j]
      BY <1>1 DEF n
    <2> QED  BY <1>1, <2>1, RankAgree
  <1>4. VenueRank(d, n + 1) = VenueCount(q, e.venue) + 1
    <2>1. VenueRank(d, n + 1) = VenueCount(d, e.venue)  BY <1>1 DEF VenueRank, VenueCount
    <2> QED  BY <1>2, <2>1
  <1> QED  BY <1>2, <1>3, <1>4 DEF n, CountsOneMore

(* Every number up to the venue's count is the rank of one of its events. *)
LEMMA RankOnto ==
    ASSUME NEW S, NEW q \in Seq(S), NEW v, NEW n \in 1 .. VenueCount(q, v)
    PROVE  \E i \in OfVenue(q, v) : VenueRank(q, i) = n
  <1>1. OfVenue(q, v) \in SUBSET (Nat \ {0}) /\ \A j \in OfVenue(q, v) : q[j].venue = v
    BY VenueIndices
  <1>2. Len(q) \in Nat /\ n \in 1 .. CountUpTo(OfVenue(q, v), Len(q))
    BY LenProperties DEF VenueCount
  <1>3. PICK i \in OfVenue(q, v) : CountUpTo(OfVenue(q, v), i) = n
    BY <1>1, <1>2, CountOnto
  <1>4. VenueRank(q, i) = n  BY <1>1, <1>3 DEF VenueRank
  <1> QED  BY <1>4

------------------------------------------------------------------------------
(* The order of events, and the merger. *)

(* ev is an event or its id, in the range of ExchangeTs. *)
IsEvent(ev) == ev.venue \in Venues /\ ev.sequence \in 1 .. MaxEvents

LEMMA EventTime ==
    ASSUME NEW a, IsEvent(a)
    PROVE  /\ ExchangeTs[a.venue][a.sequence] \in Nat /\ a.venue \in Nat /\ a.sequence \in Nat
  <1>1. a.venue \in Venues /\ a.sequence \in 1 .. MaxEvents  BY DEF IsEvent
  <1>2. ExchangeTs[a.venue][a.sequence] \in Nat  BY <1>1, ShardedAssumption, Zenon
  <1>3. a.venue \in Nat  BY <1>1, VenuesAssumption
  <1>4. a.sequence \in Nat
    <2> DEFINE n == a.sequence
    <2> HIDE DEF n
    <2> SUFFICES n \in Nat  BY DEF n
    <2>1. n \in 1 .. MaxEvents  BY <1>1 DEF n
    <2> QED  BY <2>1
  <1> QED  BY <1>2, <1>3, <1>4

LEMMA LessTransitive ==
    ASSUME NEW a, NEW b, NEW c, IsEvent(a), IsEvent(b), IsEvent(c),
           ~LessEvent(b, a), ~LessEvent(c, b)
    PROVE  ~LessEvent(c, a)
  <1> DEFINE ta == ExchangeTs[a.venue][a.sequence]
             tb == ExchangeTs[b.venue][b.sequence]
             tc == ExchangeTs[c.venue][c.sequence]
  <1>1. ta \in Nat /\ a.venue \in Nat /\ a.sequence \in Nat  BY EventTime
  <1>2. tb \in Nat /\ b.venue \in Nat /\ b.sequence \in Nat  BY EventTime
  <1>3. tc \in Nat /\ c.venue \in Nat /\ c.sequence \in Nat  BY EventTime
  <1>4. ~(\/ tb < ta
          \/ tb = ta /\ b.venue < a.venue
          \/ tb = ta /\ b.venue = a.venue /\ b.sequence < a.sequence)
    BY DEF LessEvent
  <1>5. ~(\/ tc < tb
          \/ tc = tb /\ c.venue < b.venue
          \/ tc = tb /\ c.venue = b.venue /\ c.sequence < b.sequence)
    BY DEF LessEvent
  <1> SUFFICES ~(\/ tc < ta
                 \/ tc = ta /\ c.venue < a.venue
                 \/ tc = ta /\ c.venue = a.venue /\ c.sequence < a.sequence)
    BY DEF LessEvent
  <1> HIDE DEF ta, tb, tc
  <1> QED  BY <1>1, <1>2, <1>3, <1>4, <1>5

(* Events of two venues are never equal. *)
LEMMA LessTotal ==
    ASSUME NEW a, NEW b, IsEvent(a), IsEvent(b), a.venue # b.venue
    PROVE  LessEvent(a, b) \/ LessEvent(b, a)
  <1> DEFINE ta == ExchangeTs[a.venue][a.sequence]
             tb == ExchangeTs[b.venue][b.sequence]
  <1>1. ta \in Nat /\ a.venue \in Nat  BY EventTime
  <1>2. tb \in Nat /\ b.venue \in Nat  BY EventTime
  <1>3. LessEvent(a, b) <=> \/ ta < tb
                            \/ ta = tb /\ a.venue < b.venue
                            \/ ta = tb /\ a.venue = b.venue /\ a.sequence < b.sequence
    BY DEF LessEvent
  <1>4. LessEvent(b, a) <=> \/ tb < ta
                            \/ tb = ta /\ b.venue < a.venue
                            \/ tb = ta /\ b.venue = a.venue /\ b.sequence < a.sequence
    BY DEF LessEvent
  <1> HIDE DEF ta, tb
  <1> QED  BY <1>1, <1>2, <1>3, <1>4

(* The comparison looks at the venue and the number only. *)
LEMMA LessById ==
    ASSUME NEW a, NEW b, NEW c, NEW d, a.venue = c.venue, a.sequence = c.sequence,
           b.venue = d.venue, b.sequence = d.sequence
    PROVE  LessEvent(a, b) <=> LessEvent(c, d)
  BY DEF LessEvent

(* Some front is less than all others. *)
LEMMA LeastFront ==
    ASSUME NEW W \in SUBSET (0 .. 2), W # {}, NEW T \in [W -> Nat]
    PROVE  \E v \in W : \A u \in W \ {v} : T[v] < T[u] \/ (T[v] = T[u] /\ v < u)
  <1> DEFINE K == {3 * T[v] + v : v \in W}
  <1>0. ASSUME NEW v \in W PROVE 3 * T[v] + v \in Nat
    <2>1. T[v] \in Nat /\ v \in 0 .. 2  OBVIOUS
    <2> QED  BY <2>1
  <1>1. K \subseteq Nat /\ K # {}  BY <1>0
  <1>2. PICK x \in K : \A y \in K : x <= y  BY <1>1, LeastMember
  <1>3. PICK v \in W : x = 3 * T[v] + v  BY <1>2
  <1>4. ASSUME NEW u \in W \ {v} PROVE T[v] < T[u] \/ (T[v] = T[u] /\ v < u)
    <2>1. 3 * T[v] + v <= 3 * T[u] + u  BY <1>2, <1>3
    <2>2. T[v] \in Nat /\ T[u] \in Nat /\ v \in 0 .. 2 /\ u \in 0 .. 2 /\ u # v  OBVIOUS
    <2> QED  BY <2>1, <2>2
  <1> QED  BY <1>4

LEMMA BestVenueLeast ==
    ASSUME NEW q \in [Venues -> Seq(1 .. MaxEvents)], ~NothingQueued(q)
    PROVE  /\ BestVenue(q) \in Venues /\ q[BestVenue(q)] # <<>>
           /\ \A u \in Venues \ {BestVenue(q)} :
                 q[u] # <<>> => LessEvent(FrontOf(q, BestVenue(q)), FrontOf(q, u))
  <1> DEFINE W == {v \in Venues : q[v] # <<>>}
             T == [v \in W |-> ExchangeTs[v][Head(q[v])]]
  <1>1. W \in SUBSET (0 .. 2) /\ W # {}  BY ShardedAssumption DEF NothingQueued
  <1>2. T \in [W -> Nat]
    <2> SUFFICES ASSUME NEW v \in W PROVE ExchangeTs[v][Head(q[v])] \in Nat  OBVIOUS
    <2>1. q[v] \in Seq(1 .. MaxEvents) /\ q[v] # <<>>  OBVIOUS
    <2>2. Head(q[v]) \in 1 .. MaxEvents  BY <2>1, HeadTailProperties
    <2> QED  BY <2>2, ShardedAssumption
  <1>3. \A v \in W : T[v] = ExchangeTs[v][Head(q[v])]  OBVIOUS
  <1> HIDE DEF T
  <1>4. PICK b \in W : \A u \in W \ {b} : T[b] < T[u] \/ (T[b] = T[u] /\ b < u)
    BY <1>1, <1>2, LeastFront
  <1>5. \A u \in W \ {b} : LessEvent(FrontOf(q, b), FrontOf(q, u))
    <2> TAKE u \in W \ {b}
    <2>1. T[b] < T[u] \/ (T[b] = T[u] /\ b < u)  BY <1>4
    <2>2. T[b] = ExchangeTs[b][Head(q[b])] /\ T[u] = ExchangeTs[u][Head(q[u])]  BY <1>3
    <2> QED  BY <2>1, <2>2 DEF LessEvent, FrontOf
  <1>6. \E v \in W : \A u \in W \ {v} : LessEvent(FrontOf(q, v), FrontOf(q, u))
    BY <1>5
  <1>7. BestVenue(q) = CHOOSE v \in W : \A u \in W \ {v} : LessEvent(FrontOf(q, v), FrontOf(q, u))
    BY DEF BestVenue
  <1>8. BestVenue(q) \in W
        /\ \A u \in W \ {BestVenue(q)} : LessEvent(FrontOf(q, BestVenue(q)), FrontOf(q, u))
    BY <1>6, <1>7
  <1> QED  BY <1>8

------------------------------------------------------------------------------
(* The rings. *)

(* Taking an event out of the ring into the pipeline leaves what was pushed. *)
LEMMA ConcatMove ==
    ASSUME NEW S, NEW p \in Seq(S), NEW r \in Seq(S), r # <<>>
    PROVE  Append(p, Head(r)) \o Tail(r) = p \o r
  <1> DEFINE h == Head(r)
             t == Tail(r)
             a == Append(p, h)
  <1>1. h \in S /\ t \in Seq(S) /\ Len(t) = Len(r) - 1
        /\ \A i \in 1 .. Len(t) : t[i] = r[i + 1]
    BY HeadTailProperties
  <1>2. r[1] = h /\ Len(r) \in Nat \ {0} /\ Len(p) \in Nat  BY EmptySeq
  <1> HIDE DEF h, t
  <1>3. a \in Seq(S) /\ Len(a) = Len(p) + 1 /\ a[Len(p) + 1] = h
        /\ \A i \in 1 .. Len(p) : a[i] = p[i]
    BY <1>1, AppendProperties
  <1> HIDE DEF a
  <1>4. a \o t \in Seq(S) /\ Len(a \o t) = Len(a) + Len(t)
        /\ \A i \in 1 .. Len(a) + Len(t) : (a \o t)[i] = IF i <= Len(a) THEN a[i] ELSE t[i - Len(a)]
    BY <1>1, <1>3, ConcatProperties
  <1>5. p \o r \in Seq(S) /\ Len(p \o r) = Len(p) + Len(r)
        /\ \A i \in 1 .. Len(p) + Len(r) : (p \o r)[i] = IF i <= Len(p) THEN p[i] ELSE r[i - Len(p)]
    BY ConcatProperties
  <1>6. Len(a) + Len(t) = Len(p) + Len(r)  BY <1>1, <1>2, <1>3
  <1>7. ASSUME NEW i \in 1 .. Len(p) + Len(r) PROVE (a \o t)[i] = (p \o r)[i]
    <2>1. CASE i <= Len(p)
      <3>1. i \in 1 .. Len(p) /\ i <= Len(a)  BY <1>2, <1>3, <2>1
      <3> QED  BY <1>3, <1>4, <1>5, <1>6, <2>1, <3>1
    <2>2. CASE i = Len(p) + 1
      <3>1. i <= Len(a) /\ ~(i <= Len(p)) /\ i - Len(p) = 1  BY <1>2, <1>3, <2>2
      <3> QED  BY <1>2, <1>3, <1>4, <1>5, <1>6, <2>2, <3>1
    <2>3. CASE i > Len(p) + 1
      <3> DEFINE j == i - Len(a)
      <3>1. ~(i <= Len(a)) /\ ~(i <= Len(p)) /\ j \in 1 .. Len(t) /\ i - Len(p) = j + 1
        BY <1>1, <1>2, <1>3, <2>3
      <3>2. (a \o t)[i] = t[j] /\ (p \o r)[i] = r[j + 1]
        BY <1>4, <1>5, <1>6, <3>1
      <3> QED  BY <1>1, <3>1, <3>2
    <2>4. i <= Len(p) \/ i = Len(p) + 1 \/ i > Len(p) + 1  BY <1>2
    <2> QED  BY <2>1, <2>2, <2>3, <2>4
  <1>8. a \o t = p \o r  BY <1>4, <1>5, <1>6, <1>7, SeqEqual
  <1> QED  BY <1>8 DEF a, h, t

LEMMA ConcatAppend ==
    ASSUME NEW p \in Seq(Events), NEW r \in Seq(Events), NEW e \in Events
    PROVE  p \o Append(r, e) = Append(p \o r, e)
  <1>1. Append(r, e) = r \o <<e>> /\ <<e>> \in Seq(Events)  BY AppendIsConcat
  <1>2. p \o r \in Seq(Events)  BY ConcatProperties
  <1>3. Append(p \o r, e) = (p \o r) \o <<e>>  BY <1>2, AppendIsConcat
  <1>4. (p \o r) \o <<e>> = p \o (r \o <<e>>)  BY <1>1, ConcatAssociative
  <1> QED  BY <1>1, <1>3, <1>4

LEMMA ShardIndices ==
    ASSUME NEW S, NEW q \in Seq(S), NEW s
    PROVE  OfShard(q, s) \in SUBSET (Nat \ {0}) /\ OfShard(q, s) \in SUBSET Nat
           /\ OfShard(q, s) \in SUBSET (1 .. Len(q))
  <1>1. DOMAIN q = 1 .. Len(q) /\ Len(q) \in Nat  BY LenProperties
  <1> QED  BY <1>1 DEF OfShard

(* What e at the end of q makes of the places and counts of shard s. *)
CountedBehind(q, e, d, s) ==
    /\ \A i \in 1 .. Len(q) : /\ i \in OfShard(d, s) <=> i \in OfShard(q, s)
                              /\ CountUpTo(OfShard(d, s), i) = CountUpTo(OfShard(q, s), i)
    /\ Len(q) + 1 \in OfShard(d, s) <=> ShardFor[e.symbol] = s
    /\ CountUpTo(OfShard(d, s), Len(d)) =
          IF ShardFor[e.symbol] = s THEN CountUpTo(OfShard(q, s), Len(q)) + 1
          ELSE CountUpTo(OfShard(q, s), Len(q))
    /\ OfShard(d, s) \in SUBSET (1 .. Len(q) + 1)

LEMMA ShardAppend ==
    ASSUME NEW q \in Seq(Events), NEW e \in Events, NEW d, d = Append(q, e), NEW s
    PROVE  CountedBehind(q, e, d, s)
  <1> DEFINE n == Len(q)
             J == OfShard(q, s)
             K == OfShard(d, s)
  <1>1. /\ d \in Seq(Events) /\ Len(d) = n + 1 /\ n \in Nat
        /\ \A i \in 1 .. n : d[i] = q[i]
        /\ d[n + 1] = e /\ DOMAIN q = 1 .. n /\ DOMAIN d = 1 .. n + 1
    BY AppendProperties, LenProperties
  <1>2. J \in SUBSET Nat /\ K \in SUBSET Nat /\ K \in SUBSET (1 .. n + 1)
    BY <1>1, ShardIndices
  <1> HIDE DEF n
  <1>3. ASSUME NEW i \in 1 .. n PROVE i \in K <=> i \in J
    <2>1. i \in DOMAIN q /\ i \in DOMAIN d  BY <1>1
    <2> QED  BY <1>1, <2>1 DEF OfShard
  <1>4. n + 1 \in K <=> ShardFor[e.symbol] = s
    <2>1. n + 1 \in DOMAIN d  BY <1>1
    <2> QED  BY <1>1, <2>1 DEF OfShard
  <1>5. ~(0 \in J) /\ ~(0 \in K)  BY <1>1 DEF OfShard
  <1> HIDE DEF J, K
  <1>6. ASSUME NEW i \in 0 .. n PROVE CountUpTo(K, i) = CountUpTo(J, i)
    <2>1. ASSUME NEW j \in Nat, j <= i PROVE j \in K <=> j \in J
      <3>1. j = 0 \/ j \in 1 .. n  BY <1>1, <2>1
      <3> QED  BY <1>3, <1>5, <3>1
    <2>2. i \in Nat  OBVIOUS
    <2> QED  BY <1>2, <2>1, <2>2, CountAgree
  <1>7. CountUpTo(K, n + 1) = IF n + 1 \in K THEN CountUpTo(K, n) + 1 ELSE CountUpTo(K, n)
    BY <1>1, <1>2, CountStep
  <1>8. n \in 0 .. n /\ \A i \in 1 .. n : i \in 0 .. n  BY <1>1
  <1> QED  BY <1>1, <1>2, <1>3, <1>4, <1>6, <1>7, <1>8 DEF CountedBehind, n, J, K

------------------------------------------------------------------------------
(* The steps. *)

LEMMA EmptyCounts ==
    ASSUME NEW x
    PROVE  CountUpTo(OfShard(<<>>, x), Len(<<>>)) = 0 /\ VenueCount(<<>>, x) = 0
  <1>1. Len(<<>>) = 0 /\ <<>> \in Seq(Events)  BY EmptySeq
  <1>2. OfShard(<<>>, x) \in SUBSET (Nat \ {0}) /\ OfVenue(<<>>, x) \in SUBSET (Nat \ {0})
    BY <1>1, ShardIndices, VenueIndices
  <1> QED  BY <1>1, <1>2, CountZero DEF VenueCount

LEMMA InitShardedInv == Init => ShardedInv
  <1> SUFFICES ASSUME Init PROVE ShardedInv  OBVIOUS
  <1> USE DEF Init
  <1>e. /\ <<>> \in Seq(Events) /\ <<>> \in Seq(Ids) /\ <<>> \in Seq(1 .. MaxEvents)
        /\ Len(<<>>) = 0 /\ DOMAIN <<>> = {}
    BY EmptySeq
  <1>1. TypeOK  BY <1>e DEF TypeOK, NoQueues
  <1>2. ASSUME NEW s \in Shards PROVE Routed(s) /\ Numbered(s) /\ Polled(s)
    <2>1. Pushed(s) = <<>>
      BY <1>e, ConcatEmptySeq DEF Pushed
    <2>2. Routed(s)
      <3>1. OfShard(submitted, s) = {}  BY <1>e DEF OfShard
      <3> QED  BY <1>e, <2>1, <3>1, EmptyCounts DEF Routed
    <2>3. Numbered(s)
      <3>1. \A v \in Venues : local_seq[s][v] = 0 /\ refused[s][v] = {}  OBVIOUS
      <3>2. \A v, m : ~PushedAs(s, v, m) /\ ~WaitsAs(s, v, m)
        BY <1>e, <2>1 DEF PushedAs, WaitsAs
      <3>3. Rising(Pushed(s))  BY <1>e, <2>1 DEF Rising
      <3> QED  BY <3>1, <3>2, <3>3 DEF Numbered
    <2>4. Polled(s)  BY DEF Polled
    <2> QED  BY <2>2, <2>3, <2>4
  <1>3. Sequenced  BY <1>e DEF Sequenced
  <1>4. Folded  BY <1>e DEF Folded, InOrder
  <1>5. Merged  BY DEF Merged, ReaggregatedIsMerge
  <1> QED  BY <1>1, <1>2, <1>3, <1>4, <1>5 DEF ShardedInv

(* A step that submits nothing keeps what is known of the submitted events. *)
LEMMA NothingSubmitted ==
    ASSUME ShardedInv, UNCHANGED <<submitted, ordered, folded, local_seq, refused>>,
           owner' = "pushing" <=> owner = "pushing",
           owner = "pushing" => held' = held,
           \A s \in Shards : Pushed(s)' = Pushed(s)
    PROVE  Sequenced' /\ Folded' /\ \A s \in Shards : Routed(s)' /\ Numbered(s)'
  <1>1. Sequenced'  BY DEF ShardedInv, Sequenced
  <1>2. Folded'  BY DEF ShardedInv, Folded
  <1>3. ASSUME NEW s \in Shards PROVE Routed(s)' /\ Numbered(s)'
    <2>1. Routed(s) /\ Numbered(s) /\ Pushed(s)' = Pushed(s)  BY DEF ShardedInv
    <2>2. Routed(s)'  BY <2>1 DEF Routed
    <2>4. \A v, n : WaitsAs(s, v, n)' <=> WaitsAs(s, v, n)  BY DEF WaitsAs
    <2>5. \A v, n : PushedAs(s, v, n)' <=> PushedAs(s, v, n)  BY <2>1 DEF PushedAs
    <2>6. Rising(Pushed(s))'  BY <2>1 DEF Numbered, Rising
    <2>7. Numbered(s)'  BY <2>1, <2>4, <2>5, <2>6 DEF Numbered
    <2> QED  BY <2>2, <2>7
  <1> QED  BY <1>1, <1>2, <1>3

LEMMA NothingMerged ==
    ASSUME ShardedInv, UNCHANGED <<submitted, queues, reaggregated>>,
           owner' = owner \/ (owner \notin {"draining", "done"} /\ owner' \notin {"draining", "done"})
    PROVE  Merged'
  <1>1. Merged  BY DEF ShardedInv
  <1>2. CASE owner' = owner
    BY <1>1, <1>2 DEF Merged, Merging, ReaggregatedIsMerge
  <1>3. CASE owner \notin {"draining", "done"} /\ owner' \notin {"draining", "done"}
    BY <1>1, <1>3 DEF Merged, ReaggregatedIsMerge
  <1> QED  BY <1>2, <1>3

LEMMA SubmitInv ==
    ASSUME ShardedInv, NEW v \in Venues, NEW symbol \in Symbols, Submit(v, symbol)
    PROVE  ShardedInv'
  <1> DEFINE shard == ShardFor[symbol]
  <1>t. TypeOK /\ Sequenced /\ Folded /\ shard \in Shards
    BY ShardedAssumption DEF ShardedInv
  <1>a. /\ owner = "ready" /\ VenueCount(submitted, v) < MaxEvents
        /\ refused' = refused
        /\ local_seq' = [local_seq EXCEPT ![shard][v] = @ + 1]
        /\ held' = [venue |-> v, sequence |-> VenueCount(submitted, v) + 1, symbol |-> symbol,
                    local |-> local_seq'[shard][v]]
        /\ owner' = "pushing"
        /\ UNCHANGED <<ring, worker, processed, input_closed, submitted, ordered,
                       folded, queues, reaggregated, last_poll>>
    BY DEF Submit, LocalSequence
  <1>l. /\ local_seq' \in [Shards -> [Venues -> Nat]]
        /\ local_seq'[shard][v] = local_seq[shard][v] + 1
        /\ \A s \in Shards, u \in Venues :
              s # shard \/ u # v => local_seq'[s][u] = local_seq[s][u]
    BY <1>t, <1>a DEF TypeOK
  <1>h. /\ held' \in Events /\ held'.venue = v /\ held'.symbol = symbol
        /\ held'.sequence = VenueCount(submitted, v) + 1 /\ held'.local = local_seq'[shard][v]
    <2>1. VenueCount(submitted, v) \in Nat  BY <1>t, VenueIndices DEF TypeOK
    <2>2. VenueCount(submitted, v) + 1 \in 1 .. MaxEvents
      <3> DEFINE n == VenueCount(submitted, v)
      <3>1. n \in Nat /\ n < MaxEvents /\ MaxEvents \in Nat  BY <1>a, <2>1, ShardedAssumption
      <3> HIDE DEF n
      <3> QED  BY <3>1 DEF n
    <2>3. local_seq'[shard][v] \in Nat  BY <1>t, <1>l
    <2> QED  BY <1>a, <2>2, <2>3 DEF Events
  <1>1. TypeOK'  BY <1>t, <1>a, <1>l, <1>h DEF TypeOK
  <1>2. ASSUME NEW s \in Shards PROVE Routed(s)' /\ Numbered(s)' /\ Polled(s)'
    <2>1. Routed(s) /\ Numbered(s) /\ Polled(s) /\ Pushed(s)' = Pushed(s)
      BY <1>a DEF ShardedInv, Pushed
    <2>2. Routed(s)'  BY <1>a, <2>1 DEF Routed
    <2>3. /\ \A u, m : PushedAs(s, u, m)' <=> PushedAs(s, u, m)
          /\ Rising(Pushed(s))'
      BY <2>1 DEF PushedAs, Numbered, Rising
    <2>w. \A u, m : /\ ~WaitsAs(s, u, m)
                    /\ WaitsAs(s, u, m)' <=> s = shard /\ u = v /\ m = local_seq'[shard][v]
      BY <1>a, <1>h DEF WaitsAs
    <2>l. \A u \in Venues : local_seq[s][u] \in Nat  BY <1>t DEF TypeOK
    <2>4. Numbered(s)'
      <3>1. ASSUME NEW u \in Venues, NEW m \in Nat
            PROVE  /\ m \in 1 .. local_seq'[s][u] <=>
                         m \in refused'[s][u] \/ PushedAs(s, u, m)' \/ WaitsAs(s, u, m)'
                   /\ m \in refused'[s][u] => ~PushedAs(s, u, m)' /\ ~WaitsAs(s, u, m)'
                   /\ WaitsAs(s, u, m)' => m = local_seq'[s][u] /\ ~PushedAs(s, u, m)'
        <4>1. /\ m \in refused[s][u] => ~PushedAs(s, u, m)
              /\ m \in 1 .. local_seq[s][u] <=> m \in refused[s][u] \/ PushedAs(s, u, m)
          BY <2>1, <2>w DEF Numbered
        <4>2. CASE s = shard /\ u = v
          <5>1. local_seq'[s][u] = local_seq[s][u] + 1
                /\ (WaitsAs(s, u, m)' <=> m = local_seq[s][u] + 1)
            BY <1>l, <2>w, <4>2
          <5>2. m \in 1 .. local_seq[s][u] + 1 <=>
                   m \in 1 .. local_seq[s][u] \/ m = local_seq[s][u] + 1
            BY <2>l
          <5>3. local_seq[s][u] + 1 \notin 1 .. local_seq[s][u]  BY <2>l
          <5> QED  BY <1>a, <2>3, <4>1, <5>1, <5>2, <5>3
        <4>3. CASE ~(s = shard /\ u = v)
          <5>1. ~WaitsAs(s, u, m)' /\ local_seq'[s][u] = local_seq[s][u]  BY <1>l, <2>w, <4>3
          <5> QED  BY <1>a, <2>3, <4>1, <5>1
        <4> QED  BY <4>2, <4>3
      <3> QED  BY <2>3, <3>1 DEF Numbered
    <2>5. Polled(s)'  BY <1>a, <2>1 DEF Polled
    <2> QED  BY <2>2, <2>4, <2>5
  <1>3. Sequenced'  BY <1>t, <1>a, <1>h DEF Sequenced
  <1>4. Folded'  BY <1>t, <1>a DEF Folded
  <1>5. Merged'
    BY <1>a, NothingMerged
  <1> QED  BY <1>1, <1>2, <1>3, <1>4, <1>5 DEF ShardedInv

(* The event a venue sends next comes behind its others. *)
LEMMA InOrderAppend ==
    ASSUME NEW q \in Seq(Events), NEW e \in Events, InOrder(q),
           q = <<>> \/ ~LessEvent(e, Last(q))
    PROVE  InOrder(Append(q, e))
  <1> DEFINE d == Append(q, e)
             n == Len(q)
  <1>1. /\ d \in Seq(Events) /\ Len(d) = n + 1 /\ n \in Nat /\ d[n + 1] = e
        /\ \A i \in 1 .. n : d[i] = q[i] /\ q[i] \in Events
        /\ DOMAIN q = 1 .. n /\ DOMAIN d = 1 .. n + 1
    BY AppendProperties, LenProperties
  <1>2. \A x \in Events : IsEvent(x)  BY DEF Events, IsEvent
  <1>3. n # 0 => ~LessEvent(e, q[n])
    <2>1. n # 0 => q # <<>>  BY EmptySeq
    <2> QED  BY <2>1 DEF Last
  <1> HIDE DEF d, n
  <1>4. ASSUME NEW i \in 1 .. n + 1, NEW j \in 1 .. n + 1, i < j PROVE ~LessEvent(d[j], d[i])
    <2>1. CASE j \in 1 .. n
      <3>1. i \in 1 .. n  BY <1>1, <1>4, <2>1
      <3> QED  BY <1>1, <1>4, <2>1, <3>1 DEF InOrder
    <2>2. CASE j = n + 1
      <3>1. i \in 1 .. n /\ n \in 1 .. n /\ n # 0 /\ (i < n \/ i = n)  BY <1>1, <1>4, <2>2
      <3>2. d[j] = e /\ d[i] = q[i] /\ ~LessEvent(e, q[n])  BY <1>1, <1>3, <2>2, <3>1
      <3>3. CASE i = n  BY <3>2, <3>3
      <3>4. CASE i < n
        <4>1. ~LessEvent(q[n], q[i])  BY <1>1, <3>1, <3>4 DEF InOrder
        <4>2. IsEvent(q[n]) /\ IsEvent(q[i]) /\ IsEvent(e)  BY <1>1, <1>2, <3>1
        <4> QED  BY <3>2, <4>1, <4>2, LessTransitive
      <3> QED  BY <3>1, <3>3, <3>4
    <2>3. j \in 1 .. n \/ j = n + 1  BY <1>1
    <2> QED  BY <2>1, <2>2, <2>3
  <1>5. InOrder(d)  BY <1>1, <1>4 DEF InOrder
  <1> QED  BY <1>5 DEF d

LEMMA PushInv ==
    ASSUME ShardedInv, PushEvent PROVE ShardedInv'
  <1> DEFINE shard == ShardFor[held.symbol]
             n == Len(submitted)
  <1>t. TypeOK /\ Sequenced /\ Folded  BY DEF ShardedInv
  <1>a. /\ owner = "pushing" /\ owner' = "ready"
        /\ ring' = [ring EXCEPT ![shard] = Append(@, held)]
        /\ submitted' = Append(submitted, held)
        /\ ordered' = (ordered /\ (submitted = <<>> \/ ~LessEvent(held, Last(submitted))))
        /\ folded' = IF ordered' THEN Append(folded, held) ELSE folded
        /\ UNCHANGED <<local_seq, worker, processed, input_closed, queues, reaggregated,
                       last_poll, refused>>
    BY DEF PushEvent, FoldEvent, TargetShard
  <1>h. held \in Events /\ held.venue \in Venues /\ held.symbol \in Symbols /\ shard \in Shards
    <2>1. held \in Events  BY <1>t, <1>a DEF TypeOK
    <2>2. held.symbol \in Symbols /\ held.venue \in Venues  BY <2>1 DEF Events
    <2> QED  BY <2>1, <2>2, ShardedAssumption
  <1>q. submitted \in Seq(Events) /\ submitted' \in Seq(Events) /\ n \in Nat
        /\ folded \in Seq(Events) /\ folded' \in Seq(Events)
        /\ Len(submitted') = n + 1 /\ submitted'[n + 1] = held
        /\ (\A i \in 1 .. n : submitted'[i] = submitted[i])
        /\ DOMAIN submitted = 1 .. n /\ DOMAIN submitted' = 1 .. n + 1
    <2>1. submitted \in Seq(Events) /\ folded \in Seq(Events)  BY <1>t DEF TypeOK
    <2>2. folded' \in Seq(Events)  BY <1>a, <1>h, <2>1, AppendProperties
    <2>3. submitted' \in Seq(Events) /\ Len(submitted') = n + 1 /\ submitted'[n + 1] = held
          /\ \A i \in 1 .. n : submitted'[i] = submitted[i]
      BY <1>a, <1>h, <2>1, AppendProperties
    <2> QED  BY <2>1, <2>2, <2>3, LenProperties
  <1>o. ordered' \in BOOLEAN  BY <1>a
  <1>1. TypeOK'
    <2>1. ring' \in [Shards -> Seq(Events)]
      BY <1>t, <1>a, <1>h, AppendProperties DEF TypeOK
    <2> QED  BY <1>t, <1>a, <1>q, <1>o, <2>1 DEF TypeOK
  <1>2. ASSUME NEW s \in Shards PROVE Routed(s)' /\ Numbered(s)' /\ Polled(s)'
    <2> DEFINE p == Pushed(s)
               g == processed'[s] \o ring'[s]
    <2>1. Routed(s) /\ Numbered(s) /\ Polled(s)  BY DEF ShardedInv
    <2>2. p \in Seq(Events) /\ Len(p) \in Nat /\ DOMAIN p = 1 .. Len(p)
      <3>1. processed[s] \in Seq(Events) /\ ring[s] \in Seq(Events)  BY <1>t DEF TypeOK
      <3>2. p \in Seq(Events)  BY <3>1, ConcatProperties DEF Pushed
      <3> HIDE DEF p
      <3> QED  BY <3>2, LenProperties
    <2>3. Pushed(s)' = g  BY DEF Pushed
    <2>c. /\ \A i \in 1 .. n :
                /\ i \in OfShard(submitted', s) <=> i \in OfShard(submitted, s)
                /\ CountUpTo(OfShard(submitted', s), i) = CountUpTo(OfShard(submitted, s), i)
          /\ n + 1 \in OfShard(submitted', s) <=> shard = s
          /\ CountUpTo(OfShard(submitted', s), n + 1) =
                IF shard = s THEN CountUpTo(OfShard(submitted, s), n) + 1
                ELSE CountUpTo(OfShard(submitted, s), n)
          /\ OfShard(submitted', s) \in SUBSET (1 .. n + 1)
      <3>1. submitted \in Seq(Events) /\ held \in Events /\ submitted' = Append(submitted, held)
            /\ Len(submitted') = Len(submitted) + 1
        BY <1>a, <1>h, <1>q
      <3>2. CountedBehind(submitted, held, submitted', s)  BY <3>1, ShardAppend
      <3> QED  BY <3>1, <3>2 DEF CountedBehind
    <2>r. /\ Len(p) = CountUpTo(OfShard(submitted, s), n)
          /\ \A i \in OfShard(submitted, s) :
                p[CountUpTo(OfShard(submitted, s), i)] = submitted[i]
      BY <2>1 DEF Routed
    <2>i. OfShard(submitted, s) \in SUBSET (Nat \ {0}) /\ OfShard(submitted, s) \in SUBSET Nat
      BY <1>q, ShardIndices
    <2>l. /\ Rising(p)
          /\ \A v \in Venues, m \in Nat :
                /\ m \in 1 .. local_seq[s][v] <=>
                      m \in refused[s][v] \/ PushedAs(s, v, m) \/ WaitsAs(s, v, m)
                /\ m \in refused[s][v] => ~PushedAs(s, v, m) /\ ~WaitsAs(s, v, m)
                /\ WaitsAs(s, v, m) => m = local_seq[s][v] /\ ~PushedAs(s, v, m)
      BY <2>1 DEF Numbered
    <2>w. \A v, m : WaitsAs(s, v, m) <=> held.venue = v /\ held.local = m /\ shard = s
      BY <1>a DEF WaitsAs
    <2>v. \A v, m : ~WaitsAs(s, v, m)'  BY <1>a DEF WaitsAs
    <2>4. Polled(s)'  BY <1>a, <2>1 DEF Polled
    <2>5. CASE s # shard
      <3>1. g = p  BY <1>t, <1>a, <2>5 DEF Pushed, TypeOK
      <3>2. Routed(s)'
        <4>1. ASSUME NEW i \in OfShard(submitted', s)
              PROVE  p[CountUpTo(OfShard(submitted', s), i)] = submitted'[i]
          <5>1. i \in 1 .. n  BY <1>q, <2>c, <2>5
          <5> QED  BY <1>q, <2>c, <2>r, <5>1
        <4> QED  BY <1>q, <2>3, <2>c, <2>r, <2>5, <3>1, <4>1 DEF Routed
      <3>3. Numbered(s)'
        <4>1. \A v, m : PushedAs(s, v, m)' <=> PushedAs(s, v, m)  BY <2>3, <3>1 DEF PushedAs
        <4>2. Rising(Pushed(s))'  BY <2>3, <2>l, <3>1 DEF Rising
        <4>3. \A v, m : ~WaitsAs(s, v, m)  BY <2>w, <2>5
        <4> QED  BY <1>a, <2>l, <2>v, <4>1, <4>2, <4>3 DEF Numbered
      <3> QED  BY <2>4, <3>2, <3>3
    <2>6. CASE s = shard
      <3>1. g = Append(p, held)
        <4>1. processed'[s] = processed[s] /\ ring'[s] = Append(ring[s], held)
              /\ processed[s] \in Seq(Events) /\ ring[s] \in Seq(Events)
          BY <1>t, <1>a, <2>6 DEF TypeOK
        <4>2. processed[s] \o Append(ring[s], held) = Append(processed[s] \o ring[s], held)
          <5>1. processed[s] \in Seq(Events) /\ ring[s] \in Seq(Events) /\ held \in Events
            BY <1>h, <4>1
          <5> QED  BY <5>1, ConcatAppend
        <4> QED  BY <4>1, <4>2 DEF Pushed
      <3>2. /\ g \in Seq(Events) /\ Len(g) = Len(p) + 1 /\ g[Len(p) + 1] = held
            /\ \A i \in 1 .. Len(p) : g[i] = p[i]
        BY <1>h, <2>2, <3>1, AppendProperties
      <3>3. \A v, m : PushedAs(s, v, m) <=> \E i \in 1 .. Len(p) : p[i].venue = v /\ p[i].local = m
        BY <2>2 DEF PushedAs
      <3>p. \A v, m : PushedAs(s, v, m)' <=> \E i \in DOMAIN g : g[i].venue = v /\ g[i].local = m
        BY <2>3 DEF PushedAs
      <3>r. Rising(Pushed(s))' <=> Rising(g)  BY <2>3 DEF Rising
      <3> HIDE DEF p, g
      <3>4. Routed(s)'
        <4>1. ASSUME NEW i \in OfShard(submitted', s)
              PROVE  g[CountUpTo(OfShard(submitted', s), i)] = submitted'[i]
          <5>1. CASE i \in 1 .. n
            <6> DEFINE c == CountUpTo(OfShard(submitted, s), i)
            <6>1. i \in OfShard(submitted, s) /\ CountUpTo(OfShard(submitted', s), i) = c
              BY <2>c, <5>1
            <6>2. c \in 1 .. Len(p)
              <7>1. c >= 1 /\ c <= CountUpTo(OfShard(submitted, s), n) /\ c \in Nat
                <8>1. i \in Nat /\ i <= n  BY <1>q, <5>1
                <8> QED  BY <1>q, <2>i, <6>1, <8>1, CountPositive, CountMono, CountType
              <7> HIDE DEF c
              <7> QED  BY <2>2, <2>r, <7>1
            <6>3. p[c] = submitted[i]  BY <2>r, <6>1
            <6>4. g[c] = p[c]  BY <3>2, <6>2
            <6> QED  BY <1>q, <5>1, <6>1, <6>3, <6>4
          <5>2. CASE i = n + 1
            <6>1. CountUpTo(OfShard(submitted', s), i) = Len(p) + 1
              BY <2>c, <2>r, <2>6, <5>2
            <6> QED  BY <1>q, <3>2, <5>2, <6>1
          <5>3. i \in 1 .. n \/ i = n + 1
            <6>1. i \in 1 .. n + 1  BY <2>c
            <6> QED  BY <1>q, <6>1
          <5> QED  BY <5>1, <5>2, <5>3
        <4> QED  BY <1>q, <2>3, <2>c, <2>r, <2>6, <3>2, <4>1 DEF Routed
      <3>5. Numbered(s)'
        <4>d. DOMAIN g = 1 .. Len(p) + 1  BY <3>2, LenProperties
        <4>w. /\ held.local \in Nat /\ held.local = local_seq[s][held.venue]
              /\ ~PushedAs(s, held.venue, held.local)
          <5>1. held.local \in Nat /\ WaitsAs(s, held.venue, held.local)
            BY <1>h, <2>w, <2>6 DEF Events
          <5> QED  BY <1>h, <2>l, <5>1
        <4>1. Rising(g)
          <5> SUFFICES ASSUME NEW i \in DOMAIN g, NEW j \in DOMAIN g, i < j, g[i].venue = g[j].venue
                       PROVE  g[i].local < g[j].local
            BY DEF Rising
          <5>1. i \in 1 .. Len(p) /\ (j \in 1 .. Len(p) \/ j = Len(p) + 1)  BY <2>2, <4>d
          <5>2. CASE j \in 1 .. Len(p)  BY <2>2, <2>l, <3>2, <5>1, <5>2 DEF Rising
          <5>3. CASE j = Len(p) + 1
            <6>1. g[i] = p[i] /\ g[j] = held /\ p[i].venue = held.venue  BY <3>2, <5>1, <5>3
            <6>2. p[i] \in Events  BY <2>2, <5>1
            <6>3. p[i].local \in Nat /\ PushedAs(s, held.venue, p[i].local)
              BY <3>3, <5>1, <6>1, <6>2 DEF Events
            <6>4. p[i].local \in 1 .. local_seq[s][held.venue] /\ p[i].local # held.local
              BY <1>h, <2>l, <4>w, <6>3
            <6>5. local_seq[s][held.venue] \in Nat  BY <4>w
            <6> QED  BY <4>w, <6>1, <6>4, <6>5
          <5> QED  BY <5>1, <5>2, <5>3
        <4>2. ASSUME NEW v \in Venues, NEW m \in Nat
              PROVE  PushedAs(s, v, m)' <=> PushedAs(s, v, m) \/ WaitsAs(s, v, m)
          <5>1. ASSUME PushedAs(s, v, m)'
                PROVE  PushedAs(s, v, m) \/ WaitsAs(s, v, m)
            <6>1. PICK i \in 1 .. Len(p) + 1 : g[i].venue = v /\ g[i].local = m
              BY <3>p, <4>d, <5>1
            <6>2. i \in 1 .. Len(p) \/ i = Len(p) + 1  BY <2>2
            <6>3. CASE i \in 1 .. Len(p)  BY <3>2, <3>3, <6>1, <6>3
            <6>4. CASE i = Len(p) + 1  BY <2>w, <2>6, <3>2, <6>1, <6>4
            <6> QED  BY <6>2, <6>3, <6>4
          <5>2. ASSUME PushedAs(s, v, m) PROVE PushedAs(s, v, m)'
            <6>1. PICK i \in 1 .. Len(p) : p[i].venue = v /\ p[i].local = m  BY <3>3, <5>2
            <6>2. i \in DOMAIN g /\ g[i] = p[i]  BY <2>2, <3>2, <4>d
            <6> QED  BY <3>p, <6>1, <6>2
          <5>3. ASSUME WaitsAs(s, v, m) PROVE PushedAs(s, v, m)'
            <6>1. Len(p) + 1 \in DOMAIN g /\ g[Len(p) + 1] = held /\ held.venue = v /\ held.local = m
              BY <2>2, <2>w, <3>2, <4>d, <5>3
            <6> QED  BY <3>p, <6>1
          <5> QED  BY <5>1, <5>2, <5>3
        <4> QED  BY <1>a, <2>l, <2>v, <3>r, <4>1, <4>2 DEF Numbered
      <3> QED  BY <2>4, <3>4, <3>5
    <2> QED  BY <2>5, <2>6
  <1>3. Sequenced'
    <2>1. /\ \A i \in 1 .. n : VenueRank(submitted', i) = VenueRank(submitted, i)
          /\ VenueRank(submitted', n + 1) = VenueCount(submitted, held.venue) + 1
      <3>1. submitted \in Seq(Events) /\ held \in Events /\ submitted' = Append(submitted, held)
        BY <1>a, <1>h, <1>q
      <3> QED  BY <3>1, VenueAppend DEF CountsOneMore
    <2>2. ASSUME NEW i \in 1 .. n + 1 PROVE submitted'[i].sequence = VenueRank(submitted', i)
      <3>1. CASE i \in 1 .. n  BY <1>t, <1>q, <2>1, <3>1 DEF Sequenced
      <3>2. CASE i = n + 1  BY <1>t, <1>a, <1>q, <2>1, <3>2 DEF Sequenced
      <3>3. i \in 1 .. n \/ i = n + 1  BY <1>q
      <3> QED  BY <3>1, <3>2, <3>3
    <2> QED  BY <1>a, <1>q, <2>2 DEF Sequenced
  <1>4. Folded'
    <2> SUFFICES ASSUME ordered' PROVE folded' = submitted' /\ InOrder(submitted')
      BY DEF Folded
    <2>1. ordered /\ (submitted = <<>> \/ ~LessEvent(held, Last(submitted)))
      BY <1>a, Zenon
    <2>2. folded = submitted /\ InOrder(submitted)  BY <1>t, <2>1 DEF Folded
    <2> QED  BY <1>a, <1>h, <1>q, <2>1, <2>2, InOrderAppend
  <1>5. Merged'
    <2>1. owner \notin {"draining", "done"} /\ owner' \notin {"draining", "done"}
          /\ reaggregated' = reaggregated
      BY <1>a
    <2> QED  BY <2>1 DEF ShardedInv, Merged, ReaggregatedIsMerge
  <1> QED  BY <1>1, <1>2, <1>3, <1>4, <1>5 DEF ShardedInv

(* The number of the event that submit gave up is used, and by no other. *)
LEMMA GiveUpInv ==
    ASSUME ShardedInv, GiveUp PROVE ShardedInv'
  <1> DEFINE shard == ShardFor[held.symbol]
             venue == held.venue
  <1>t. TypeOK /\ Sequenced /\ Folded  BY DEF ShardedInv
  <1>a. /\ owner = "pushing" /\ owner' = "ready"
        /\ refused' = [refused EXCEPT ![shard][venue] = @ \union {held.local}]
        /\ UNCHANGED <<local_seq, ring, worker, processed, input_closed, submitted, ordered,
                       folded, queues, reaggregated, last_poll>>
    BY DEF GiveUp, TargetShard
  <1>h. venue \in Venues /\ shard \in Shards /\ held.local \in Nat
    <2>1. held \in Events  BY <1>t, <1>a DEF TypeOK
    <2>2. held.symbol \in Symbols /\ venue \in Venues /\ held.local \in Nat  BY <2>1 DEF Events
    <2> QED  BY <2>2, ShardedAssumption
  <1>r. /\ refused' \in [Shards -> [Venues -> SUBSET Nat]]
        /\ \A s \in Shards, v \in Venues :
              refused'[s][v] = IF s = shard /\ v = venue THEN refused[s][v] \union {held.local}
                               ELSE refused[s][v]
    <2>1. refused \in [Shards -> [Venues -> SUBSET Nat]]  BY <1>t DEF TypeOK
    <2> HIDE DEF shard, venue
    <2> QED  BY <1>a, <1>h, <2>1
  <1>1. TypeOK'  BY <1>t, <1>a, <1>r DEF TypeOK
  <1>2. ASSUME NEW s \in Shards PROVE Routed(s)' /\ Numbered(s)' /\ Polled(s)'
    <2>1. Routed(s) /\ Numbered(s) /\ Polled(s) /\ Pushed(s)' = Pushed(s)
      BY <1>a DEF ShardedInv, Pushed
    <2>2. Routed(s)'  BY <1>a, <2>1 DEF Routed
    <2>3. /\ \A u, m : PushedAs(s, u, m)' <=> PushedAs(s, u, m)
          /\ Rising(Pushed(s))'
      BY <2>1 DEF PushedAs, Numbered, Rising
    <2>w. \A v, m : /\ WaitsAs(s, v, m) <=> v = venue /\ m = held.local /\ s = shard
                    /\ ~WaitsAs(s, v, m)'
      BY <1>a DEF WaitsAs
    <2>4. ASSUME NEW v \in Venues, NEW m \in Nat
          PROVE  /\ m \in refused'[s][v] => ~PushedAs(s, v, m)'
                 /\ m \in 1 .. local_seq'[s][v] <=> m \in refused'[s][v] \/ PushedAs(s, v, m)'
      <3>1. /\ m \in refused[s][v] => ~PushedAs(s, v, m)
            /\ m \in 1 .. local_seq[s][v] <=>
                  m \in refused[s][v] \/ PushedAs(s, v, m) \/ WaitsAs(s, v, m)
            /\ WaitsAs(s, v, m) => ~PushedAs(s, v, m)
        BY <2>1 DEF Numbered
      <3>2. m \in refused'[s][v] <=> m \in refused[s][v] \/ WaitsAs(s, v, m)
        <4> HIDE DEF shard, venue
        <4>1. CASE s = shard /\ v = venue  BY <1>r, <2>w, <4>1
        <4>2. CASE ~(s = shard /\ v = venue)  BY <1>r, <2>w, <4>2
        <4> QED  BY <4>1, <4>2
      <3> QED  BY <1>a, <2>3, <3>1, <3>2
    <2>5. Numbered(s)'  BY <2>3, <2>w, <2>4 DEF Numbered
    <2>6. Polled(s)'  BY <1>a, <2>1 DEF Polled
    <2> QED  BY <2>2, <2>5, <2>6
  <1>3. Sequenced'  BY <1>t, <1>a DEF Sequenced
  <1>4. Folded'  BY <1>t, <1>a DEF Folded
  <1>5. Merged'  BY <1>a, NothingMerged
  <1> QED  BY <1>1, <1>2, <1>3, <1>4, <1>5 DEF ShardedInv

LEMMA CloseInv ==
    ASSUME ShardedInv, CloseInput \/ Finalize PROVE ShardedInv'
  <1>a. /\ UNCHANGED <<held, local_seq, refused, ring, worker, processed, submitted, ordered,
                       folded, queues, reaggregated, last_poll>>
        /\ owner' = owner \/ (owner = "ready" /\ owner' = "joining")
        /\ input_closed' \in BOOLEAN
    BY DEF ShardedInv, TypeOK, CloseInput, Finalize, ownerVars
  <1>1. TypeOK'  BY <1>a DEF ShardedInv, TypeOK
  <1>2. \A s \in Shards : Pushed(s)' = Pushed(s) /\ Polled(s)'
    BY <1>a DEF ShardedInv, Pushed, Polled
  <1>3. Sequenced' /\ Folded' /\ \A s \in Shards : Routed(s)' /\ Numbered(s)'
    BY <1>a, <1>2, NothingSubmitted
  <1>4. Merged'  BY <1>a, NothingMerged
  <1> QED  BY <1>1, <1>2, <1>3, <1>4 DEF ShardedInv

LEMMA WorkerInv ==
    ASSUME ShardedInv, NEW w \in Shards, WorkerStep(w) PROVE ShardedInv'
  <1>t. TypeOK  BY DEF ShardedInv
  <1>a. /\ UNCHANGED <<owner, input_closed, ownerVars>>
        /\ UNCHANGED <<held, local_seq, refused, submitted, ordered, folded, queues, reaggregated>>
    BY DEF WorkerStep, PopEvent, FindEmpty, CheckClosed, ownerVars
  <1>s. TypeOK' /\ \A s \in Shards : Pushed(s)' = Pushed(s) /\ Polled(s)'
    <2>1. CASE PopEvent(w)
      <3>1. /\ worker[w] = "poll" /\ ring[w] # <<>>
            /\ processed' = [processed EXCEPT ![w] = Append(@, Head(ring[w]))]
            /\ ring' = [ring EXCEPT ![w] = Tail(@)]
            /\ UNCHANGED <<worker, last_poll>>
        BY <2>1 DEF PopEvent
      <3>2. ring[w] \in Seq(Events) /\ processed[w] \in Seq(Events)  BY <1>t DEF TypeOK
      <3>3. Head(ring[w]) \in Events /\ Tail(ring[w]) \in Seq(Events)
        BY <3>1, <3>2, HeadTailProperties
      <3>4. Append(processed[w], Head(ring[w])) \in Seq(Events)
        BY <3>2, <3>3, AppendProperties
      <3>5. TypeOK'  BY <1>t, <1>a, <3>1, <3>3, <3>4 DEF TypeOK
      <3>6. ASSUME NEW s \in Shards PROVE Pushed(s)' = Pushed(s) /\ Polled(s)'
        <4>1. CASE s = w
          <5>1. processed'[s] = Append(processed[s], Head(ring[s])) /\ ring'[s] = Tail(ring[s])
            BY <1>t, <3>1, <4>1 DEF TypeOK
          <5>2. Append(processed[s], Head(ring[s])) \o Tail(ring[s]) = processed[s] \o ring[s]
            BY <3>1, <3>2, <4>1, ConcatMove
          <5>3. Pushed(s)' = Pushed(s)  BY <5>1, <5>2 DEF Pushed
          <5> QED  BY <3>1, <4>1, <5>3 DEF Polled
        <4>2. CASE s # w
          <5>1. processed'[s] = processed[s] /\ ring'[s] = ring[s]  BY <1>t, <3>1, <4>2 DEF TypeOK
          <5> QED  BY <3>1, <5>1 DEF ShardedInv, Pushed, Polled
        <4> QED  BY <4>1, <4>2
      <3> QED  BY <3>5, <3>6
    <2>2. CASE FindEmpty(w)
      <3>1. /\ ring[w] = <<>> /\ worker' = [worker EXCEPT ![w] = "check"]
            /\ last_poll' = [last_poll EXCEPT ![w] = Len(processed[w]) + Len(ring[w])]
            /\ UNCHANGED <<ring, processed>>
        BY <2>2 DEF FindEmpty, PushedTo
      <3>2. Len(processed[w]) + Len(ring[w]) = Len(processed[w]) /\ Len(processed[w]) \in Nat
        <4>1. Len(ring[w]) = 0 /\ processed[w] \in Seq(Events)  BY <1>t, <3>1 DEF TypeOK
        <4> QED  BY <4>1
      <3>3. TypeOK'  BY <1>t, <1>a, <3>1, <3>2 DEF TypeOK
      <3>4. \A s \in Shards : Pushed(s)' = Pushed(s)  BY <3>1 DEF Pushed
      <3>5. ASSUME NEW s \in Shards PROVE Polled(s)'
        <4>1. CASE s = w  BY <1>t, <3>1, <3>2, <4>1 DEF TypeOK, Polled
        <4>2. CASE s # w  BY <1>t, <3>1, <4>2 DEF ShardedInv, TypeOK, Polled
        <4> QED  BY <4>1, <4>2
      <3> QED  BY <3>3, <3>4, <3>5
    <2>3. CASE CheckClosed(w)
      <3>1. /\ worker[w] = "check"
            /\ worker' = [worker EXCEPT ![w] = IF input_closed THEN "done" ELSE "poll"]
            /\ UNCHANGED <<ring, processed, last_poll>>
        BY <2>3 DEF CheckClosed
      <3>2. TypeOK'  BY <1>t, <1>a, <3>1 DEF TypeOK
      <3>3. \A s \in Shards : Pushed(s)' = Pushed(s)  BY <3>1 DEF Pushed
      <3>4. ASSUME NEW s \in Shards PROVE Polled(s)'
        <4>1. CASE s = w  BY <1>t, <3>1, <4>1 DEF ShardedInv, TypeOK, Polled
        <4>2. CASE s # w  BY <1>t, <3>1, <4>2 DEF ShardedInv, TypeOK, Polled
        <4> QED  BY <4>1, <4>2
      <3> QED  BY <3>2, <3>3, <3>4
    <2> QED  BY <2>1, <2>2, <2>3 DEF WorkerStep
  <1>2. Sequenced' /\ Folded' /\ \A s \in Shards : Routed(s)' /\ Numbered(s)'
    BY <1>a, <1>s, NothingSubmitted
  <1>3. Merged'  BY <1>a, NothingMerged
  <1> QED  BY <1>s, <1>2, <1>3 DEF ShardedInv

LEMMA NumberedMerge ==
    ASSUME NEW out \in Seq(Ids), NEW events \in Seq(Events),
           \A i \in DOMAIN out : out[i].sequence = VenueRank(out, i),
           \A i \in DOMAIN events : events[i].sequence = VenueRank(events, i),
           \A v \in Venues : VenueCount(out, v) = VenueCount(events, v),
           FrontsWait(out)
    PROVE  IsMerge(out, events)
  BY DEF IsMerge

(* The ids of the events, in their order. *)
LEMMA IdsOfEvents ==
    ASSUME NEW events \in Seq(Events)
    PROVE  LET out == EventIds(events) IN
           /\ out \in Seq(Ids) /\ DOMAIN out = DOMAIN events
           /\ \A i \in DOMAIN events : /\ out[i].venue = events[i].venue
                                       /\ out[i].sequence = events[i].sequence
                                       /\ VenueRank(out, i) = VenueRank(events, i)
           /\ \A v : VenueCount(out, v) = VenueCount(events, v)
  <1> DEFINE out == EventIds(events)
             n == Len(events)
  <1>1. n \in Nat /\ DOMAIN events = 1 .. n /\ \A i \in 1 .. n : events[i] \in Events
    BY LenProperties
  <1>2. out = [i \in 1 .. n |-> [venue |-> events[i].venue, sequence |-> events[i].sequence]]
    BY <1>1 DEF EventIds
  <1>3. out \in [1 .. n -> Ids]
    <2>1. \A i \in 1 .. n : [venue |-> events[i].venue, sequence |-> events[i].sequence] \in Ids
      BY <1>1 DEF Events, Ids
    <2> QED  BY <1>2, <2>1
  <1>4. \A i \in 1 .. n : out[i].venue = events[i].venue /\ out[i].sequence = events[i].sequence
    BY <1>2
  <1> HIDE DEF out, n
  <1>5. out \in Seq(Ids) /\ Len(out) = n /\ DOMAIN out = 1 .. n
    BY <1>1, <1>3, FunctionIsSeq
  <1>6. \A v : OfVenue(out, v) = OfVenue(events, v)  BY <1>1, <1>4, <1>5 DEF OfVenue
  <1>7. \A v : VenueCount(out, v) = VenueCount(events, v)
    BY <1>5, <1>6 DEF VenueCount, n
  <1>8. \A i \in 1 .. n : VenueRank(out, i) = VenueRank(events, i)
    BY <1>4, <1>6 DEF VenueRank
  <1> QED  BY <1>1, <1>4, <1>5, <1>7, <1>8 DEF out

(* A merge that has nothing left to queue. *)
LEMMA OrderedFrontsWait ==
    ASSUME NEW events \in Seq(Events), InOrder(events)
    PROVE  FrontsWait(EventIds(events))
  <1> DEFINE out == EventIds(events)
  <1>1. /\ DOMAIN out = DOMAIN events
        /\ \A i \in DOMAIN events : /\ out[i].venue = events[i].venue
                                    /\ out[i].sequence = events[i].sequence
    BY IdsOfEvents
  <1>2. DOMAIN events = 1 .. Len(events) /\ \A i \in DOMAIN events : events[i] \in Events
    BY LenProperties
  <1>3. \A x \in Events : IsEvent(x)  BY DEF Events, IsEvent
  <1> HIDE DEF out
  <1>4. ASSUME NEW i \in DOMAIN out, NEW j \in DOMAIN out, i < j,
               \A k \in i .. j - 1 : out[k].venue # out[j].venue
        PROVE  LessEvent(out[i], out[j])
    <2>1. i \in DOMAIN events /\ j \in DOMAIN events /\ i \in i .. j - 1
      <3>1. i \in Int /\ j \in Int  BY <1>1, <1>2
      <3> QED  BY <1>1, <1>4, <3>1
    <2>2. events[i].venue # events[j].venue  BY <1>1, <1>4, <2>1
    <2>3. ~LessEvent(events[j], events[i])  BY <1>4, <2>1 DEF InOrder
    <2>4. LessEvent(events[i], events[j])  BY <1>2, <1>3, <2>1, <2>2, <2>3, LessTotal
    <2> QED  BY <1>1, <2>1, <2>4, LessById
  <1> QED  BY <1>4 DEF FrontsWait, out

LEMMA ReaggregateInv ==
    ASSUME ShardedInv, Reaggregate PROVE ShardedInv'
  <1>t. TypeOK /\ Sequenced /\ Folded /\ Merged /\ submitted \in Seq(Events)
    BY DEF ShardedInv, TypeOK
  <1>a. /\ owner = "joining" /\ owner' \in {"draining", "done"}
        /\ UNCHANGED <<held, local_seq, refused, ring, worker, processed, last_poll,
                       input_closed, submitted, ordered, folded>>
    BY DEF Reaggregate
  <1>e. reaggregated = <<>>  BY <1>t, <1>a DEF Merged
  <1>s. \A s \in Shards : Pushed(s)' = Pushed(s) /\ Polled(s)'
    BY <1>a DEF ShardedInv, Pushed, Polled
  <1>1. Sequenced' /\ Folded' /\ \A s \in Shards : Routed(s)' /\ Numbered(s)'
    BY <1>a, <1>s, NothingSubmitted
  <1>n. \A i \in DOMAIN submitted : submitted[i].sequence = VenueRank(submitted, i)
    BY <1>t DEF Sequenced
  <1>2. CASE DeterministicOrdered(submitted) /\ ordered
    <2>1. owner' = "done" /\ reaggregated' = EventIds(folded) /\ queues' = queues
      BY <1>2 DEF Reaggregate
    <2>2. folded = submitted /\ InOrder(submitted)  BY <1>t, <1>2 DEF Folded
    <2> DEFINE out == EventIds(submitted)
    <2>3. /\ out \in Seq(Ids) /\ DOMAIN out = DOMAIN submitted
          /\ \A i \in DOMAIN submitted : /\ out[i].sequence = submitted[i].sequence
                                         /\ VenueRank(out, i) = VenueRank(submitted, i)
          /\ \A v : VenueCount(out, v) = VenueCount(submitted, v)
      BY <1>t, IdsOfEvents
    <2>4. FrontsWait(out)  BY <1>t, <2>2, OrderedFrontsWait
    <2> HIDE DEF out
    <2>5. IsMerge(out, submitted)  BY <1>t, <1>n, <2>3, <2>4, NumberedMerge
    <2>6. reaggregated' = out  BY <2>1, <2>2 DEF out
    <2>7. Merged'  BY <1>a, <2>1, <2>5, <2>6 DEF Merged, ReaggregatedIsMerge
    <2>8. TypeOK'  BY <1>t, <1>a, <2>1, <2>3, <2>6 DEF TypeOK
    <2> QED  BY <1>s, <1>1, <2>7, <2>8 DEF ShardedInv
  <1>3. CASE ~(DeterministicOrdered(submitted) /\ ordered)
    <2>1. /\ owner' = "draining" /\ reaggregated' = <<>>
          /\ queues' = [v \in Venues |->
                          [n \in 1 .. VenueCount(submitted, v) |-> SubmittedOf(v, n).sequence]]
      BY <1>3, <1>e DEF Reaggregate
    <2>2. ASSUME NEW v \in Venues
          PROVE  /\ queues'[v] \in Seq(1 .. MaxEvents)
                 /\ Len(queues'[v]) = VenueCount(submitted, v)
                 /\ \A n \in 1 .. VenueCount(submitted, v) : queues'[v][n] = n
      <3> DEFINE c == VenueCount(submitted, v)
                 q == queues'[v]
      <3>1. c \in Nat  BY <1>t, VenueIndices
      <3>2. ASSUME NEW n \in 1 .. c
            PROVE  SubmittedOf(v, n).sequence = n /\ n \in 1 .. MaxEvents
        <4> DEFINE i == CHOOSE i \in OfVenue(submitted, v) : VenueRank(submitted, i) = n
        <4>1. \E k \in OfVenue(submitted, v) : VenueRank(submitted, k) = n
          BY <1>t, RankOnto
        <4>2. i \in OfVenue(submitted, v) /\ VenueRank(submitted, i) = n  BY <4>1
        <4>3. SubmittedOf(v, n) = submitted[i]  BY DEF SubmittedOf
        <4> HIDE DEF i
        <4>4. i \in DOMAIN submitted  BY <4>2 DEF OfVenue
        <4>5. submitted[i].sequence = n  BY <1>n, <4>2, <4>4
        <4>6. submitted[i] \in Events
          <5>1. i \in 1 .. Len(submitted)  BY <1>t, <4>4, LenProperties
          <5> QED  BY <1>t, <5>1, ElementOfSeq
        <4>7. submitted[i].sequence \in 1 .. MaxEvents  BY <4>6 DEF Events
        <4> QED  BY <4>3, <4>5, <4>7
      <3>3. q = [n \in 1 .. c |-> SubmittedOf(v, n).sequence]  BY <2>1
      <3> HIDE DEF c, q
      <3>4. \A n \in 1 .. c : q[n] = n  BY <3>2, <3>3
      <3>5. q \in [1 .. c -> 1 .. MaxEvents]  BY <3>2, <3>3
      <3>6. q \in Seq(1 .. MaxEvents) /\ Len(q) = c  BY <3>1, <3>5, FunctionIsSeq
      <3> QED  BY <3>4, <3>6 DEF c, q
    <2>3. TypeOK'
      <3>1. queues' \in [Venues -> Seq(1 .. MaxEvents)]  BY <2>1, <2>2
      <3>2. reaggregated' \in Seq(Ids)  BY <2>1, EmptySeq
      <3> QED  BY <1>t, <1>a, <3>1, <3>2 DEF TypeOK
    <2>4. Merging'
      <3>1. DOMAIN reaggregated' = {}  BY <2>1
      <3>2. ASSUME NEW v \in Venues
            PROVE  /\ VenueCount(reaggregated', v) + Len(queues'[v]) = VenueCount(submitted', v)
                   /\ \A n \in 1 .. Len(queues'[v]) :
                         queues'[v][n] = VenueCount(reaggregated', v) + n
        <4>1. VenueCount(reaggregated', v) = 0 /\ VenueCount(submitted, v) \in Nat
          BY <1>t, <2>1, EmptyCounts, VenueIndices
        <4>2. /\ Len(queues'[v]) = VenueCount(submitted, v)
              /\ \A n \in 1 .. VenueCount(submitted, v) : queues'[v][n] = n
          BY <2>2
        <4> QED  BY <1>a, <4>1, <4>2
      <3> QED  BY <3>1, <3>2 DEF Merging, FrontsWait
    <2>5. Merged'  BY <2>1, <2>4 DEF Merged, ReaggregatedIsMerge
    <2> QED  BY <1>s, <1>1, <2>3, <2>5 DEF ShardedInv
  <1> QED  BY <1>2, <1>3

(* A queue that holds something: its front and what a pop leaves of it. *)
LEMMA QueueParts ==
    ASSUME NEW q \in Seq(1 .. MaxEvents), q # <<>>
    PROVE  /\ Head(q) \in 1 .. MaxEvents /\ Head(q) = q[1] /\ Tail(q) \in Seq(1 .. MaxEvents)
           /\ Len(Tail(q)) = Len(q) - 1 /\ Len(q) \in Nat \ {0}
           /\ \A i \in 1 .. Len(Tail(q)) : Tail(q)[i] = q[i + 1]
  <1>1. Len(q) \in Nat /\ Len(q) # 0  BY EmptySeq
  <1>2. 1 \in 1 .. Len(q)  BY <1>1
  <1>3. q[1] \in 1 .. MaxEvents  BY <1>2, ElementOfSeq
  <1>4. /\ Head(q) \in 1 .. MaxEvents /\ Tail(q) \in Seq(1 .. MaxEvents)
        /\ Len(Tail(q)) = Len(q) - 1
        /\ \A i \in 1 .. Len(Tail(q)) : Tail(q)[i] = q[i + 1]
    BY HeadTailProperties
  <1>5. Head(q) = q[1]  BY <1>1
  <1> QED  BY <1>1, <1>4, <1>5

(* What an output sequence is once an event is put behind it. *)
LEMMA OutputGrows ==
    ASSUME NEW a \in Seq(Ids), NEW x \in Ids
    PROVE  /\ Append(a, x) \in Seq(Ids) /\ Len(Append(a, x)) = Len(a) + 1 /\ Len(a) \in Nat
           /\ Append(a, x)[Len(a) + 1] = x
           /\ \A i \in 1 .. Len(a) : Append(a, x)[i] = a[i]
           /\ DOMAIN Append(a, x) = 1 .. Len(a) + 1 /\ DOMAIN a = 1 .. Len(a)
  BY AppendProperties, LenProperties

(* pop_next hands out the least front. *)
LEMMA PopInv ==
    ASSUME TypeOK, Merging, ~NothingQueued(queues), submitted' = submitted,
           NEW out, out = Append(reaggregated, FrontOf(queues, BestVenue(queues))),
           NEW left, left = PopBest(queues), reaggregated' = out, queues' = left
    PROVE  /\ reaggregated' \in Seq(Ids) /\ queues' \in [Venues -> Seq(1 .. MaxEvents)]
           /\ Merging'
  <1> DEFINE b == BestVenue(queues)
             x == FrontOf(queues, b)
             m == Len(reaggregated)
  <1>t. queues \in [Venues -> Seq(1 .. MaxEvents)] /\ reaggregated \in Seq(Ids)
        /\ submitted \in Seq(Events)
    BY DEF TypeOK
  <1>b. /\ b \in Venues /\ queues[b] # <<>>
        /\ \A u \in Venues \ {b} : queues[u] # <<>> => LessEvent(x, FrontOf(queues, u))
    BY <1>t, BestVenueLeast
  <1>q. /\ queues[b] \in Seq(1 .. MaxEvents) /\ Head(queues[b]) \in 1 .. MaxEvents
        /\ Head(queues[b]) = queues[b][1] /\ Tail(queues[b]) \in Seq(1 .. MaxEvents)
        /\ Len(Tail(queues[b])) = Len(queues[b]) - 1 /\ Len(queues[b]) \in Nat \ {0}
        /\ \A i \in 1 .. Len(Tail(queues[b])) : Tail(queues[b])[i] = queues[b][i + 1]
    <2>1. queues[b] \in Seq(1 .. MaxEvents)  BY <1>t, <1>b
    <2> QED  BY <1>b, <2>1, QueueParts
  <1>x. x \in Ids /\ x.venue = b /\ x.sequence = queues[b][1]
    <2>1. x = [venue |-> b, sequence |-> queues[b][1]]  BY <1>q DEF FrontOf
    <2> QED  BY <1>b, <1>q, <2>1 DEF Ids
  <1> HIDE DEF x
  <1>o. /\ out \in Seq(Ids) /\ Len(out) = m + 1 /\ m \in Nat /\ out[m + 1] = x
        /\ \A i \in 1 .. m : out[i] = reaggregated[i]
        /\ DOMAIN out = 1 .. m + 1 /\ DOMAIN reaggregated = 1 .. m
    <2>1. out = Append(reaggregated, x)  BY DEF x
    <2> QED  BY <1>t, <1>x, <2>1, OutputGrows
  <1>c. /\ \A v : VenueCount(out, v) = IF b = v THEN VenueCount(reaggregated, v) + 1
                                       ELSE VenueCount(reaggregated, v)
        /\ \A i \in 1 .. m : VenueRank(out, i) = VenueRank(reaggregated, i)
        /\ VenueRank(out, m + 1) = VenueCount(reaggregated, b) + 1
    <2>1. out = Append(reaggregated, x)  BY DEF x
    <2>2. CountsOneMore(out, reaggregated, x)  BY <1>t, <1>x, <2>1, VenueAppend
    <2>3. /\ \A v : VenueCount(out, v) = IF x.venue = v THEN VenueCount(reaggregated, v) + 1
                                         ELSE VenueCount(reaggregated, v)
          /\ \A i \in 1 .. m : VenueRank(out, i) = VenueRank(reaggregated, i)
          /\ VenueRank(out, m + 1) = VenueCount(reaggregated, x.venue) + 1
      BY <2>2 DEF CountsOneMore
    <2> QED  BY <1>x, <2>3
  <1>l. /\ left[b] = Tail(queues[b]) /\ left \in [Venues -> Seq(1 .. MaxEvents)]
        /\ \A v \in Venues : v # b => left[v] = queues[v]
    BY <1>t, <1>b, <1>q DEF PopBest
  <1>k. \A v \in Venues : VenueCount(reaggregated, v) \in Nat /\ Len(queues[v]) \in Nat
    <2> TAKE v \in Venues
    <2>1. queues[v] \in Seq(1 .. MaxEvents)  BY <1>t
    <2> QED  BY <1>t, <2>1, VenueIndices
  <1>m. /\ \A v \in Venues :
             /\ VenueCount(reaggregated, v) + Len(queues[v]) = VenueCount(submitted, v)
             /\ \A n \in 1 .. Len(queues[v]) : queues[v][n] = VenueCount(reaggregated, v) + n
             /\ \A i \in DOMAIN reaggregated :
                   queues[v] # <<>> /\ (\A k \in i .. m : reaggregated[k].venue # v)
                       => LessEvent(reaggregated[i], FrontOf(queues, v))
        /\ \A i \in DOMAIN reaggregated : reaggregated[i].sequence = VenueRank(reaggregated, i)
        /\ FrontsWait(reaggregated)
    BY DEF Merging
  <1> HIDE DEF b, m
  <1>1. ASSUME NEW v \in Venues
        PROVE  /\ VenueCount(out, v) + Len(left[v]) = VenueCount(submitted, v)
               /\ \A n \in 1 .. Len(left[v]) : left[v][n] = VenueCount(out, v) + n
    <2>1. CASE v # b
      <3>1. left[v] = queues[v] /\ VenueCount(out, v) = VenueCount(reaggregated, v)
        BY <1>l, <1>c, <2>1
      <3> QED  BY <1>m, <3>1
    <2>2. CASE v = b
      <3> DEFINE c == VenueCount(reaggregated, b)
                 l == Len(queues[b])
      <3>1. /\ c \in Nat /\ l \in Nat \ {0} /\ c + l = VenueCount(submitted, b)
            /\ \A n \in 1 .. l : queues[b][n] = c + n
        BY <1>b, <1>k, <1>m, <1>q
      <3>2. VenueCount(out, b) = c + 1 /\ Len(left[b]) = l - 1
            /\ \A n \in 1 .. Len(left[b]) : left[b][n] = queues[b][n + 1]
        BY <1>c, <1>l, <1>q
      <3> HIDE DEF c, l
      <3>3. ASSUME NEW n \in 1 .. l - 1 PROVE left[b][n] = (c + 1) + n
        <4>1. n + 1 \in 1 .. l /\ c + (n + 1) = (c + 1) + n  BY <3>1
        <4>2. left[b][n] = queues[b][n + 1]  BY <3>2
        <4> QED  BY <3>1, <4>1, <4>2
      <3>4. (c + 1) + (l - 1) = c + l  BY <3>1
      <3> QED  BY <2>2, <3>1, <3>2, <3>3, <3>4
    <2> QED  BY <2>1, <2>2
  <1>2. ASSUME NEW v \in Venues, NEW i \in 1 .. m + 1, left[v] # <<>>,
               \A k \in i .. m + 1 : out[k].venue # v
        PROVE  LessEvent(out[i], FrontOf(left, v))
    <2>1. v # b
      <3>1. m + 1 \in i .. m + 1  BY <1>o
      <3> QED  BY <1>2, <1>o, <1>x, <3>1
    <2>2. left[v] = queues[v] /\ FrontOf(left, v) = FrontOf(queues, v)
      BY <1>l, <2>1 DEF FrontOf
    <2>3. CASE i = m + 1  BY <1>b, <1>2, <1>o, <2>1, <2>2, <2>3
    <2>4. CASE i \in 1 .. m
      <3>1. \A k \in i .. m : k \in i .. m + 1 /\ k \in 1 .. m  BY <1>o, <2>4
      <3>2. \A k \in i .. m : reaggregated[k].venue # v  BY <1>2, <1>o, <3>1
      <3>3. LessEvent(reaggregated[i], FrontOf(queues, v))
        BY <1>2, <1>m, <1>o, <2>2, <2>4, <3>2
      <3> QED  BY <1>o, <2>2, <2>4, <3>3
    <2>5. i = m + 1 \/ i \in 1 .. m  BY <1>o
    <2> QED  BY <2>3, <2>4, <2>5
  <1>3. ASSUME NEW i \in 1 .. m + 1 PROVE out[i].sequence = VenueRank(out, i)
    <2>1. CASE i \in 1 .. m  BY <1>m, <1>o, <1>c, <2>1
    <2>2. CASE i = m + 1
      <3>1. 1 \in 1 .. Len(queues[b])  BY <1>q
      <3>2. queues[b][1] = VenueCount(reaggregated, b) + 1  BY <1>b, <1>m, <3>1
      <3> QED  BY <1>x, <1>o, <1>c, <2>2, <3>2
    <2>3. i \in 1 .. m \/ i = m + 1  BY <1>o
    <2> QED  BY <2>1, <2>2, <2>3
  <1>4. FrontsWait(out)
    <2> SUFFICES ASSUME NEW i \in 1 .. m + 1, NEW j \in 1 .. m + 1, i < j,
                        \A k \in i .. j - 1 : out[k].venue # out[j].venue
                 PROVE  LessEvent(out[i], out[j])
      BY <1>o DEF FrontsWait
    <2>1. i \in 1 .. m  BY <1>o
    <2>2. CASE j \in 1 .. m
      <3>1. \A k \in i .. j - 1 : k \in 1 .. m  BY <1>o, <2>1, <2>2
      <3>2. \A k \in i .. j - 1 : reaggregated[k].venue # reaggregated[j].venue
        BY <1>o, <2>2, <3>1
      <3> QED  BY <1>m, <1>o, <2>1, <2>2, <3>2 DEF FrontsWait
    <2>3. CASE j = m + 1
      <3>1. \A k \in i .. m : k \in i .. j - 1 /\ k \in 1 .. m  BY <1>o, <2>1, <2>3
      <3>2. \A k \in i .. m : reaggregated[k].venue # b  BY <1>o, <1>x, <2>3, <3>1
      <3>3. LessEvent(reaggregated[i], FrontOf(queues, b))
        BY <1>b, <1>m, <1>o, <2>1, <3>2
      <3> QED  BY <1>o, <2>1, <2>3, <3>3 DEF x
    <2>4. j \in 1 .. m \/ j = m + 1  BY <1>o
    <2> QED  BY <2>2, <2>3, <2>4
  <1>5. Merging'  BY <1>o, <1>1, <1>2, <1>3, <1>4 DEF Merging
  <1> QED  BY <1>o, <1>l, <1>5

LEMMA DrainInv ==
    ASSUME ShardedInv, DrainMerger PROVE ShardedInv'
  <1>t. TypeOK /\ Sequenced /\ Merging /\ submitted \in Seq(Events) /\ reaggregated \in Seq(Ids)
    BY DEF ShardedInv, TypeOK, Merged, DrainMerger
  <1>a. /\ owner = "draining"
        /\ UNCHANGED <<held, local_seq, refused, ring, worker, processed, last_poll,
                       input_closed, submitted, ordered, folded>>
    BY DEF DrainMerger
  <1>s. \A s \in Shards : Pushed(s)' = Pushed(s) /\ Polled(s)'
    BY <1>a DEF ShardedInv, Pushed, Polled
  <1>o. owner' \in {"draining", "done"}  BY <1>a DEF DrainMerger
  <1>1. Sequenced' /\ Folded' /\ \A s \in Shards : Routed(s)' /\ Numbered(s)'
    BY <1>a, <1>o, <1>s, NothingSubmitted
  <1>2. CASE NothingQueued(queues)
    <2>1. owner' = "done" /\ UNCHANGED <<queues, reaggregated>>  BY <1>2 DEF DrainMerger
    <2>2. \A v \in Venues : VenueCount(reaggregated, v) = VenueCount(submitted, v)
      <3> TAKE v \in Venues
      <3>1. Len(queues[v]) = 0 /\ VenueCount(reaggregated, v) \in Nat
        BY <1>t, <1>2, VenueIndices DEF NothingQueued
      <3>2. VenueCount(reaggregated, v) + Len(queues[v]) = VenueCount(submitted, v)
        BY <1>t DEF Merging
      <3> QED  BY <3>1, <3>2
    <2>3. IsMerge(reaggregated, submitted)
      <3>1. /\ \A i \in DOMAIN reaggregated : reaggregated[i].sequence = VenueRank(reaggregated, i)
            /\ FrontsWait(reaggregated)
            /\ \A i \in DOMAIN submitted : submitted[i].sequence = VenueRank(submitted, i)
        BY <1>t DEF Merging, Sequenced
      <3> QED  BY <1>t, <2>2, <3>1, NumberedMerge
    <2>4. Merged'  BY <1>a, <2>1, <2>3 DEF Merged, ReaggregatedIsMerge
    <2>5. TypeOK'  BY <1>t, <1>a, <2>1 DEF TypeOK
    <2> QED  BY <1>s, <1>1, <2>4, <2>5 DEF ShardedInv
  <1>3. CASE ~NothingQueued(queues)
    <2>1. /\ owner' = "draining" /\ queues' = PopBest(queues)
          /\ reaggregated' = Append(reaggregated, FrontOf(queues, BestVenue(queues)))
      BY <1>a, <1>3 DEF DrainMerger
    <2>2. /\ reaggregated' \in Seq(Ids) /\ queues' \in [Venues -> Seq(1 .. MaxEvents)]
          /\ Merging'
      BY <1>t, <1>a, <1>3, <2>1, PopInv
    <2>3. Merged'  BY <2>1, <2>2 DEF Merged, ReaggregatedIsMerge
    <2>4. TypeOK'  BY <1>t, <1>a, <2>1, <2>2 DEF TypeOK
    <2> QED  BY <1>s, <1>1, <2>3, <2>4 DEF ShardedInv
  <1> QED  BY <1>2, <1>3

LEMMA StepShardedInv == ShardedInv /\ [Next]_vars => ShardedInv'
  <1> SUFFICES ASSUME ShardedInv, [Next]_vars PROVE ShardedInv'  OBVIOUS
  <1>1. CASE UNCHANGED vars
    <2>1. UNCHANGED <<owner, held, local_seq, ring, worker, processed, input_closed, submitted,
                      ordered, folded, queues, reaggregated, last_poll, refused>>
      BY <1>1 DEF vars
    <2>2. TypeOK'  BY <2>1 DEF ShardedInv, TypeOK
    <2>3. \A s \in Shards : Pushed(s)' = Pushed(s) /\ Polled(s)'
      BY <2>1 DEF ShardedInv, Pushed, Polled
    <2>4. Sequenced' /\ Folded' /\ \A s \in Shards : Routed(s)' /\ Numbered(s)'
      BY <2>1, <2>3, NothingSubmitted
    <2>5. Merged'  BY <2>1, NothingMerged
    <2> QED  BY <2>2, <2>3, <2>4, <2>5 DEF ShardedInv
  <1>2. CASE OwnerStep
    BY <1>2, SubmitInv, PushInv, GiveUpInv, CloseInv, ReaggregateInv, DrainInv DEF OwnerStep
  <1>3. CASE CloseInput  BY <1>3, CloseInv
  <1>4. CASE \E s \in Shards : WorkerStep(s)  BY <1>4, WorkerInv
  <1> QED  BY <1>1, <1>2, <1>3, <1>4 DEF Next, Finished

------------------------------------------------------------------------------

(* Whatever the threads' interleaving and whoever closes the input, each shard  *)
(* is pushed the events of its symbols in order, each of its numbers is used    *)
(* once, by an event pushed or by a refused submit, the venues' events are      *)
(* counted once, and the merger keeps its order.                              *)
THEOREM ShardedInvariant == Spec => []ShardedInv
  BY InitShardedInv, StepShardedInv, PTL DEF Spec

(* A sequence of events is the beginning of itself with more behind it. *)
LEMMA EventsInARow ==
    ASSUME NEW a \in Seq(Events), NEW c \in Seq(Events)
    PROVE  /\ a \o c \in Seq(Events) /\ Len(a) \in Nat /\ Len(a \o c) \in Nat
           /\ Len(a) <= Len(a \o c)
           /\ \A i \in 1 .. Len(a) : (a \o c)[i] = a[i]
  <1> DEFINE n == Len(a)
             k == Len(c)
             w == a \o c
  <1>1. n \in Nat /\ k \in Nat  OBVIOUS
  <1>2. /\ w \in Seq(Events) /\ Len(w) = n + k
        /\ \A i \in 1 .. n + k : w[i] = IF i <= n THEN a[i] ELSE c[i - n]
    BY ConcatProperties
  <1> HIDE DEF n, k, w
  <1>3. ASSUME NEW i \in 1 .. n PROVE w[i] = a[i]
    <2>1. i \in 1 .. n + k /\ i <= n  BY <1>1
    <2> QED  BY <1>2, <2>1
  <1>4. Len(w) \in Nat /\ n <= Len(w)  BY <1>1, <1>2
  <1> QED  BY <1>1, <1>2, <1>3, <1>4 DEF n, w

(* What has been processed is the beginning of what was pushed. *)
LEMMA ProcessedFirst ==
    ASSUME ShardedInv, NEW s \in Shards
    PROVE  /\ processed[s] \in Seq(Events) /\ Pushed(s) \in Seq(Events)
           /\ Len(processed[s]) \in Nat /\ Len(Pushed(s)) \in Nat
           /\ Len(processed[s]) <= Len(Pushed(s))
           /\ \A i \in 1 .. Len(processed[s]) : Pushed(s)[i] = processed[s][i]
  <1>1. processed[s] \in Seq(Events) /\ ring[s] \in Seq(Events)  BY DEF ShardedInv, TypeOK
  <1> QED  BY <1>1, EventsInARow DEF Pushed

(* The numbers a worker's pipeline is given of a venue rise, and those missing  *)
(* between them are the ones that refused submits used up.                    *)
THEOREM WorkerGapsAreRefusals == Spec => []GapsAreRefusals
  <1>1. ShardedInv => GapsAreRefusals
    <2> SUFFICES ASSUME ShardedInv, NEW s \in Shards, NEW i \in DOMAIN processed[s]
                 PROVE  /\ \A j \in 1 .. i - 1 : processed[s][j].venue = processed[s][i].venue
                                => processed[s][j].local < processed[s][i].local
                        /\ \A n \in 1 .. processed[s][i].local :
                              n \in refused[s][processed[s][i].venue] <=>
                              ~ \E j \in 1 .. i : processed[s][j].venue = processed[s][i].venue
                                                 /\ processed[s][j].local = n
      BY DEF GapsAreRefusals
    <2> DEFINE p == processed[s]
               g == Pushed(s)
               v == p[i].venue
    <2>1. /\ p \in Seq(Events) /\ g \in Seq(Events)
          /\ Len(p) \in Nat /\ Len(g) \in Nat /\ Len(p) <= Len(g)
          /\ \A j \in 1 .. Len(p) : g[j] = p[j]
      BY ProcessedFirst
    <2>2. /\ Rising(g)
          /\ \A u \in Venues, n \in Nat :
                /\ n \in 1 .. local_seq[s][u] <=>
                      n \in refused[s][u] \/ PushedAs(s, u, n) \/ WaitsAs(s, u, n)
                /\ n \in refused[s][u] => ~PushedAs(s, u, n)
                /\ WaitsAs(s, u, n) => n = local_seq[s][u] /\ ~PushedAs(s, u, n)
      BY DEF ShardedInv, Numbered
    <2>3. \A u, n : PushedAs(s, u, n) <=> \E j \in DOMAIN g : g[j].venue = u /\ g[j].local = n
      BY DEF PushedAs
    <2>w. local_seq \in [Shards -> [Venues -> Nat]]  BY DEF ShardedInv, TypeOK
    <2> HIDE DEF p, g
    <2>4. i \in 1 .. Len(p) /\ DOMAIN g = 1 .. Len(g)  BY <2>1 DEF p
    <2>5. i \in DOMAIN g /\ g[i] = p[i] /\ p[i] \in Events  BY <2>1, <2>4
    <2>6. v \in Venues /\ p[i].local \in Nat  BY <2>5 DEF Events
    <2>7. ASSUME NEW j \in 1 .. i - 1, p[j].venue = v PROVE p[j].local < p[i].local
      <3>1. j \in 1 .. Len(p) /\ j \in DOMAIN g /\ j < i  BY <2>1, <2>4
      <3> QED  BY <2>1, <2>2, <2>5, <2>7, <3>1 DEF Rising
    <2>8. ASSUME NEW n \in 1 .. p[i].local
          PROVE  n \in refused[s][v] <=> ~ \E j \in 1 .. i : p[j].venue = v /\ p[j].local = n
      <3>1. n \in Nat  BY <2>6
      <3>2. PushedAs(s, v, p[i].local)  BY <2>3, <2>5
      <3>3. p[i].local \in 1 .. local_seq[s][v]  BY <2>2, <2>6, <3>2
      <3>4. n \in 1 .. local_seq[s][v] /\ local_seq[s][v] \in Nat  BY <2>6, <2>w, <3>3
      <3>5. ASSUME n \notin refused[s][v]
            PROVE  \E j \in 1 .. i : p[j].venue = v /\ p[j].local = n
        <4>1. PushedAs(s, v, n)
          <5> SUFFICES ASSUME WaitsAs(s, v, n) PROVE FALSE
            BY <2>2, <2>6, <3>1, <3>4, <3>5
          <5>1. n = local_seq[s][v] /\ ~PushedAs(s, v, n)  BY <2>2, <2>6, <3>1
          <5>2. p[i].local = n  BY <2>6, <3>3, <3>4, <5>1
          <5> QED  BY <3>2, <5>1, <5>2
        <4>2. PICK j \in DOMAIN g : g[j].venue = v /\ g[j].local = n  BY <2>3, <4>1
        <4>3. j <= i
          <5> SUFFICES ASSUME i < j PROVE FALSE  BY <2>4, <4>2
          <5>1. g[i].local < g[j].local  BY <2>2, <2>5, <4>2 DEF Rising
          <5> QED  BY <2>5, <2>6, <3>1, <4>2, <5>1
        <4>4. j \in 1 .. i /\ p[j] = g[j]  BY <2>1, <2>4, <4>2, <4>3
        <4> QED  BY <4>2, <4>4
      <3>6. ASSUME NEW j \in 1 .. i, p[j].venue = v, p[j].local = n
            PROVE  n \notin refused[s][v]
        <4>1. j \in DOMAIN g /\ g[j] = p[j]  BY <2>1, <2>4
        <4>2. PushedAs(s, v, n)  BY <2>3, <3>6, <4>1
        <4> QED  BY <2>2, <2>6, <3>1, <4>2
      <3> QED  BY <3>5, <3>6
    <2> QED  BY <2>7, <2>8 DEF p
  <1> QED  BY <1>1, ShardedInvariant, PTL

(* A worker processes the events of its symbols in the order of submission,    *)
(* and one that has ended has processed all that was pushed before its last    *)
(* poll.                                                                     *)
THEOREM SymbolsKeepOrder == Spec => []SymbolOrderKept
  <1>1. ShardedInv => SymbolOrderKept
    <2> SUFFICES ASSUME ShardedInv, NEW s \in Shards
                 PROVE  /\ Len(processed[s]) <= CountUpTo(OfShard(submitted, s), Len(submitted))
                        /\ \A i \in OfShard(submitted, s) :
                              LET k == CountUpTo(OfShard(submitted, s), i)
                              IN k <= Len(processed[s]) => processed[s][k] = submitted[i]
                        /\ worker[s] = "done" => Len(processed[s]) = last_poll[s]
      BY DEF SymbolOrderKept
    <2>1. /\ Len(processed[s]) \in Nat /\ Len(Pushed(s)) \in Nat
          /\ Len(processed[s]) <= Len(Pushed(s))
          /\ \A j \in 1 .. Len(processed[s]) : Pushed(s)[j] = processed[s][j]
      BY ProcessedFirst
    <2>2. /\ Len(Pushed(s)) = CountUpTo(OfShard(submitted, s), Len(submitted))
          /\ \A i \in OfShard(submitted, s) :
                Pushed(s)[CountUpTo(OfShard(submitted, s), i)] = submitted[i]
      BY DEF ShardedInv, Routed
    <2>3. ASSUME NEW i \in OfShard(submitted, s),
                 CountUpTo(OfShard(submitted, s), i) <= Len(processed[s])
          PROVE  processed[s][CountUpTo(OfShard(submitted, s), i)] = submitted[i]
      <3> DEFINE k == CountUpTo(OfShard(submitted, s), i)
      <3>1. /\ OfShard(submitted, s) \in SUBSET (Nat \ {0})
            /\ OfShard(submitted, s) \in SUBSET Nat
        BY ShardIndices DEF ShardedInv, TypeOK
      <3>2. k >= 1 /\ k \in Nat  BY <3>1, CountPositive, CountType
      <3>3. Pushed(s)[k] = submitted[i] /\ k <= Len(processed[s])  BY <2>2, <2>3
      <3> HIDE DEF k
      <3>4. k \in 1 .. Len(processed[s])  BY <2>1, <3>2, <3>3
      <3> QED  BY <2>1, <3>3, <3>4 DEF k
    <2>4. worker[s] = "done" => Len(processed[s]) = last_poll[s]  BY DEF ShardedInv, Polled
    <2> QED  BY <2>1, <2>2, <2>3, <2>4
  <1> QED  BY <1>1, ShardedInvariant, PTL

(* The order behind reaggregated_crc is the deterministic merge, on the fast    *)
(* path and off it.                                                           *)
THEOREM ReaggregationIsMerge == Spec => []ReaggregatedIsMerge
  <1>1. ShardedInv => ReaggregatedIsMerge  BY DEF ShardedInv, Merged
  <1> QED  BY <1>1, ShardedInvariant, PTL
==============================================================================
