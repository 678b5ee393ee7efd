------------------------------- MODULE SPMCRing -------------------------------
(***************************************************************************)
(* SPMCSeqlockRing<T, Size>: one writer publishes without ever waiting, any  *)
(* number of readers follow it with their own cursors and detect by a slot's *)
(* version that its value changed under them. One shared access per step; a  *)
(* value is Words machine words that are written and copied one by one, and  *)
(* stores become visible in program order, as on the x86 targets of the      *)
(* build (the plain copy of a value that is being written is a data race,    *)
(* and any mix of old and new words may come out of it).                     *)
(*                                                                          *)
(* The value of item n is n in each of its words; a version is the sequence  *)
(* number and the write-in-progress bit that encode_version packs together.  *)
(* The torn_read_retries of a cursor, a running total, is left out.          *)
(***************************************************************************)
EXTENDS Integers

CONSTANTS RingSize,    \* a power of two
          Readers,
          Words,       \* machine words of a value
          MaxRetries,  \* max_retries
          MaxPublish   \* bound: items the writer publishes

ASSUME SeqlockAssumption == /\ RingSize \in Nat \ {0} /\ Words \in Nat \ {0}
                         /\ MaxRetries \in Nat \ {0} /\ MaxPublish \in Nat

VARIABLES slots,       \* slots_: version and value of each slot
          next_sequence,        \* next_sequence_
          published_sequence,   \* published_sequence_
          writer,      \* step of try_publish: 0 idle, k < Words + 1 before word k
          cursor,      \* the readers' SpmcReaderCursors
          reader,      \* where each reader is in try_read_next
          result       \* how each reader's last call ended, and with what value

seqlockVars == <<slots, next_sequence, published_sequence, writer, cursor, reader, result>>

SlotIndex == 0 .. RingSize - 1
Word == 1 .. Words

(* kNeverWrittenSequence, a number no item has. *)
NeverWritten == -1

Version(seq, busy) == [sequence |-> seq, write_in_progress |-> busy]

SeqlockInit ==
    /\ slots = [i \in SlotIndex |-> [version |-> Version(NeverWritten, FALSE),
                                     value   |-> [w \in Word |-> NeverWritten]]]
    /\ next_sequence = 0 /\ published_sequence = 0 /\ writer = 0
    /\ cursor = [r \in Readers |-> [next_sequence |-> 0,
                                    observed_published_sequence |-> 0, overruns |-> 0]]
    /\ reader = [r \in Readers |-> [at |-> "idle", attempt |-> 0, word |-> 1,
                                    before |-> Version(NeverWritten, FALSE),
                                    candidate |-> [w \in Word |-> NeverWritten]]]
    /\ result = [r \in Readers |-> [status |-> "Empty", target |-> NeverWritten,
                                    out |-> [w \in Word |-> NeverWritten]]]

------------------------------------------------------------------------------
(* try_publish *)

Current == next_sequence % RingSize

(* Mutant of BeginWrite: the slot is not marked before it is written. *)
BeginWriteUnmarked ==
    /\ writer = 0 /\ next_sequence < MaxPublish
    /\ writer' = 1
    /\ UNCHANGED <<slots, next_sequence, published_sequence, cursor, reader, result>>

BeginWrite ==
    /\ writer = 0 /\ next_sequence < MaxPublish
    /\ slots' = [slots EXCEPT ![Current].version = Version(next_sequence, TRUE)]
    /\ writer' = 1
    /\ UNCHANGED <<next_sequence, published_sequence, cursor, reader, result>>

WriteWord ==
    /\ writer \in Word
    /\ slots' = [slots EXCEPT ![Current].value[writer] = next_sequence]
    /\ writer' = writer + 1
    /\ UNCHANGED <<next_sequence, published_sequence, cursor, reader, result>>

EndWrite ==
    /\ writer = Words + 1
    /\ slots' = [slots EXCEPT ![Current].version = Version(next_sequence, FALSE)]
    /\ next_sequence' = next_sequence + 1
    /\ writer' = Words + 2
    /\ UNCHANGED <<published_sequence, cursor, reader, result>>

Publish ==
    /\ writer = Words + 2
    /\ published_sequence' = next_sequence
    /\ writer' = 0
    /\ UNCHANGED <<slots, next_sequence, cursor, reader, result>>

------------------------------------------------------------------------------
(* try_read_next *)

Return(r, status) ==
    /\ reader' = [reader EXCEPT ![r].at = "idle"]
    /\ result' = [result EXCEPT ![r].status = status]

(* Mutant of Published: the cached count is never refreshed. *)
PublishedCached(r) == cursor[r].observed_published_sequence

(* The number of published items the call goes by: the cached one until the   *)
(* reader has used it up.                                                    *)
Published(r) ==
    IF cursor[r].next_sequence = cursor[r].observed_published_sequence
    THEN published_sequence ELSE cursor[r].observed_published_sequence

ReadEmpty(r) ==
    /\ reader[r].at = "idle"
    /\ Published(r) = cursor[r].next_sequence
    /\ Return(r, "Empty")
    /\ UNCHANGED <<slots, next_sequence, published_sequence, writer, cursor>>

(* Mutant of ReadOverrun: one item too many is skipped. *)
ReadOverrunFar(r) ==
    /\ reader[r].at = "idle"
    /\ Published(r) - cursor[r].next_sequence > RingSize
    /\ cursor' = [cursor EXCEPT
          ![r].observed_published_sequence = Published(r),
          ![r].overruns = @ + (Published(r) - cursor[r].next_sequence) - RingSize + 1,
          ![r].next_sequence = Published(r) - RingSize + 1]
    /\ Return(r, "Overrun")
    /\ UNCHANGED <<slots, next_sequence, published_sequence, writer>>

ReadOverrun(r) ==
    /\ reader[r].at = "idle"
    /\ Published(r) - cursor[r].next_sequence > RingSize
    /\ cursor' = [cursor EXCEPT
          ![r].observed_published_sequence = Published(r),
          ![r].overruns = @ + (Published(r) - cursor[r].next_sequence) - RingSize,
          ![r].next_sequence = Published(r) - RingSize]
    /\ Return(r, "Overrun")
    /\ UNCHANGED <<slots, next_sequence, published_sequence, writer>>

ReadBegin(r) ==
    /\ reader[r].at = "idle"
    /\ Published(r) - cursor[r].next_sequence \in 1 .. RingSize
    /\ cursor' = [cursor EXCEPT ![r].observed_published_sequence = Published(r)]
    /\ reader' = [reader EXCEPT ![r].at = "before", ![r].attempt = 0]
    /\ UNCHANGED <<slots, next_sequence, published_sequence, writer, result>>

Target(r) == cursor[r].next_sequence
SlotOf(r) == slots[Target(r) % RingSize]

(* An attempt fails; the last one ends the call. *)
Retry(r) ==
    IF reader[r].attempt + 1 < MaxRetries
    THEN /\ reader' = [reader EXCEPT ![r].at = "before", ![r].attempt = @ + 1]
         /\ UNCHANGED result
    ELSE Return(r, "RetryLimit")

LoadBefore(r) ==
    /\ reader[r].at = "before"
    /\ \/ /\ SlotOf(r).version = Version(Target(r), FALSE)
          /\ reader' = [reader EXCEPT ![r].at = "copy", ![r].word = 1,
                                      ![r].before = SlotOf(r).version]
          /\ UNCHANGED result
       \/ SlotOf(r).version # Version(Target(r), FALSE) /\ Retry(r)
    /\ UNCHANGED <<slots, next_sequence, published_sequence, writer, cursor>>

CopyWord(r) ==
    /\ reader[r].at = "copy"
    /\ LET w == reader[r].word IN
       reader' = [reader EXCEPT ![r].candidate[w] = SlotOf(r).value[w],
                                ![r].word = w + 1,
                                ![r].at = IF w = Words THEN "after" ELSE "copy"]
    /\ UNCHANGED <<slots, next_sequence, published_sequence, writer, cursor, result>>

LoadAfter(r) ==
    /\ reader[r].at = "after"
    /\ \/ /\ SlotOf(r).version = reader[r].before
          /\ cursor' = [cursor EXCEPT ![r].next_sequence = @ + 1]
          /\ reader' = [reader EXCEPT ![r].at = "idle"]
          /\ result' = [result EXCEPT ![r] = [status |-> "Success", target |-> Target(r),
                                              out |-> reader[r].candidate]]
       \/ SlotOf(r).version # reader[r].before /\ Retry(r) /\ UNCHANGED cursor
    /\ UNCHANGED <<slots, next_sequence, published_sequence, writer>>

SeqlockNext == \/ BeginWrite \/ WriteWord \/ EndWrite \/ Publish
        \/ \E r \in Readers : \/ ReadEmpty(r) \/ ReadOverrun(r) \/ ReadBegin(r)
                              \/ LoadBefore(r) \/ CopyWord(r) \/ LoadAfter(r)

SeqlockSpec == SeqlockInit /\ [][SeqlockNext]_seqlockVars

(* The writer ends what it began; the readers poll for ever. *)
SeqlockFairness ==
    /\ WF_seqlockVars(WriteWord \/ EndWrite \/ Publish)
    /\ \A r \in Readers : WF_seqlockVars(\/ ReadOverrun(r) \/ ReadBegin(r)
                                         \/ LoadBefore(r) \/ CopyWord(r) \/ LoadAfter(r))

SeqlockFairSpec == SeqlockSpec /\ SeqlockFairness

------------------------------------------------------------------------------
(* A read that succeeds returns one published value whole, and the one its    *)
(* cursor asked for, however often the writer went round meanwhile.          *)
NoTornRead ==
    \A r \in Readers : \A w \in Word : result[r].out[w] = result[r].target

(* What a step may do to the cursor of reader r: an item that is passed over   *)
(* is counted, and its slot is already a later item's.                       *)
PassesOver(r) ==
    LET from == cursor[r].next_sequence
        to   == cursor'[r].next_sequence
    IN /\ to >= from
       /\ to > from + 1 \/ result'[r].status = "Overrun" =>
             \A n \in from .. to - 1 : slots[n % RingSize].version.sequence > n
       /\ cursor'[r].overruns - cursor[r].overruns \in {to - from, to - from - 1}

(* A reader that skips items counts them, and skips only items the writer has *)
(* already overwritten.                                                      *)
SkipsOnlyLostItems == [][\A r \in Readers : PassesOver(r)]_seqlockVars

(* The writer has begun to overwrite the item reader r wants. *)
Lapped(r) == slots[Target(r) % RingSize].version.sequence > Target(r)

(* A reader that is never lapped reads every item. *)
KeepingUpReadsAll ==
    \A r \in Readers :
        ([]~Lapped(r)) => \A n \in 1 .. MaxPublish :
                             (published_sequence >= n) ~> (cursor[r].next_sequence >= n)
------------------------------------------------------------------------------
(* The inductive invariant behind NoTornRead and SkipsOnlyLostItems.          *)

Versions == [sequence : Int, write_in_progress : BOOLEAN]
SlotStates == [version : Versions, value : [Word -> Int]]
Cursors == [next_sequence : Nat, observed_published_sequence : Nat, overruns : Nat]
Calls == [at : {"idle", "before", "copy", "after"}, attempt : Nat, word : 1 .. Words + 1,
          before : Versions, candidate : [Word -> Int]]
Results == [status : {"Empty", "Overrun", "RetryLimit", "Success"},
            target : Int, out : [Word -> Int]]

SeqlockTypeOK ==
    /\ slots \in [SlotIndex -> SlotStates]
    /\ next_sequence \in Nat /\ published_sequence \in Nat /\ writer \in 0 .. Words + 2
    /\ cursor \in [Readers -> Cursors]
    /\ reader \in [Readers -> Calls]
    /\ result \in [Readers -> Results]

(* The writer is between the two version stores of try_publish. *)
Writing == writer \in 1 .. Words + 1

(* The number of items the writer has begun to write. *)
Begun == IF Writing THEN next_sequence + 1 ELSE next_sequence

(* The counter the readers see lags by the item that is written and not yet   *)
(* announced.                                                                *)
CountersAgree ==
    next_sequence = IF writer = Words + 2 THEN published_sequence + 1
                                          ELSE published_sequence

(* Only the slot that is being written is marked, and it is marked. *)
MarkAgrees ==
    /\ \A i \in SlotIndex : slots[i].version.write_in_progress => Writing /\ i = Current
    /\ Writing => slots[Current].version = Version(next_sequence, TRUE)

(* A slot's number is one the writer has begun, and at least that of every    *)
(* begun item with this slot.                                                *)
VersionsCurrent ==
    /\ \A i \in SlotIndex : slots[i].version.sequence < Begun
    /\ \A n \in 0 .. Begun - 1 : slots[n % RingSize].version.sequence >= n

(* An unmarked slot holds its item whole; the marked one does as far as the   *)
(* writer has come.                                                          *)
ContentsWhole ==
    /\ \A i \in SlotIndex : ~ slots[i].version.write_in_progress =>
          \A w \in Word : slots[i].value[w] = slots[i].version.sequence
    /\ Writing => \A w \in 1 .. writer - 1 : slots[Current].value[w] = next_sequence

(* A reader is never ahead of the count it saw, and wants an item below that  *)
(* count while it is in a call.                                              *)
CursorsBehind ==
    \A r \in Readers :
        /\ cursor[r].next_sequence <= cursor[r].observed_published_sequence
        /\ cursor[r].observed_published_sequence <= published_sequence
        /\ reader[r].at # "idle" =>
              cursor[r].next_sequence < cursor[r].observed_published_sequence

(* What reader r has copied is its item, unless the slot has gone on to a     *)
(* later item, and then the second load of the version tells.                *)
CopySound(r) ==
    reader[r].at \in {"copy", "after"} =>
        /\ reader[r].before = Version(Target(r), FALSE)
        /\ reader[r].word = Words + 1 <=> reader[r].at = "after"
        /\ \/ SlotOf(r).version.sequence > Target(r)
           \/ /\ SlotOf(r).version = Version(Target(r), FALSE)
              /\ \A w \in 1 .. reader[r].word - 1 : reader[r].candidate[w] = Target(r)

SeqlockInv ==
    /\ SeqlockTypeOK /\ CountersAgree /\ MarkAgrees /\ VersionsCurrent /\ ContentsWhole
    /\ CursorsBehind /\ (\A r \in Readers : CopySound(r)) /\ NoTornRead
==============================================================================
