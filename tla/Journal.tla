------------------------------- MODULE Journal -------------------------------
(***************************************************************************)
(* The event journal: JournalWriter buffers records and appends them to a   *)
(* file, JournalReader maps the file and reads them back. Writes may be      *)
(* short, the process may die in the middle of one, and a power loss takes   *)
(* what was not synced. The clients of the reader are the tick stream,       *)
(* journal_replay, compute_semantic_crc, the replay catalogue and             *)
(* journal_diff; what each says about a torn file is modelled, what it does   *)
(* with the events is not.                                                   *)
(*                                                                          *)
(* A record is four units: two of its header (the second has the payload's   *)
(* length and CRC) and two of its payload, the BookEvent. A unit knows which *)
(* event it belongs to, which is what the CRC can tell: it fits its own       *)
(* payload and no other, and a unit that is not the second of a header never  *)
(* reads as the right length. The file header is one unit, written whole.    *)
(***************************************************************************)
EXTENDS Integers, Sequences, FiniteSets

CONSTANTS BufferRecords,   \* records that fit into buffer_bytes_
          FsyncOnFlush,    \* fsync_on_flush_
          MaxEvents,       \* bound: events appended
          Limits           \* the limits clients ask for; 0 is none

ASSUME JournalAssumption ==
    /\ BufferRecords \in Nat \ {0} /\ FsyncOnFlush \in BOOLEAN /\ MaxEvents \in Nat
    /\ Limits \subseteq Nat

VARIABLES fd,          \* the writer's file: "none", "open", or "closed" again
          buffer,      \* the units of the active buffer
          next_seq,
          file,        \* the units of the file
          synced,      \* how many of them survive a power loss
          appended,    \* events appended since the journal was created
          failed,      \* history: a write failed and its records were dropped
          sync_failed, \* history: an fsync has failed; what it covered counts as clean
          durable,     \* history: events appended when flush or close last synced them
          reader       \* the reader's mapping, offset and results

vars == <<fd, buffer, next_seq, file, synced, appended, failed, sync_failed, durable, reader>>

HeaderUnits == 2
RecordUnits == 4
FileHeader == [event |-> 0, seq |-> 0, part |-> 0]

Record(event, seq) == [p \in 1 .. RecordUnits |-> [event |-> event, seq |-> seq, part |-> p]]

NoReader == [mapped |-> <<>>, off |-> 0, at |-> "idle", limit |-> 0, delivered |-> <<>>,
             had_error |-> FALSE, crc_failures |-> 0]

Init ==
    /\ fd = "none" /\ buffer = <<>> /\ next_seq = 1
    /\ file = <<>> /\ synced = 0 /\ appended = 0
    /\ failed = FALSE /\ sync_failed = FALSE /\ durable = 0 /\ reader = NoReader

------------------------------------------------------------------------------
(* The writer. *)

(* open: an empty file gets its header. A file that is not empty is opened     *)
(* for writing only, so that pread of its header fails, and with it open,     *)
(* which then changes nothing.                                               *)
Open ==
    /\ fd # "open" /\ file = <<>>
    /\ fd' = "open" /\ file' = <<FileHeader>>
    /\ UNCHANGED <<buffer, next_seq, synced, appended, failed, sync_failed, durable, reader>>

Prefix(units, k) == SubSeq(units, 1, k)

(* flush_active_buffer: the loop over writev ends with everything written, or  *)
(* with an error after k units; the buffer is given up in either case.        *)
Written(k) ==
    /\ k \in 0 .. Len(buffer)
    /\ file' = file \o Prefix(buffer, k)
    /\ failed' = (failed \/ k < Len(buffer))

(* append: a full buffer is flushed first, without fsync. *)
AppendEvent ==
    /\ fd = "open" /\ appended < MaxEvents
    /\ appended' = appended + 1 /\ next_seq' = next_seq + 1
    /\ IF Len(buffer) + RecordUnits > BufferRecords * RecordUnits
       THEN /\ \E k \in 0 .. Len(buffer) : Written(k)
            /\ buffer' = Record(appended', next_seq)
       ELSE /\ buffer' = buffer \o Record(appended', next_seq)
            /\ UNCHANGED <<file, failed>>
    /\ UNCHANGED <<fd, synced, sync_failed, durable, reader>>

(* fsync has reached the disk with all that was written. After one that failed *)
(* the kernel takes the pages it could not write for clean, and no later fsync  *)
(* makes up for it.                                                          *)
Reached == FsyncOnFlush /\ ~sync_failed'

(* Mutant of Synced: fsync comes before the write. *)
SyncedEarly == IF Reached THEN Len(file) ELSE synced

(* What is synced after flush and close. *)
Synced == IF Reached THEN Len(file') ELSE synced

(* The end of flush and close. Whether fsync succeeds is not looked at, and     *)
(* neither returns anything.                                                 *)
Fsync ==
    /\ sync_failed' \in IF FsyncOnFlush THEN {sync_failed, TRUE} ELSE {sync_failed}
    /\ synced' = Synced
    /\ durable' = IF Reached /\ ~failed' THEN appended ELSE durable

Flush ==
    /\ fd = "open"
    /\ \E k \in 0 .. Len(buffer) : Written(k)
    /\ buffer' = <<>>
    /\ Fsync
    /\ UNCHANGED <<fd, next_seq, appended, reader>>

Close ==
    /\ fd = "open"
    /\ \E k \in 0 .. Len(buffer) : Written(k)
    /\ buffer' = <<>> /\ fd' = "closed"
    /\ Fsync
    /\ UNCHANGED <<next_seq, appended, reader>>

(* The process dies, perhaps inside writev. *)
Crash ==
    /\ fd = "open"
    /\ \E k \in 0 .. Len(buffer) : file' = file \o Prefix(buffer, k)
    /\ fd' = "closed" /\ buffer' = <<>>
    /\ UNCHANGED <<next_seq, synced, appended, failed, sync_failed, durable, reader>>

(* The machine loses power: of the units written since the last fsync only a   *)
(* prefix is left. A reader that has the file mapped goes down with it.       *)
PowerLoss ==
    /\ fd # "none" /\ Len(file) > synced
    /\ \E k \in synced .. Len(file) : file' = Prefix(file, k)
    /\ fd' = "closed" /\ buffer' = <<>> /\ reader' = NoReader
    /\ next_seq' = IF file' = <<>> THEN 1 ELSE next_seq
    /\ appended' = IF file' = <<>> THEN 0 ELSE appended
    /\ failed' = (failed /\ file' # <<>>) /\ sync_failed' = FALSE
    /\ UNCHANGED <<synced, durable>>

------------------------------------------------------------------------------
(* The reader. *)

(* open maps the file as long as it is now; the client's loop stops at its     *)
(* limit (StreamTicks' limit, journal_replay's --max-records).                *)
OpenReader ==
    /\ reader.at = "idle" /\ file # <<>>
    /\ \E limit \in Limits :
          reader' = [reader EXCEPT !.mapped = file, !.off = 1, !.at = "reading", !.limit = limit]
    /\ UNCHANGED <<fd, buffer, next_seq, file, synced, appended, failed, sync_failed, durable>>

Left == Len(reader.mapped) - reader.off

(* The unit at a distance from the reader's offset. *)
Unit(i) == reader.mapped[reader.off + i]

LengthFits == Unit(HeaderUnits).part = HeaderUnits

(* Mutant of CrcFits: the CRC is not compared. *)
CrcUnchecked == TRUE

CrcFits ==
    \A p \in HeaderUnits + 1 .. RecordUnits :
        Unit(p).part = p /\ Unit(p).event = Unit(HeaderUnits).event

(* The reading ends; an error inside a record also counts as a CRC failure.   *)
Stop(err, failures) ==
    [reader EXCEPT !.at = "done", !.had_error = @ \/ err, !.crc_failures = @ + failures]

(* Mutant of AfterRecords: the rest of a header is passed over.               *)
AfterRecordsSilent == Stop(FALSE, 0)

(* The loop of next ends: an unread rest is an error, though no CRC failure.  *)
AfterRecords == Stop(Left > 0, 0)

(* The reader after one turn of the loop of next and of its client's loop.    *)
AfterTurn ==
    IF Left < HeaderUnits THEN AfterRecords
    ELSE IF ~LengthFits \/ Left < RecordUnits THEN Stop(TRUE, 1)
    ELSE IF ~CrcFits
    THEN [reader EXCEPT !.off = @ + RecordUnits, !.had_error = TRUE, !.crc_failures = @ + 1]
    ELSE LET delivered == Append(reader.delivered, [event |-> Unit(RecordUnits).event,
                                                    seq   |-> Unit(1).seq])
         IN [reader EXCEPT !.off = @ + RecordUnits, !.delivered = delivered,
                           !.at = IF reader.limit > 0 /\ Len(delivered) >= reader.limit
                                  THEN "limit" ELSE @]

ReadRecord ==
    /\ reader.at = "reading"
    /\ reader' = AfterTurn
    /\ UNCHANGED <<fd, buffer, next_seq, file, synced, appended, failed, sync_failed, durable>>

------------------------------------------------------------------------------
(* What the reader's clients report once their loops have ended. *)

(* StreamTicks: OK or DATA_LOSS; journal_replay: exit 0 or 1. *)
StreamIsOk == ~reader.had_error

(* compute_semantic_crc, and nbbo_journal_from_book on its input. *)
SemanticCrcOk == reader.crc_failures = 0

(* ReplayCatalog::load counts the records by the size of the file and refuses   *)
(* one with a rest.                                                          *)
CatalogAccepts(units) == (Len(units) - 1) % RecordUnits = 0
CatalogCount(units) == (Len(units) - 1) \div RecordUnits

(* journal_diff: the headers, the counts and then every record, byte by byte;   *)
(* a rest shorter than a record is not compared.                             *)
Identical(lhs, rhs) ==
    /\ lhs[1] = rhs[1]
    /\ CatalogCount(lhs) = CatalogCount(rhs)
    /\ \A i \in 2 .. 1 + RecordUnits * CatalogCount(lhs) : lhs[i] = rhs[i]

Next ==
    \/ Open \/ AppendEvent \/ Flush \/ Close \/ Crash \/ PowerLoss
    \/ OpenReader \/ ReadRecord

Spec == Init /\ [][Next]_vars

------------------------------------------------------------------------------

(* Unit i of a file to which every event was written whole. *)
IntendedUnit(i) ==
    IF i = 1 THEN FileHeader
    ELSE LET event == ((i - 2) \div RecordUnits) + 1
         IN Record(event, event)[((i - 2) % RecordUnits) + 1]

(* The file that appending n events writes when nothing fails. *)
Intended(n) == [i \in 1 .. 1 + RecordUnits * n |-> IntendedUnit(i)]

(* Whatever failed in between, next delivers only events that were appended,  *)
(* each at most once, in order, under the number they were journalled with:   *)
(* a torn record is never delivered, not even with another's payload.         *)
DeliversWhatWasAppended ==
    LET d == reader.delivered IN
    /\ \A i \in DOMAIN d : d[i].event \in 1 .. appended /\ d[i].seq = d[i].event
    /\ \A i \in 2 .. Len(d) : d[i - 1].event < d[i].event

(* A tear never goes unnoticed by the clients that promise to notice it. A     *)
(* finished stream or replay that answers OK has read a file of nothing but    *)
(* whole records and handed on every one of them; this holds also behind a    *)
(* failed write, where the tear is in the middle. The semantic CRC may pass    *)
(* over a rest shorter than a record's header, and nothing else. Where no      *)
(* write failed, a file the catalogue accepts streams without an error, with   *)
(* as many records as it counted; and a file that journal_diff finds identical *)
(* to the intended one delivers the intended events.                          *)
TearReported ==
    reader.at = "done" =>
        LET units == reader.mapped
            n     == Len(reader.delivered)
        IN /\ StreamIsOk => Len(units) = 1 + RecordUnits * n
           /\ SemanticCrcOk => n = CatalogCount(units) /\ Len(units) < 1 + RecordUnits * n + HeaderUnits
           /\ CatalogAccepts(units) /\ ~failed => StreamIsOk /\ n = CatalogCount(units)
           /\ Identical(units, Intended(CatalogCount(units))) =>
                 /\ n = CatalogCount(units)
                 /\ \A i \in 1 .. n : reader.delivered[i] = [event |-> i, seq |-> i]

(* What flush and close with fsync_on_flush_ have synced stays: the events       *)
(* appended before one of them, with no write and no fsync failed so far, are    *)
(* in the file from then on, record by record, in spite of later writes and     *)
(* fsyncs that fail, of crash and of power loss. (The caller cannot tell such   *)
(* a flush from one whose fsync failed.)                                      *)
FlushIsDurable ==
    LET units == 1 + RecordUnits * durable
    IN durable > 0 => Len(file) >= units /\ SubSeq(file, 1, units) = Intended(durable)
------------------------------------------------------------------------------
(* The inductive invariant behind the three. *)

Units == [event : Nat, seq : Nat, part : 0 .. RecordUnits]
Deliveries == [event : Nat, seq : Nat]

TypeOK ==
    /\ fd \in {"none", "open", "closed"}
    /\ buffer \in Seq(Units) /\ file \in Seq(Units)
    /\ next_seq \in Nat /\ synced \in Nat /\ appended \in Nat /\ durable \in Nat
    /\ failed \in BOOLEAN /\ sync_failed \in BOOLEAN
    /\ reader \in [mapped : Seq(Units), off : Nat, at : {"idle", "reading", "limit", "done"},
                   limit : Nat, delivered : Seq(Deliveries), had_error : BOOLEAN,
                   crc_failures : Nat]

(* Unit w can come right behind unit u in a file of n events: within a record  *)
(* its parts follow each other, and a tear is followed by the start of a later *)
(* record.                                                                    *)
Follows(u, w, n) ==
    /\ w.seq = w.event /\ w.event \in 1 .. n
    /\ \/ w.part = 1 /\ w.event > u.event
       \/ w.part = u.part + 1 /\ w.event = u.event

Chained(units, n) ==
    units # <<>> => /\ units[1] = FileHeader
                    /\ \A i \in 2 .. Len(units) : Follows(units[i - 1], units[i], n)

AsIntended(units) == \A i \in 1 .. Len(units) : units[i] = IntendedUnit(i)

(* The buffer holds the events behind the first n, and the file none of them.  *)
BufferedFrom(n) ==
    /\ Len(buffer) = RecordUnits * (appended - n)
    /\ \A j \in 1 .. Len(buffer) : buffer[j] = IntendedUnit(1 + RecordUnits * n + j)
    /\ file[Len(file)].event <= n
    /\ ~failed => Len(file) = 1 + RecordUnits * n

WriterSound ==
    /\ next_seq = appended + 1
    /\ Chained(file, appended)
    /\ ~failed => AsIntended(file)
    /\ fd = "open" => file # <<>> /\ \E n \in 0 .. appended : BufferedFrom(n)
    /\ fd # "open" => buffer = <<>>
    /\ file = <<>> => appended = 0 /\ ~failed

(* What fsync has made durable is synced, and as intended. *)
SyncSound ==
    /\ synced <= Len(file)
    /\ durable > 0 => /\ synced >= 1 + RecordUnits * durable
                      /\ \A i \in 1 .. 1 + RecordUnits * durable : file[i] = IntendedUnit(i)

(* Everything delivered lies before the reader's offset. *)
DeliveredBehind ==
    LET d == reader.delivered IN
    d # <<>> => d[Len(d)].event <= reader.mapped[reader.off].event

MappingSound ==
    /\ reader.mapped # <<>> /\ Chained(reader.mapped, appended)
    /\ ~failed => AsIntended(reader.mapped)
    /\ reader.off \in 1 .. Len(reader.mapped)
    /\ DeliveredBehind

(* Without an error the offset counts the deliveries, and the end of the file  *)
(* is where the reader says it is.                                           *)
ErrorsTell ==
    /\ ~reader.had_error \/ reader.crc_failures = 0 =>
          reader.off = 1 + RecordUnits * Len(reader.delivered)
    /\ reader.at = "done" => /\ ~reader.had_error => Left = 0
                             /\ reader.crc_failures = 0 => Left < HeaderUnits

(* A file whose whole records are the intended ones is read record by record;  *)
(* only a rest at its end is an error.                                       *)
CleanRead ==
    Identical(reader.mapped, Intended(CatalogCount(reader.mapped))) =>
        /\ reader.off = 1 + RecordUnits * Len(reader.delivered)
        /\ \A i \in 1 .. Len(reader.delivered) : reader.delivered[i] = [event |-> i, seq |-> i]
        /\ reader.at = "done" => Left < RecordUnits
        /\ reader.had_error => reader.at = "done" /\ Left > 0

ReaderSound ==
    /\ reader.at = "idle" => reader = NoReader
    /\ reader.at # "idle" => MappingSound /\ ErrorsTell /\ CleanRead

JournalInv == TypeOK /\ WriterSound /\ SyncSound /\ ReaderSound /\ DeliversWhatWasAppended
==============================================================================
