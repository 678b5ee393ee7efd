----------------------------- MODULE TickService -----------------------------
(***************************************************************************)
(* The NBBO journal file as NbboJournalReader reads it, and the answers that *)
(* ReplayCatalog and TickReplayServiceImpl give from its rows. The service    *)
(* never writes: what it answers is a function of the rows loaded at startup. *)
(*                                                                          *)
(* A row has a symbol, an exchange timestamp and a quote. In the file it is   *)
(* three units: two of its header, the second with the payload's length and   *)
(* CRC, and the payload. A unit knows its row, which is what the CRC tells;   *)
(* a unit that is not the second of a header never reads as the right length. *)
(***************************************************************************)
EXTENDS Integers, Sequences

HeaderUnits == 2
RowUnits == 3
FileHeader == [row |-> 0, part |-> 0]

(* append: the units of one row. *)
RowRecord(row) == [p \in 1 .. RowUnits |-> [row |-> row, part |-> p]]

(* Mutant of CrcFits: the CRC is not compared. *)
CrcFitsAlways(header, payload) == TRUE

CrcFits(header, payload) == payload.part = RowUnits /\ payload.row = header.row

(* The payload's bytes as a row: those of another unit are no row of the replay. *)
Decoded(payload) ==
    IF payload.part = RowUnits THEN payload.row ELSE [payload.row EXCEPT !.symbol = "garbage"]

(* The loop of next from the header on: a record of the wrong length, or cut    *)
(* off, ends the reading with a failure; one with the wrong CRC is passed over; *)
(* a rest shorter than a header ends it without one.                          *)
ReadRows(units) ==
    LET read[off \in 1 .. Len(units)] ==
            IF Len(units) - off < HeaderUnits THEN [rows |-> <<>>, crc_failures |-> 0]
            ELSE IF units[off + HeaderUnits].part # HeaderUnits \/ Len(units) - off < RowUnits
            THEN [rows |-> <<>>, crc_failures |-> 1]
            ELSE LET rest    == read[off + RowUnits]
                     payload == units[off + RowUnits]
                 IN IF CrcFits(units[off + HeaderUnits], payload)
                    THEN [rest EXCEPT !.rows = <<Decoded(payload)>> \o @]
                    ELSE [rest EXCEPT !.crc_failures = @ + 1]
    IN read[1]

(* nbbo_journal_diff: the headers, the counts and every record; a rest shorter  *)
(* than a record is not compared.                                            *)
RowCount(units) == (Len(units) - 1) \div RowUnits
IdenticalRows(lhs, rhs) ==
    /\ lhs[1] = rhs[1] /\ RowCount(lhs) = RowCount(rhs)
    /\ \A i \in 2 .. 1 + RowUnits * RowCount(lhs) : lhs[i] = rhs[i]

------------------------------------------------------------------------------

NoCatalog == [loaded |-> FALSE, rows |-> <<>>]

(* ReplayCatalog::load: the book journal must be whole; without an NBBO path     *)
(* (no units) nothing else is read. The failures of the reader are not looked  *)
(* at.                                                                       *)
LoadCatalog(bookIsWhole, units) ==
    IF ~bookIsWhole THEN NoCatalog
    ELSE [loaded |-> TRUE, rows |-> IF units = <<>> THEN <<>> ELSE ReadRows(units).rows]

(* in_ts_window: 0 leaves an end open. *)
InWindow(ts, start, end) == (start > 0 => ts >= start) /\ (end > 0 => ts <= end)

NotLoaded == [status |-> "FAILED_PRECONDITION", rows |-> <<>>]

(* StreamNbbo: the rows of a symbol ("" is every one) in a window of time, up    *)
(* to a limit (0 is none), or until the client hangs up after `taken` of them.  *)
StreamNbbo(rows, symbol, start, end, limit, taken) ==
    LET wanted == SelectSeq(rows, LAMBDA r : /\ symbol # "" => r.symbol = symbol
                                             /\ InWindow(r.ts, start, end))
        room   == IF limit > 0 /\ limit < taken THEN limit ELSE taken
    IN IF rows = <<>> THEN NotLoaded
       ELSE [status |-> "OK", rows |-> SubSeq(wanted, 1, IF room < Len(wanted) THEN room ELSE Len(wanted))]

(* Mutant of QueryNbbo: the newest row of the symbol, whatever was asked. *)
QueryNbboNewest(rows, symbol, ts) ==
    LET fits == {i \in DOMAIN rows : rows[i].symbol = symbol}
    IN IF rows = <<>> THEN NotLoaded
       ELSE [status |-> "OK",
             rows |-> IF fits = {} THEN <<>>
                      ELSE <<rows[CHOOSE i \in fits : \A j \in fits : j <= i]>>]

(* QueryNbbo: of the symbol's rows no later than ts the first with the highest   *)
(* timestamp; no row is found |-> false.                                       *)
QueryNbbo(rows, symbol, ts) ==
    LET fits == {i \in DOMAIN rows : rows[i].symbol = symbol /\ rows[i].ts <= ts}
        best == CHOOSE i \in fits : \A j \in fits : \/ rows[j].ts < rows[i].ts
                                                    \/ rows[j].ts = rows[i].ts /\ i <= j
    IN IF rows = <<>> THEN NotLoaded
       ELSE [status |-> "OK", rows |-> IF fits = {} THEN <<>> ELSE <<rows[best]>>]
==============================================================================
