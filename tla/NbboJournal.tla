----------------------------- MODULE NbboJournal -----------------------------
(***************************************************************************)
(* NbboConsolidator for one symbol, NbboJournalPipeline, which replays book  *)
(* events into it and journals each change of the national best bid and      *)
(* offer, the journal's writer, and the replay service that loads the file.  *)
(* The order books are their tops: an event of a venue leaves its top as it   *)
(* was or changes it. Events of other symbols only add rows of their own.    *)
(*                                                                          *)
(* A quote is a price and a quantity, or NoQuote (has_bid or has_ask false,   *)
(* with every field 0).                                                      *)
(***************************************************************************)
EXTENDS TickService, FiniteSets

CONSTANTS VenueSlots,    \* the venues by their enum value
          BidQuotes, AskQuotes,
          Times,         \* exchange timestamps, in no order
          BufferRows,    \* rows that fit into buffer_bytes_
          MaxEvents      \* bound: events replayed

ASSUME NbboAssumption ==
    /\ VenueSlots \subseteq Nat /\ VenueSlots # {} /\ IsFiniteSet(VenueSlots)
    /\ \A q \in BidQuotes \cup AskQuotes : q.price \in Nat \ {0} /\ q.qty \in Nat \ {0}
    /\ Times \subseteq Nat \ {0} /\ BufferRows \in Nat \ {0} /\ MaxEvents \in Nat

NoQuote == [price |-> 0, qty |-> 0]
Top == [bid : BidQuotes \cup {NoQuote}, ask : AskQuotes \cup {NoQuote}]

VARIABLES top,         \* top_of_book of every venue's book
          venue_top,   \* SymbolState::venues
          nbbo,        \* SymbolState::nbbo
          writer,      \* fd_ and the active buffer of the journal writer
          file,        \* the units of the NBBO journal
          failed,      \* history: a write failed
          history,     \* history: the events and the quote after each
          catalog      \* the replay service's rows

vars == <<top, venue_top, nbbo, writer, file, failed, history, catalog>>

NoBest == [quote |-> NoQuote, venue |-> 0, sequence |-> 0]
NoNbbo == [bid |-> NoBest, ask |-> NoBest]

NoTops == [v \in VenueSlots |-> [bid |-> NoQuote, ask |-> NoQuote]]
NoVenues == [v \in VenueSlots |-> [bid |-> NoQuote, ask |-> NoQuote,
                                   bid_sequence |-> 0, ask_sequence |-> 0]]

Init ==
    /\ top = NoTops /\ venue_top = NoVenues /\ nbbo = NoNbbo
    /\ writer = [fd |-> "none", buffer |-> <<>>] /\ file = <<>> /\ failed = FALSE
    /\ history = <<>> /\ catalog = NoCatalog

(* Which of two prices takes the other's place in compute. *)
Better(side, a, b) == IF side = "bid" THEN a > b ELSE a < b

(* compute for one side: the loop over the venues keeps the first that no     *)
(* later one betters.                                                        *)
ComputeSide(tops, side) ==
    LET quoting == {v \in VenueSlots : tops[v][side] # NoQuote}
        price(v) == tops[v][side].price
        kept(v) == \A u \in quoting \ {v} : IF u > v THEN ~Better(side, price(u), price(v))
                                            ELSE Better(side, price(v), price(u))
    IN IF quoting = {} THEN NoBest
       ELSE LET v == CHOOSE w \in quoting : kept(w) IN
            [quote |-> tops[v][side], venue |-> v,
             sequence |-> IF side = "bid" THEN tops[v].bid_sequence ELSE tops[v].ask_sequence]

Compute(tops) == [bid |-> ComputeSide(tops, "bid"), ask |-> ComputeSide(tops, "ask")]

(* Mutant of Updated: a side that has gone keeps its last quote. *)
UpdatedKeepsGone(vt, t, seq) ==
    [bid |-> IF t.bid = NoQuote THEN vt.bid ELSE t.bid,
     ask |-> IF t.ask = NoQuote THEN vt.ask ELSE t.ask,
     bid_sequence |-> IF t.bid # NoQuote THEN seq ELSE vt.bid_sequence,
     ask_sequence |-> IF t.ask # NoQuote THEN seq ELSE vt.ask_sequence]

(* update_and_current up to compute: the venue's quotes, and the sequence      *)
(* number of every side that has one, changed or not.                         *)
Updated(vt, t, seq) ==
    [bid |-> t.bid, ask |-> t.ask,
     bid_sequence |-> IF t.bid # NoQuote THEN seq ELSE vt.bid_sequence,
     ask_sequence |-> IF t.ask # NoQuote THEN seq ELSE vt.ask_sequence]

NbboChanged(before, after) == before # after

------------------------------------------------------------------------------
(* The writer. *)

(* open truncates the file and writes its header. *)
OpenJournal ==
    /\ writer.fd = "none"
    /\ writer' = [writer EXCEPT !.fd = "open"] /\ file' = <<FileHeader>>
    /\ UNCHANGED <<top, venue_top, nbbo, failed, history, catalog>>

(* flush_active_buffer: writev ends with everything written or with an error    *)
(* after k units; the buffer is given up in either case.                       *)
Written(k) ==
    /\ k \in 0 .. Len(writer.buffer)
    /\ file' = file \o SubSeq(writer.buffer, 1, k)
    /\ failed' = (failed \/ k < Len(writer.buffer))

(* append: a full buffer is flushed first. *)
AppendRow(row) ==
    IF Len(writer.buffer) + RowUnits > BufferRows * RowUnits
    THEN /\ \E k \in 0 .. Len(writer.buffer) : Written(k)
         /\ writer' = [writer EXCEPT !.buffer = RowRecord(row)]
    ELSE /\ writer' = [writer EXCEPT !.buffer = @ \o RowRecord(row)]
         /\ UNCHANGED <<file, failed>>

(* close at the end of the replay, whose result is true whatever was written;    *)
(* the books and the consolidator end with it.                                *)
CloseJournal ==
    /\ writer.fd = "open"
    /\ \E k \in 0 .. Len(writer.buffer) : Written(k)
    /\ writer' = [fd |-> "closed", buffer |-> <<>>]
    /\ top' = NoTops /\ venue_top' = NoVenues /\ nbbo' = NoNbbo
    /\ UNCHANGED <<history, catalog>>

------------------------------------------------------------------------------

Followed == "followed"
Other == "other"
Row(symbol, ts, quote) == [symbol |-> symbol, ts |-> ts, quote |-> quote]

(* An event of the replay whose order book answers with the top t.            *)
ReplayEvent(v, t, ts) ==
    /\ writer.fd = "open" /\ Len(history) < MaxEvents
    /\ top' = [top EXCEPT ![v] = t]
    /\ IF t = top[v] THEN UNCHANGED <<venue_top, nbbo, writer, file, failed>>
       ELSE /\ venue_top' = [venue_top EXCEPT ![v] = Updated(@, t, Len(history) + 1)]
            /\ nbbo' = Compute(venue_top')
            /\ IF NbboChanged(nbbo, nbbo') THEN AppendRow(Row(Followed, ts, nbbo'))
               ELSE UNCHANGED <<writer, file, failed>>
    /\ history' = Append(history, Row(Followed, ts, nbbo'))
    /\ UNCHANGED catalog

(* An event of another symbol that changes that symbol's quote. *)
ReplayOther(ts) ==
    /\ writer.fd = "open" /\ Len(history) < MaxEvents
    /\ AppendRow(Row(Other, ts, NoNbbo))
    /\ history' = Append(history, Row(Other, ts, NoNbbo))
    /\ UNCHANGED <<top, venue_top, nbbo, catalog>>

(* tick_service_server starts on a finished NBBO journal, with a book journal    *)
(* that is whole or torn.                                                     *)
StartService ==
    /\ writer.fd = "closed" /\ catalog = NoCatalog
    /\ \E bookIsWhole \in BOOLEAN : catalog' = LoadCatalog(bookIsWhole, file)
    /\ UNCHANGED <<top, venue_top, nbbo, writer, file, failed, history>>

Next ==
    \/ OpenJournal \/ CloseJournal \/ StartService
    \/ \E v \in VenueSlots, t \in Top, ts \in Times : ReplayEvent(v, t, ts)
    \/ \E ts \in Times : ReplayOther(ts)

Spec == Init /\ [][Next]_vars

------------------------------------------------------------------------------

(* The consolidated quote is the best of the tops the books have now, with     *)
(* the quantity of a venue that shows it: the events that the replay passes   *)
(* over because changed_top is false leave nothing stale behind, and a venue  *)
(* whose side empties no longer counts. A tie goes to the lowest venue slot,  *)
(* so that the journal does not depend on who quoted the price first.        *)
NbboIsBestOfBooks ==
    \A side \in {"bid", "ask"} :
        LET best    == nbbo[side]
            quoting == {v \in VenueSlots : top[v][side] # NoQuote}
        IN IF quoting = {} THEN best = NoBest
           ELSE /\ top[best.venue][side] = best.quote
                /\ \A v \in quoting :
                     /\ IF side = "bid" THEN top[v].bid.price <= best.quote.price
                        ELSE top[v].ask.price >= best.quote.price
                     /\ top[v][side].price = best.quote.price => best.venue <= v

(* The places of the history where a symbol's quote changed, and their rows.  *)
ChangeLog ==
    LET before(i) == LET earlier == {j \in 1 .. i - 1 : history[j].symbol = Followed}
                     IN IF earlier = {} THEN NoNbbo
                        ELSE history[CHOOSE j \in earlier : \A k \in earlier : k <= j].quote
        places    == SelectSeq([i \in DOMAIN history |-> i],
                               LAMBDA i : history[i].symbol = Other \/ history[i].quote # before(i))
    IN [n \in DOMAIN places |-> history[places[n]]]

IsSubsequence(s, t) ==
    \E places \in SUBSET (DOMAIN t) :
        LET chosen == SelectSeq([i \in DOMAIN t |-> i], LAMBDA i : i \in places)
        IN s = [n \in DOMAIN chosen |-> t[chosen[n]]]

(* What the service streams is the change log of the consolidated quotes,        *)
(* through the buffers, the file and the loading: every change of the replay is *)
(* there, once, in order, with no row that repeats the quote before it. If a    *)
(* write failed, rows are missing, yet no row is made up of two or put out of  *)
(* order; and a file that nbbo_journal_diff finds identical to the one that    *)
(* was meant serves the same rows.                                            *)
ServedIsChangeLog ==
    catalog.loaded =>
        LET served   == StreamNbbo(catalog.rows, "", 0, 0, 0, MaxEvents).rows
            intended == <<FileHeader>> \o
                        [u \in 1 .. RowUnits * Len(ChangeLog) |->
                            RowRecord(ChangeLog[((u - 1) \div RowUnits) + 1])[((u - 1) % RowUnits) + 1]]
        IN /\ IsSubsequence(served, ChangeLog)
           /\ ~failed \/ IdenticalRows(file, intended) => served = ChangeLog

(* A query for a moment answers with the quote that held then. With events in   *)
(* the order of their timestamps, no failed write and at most one change of    *)
(* the symbol at each timestamp, the row found is the quote after the last     *)
(* event no later than the moment; and none is found only if the symbol had    *)
(* no quote yet.                                                              *)
QueryAnswersAsOf ==
    LET mine == SelectSeq(history, LAMBDA e : e.symbol = Followed)
        log  == SelectSeq(ChangeLog, LAMBDA e : e.symbol = Followed)
        ordered == \A i, j \in DOMAIN mine : i < j => mine[i].ts <= mine[j].ts
        apart   == \A i, j \in DOMAIN log : i # j => log[i].ts # log[j].ts
    IN catalog.loaded /\ catalog.rows # <<>> /\ ~failed /\ ordered /\ apart =>
          \A ts \in Times :
             LET seen  == SelectSeq(mine, LAMBDA e : e.ts <= ts)
                 found == QueryNbbo(catalog.rows, Followed, ts).rows
             IN (IF found = <<>> THEN NoNbbo ELSE found[1].quote) =
                (IF seen = <<>> THEN NoNbbo ELSE seen[Len(seen)].quote)
------------------------------------------------------------------------------
(* What the proofs need about the states in between: an inductive invariant.   *)

BidQuote == BidQuotes \cup {NoQuote}
AskQuote == AskQuotes \cup {NoQuote}
VenueTop == [bid : BidQuote, ask : AskQuote, bid_sequence : Nat, ask_sequence : Nat]
Best     == [quote : BidQuote \cup AskQuote, venue : Nat, sequence : Nat]
Nbbo     == [bid : Best, ask : Best]
LogRow   == [symbol : {Followed, Other}, ts : Times, quote : Nbbo]
Unit     == [row : LogRow, part : 1 .. RowUnits]

(* The replay's and the writer's variables have their types. *)
TypeOK ==
    /\ top \in [VenueSlots -> Top] /\ venue_top \in [VenueSlots -> VenueTop]
    /\ nbbo \in Nbbo /\ history \in Seq(LogRow)
    /\ writer \in [fd : {"none", "open", "closed"}, buffer : Seq(Unit)]
    /\ failed \in BOOLEAN

(* The consolidator has every venue's top as the book has it, and the quote    *)
(* that compute makes of them.                                               *)
ConsolidatorInv ==
    /\ TypeOK
    /\ \A v \in VenueSlots : venue_top[v].bid = top[v].bid /\ venue_top[v].ask = top[v].ask
    /\ nbbo = Compute(venue_top)
==============================================================================
