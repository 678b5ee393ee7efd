----------------------------- MODULE BitfinexFeed -----------------------------
(***************************************************************************)
(* The live feed of one Bitfinex symbol: the exchange with its raw book, the *)
(* web socket, the frame parser, the resync state machine with its tracker   *)
(* of the orders on the book, the snapshot sidecar file, and the reference   *)
(* order book that the emitted events maintain.                              *)
(*                                                                          *)
(* The exchange, and the loop that reads frames and reacts to what the state *)
(* machine asks for, are not part of the repository: they are modelled from  *)
(* what the web socket client and the state machine offer to such a loop.    *)
(* Statistics are left out. Numbers on the wire are integers of a unit of    *)
(* which Grain make one unit of the book.                                    *)
(***************************************************************************)
EXTENDS OrderBookEngine, SequencesExt, FiniteSetsExt

CONSTANTS WireRows,         \* the rows of the exchange's book
          Grain,            \* wire units in a unit of the book
          MaxU32,           \* largest number of the book
          ExponentBelow,    \* a double below this is printed with an exponent
          Unreadable,       \* amounts that the exchange prints with an exponent
          One,              \* the wire's number one
          MaxTrades,        \* bound on the changes of the exchange's book
          MaxSequence,      \* bound on the sequence numbers of a connection
          MaxWire,          \* bound on the frames in flight
          MaxFaults         \* bound on frames lost, connections broken, failed writes

ASSUME BitfinexAssumption ==
    /\ Grain \in Nat \ {0} /\ One \in Nat \ {0} /\ 0 \notin Keys
    /\ WireRows \subseteq [order_id : Keys, price : Int, amount : Int]
    /\ \A row \in WireRows : row.price # 0
                             /\ LET p == (2 * row.price + Grain) \div (2 * Grain)
                                IN p \in Prices \/ p > MaxU32

VARIABLES exchange,   \* the raw book: order id -> row
          trades,     \* changes of it so far
          history,    \* history: the exchange's book at each sequence number of the connection
          sequenced,  \* the exchange honours the flag that asks for sequence numbers
          socket,     \* the web socket: "closed", "open" or "subscribed"
          wire,       \* frames in flight
          partial,    \* the client's buffer holds part of a message
          feed,       \* the state machine: state, have_seq, last_seq and on_book
          sidecar,    \* the file: its rows, and whether the last write went through
          since,      \* history: the events emitted since the last snapshot
          engine,     \* the order book downstream
          orphans,    \* history: orders of the book that a snapshot did not name again
          faults

vars == <<exchange, trades, history, sequenced, socket, wire, partial, feed, sidecar, since,
          engine, orphans, faults>>

Symbol == CHOOSE s \in Symbols : TRUE
RowsOf(book) == SetToSeq({book[id] : id \in DOMAIN book})

Put(f, x, v) == [y \in DOMAIN f \cup {x} |-> IF y = x THEN v ELSE f[y]]
Drop(f, x)   == [y \in DOMAIN f \ {x} |-> f[y]]

Init ==
    /\ exchange = <<>> /\ trades = 0 /\ history = <<>> /\ sequenced \in BOOLEAN
    /\ socket = "closed" /\ wire = <<>> /\ partial = FALSE
    /\ feed = [state |-> "Gapped", have_seq |-> FALSE, last_seq |-> 0, on_book |-> <<>>]
    /\ sidecar = [rows |-> <<>>, written |-> FALSE] /\ since = <<>>
    /\ engine = NewEngine /\ orphans = {} /\ faults = 0

------------------------------------------------------------------------------
(* to_u32_bounded: rounded, and refused when negative or too large. *)
Rounded(n) == (2 * n + Grain) \div (2 * Grain)
Bounded(n) == n >= 0 /\ Rounded(n) <= MaxU32

Magnitude(n) == IF n < 0 THEN -n ELSE n
SideFromAmount(n) == IF n > 0 THEN "Buy" ELSE IF n < 0 THEN "Sell" ELSE "Unknown"
Representable(row) == Bounded(row.price) /\ Bounded(Magnitude(row.amount))
Resting(row) == [price |-> Rounded(row.price), qty |-> Rounded(Magnitude(row.amount))]

Removal(row) == row.price = 0

LoweredEvent(type, row, ref) ==
    [type |-> type, order_id |-> row.order_id, reference_order_id |-> ref, symbol |-> Symbol,
     side |-> SideFromAmount(row.amount),
     price |-> IF type = "Cancel" THEN 0 ELSE Resting(row).price,
     qty   |-> IF type = "Cancel" THEN 0 ELSE Resting(row).qty]

(* Mutant of LowerRow: an order that is tracked is announced as a new one. *)
LowerRowAddsAgain(on_book, row) ==
    LET id == row.order_id IN
    IF Removal(row)
    THEN [events  |-> IF id \in DOMAIN on_book THEN <<LoweredEvent("Cancel", row, 0)>> ELSE <<>>,
          on_book |-> Drop(on_book, id)]
    ELSE IF ~Representable(row) THEN [events |-> <<>>, on_book |-> on_book]
    ELSE [events  |-> <<LoweredEvent("Add", row, 0)>>,
          on_book |-> Put(on_book, id, Resting(row))]

(* lower_row: at most one event, and the tracker after it. A row that does    *)
(* not fit is refused, and an order that is tracked keeps what it had.        *)
LowerRow(on_book, row) ==
    LET id == row.order_id IN
    IF Removal(row)
    THEN [events  |-> IF id \in DOMAIN on_book THEN <<LoweredEvent("Cancel", row, 0)>> ELSE <<>>,
          on_book |-> Drop(on_book, id)]
    ELSE IF ~Representable(row) THEN [events |-> <<>>, on_book |-> on_book]
    ELSE [events  |-> IF id \in DOMAIN on_book THEN <<LoweredEvent("Replace", row, id)>>
                      ELSE <<LoweredEvent("Add", row, 0)>>,
          on_book |-> Put(on_book, id, Resting(row))]

(* lower_snapshot_rows: an Add for every row that fits, on a cleared tracker  *)
(* in which the last row of an order overwrites the ones before.              *)
Lowered(row) == ~Removal(row) /\ Representable(row)
LowerSnapshotEvents(rows) ==
    LET kept == SelectSeq(rows, Lowered)
    IN [i \in DOMAIN kept |-> LoweredEvent("Add", kept[i], 0)]
LowerSnapshotBook(rows) ==
    LET kept == {i \in DOMAIN rows : Lowered(rows[i])} IN
    [id \in {rows[i].order_id : i \in kept} |->
        Resting(rows[Max({i \in kept : rows[i].order_id = id})])]

------------------------------------------------------------------------------
(* write_sidecar: the file is truncated and written. Its result is ignored:   *)
(* it may not be opened, and stays as it was, or be cut after any row.       *)
WriteSidecar(rows) ==
    \/ sidecar' = [rows |-> rows, written |-> TRUE] /\ UNCHANGED faults
    \/ /\ faults < MaxFaults /\ faults' = faults + 1
       /\ \/ sidecar' = [sidecar EXCEPT !.written = FALSE]
          \/ \E n \in 0 .. Len(rows) - 1 :
                sidecar' = [rows |-> SubSeq(rows, 1, n), written |-> FALSE]

Exponent(n) == Magnitude(n) < ExponentBelow

(* read_sidecar: of a number printed with an exponent only the digits before  *)
(* it are read, so that an amount of 3e-05 becomes an amount of 3.            *)
ReadNumber(n) == IF Exponent(n) THEN n * One ELSE n
ReadSidecar(rows) ==
    [i \in DOMAIN rows |-> [rows[i] EXCEPT !.price = ReadNumber(@), !.amount = ReadNumber(@)]]

------------------------------------------------------------------------------
Emit(events) == engine' = FoldLeft(EngineOnEvent, engine, events)

(* Mutant of OnSnapshot: the tracker still holds what it tracked before. *)
OnSnapshotKeepsTracker(frame) ==
    /\ feed' = [state |-> "Live", have_seq |-> frame.sequence # 0, last_seq |-> frame.sequence,
                on_book |-> LET new == LowerSnapshotBook(frame.rows) IN
                            [id \in DOMAIN feed.on_book \cup DOMAIN new |->
                                IF id \in DOMAIN new THEN new[id] ELSE feed.on_book[id]]]
    /\ WriteSidecar(frame.rows)
    /\ Emit(LowerSnapshotEvents(frame.rows))
    /\ since' = <<>>
    /\ orphans' = orphans \cup {id \in Keys : Found(engine.table, id)}
    /\ UNCHANGED socket

(* on_snapshot: nothing is emitted for the orders of the book before.         *)
OnSnapshot(frame) ==
    /\ feed' = [state |-> "Live", have_seq |-> frame.sequence # 0, last_seq |-> frame.sequence,
                on_book |-> LowerSnapshotBook(frame.rows)]
    /\ WriteSidecar(frame.rows)
    /\ Emit(LowerSnapshotEvents(frame.rows))
    /\ since' = <<>>
    /\ orphans' = orphans \cup {id \in Keys : Found(engine.table, id)}
    /\ UNCHANGED socket

(* Mutant of InSequence: only a number that was seen before is refused. *)
InSequenceForward(frame) == frame.sequence = 0 \/ (feed.have_seq /\ frame.sequence > feed.last_seq)

InSequence(frame) == frame.sequence = 0 \/ (feed.have_seq /\ frame.sequence = feed.last_seq + 1)

(* RequestResubscribe: the loop subscribes again on the same connection.      *)
Resubscribe == socket' = "open"

(* on_update *)
OnUpdate(frame) ==
    \/ /\ feed.state # "Live" /\ Resubscribe
       /\ UNCHANGED <<feed, sidecar, since, engine, orphans, faults>>
    \/ /\ feed.state = "Live" /\ ~InSequence(frame) /\ Resubscribe
       /\ feed' = [feed EXCEPT !.state = "Gapped", !.have_seq = FALSE, !.last_seq = 0]
       /\ UNCHANGED <<sidecar, since, engine, orphans, faults>>
    \/ /\ feed.state = "Live" /\ InSequence(frame)
       /\ LET lowered == LowerRow(feed.on_book, frame.rows[1]) IN
          /\ feed' = [feed EXCEPT !.on_book = lowered.on_book,
                                  !.last_seq = IF frame.sequence = 0 THEN @ ELSE frame.sequence]
          /\ Emit(lowered.events)
          /\ since' = since \o lowered.events
       /\ UNCHANGED <<sidecar, orphans, faults, socket>>

(* on_disconnect *)
OnDisconnect == feed' = [feed EXCEPT !.state = "Gapped", !.have_seq = FALSE, !.last_seq = 0]

------------------------------------------------------------------------------
(* A number with an exponent ends parse_double early, and the row is refused. *)
Readable(row) == row.amount \notin Unreadable

(* parse_frame: a frame is a snapshot when a row follows its first bracket,   *)
(* so that an empty snapshot is taken for an update without a row and fails;  *)
(* one row that cannot be read fails the whole frame.                        *)
ParseFrame(frame) ==
    CASE frame.kind \in {"control", "hb"} -> frame.kind
      [] frame.rows = <<>> \/ (\E i \in DOMAIN frame.rows : ~Readable(frame.rows[i])) -> "refused"
      [] OTHER -> frame.kind

Frame(kind, rows, sequence) ==
    [kind |-> kind, rows |-> rows, sequence |-> IF sequenced THEN sequence ELSE 0]

(* WsClient::connect; it may also fail, and nothing has changed then.         *)
Connect ==
    /\ socket = "closed" /\ socket' = "open"
    /\ history' = <<>>
    /\ UNCHANGED <<exchange, trades, sequenced, wire, partial, feed, sidecar, since, engine,
                   orphans, faults>>

(* subscribe_book_r0: the answer is a control message and a snapshot.         *)
Subscribe ==
    /\ socket = "open" /\ socket' = "subscribed"
    /\ Len(history) < MaxSequence /\ Len(wire) + 2 <= MaxWire
    /\ history' = Append(history, exchange)
    /\ wire' = wire \o <<Frame("control", <<>>, 0),
                         Frame("snapshot", RowsOf(exchange), Len(history) + 1)>>
    /\ UNCHANGED <<exchange, trades, sequenced, partial, feed, sidecar, since, engine,
                   orphans, faults>>

Changed(book, row) ==
    IF Removal(row) THEN Drop(book, row.order_id) ELSE Put(book, row.order_id, row)

(* The exchange's book changes, and the subscriber is told.                  *)
Trade(row) ==
    LET book == Changed(exchange, row)
    IN /\ exchange' = book /\ book # exchange
       /\ trades < MaxTrades /\ trades' = trades + 1
       /\ IF socket = "subscribed"
          THEN /\ Len(history) < MaxSequence /\ Len(wire) < MaxWire
               /\ history' = Append(history, book)
               /\ wire' = Append(wire, Frame("update", <<row>>, Len(history) + 1))
          ELSE UNCHANGED <<history, wire>>
       /\ UNCHANGED <<sequenced, socket, partial, feed, sidecar, since, engine, orphans, faults>>

Heartbeat ==
    /\ socket = "subscribed" /\ wire = <<>> /\ wire' = <<Frame("hb", <<>>, 0)>>
    /\ UNCHANGED <<exchange, trades, history, sequenced, socket, partial, feed, sidecar, since,
                   engine, orphans, faults>>

(* The server skips a message.                                               *)
Lose ==
    /\ faults < MaxFaults /\ faults' = faults + 1
    /\ \E i \in DOMAIN wire : wire' = RemoveAt(wire, i)
    /\ UNCHANGED <<exchange, trades, history, sequenced, socket, partial, feed, sidecar, since,
                   engine, orphans>>

(* The message comes behind part of one of the connection before. The text is  *)
(* refused, or taken for the control message, heartbeat or update that was cut  *)
(* behind its row; a cut snapshot lacks its last bracket. The feed is not live. *)
OnGlued ==
    /\ socket' = socket \/ (feed.state # "Live" /\ Resubscribe)
    /\ UNCHANGED <<feed, sidecar, since, engine, orphans, faults>>

(* read_message returns a frame, and the loop passes it on.                   *)
ReadMessage ==
    /\ wire # <<>> /\ wire' = Tail(wire) /\ partial' = FALSE
    /\ LET frame == Head(wire) IN
       IF partial THEN OnGlued ELSE
       CASE ParseFrame(frame) = "snapshot" -> OnSnapshot(frame)
         [] ParseFrame(frame) = "update"   -> OnUpdate(frame)
         [] OTHER -> UNCHANGED <<socket, feed, sidecar, since, engine, orphans, faults>>
    /\ UNCHANGED <<exchange, trades, history, sequenced>>

(* read_message returns false: the connection is closed and what was in flight *)
(* is gone, but for the part of a message that had been read: it stays in the   *)
(* buffer, and the next message is read behind it.                            *)
Disconnect ==
    /\ faults < MaxFaults /\ faults' = faults + 1
    /\ socket # "closed" /\ socket' = "closed" /\ wire' = <<>>
    /\ partial' \in IF wire = <<>> THEN {partial} ELSE {partial, TRUE}
    /\ OnDisconnect
    /\ UNCHANGED <<exchange, trades, history, sequenced, sidecar, since, engine, orphans>>

(* The row that takes an order off the book says on which side it was.        *)
Gone(row) == [row EXCEPT !.price = 0, !.amount = IF @ > 0 THEN One ELSE -One]

Next ==
    \/ Connect \/ Subscribe \/ Heartbeat \/ Lose \/ ReadMessage \/ Disconnect
    \/ \E row \in WireRows : Trade(row)
    \/ \E id \in DOMAIN exchange : Trade(Gone(exchange[id]))

Spec == Init /\ [][Next]_vars

------------------------------------------------------------------------------
(* A tracker agrees with a book of the exchange. *)
Tracks(on_book, book) ==
    /\ DOMAIN on_book \subseteq DOMAIN book
    /\ \A id \in DOMAIN book : Representable(book[id]) =>
           id \in DOMAIN on_book /\ on_book[id] = Resting(book[id])

(* While the feed is live and numbered, the tracker is the exchange's book at  *)
(* the very sequence number it has reached, whatever was lost, refused by the *)
(* parser, in flight across a resubscription or cut off by a disconnect: an    *)
(* order of it is tracked with its price and quantity unless it does not fit, *)
(* and nothing is tracked that the exchange does not have.                   *)
TracksExchange ==
    (feed.state = "Live" /\ feed.have_seq) => Tracks(feed.on_book, history[feed.last_seq])

(* Every tracked order is in the order book downstream with its price and      *)
(* quantity. What else is there was left by a snapshot, for which nobody       *)
(* cancels the orders of the book before; until that happens, the levels are  *)
(* those of the tracker. (As long as the order table refused no order.)       *)
BookCarriesTracker ==
    LET found == {id \in Keys : Found(engine.table, id)}
        at(d, p) == {id \in found : OrderOf(engine.table, id).side = d
                                    /\ OrderOf(engine.table, id).price = p}
    IN engine.table.dropped_order_inserts = 0 =>
       /\ \A id \in DOMAIN feed.on_book :
              /\ id \in found
              /\ feed.on_book[id] = [price |-> OrderOf(engine.table, id).price,
                                     qty |-> OrderOf(engine.table, id).qty]
       /\ found \ DOMAIN feed.on_book \subseteq orphans
       /\ orphans = {} => \A d \in BookSides, p \in Prices :
              engine.levels[Symbol][d][p] = MapThenSumSet(LAMBDA id : feed.on_book[id].qty, at(d, p))

(* What an event does to a set of orders. *)
Replayed(book, ev) ==
    IF ev.type = "Cancel" THEN Drop(book, ev.order_id)
    ELSE Put(book, ev.order_id, [price |-> ev.price, qty |-> ev.qty])

(* What a sequence of events does to it, in order. *)
Replay(book, events) ==
    LET after[n \in 0 .. Len(events)] ==
            IF n = 0 THEN book ELSE Replayed(after[n - 1], events[n])
    IN after[Len(events)]

(* Rows that do not come back from the file as they were. *)
Misread(rows) ==
    {rows[i].order_id : i \in {j \in DOMAIN rows : Exponent(rows[j].price) \/ Exponent(rows[j].amount)}}
Without(book, ids) == [id \in DOMAIN book \ ids |-> book[id]]

(* A sidecar whose write went through starts a replay: its rows, read back     *)
(* and lowered, and then the events emitted since, give the tracker, order by *)
(* order; except the orders of rows with a price or an amount printed with an  *)
(* exponent, which come back with another number.                            *)
SidecarRestores ==
    sidecar.written =>
        LET restored == Replay(LowerSnapshotBook(ReadSidecar(sidecar.rows)), since)
        IN Without(restored, Misread(sidecar.rows)) = Without(feed.on_book, Misread(sidecar.rows))

------------------------------------------------------------------------------
(* The inductive invariant behind TracksExchange and SidecarRestores.         *)
Rows   == [order_id : Keys, price : Int, amount : Int]
Books  == {book \in UNION {[ids -> WireRows] : ids \in SUBSET Keys} :
              IsFiniteSet(DOMAIN book) /\ \A id \in DOMAIN book : book[id].order_id = id}
FeedEvents ==
    [type : {"Add", "Replace", "Cancel"}, order_id : Keys, reference_order_id : Keys \cup {0},
     symbol : {Symbol}, side : {"Buy", "Sell", "Unknown"}, price : Int, qty : Int]
Frames == [kind : {"control", "hb", "snapshot", "update"}, rows : Seq(Rows), sequence : Nat]

TypeOK ==
    /\ exchange \in Books /\ history \in Seq(Books) /\ sequenced \in BOOLEAN
    /\ socket \in {"closed", "open", "subscribed"} /\ wire \in Seq(Frames)
    /\ partial \in BOOLEAN
    /\ feed \in [state : {"Live", "Gapped"}, have_seq : BOOLEAN, last_seq : Nat,
                 on_book : {feed.on_book}]
    /\ DOMAIN feed.on_book \subseteq Keys
    /\ sidecar \in [rows : Seq(Rows), written : BOOLEAN]
    /\ since \in Seq(FeedEvents)

(* A numbered frame says what the exchange's book was, or became, at its       *)
(* number.                                                                   *)
Announces(frame, books) ==
    /\ frame.kind = "snapshot" =>
          frame.sequence \in DOMAIN books /\ frame.rows = RowsOf(books[frame.sequence])
    /\ frame.kind = "update" =>
          /\ frame.sequence \in DOMAIN books /\ frame.sequence - 1 \in DOMAIN books
          /\ books[frame.sequence] = Changed(books[frame.sequence - 1], frame.rows[1])

WireAnnounces ==
    \A i \in DOMAIN wire :
        /\ wire[i].kind = "update" => Len(wire[i].rows) = 1
        /\ IF sequenced THEN Announces(wire[i], history) ELSE wire[i].sequence = 0

FeedNumbered ==
    /\ ~sequenced => ~feed.have_seq
    /\ feed.state = "Live" /\ feed.have_seq => feed.last_seq \in DOMAIN history

(* Nothing survives the connection it came from: a new one starts with an      *)
(* empty wire and a feed that is not live.                                    *)
ClosedIsGapped == socket = "closed" => wire = <<>> /\ feed.state = "Gapped"

(* A subscriber has been told of every change of the book.                    *)
SubscribedIsCurrent ==
    socket = "subscribed" => Len(history) > 0 /\ history[Len(history)] = exchange

FeedInv ==
    /\ TypeOK /\ ClosedIsGapped /\ SubscribedIsCurrent /\ WireAnnounces /\ FeedNumbered
    /\ TracksExchange /\ SidecarRestores
==============================================================================
