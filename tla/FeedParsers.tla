---- MODULE FeedParsers ----
(***************************************************************************)
(* The decoders that turn one venue message into a BookEvent: Nasdaq       *)
(* ITCH 5.0 (generic and SIMD "hot" path), Cboe PITCH, IEX DEEP and CME    *)
(* MDP 3.0.                                                                *)
(*                                                                         *)
(* A message is a record with its type letter (kind), its length in bytes  *)
(* (size) and the values of its fields as they stand on the wire.  Each    *)
(* decoder is a table: per type letter the length the code asks for, the   *)
(* event type it makes and the fields it stores; a field the code does not *)
(* store keeps the zero of a fresh BookEvent.  Byte order and bit twiddling*)
(* are left out; width conversions are not.                                *)
(***************************************************************************)
EXTENDS Integers, Sequences, SequencesExt, TLC

CONSTANTS
    U32,      \* 2^32: one past the largest value of a 32-bit field
    Garbled   \* an ASCII field that is not a number

None == <<>>
Some(ev) == <<ev>>

\* A value-initialised BookEvent.
Blank == [venue |-> "None", type |-> "Unknown", sequence |-> 0, ts |-> 0,
          order |-> 0, ref |-> 0, side |-> "Unknown", qty |-> 0, price |-> 0,
          symbol |-> "", match |-> 0]

Row(event, fields) == [event |-> event, fields |-> fields]

\* Narrowing by a cast keeps the low bits, narrowing by std::min saturates.
Truncated(v) == v % U32
Saturated(v) == IF v < U32 THEN v ELSE U32 - 1

Stored(row, conv, venue, sequence) ==
    [f \in DOMAIN Blank |->
        CASE f = "venue"        -> venue
          [] f = "type"         -> row.event
          [] f = "sequence"     -> sequence
          [] f \in row.fields   -> conv[f]
          [] OTHER              -> Blank[f]]

(* ---------------------------- Nasdaq ITCH 5.0 ------------------------- *)

\* sizeof(struct) + 1 type byte.
ItchSize == [A |-> 36, F |-> 40, E |-> 31, C |-> 36, X |-> 23, D |-> 19,
             U |-> 35, P |-> 44, Q |-> 40, I |-> 50, S |-> 12, R |-> 39]

ItchLayout ==
    LET add == {"ts", "order", "side", "qty", "price", "symbol"}
    IN [A |-> Row("Add", add),
        F |-> Row("AddMpid", add),
        E |-> Row("Execute", {"ts", "order", "qty", "match"}),
        C |-> Row("ExecutePrice", {"ts", "order", "qty", "price", "match"}),
        X |-> Row("Cancel", {"ts", "order", "qty"}),
        D |-> Row("Delete", {"ts", "order"}),
        U |-> Row("Replace", {"ts", "ref", "order", "qty", "price"}),
        P |-> Row("Trade", add \cup {"match"}),
        Q |-> Row("CrossTrade", {"ts", "qty", "price", "symbol", "match"}),
        I |-> Row("Imbalance", {"ts", "qty", "symbol"}),
        S |-> Row("System", {"ts"}),
        R |-> Row("StockDirectory", {"ts", "symbol"})]

BuySell(buy, sell, c) ==
    CASE c = buy -> "Buy" [] c = sell -> "Sell" [] OTHER -> "Unknown"

\* Q and I carry 64-bit share counts; the cast keeps their low 32 bits.
ItchFields(m) ==
    [m EXCEPT !.side = BuySell("B", "S", m.side), !.qty = Truncated(m.qty)]

\* Longer messages than asked for are decoded; an unknown type is an event.
ParseItch(m, sequence) ==
    CASE m.size = 0 -> None
      [] m.size > 0 /\ m.kind \notin DOMAIN ItchSize ->
            Some(Stored(Row("Unknown", {}), m, "Nasdaq", sequence))
      [] m.size > 0 /\ m.kind \in DOMAIN ItchSize ->
            IF m.size < ItchSize[m.kind] THEN None
            ELSE Some(Stored(ItchLayout[m.kind], ItchFields(m), "Nasdaq", sequence))

HotLayout ==
    [A |-> Row("Add", {"ts", "order", "side", "qty", "symbol", "price"}),
     E |-> Row("Execute", {"ts", "order", "qty", "match"}),
     X |-> Row("Cancel", {"ts", "order", "qty"}),
     D |-> Row("Delete", {"ts", "order"})]

(* Mutant of ParseHot: the size check forgets the type byte. *)
ParseHotShort(m, sequence) ==
    IF m.size = 0 THEN None
    ELSE IF m.kind \notin DOMAIN HotLayout THEN ParseItch(m, sequence)
    ELSE IF m.size < ItchSize[m.kind] - 1 THEN None
    ELSE Some(Stored(HotLayout[m.kind], ItchFields(m), "Nasdaq", sequence))

ParseHot(m, sequence) ==
    IF m.size = 0 THEN None
    ELSE IF m.kind \notin DOMAIN HotLayout THEN ParseItch(m, sequence)
    ELSE IF m.size < ItchSize[m.kind] THEN None
    ELSE Some(Stored(HotLayout[m.kind], ItchFields(m), "Nasdaq", sequence))

(* ------------------------------ Cboe PITCH ---------------------------- *)

PitchSize == ("A" :> 45) @@ ("d" :> 52) @@ ("1" :> 56) @@ ("E" :> 39)
             @@ ("X" :> 27) @@ ("P" :> 56) @@ ("r" :> 58) @@ ("2" :> 62)

PitchLayout ==
    LET add == {"ts", "order", "side", "qty", "symbol", "price"}
    IN ("A" :> Row("Add", add)) @@ ("d" :> Row("AddMpid", add))
       @@ ("1" :> Row("AddMpid", add))
       @@ ("E" :> Row("Execute", {"ts", "order", "qty", "match"}))
       @@ ("X" :> Row("Cancel", {"ts", "order", "qty"}))
       @@ ("P" :> Row("Trade", add \cup {"match"}))
       @@ ("r" :> Row("Trade", add \cup {"match"}))
       @@ ("2" :> Row("Trade", add \cup {"match"}))

\* parse_ascii_u64 and parse_base36_u64: one bad character makes the field 0.
AsciiNumber(v) == IF v = Garbled THEN 0 ELSE v

\* A long price has six decimals and is brought to four.
PitchPrice(kind, v) ==
    IF kind \in {"1", "2"} THEN Saturated(AsciiNumber(v) \div 100)
                           ELSE Saturated(AsciiNumber(v))

PitchFields(m) ==
    [m EXCEPT !.ts = AsciiNumber(m.ts) * 1000000,
              !.order = AsciiNumber(m.order),
              !.qty = Truncated(AsciiNumber(m.qty)),
              !.match = AsciiNumber(m.match),
              !.side = BuySell("B", "S", m.side),
              !.price = PitchPrice(m.kind, m.price)]

ParsePitch(m, sequence) ==
    CASE m.size < 9 -> None
      [] m.size >= 9 /\ m.kind \notin DOMAIN PitchSize ->
            Some(Stored(Row("Unknown", {}), m, "Cboe", sequence))
      [] m.size >= 9 /\ m.kind \in DOMAIN PitchSize ->
            IF m.size # PitchSize[m.kind] THEN None
            ELSE Some(Stored(PitchLayout[m.kind], PitchFields(m), "Cboe", sequence))

(* ------------------------------- IEX DEEP ----------------------------- *)

DeepSize == [S |-> 10, E |-> 18, a |-> 38, M |-> 38, R |-> 26, L |-> 46, T |-> 38]

\* M (modify) is a Replace whose reference is 0 and whose side is unknown.
DeepLayout ==
    [S |-> Row("System", {"ts"}),
     E |-> Row("System", {"ts", "symbol"}),
     a |-> Row("Add", {"ts", "symbol", "order", "qty", "price", "side"}),
     M |-> Row("Replace", {"ts", "symbol", "order", "qty", "price"}),
     R |-> Row("Delete", {"ts", "symbol", "order"}),
     L |-> Row("ExecutePrice", {"ts", "symbol", "order", "qty", "price", "match"}),
     T |-> Row("Trade", {"ts", "symbol", "qty", "price", "match"})]

DeepFields(m) ==
    [m EXCEPT !.side = BuySell("8", "5", m.side), !.price = Saturated(m.price)]

ParseDeep(m, sequence) ==
    CASE m.size = 0 -> None
      [] m.size > 0 /\ m.kind \notin DOMAIN DeepSize ->
            Some(Stored(Row("Unknown", {}), m, "Iex", sequence))
      [] m.size > 0 /\ m.kind \in DOMAIN DeepSize ->
            IF m.size # DeepSize[m.kind] THEN None
            ELSE Some(Stored(DeepLayout[m.kind], DeepFields(m), "Iex", sequence))

(* ------------------------------ CME MDP 3.0 --------------------------- *)

PacketHeader == 12
MessageHeader == 10
EntryBlock == 32
Book32 == 32   \* template id of MDIncrementalRefreshBook32
TicksPerPrice9 == 100000

\* A null or non-positive PRICE9 mantissa is price 0.
Price9Ticks(mantissa) ==
    IF mantissa = Garbled THEN 0
    ELSE IF mantissa < TicksPerPrice9 THEN 0
    ELSE Saturated(mantissa \div TicksPerPrice9)

ActionEvent(action) ==
    CASE action = 0 -> "Add" [] action = 1 -> "Replace"
      [] action \in 2..4 -> "Delete" [] OTHER -> "Unknown"

\* rpt_seq when it is there, else the packet's number above the entry's index.
EntrySequence(e, i, packetSeq) ==
    IF e.rpt # 0 THEN e.rpt ELSE packetSeq * U32 + (i - 1)

EntryEvent(e, i, body, packet) ==
    LET number == EntrySequence(e, i, packet.seq)
    IN [Blank EXCEPT
          !.venue = "Cme", !.type = ActionEvent(e.action), !.sequence = number,
          !.ts = IF body.transact # 0 THEN body.transact ELSE packet.sending,
          !.order = number, !.symbol = e.security,
          !.qty = IF e.qty > 0 THEN e.qty ELSE 0,
          !.price = Price9Ticks(e.mantissa), !.side = BuySell("0", "1", e.kind)]

\* The whole group is refused when its block is short or overruns the body.
ParseBook32(body, packet) ==
    IF body.bytes < 14 \/ body.block < EntryBlock
       \/ 14 + Len(body.entries) * body.block > body.bytes
    THEN <<>>
    ELSE FlattenSeq([i \in DOMAIN body.entries |->
             IF body.entries[i].kind = "J" THEN <<>>
             ELSE <<EntryEvent(body.entries[i], i, body, packet)>>])

\* Bytes of the packet after its first n messages.
Remaining(packet, n) ==
    packet.bytes - PacketHeader
        - FoldLeft(LAMBDA acc, m : acc + m.size, 0, SubSeq(packet.msgs, 1, n))

\* decode_sbe_header: a size below the header or past the packet is refused,
\* and the loop over the packet's messages ends there.
Decodable(packet, n) ==
    /\ Remaining(packet, n - 1) >= MessageHeader
    /\ packet.msgs[n].size >= MessageHeader
    /\ packet.msgs[n].size <= Remaining(packet, n - 1)

ParsePacket(packet) ==
    IF packet.bytes < PacketHeader THEN <<>>
    ELSE FlattenSeq([n \in DOMAIN packet.msgs |->
             IF /\ \A k \in 1..n : Decodable(packet, k)
                /\ packet.msgs[n].template = Book32
             THEN ParseBook32(packet.msgs[n].body, packet) ELSE <<>>])
====
