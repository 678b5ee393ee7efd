---- MODULE MCWire ----
(* Small captures for WireFeed: every kind of message the decoders tell   *)
(* apart, messages that are too short, unknown types, empty entries and   *)
(* entries cut short by the end of a file.                                *)
EXTENDS WireFeed

Message(kind, size) ==
    [kind |-> kind, size |-> size, cut |-> FALSE, ts |-> 1, order |-> 2, ref |-> 1,
     side |-> "B", qty |-> 3, price |-> 5, symbol |-> "AAPL", match |-> 4]

\* Stamps count up along a capture, as the synthetic PITCH sender writes them.
Stamped(tape) == [i \in DOMAIN tape |-> [tape[i] EXCEPT !.ts = i]]

Add == Message("A", 36)
Exec == Message("E", 31)
Cross == [Message("Q", 40) EXCEPT !.qty = U32 + 1]
Short == Message("A", 35)
Long == Message("X", 25)
Odd == Message("Z", 4)
Nil == Message("A", 0)
Cut == [Message("D", 19) EXCEPT !.cut = TRUE]

Tapes(entries, n) == UNION {[1..k -> entries] : k \in 1..n}
CutLast(tape) == \A i \in 1..(Len(tape) - 1) : ~tape[i].cut

Live(transport, protocol, tape) ==
    [transport |-> transport, protocol |-> protocol, tape |-> Stamped(tape)]

LiveFeeds ==
    {Live("udp", "NasdaqItch50", <<Add, Short, Exec>>),
     Live("udp", "NasdaqItch50", <<Odd, Long, Add>>),
     Live("udp", "IexDeep", <<Message("a", 38), Message("M", 38), Message("T", 10)>>),
     Live("udp", "CboePitch", <<Message("A", 45), Message("X", 20), Message("P", 56)>>),
     Live("xdp", "NasdaqItch50", <<Add, Short, Cross, Exec, Add>>),
     Live("xdp", "NasdaqItch50", <<Add, Exec, Nil, Add>>),
     Live("xdp", "NasdaqItch50", <<Odd, Add, Exec, Cut>>)}

Capture(format, tape) == [transport |-> "file", protocol |-> format, tape |-> tape]

\* The unknown type comes with a stamp the decoder does not read.
ItchKinds == {Message(k, ItchSize[k]) : k \in DOMAIN ItchSize}
ItchTapes ==
    {t \in Tapes({Add, Cross, Short, Long, Odd, Nil, Cut}, 3) : CutLast(t)}
        \cup Tapes(ItchKinds, 1)
PitchTapes ==
    Tapes({Message(k, PitchSize[k]) : k \in DOMAIN PitchSize}
          \cup {[Message("2", 62) EXCEPT !.price = 100 * U32, !.order = Garbled],
                Message("A", 44), Message("Z", 9), Message("A", 8)}, 1)

DeepKinds ==
    {Message("a", 38), [Message("L", 46) EXCEPT !.price = U32 + 2], Message("R", 27),
     Message("H", 12), Message("E", 18)}
Packet(msgs, extra, ethertype, cut) ==
    LET udp == 8 + PcapIexHeader + EndOffset(msgs, Len(msgs)) + extra
    IN [msgs |-> msgs, ethertype |-> ethertype, version |-> 4, ihl |-> 20,
        protocol |-> "UDP", udp |-> udp, bytes |-> 34 + udp, cut |-> cut,
        oversize |-> FALSE, inside |-> <<>>]
Pair == Packet(<<Message("a", 38), Message("T", 38)>>, 0, "IPv4", FALSE)

\* A packet of more than 65535 bytes, read on from its first byte, gives one
\* packet or none; a packet whose UDP length is below that of its own header,
\* with and without an empty message in front of the memory behind it.
Oversize(inside) == [Pair EXCEPT !.oversize = TRUE, !.inside = inside]
Lengthless(msgs) == [Packet(msgs, 0, "IPv4", FALSE) EXCEPT !.udp = 7]
BadPackets ==
    {Oversize(<<>>), Oversize(<<Packet(<<Message("R", 26)>>, 0, "IPv4", FALSE)>>),
     Lengthless(<<Message("a", 38)>>), Lengthless(<<Message("a", 38), Message("S", 0)>>)}

PcapTapes ==
    {t \in Tapes({Packet(<<a, b>>, extra, "IPv4", FALSE) :
                     a \in DeepKinds, b \in {Message("a", 38), Message("S", 0)}, extra \in {0, -1}}
                 \cup BadPackets
                 \cup {Packet(<<Message("T", 38)>>, 0, "ARP", FALSE),
                       Packet(<<Message("T", 38)>>, 0, "IPv4", TRUE)}, 2) : CutLast(t)}

Entry(kind, action, rpt, mantissa) ==
    [kind |-> kind, action |-> action, rpt |-> rpt, mantissa |-> mantissa,
     qty |-> 3, security |-> "ES"]
Entries == {<<>>, <<Entry("0", 0, 7, 250000)>>,
            <<Entry("J", 0, 0, 0), Entry("1", 1, 0, Garbled)>>}
Refresh(entries, block, template) ==
    LET bytes == 14 + Len(entries) * 32
    IN [template |-> template, size |-> 10 + bytes,
        body |-> [bytes |-> bytes, block |-> block, transact |-> Len(entries), entries |-> entries]]
Refreshes ==
    {Refresh(e, 32, 32) : e \in Entries}
        \cup {Refresh(<<Entry("0", 2, 9, 100000)>>, b, t) : b \in {31, 32, 33}, t \in {32, 12}}
Block(msgs, short, cut) ==
    [msgs |-> msgs, seq |-> 1, sending |-> 6, cut |-> cut,
     bytes |-> PacketHeader + FoldLeft(LAMBDA acc, m : acc + m.size, 0, msgs) - short]
CertTapes ==
    Tapes({Block(<<a, b>>, short, FALSE) : a \in Refreshes, b \in Refreshes, short \in {0, 1}}
          \cup {[Block(<<>>, 0, FALSE) EXCEPT !.bytes = 0]}, 1)
        \cup {<<Block(<<a>>, 0, FALSE), Block(<<a>>, 0, cut)>> : a \in Refreshes, cut \in BOOLEAN}

\* The evidence tool's captures; the one of Cboe may be missing.
EvidenceFiles ==
    {[raw |-> raw, nasdaq |-> <<a, b>>, iex |-> <<p, q>>, cboe |-> c] :
        raw \in BOOLEAN, a \in {Add, Odd}, b \in {Add, Short, Nil, Cut},
        p \in {Pair} \cup BadPackets,
        q \in {Pair, Packet(<<Message("a", 38)>>, 0, "ARP", FALSE), [Pair EXCEPT !.cut = TRUE]},
        c \in {<<>>, <<Message("A", 45), Message("A", 44), Message("P", 56)>>}}
MCBeyond == {<<>>, <<Message("M", 38)>>}

MCFeeds ==
    LiveFeeds
        \cup {Capture(f, t) : f \in {"NasdaqItch50", "raw"}, t \in ItchTapes}
        \cup {Capture("journal", Stamped(t)) : t \in ItchTapes}
        \cup {Capture("CboePitch", t) : t \in PitchTapes}
        \cup {Capture("pcap", t) : t \in PcapTapes}
        \cup {Capture("cert", t) : t \in CertTapes}
        \cup {Capture("evidence", <<files>>) : files \in EvidenceFiles}
====
