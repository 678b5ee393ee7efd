---- MODULE WireFraming ----
(***************************************************************************)
(* From bytes to numbered messages: the datagram framer of the wire        *)
(* sessions, the MoldUDP64 packer of the replay senders, the synthetic     *)
(* senders, and the loaders that read the same messages from capture files.*)
(*                                                                         *)
(* A run of length-prefixed messages is a sequence of messages with their  *)
(* sizes; where a walk over the bytes stops is a comparison of the end     *)
(* offset of the i-th message with the bytes there are, so every walk here *)
(* takes a prefix of the sequence.                                         *)
(***************************************************************************)
EXTENDS FeedParsers, FiniteSets

MoldHeader == 20
IexHeader == 36
PcapIexHeader == 40
LengthPrefix == 2

\* Offset of the end of the i-th message behind its header.
EndOffset(msgs, i) ==
    FoldLeft(LAMBDA acc, m : acc + LengthPrefix + m.size, 0, SubSeq(msgs, 1, i))

\* The longest prefix of msgs all of whose members pass the test.
Leading(msgs, Test(_)) ==
    Cardinality({i \in DOMAIN msgs : \A j \in 1..i : Test(j)})

Numbered(msgs, n, first) ==
    [i \in 1..n |-> [msg |-> msgs[i], sequence |-> first + (i - 1)]]

(* ------------------------------ the framer ---------------------------- *)

(* Mutant of MoldFrames: the first message of the datagram gets the number     *)
(* after the header's.                                                        *)
MoldFramesOneLate(d) ==
    IF d.bytes < MoldHeader THEN <<>>
    ELSE Numbered(d.msgs, Leading(d.msgs, LAMBDA j : j <= d.count), d.first + 1)

\* MoldUDP64: a message that overruns the datagram ends the datagram.
MoldFrames(d) ==
    IF d.bytes < MoldHeader THEN <<>>
    ELSE Numbered(d.msgs,
                  Leading(d.msgs, LAMBDA j : /\ j <= d.count
                                             /\ MoldHeader + EndOffset(d.msgs, j) <= d.bytes),
                  d.first)

\* IEX-TP: the payload length must fit the datagram and bounds the walk.
IexFrames(d) ==
    IF d.bytes < IexHeader \/ IexHeader + d.payload > d.bytes THEN <<>>
    ELSE Numbered(d.msgs,
                  Leading(d.msgs, LAMBDA j : /\ j <= d.count
                                             /\ EndOffset(d.msgs, j) <= d.payload),
                  d.first)

\* PITCH lines carry no header: the number of a line is its first 8
\* characters, which are the message's timestamp, or 0 when they are no number.
LineNumber(m) == IF m.size >= 8 THEN AsciiNumber(m.ts) ELSE 0

PitchFrames(d) ==
    LET lines == SelectSeq(d.msgs, LAMBDA m : m.size > 0)
    IN [i \in DOMAIN lines |-> [msg |-> lines[i], sequence |-> LineNumber(lines[i])]]

FrameDatagram(protocol, d) ==
    CASE protocol = "NasdaqItch50" -> MoldFrames(d)
      [] protocol = "IexDeep" -> IexFrames(d)
      [] protocol = "CboePitch" -> PitchFrames(d)

ParseFrame(protocol, frame) ==
    CASE protocol = "NasdaqItch50" -> ParseItch(frame.msg, frame.sequence)
      [] protocol = "IexDeep" -> ParseDeep(frame.msg, frame.sequence)
      [] protocol = "CboePitch" -> ParsePitch(frame.msg, frame.sequence)

\* What one datagram makes of the sink: one callback per frame that decodes.
DecodeDatagram(protocol, d) ==
    LET frames == FrameDatagram(protocol, d)
    IN FlattenSeq([i \in DOMAIN frames |-> ParseFrame(protocol, frames[i])])

(* ------------------------------ the senders --------------------------- *)

\* ItchMoldUdpFramer::pack_datagram on the rest of a capture: the messages
\* that fit one datagram.  The size test counts one length prefix too many.
PackDatagram(rest, next, maxMessages, maxBytes) ==
    LET fits(j) == /\ j <= maxMessages
                   /\ rest[j].size > 0
                   /\ ~rest[j].cut
                   /\ MoldHeader + LengthPrefix + EndOffset(rest, j) <= maxBytes
        n == Leading(rest, fits)
    IN [first |-> next, count |-> n, msgs |-> SubSeq(rest, 1, n), payload |-> 0,
        bytes |-> MoldHeader + EndOffset(rest, n)]

\* The synthetic senders: one message per datagram, numbered by the loop.
\* A PITCH line has the number in its timestamp, modulo 10^8.
PitchNumbers == 100000000

SyntheticDatagram(protocol, m, sequence) ==
    CASE protocol = "NasdaqItch50" ->
            [first |-> sequence, count |-> 1, msgs |-> <<m>>, payload |-> 0,
             bytes |-> MoldHeader + LengthPrefix + m.size]
      [] protocol = "IexDeep" ->
            [first |-> sequence, count |-> 1, msgs |-> <<m>>,
             payload |-> LengthPrefix + m.size,
             bytes |-> IexHeader + LengthPrefix + m.size]
      [] protocol = "CboePitch" ->
            [first |-> 0, count |-> 1, payload |-> 0, bytes |-> m.size + 1,
             msgs |-> <<[m EXCEPT !.ts = sequence % PitchNumbers]>>]

(* --------------------------- Ethernet frames -------------------------- *)

\* The frame holds the headers of an IPv4 UDP packet.
Ipv4Udp(f) ==
    /\ f.bytes >= 14 + 20 + 8
    /\ f.ethertype = "IPv4"
    /\ f.ihl >= 20 /\ f.bytes >= 14 + f.ihl + 8
    /\ f.protocol = "UDP"

\* The payload bytes of a whole IPv4 UDP packet in an Ethernet frame, else 0.
Ipv4UdpBytes(f) ==
    IF Ipv4Udp(f) /\ f.udp >= 8 /\ f.bytes >= 14 + f.ihl + f.udp
    THEN f.udp - 8 ELSE 0

\* extract_udp_payload also looks at the IP version, the pcap loaders do not.
UdpPayloadBytes(f) == IF f.version = 4 THEN Ipv4UdpBytes(f) ELSE 0

(* ---------------------------- capture files --------------------------- *)

\* A framed file: an empty entry is skipped and takes no number, a message
\* that is refused takes one, an entry cut short by the end of file stops it.
NumberedEntries(file) ==
    LET whole == SubSeq(file, 1, Leading(file, LAMBDA j : ~file[j].cut))
        read == SelectSeq(whole, LAMBDA m : m.size > 0)
    IN Numbered(read, Len(read), 1)

LoadFramed(file, protocol) ==
    LET entries == NumberedEntries(file)
    IN FlattenSeq([i \in DOMAIN entries |-> ParseFrame(protocol, entries[i])])

\* nasdaq_itch_wire_len: 0 for a type the code does not know.
WireLen(kind) == IF kind \in DOMAIN ItchSize THEN ItchSize[kind] ELSE 0

\* A raw ITCH stream has no length prefixes: the type letter gives the length,
\* and an unknown letter throws (None), since the next message is not found.
LoadRaw(file) ==
    IF \E i \in DOMAIN file : /\ WireLen(file[i].kind) = 0
                              /\ \A j \in 1..(i - 1) : ~file[j].cut
    THEN None
    ELSE LET n == Leading(file, LAMBDA j : ~file[j].cut)
         IN Some(FlattenSeq([i \in 1..n |->
                ParseItch([file[i] EXCEPT !.size = WireLen(file[i].kind)], i)]))

\* An IEX pcap: packets that are not whole IPv4 UDP packets of at least the
\* 40-byte session header are skipped, an empty one too; an empty or
\* overrunning message ends its packet.
PcapMessages(f) ==
    LET payload == Ipv4UdpBytes(f)
    IN IF payload < PcapIexHeader THEN <<>>
       ELSE SubSeq(f.msgs, 1,
                Leading(f.msgs, LAMBDA j : /\ f.msgs[j].size > 0
                                           /\ PcapIexHeader + EndOffset(f.msgs, j) <= payload))

\* A packet cut short by the end of the file ends the reading.
WholePackets(packets) == SubSeq(packets, 1, Leading(packets, LAMBDA j : ~packets[j].cut))

\* The messages of a capture are numbered across its packets.
DeepEvents(msgs) == FlattenSeq([i \in DOMAIN msgs |-> ParseDeep(msgs[i], i)])

\* The phase 1 loaders leave the bytes of a packet of more than 65535 bytes
\* where they are and read on from its first byte as if packets began there:
\* of the rest of the file they see what that gives, the packet's "inside".
AsRead(packets) ==
    LET n == Leading(packets, LAMBDA j : ~packets[j].oversize)
    IN IF n = Len(packets) THEN packets
       ELSE SubSeq(packets, 1, n) \o packets[n + 1].inside

LoadPcap(packets) ==
    LET whole == WholePackets(AsRead(packets))
    IN DeepEvents(FlattenSeq([p \in DOMAIN whole |-> PcapMessages(whole[p])]))

\* phase2_ab_evidence_main has an IEX loader of its own.  It does pass over an
\* oversize packet.  It takes 8 from a UDP length without asking whether it is
\* 8: a shorter one becomes a huge payload that no test refuses, and the walk
\* goes on behind the packet until memory gives a length of 0.
ShortUdp(f) == Ipv4Udp(f) /\ f.udp < 8

EvidenceMessages(f, beyond) ==
    IF ~ShortUdp(f) THEN PcapMessages(f)
    ELSE LET n == Leading(f.msgs, LAMBDA j : f.msgs[j].size > 0)
         IN SubSeq(f.msgs, 1, n) \o (IF n = Len(f.msgs) THEN beyond ELSE <<>>)

LoadEvidencePcap(packets, beyond) ==
    LET read == SelectSeq(WholePackets(packets), LAMBDA f : ~f.oversize)
    IN DeepEvents(FlattenSeq([p \in DOMAIN read |-> EvidenceMessages(read[p], beyond)]))

\* The tool reads one capture per venue into one source, the Nasdaq one framed
\* or raw.  A raw stream with an unknown type ends the tool.
EvidenceSource(files, beyond) ==
    LET nasdaq == IF files.raw THEN LoadRaw(files.nasdaq)
                  ELSE Some(LoadFramed(files.nasdaq, "NasdaqItch50"))
    IN IF nasdaq = None THEN None
       ELSE Some(nasdaq[1] \o LoadEvidencePcap(files.iex, beyond)
                           \o LoadFramed(files.cboe, "CboePitch"))

\* itch_to_journal and the offline journal of the loopback bench: the events
\* of the framed file, an event without a timestamp getting the last one seen.
LastStamp(events, i) ==
    LET stamped == {j \in 1..i : events[j].ts # 0}
    IN IF stamped = {} THEN 0
       ELSE events[CHOOSE j \in stamped : \A k \in stamped : k <= j].ts

OfflineJournal(file) ==
    LET events == LoadFramed(file, "NasdaqItch50")
    IN [i \in DOMAIN events |-> [events[i] EXCEPT !.ts = LastStamp(events, i)]]

\* A CME certification capture: empty blocks are skipped, a block cut short
\* by the end of the file ends the reading.
LoadCert(blocks) ==
    LET whole == SubSeq(blocks, 1, Leading(blocks, LAMBDA j : ~blocks[j].cut))
    IN FlattenSeq([b \in DOMAIN whole |->
           IF whole[b].bytes = 0 THEN <<>> ELSE ParsePacket(whole[b])])
====
