---- MODULE WireFeed ----
(***************************************************************************)
(* A feed session end to end: a sender numbers and sends datagrams, the    *)
(* network and full buffers lose some, and a session drains, frames and    *)
(* decodes what arrives.  Three transports, chosen in Init:                *)
(*   udp   UdpMulticastReceiver + FeedSession in an edge-triggered         *)
(*         WireEventLoop;                                                  *)
(*   xdp   AfxdpReceiver + AfxdpFeedSession, polled, with the fill and rx  *)
(*         rings shared with the kernel;                                   *)
(*   file  the loaders of the applications read a capture in one go.       *)
(***************************************************************************)
EXTENDS WireFraming

CONSTANTS
    Feeds,          \* what Init chooses from: [transport, protocol, tape]
    SocketSlots,    \* datagrams the socket's receive buffer holds
    FrameCount,     \* frames of the AF_XDP umem (a power of two)
    MaxMessages,    \* messages per packed datagram
    MaxBytes,       \* bytes per packed datagram
    MaxStrays,      \* datagrams of other senders in a behaviour
    Beyond          \* messages that the memory behind a packet may look like

ASSUME WireAssumption ==
    /\ FrameCount \in Nat \ {0}
    /\ {SocketSlots, MaxMessages, MaxBytes, MaxStrays} \subseteq Nat

VARIABLES
    feed,       \* the chosen transport, protocol and capture
    sent,       \* messages of the capture the sender has numbered
    strays,     \* datagrams other senders have sent
    lost,       \* numbers of messages that no longer can arrive
    pc,         \* the thread that owns the session
    socket,     \* datagrams in the socket's receive buffer
    edge,       \* epoll has a readiness edge to report
    cutShort,   \* the last drain ended on an empty datagram or an error
    fill,       \* AF_XDP: frames the kernel may write
    rx,         \* AF_XDP: frames the kernel has written
    held,       \* AF_XDP: the frame recv is reading
    umem,       \* AF_XDP: what each frame holds
    delivered   \* events handed to the sink, in order

senderVars == <<sent, strays, lost>>
xdpVars == <<fill, rx, held, umem>>
vars == <<feed, senderVars, pc, socket, edge, cutShort, xdpVars, delivered>>

\* frame_count / 2 frames go to the fill ring when the receiver opens.
Reserve == 0..((FrameCount \div 2) - 1)
Nothing == [bytes |-> 0, body |-> <<>>]

Init ==
    /\ feed \in Feeds
    /\ sent = 0 /\ strays = 0 /\ lost = {}
    /\ pc = "closed"
    /\ socket = <<>> /\ edge = FALSE /\ cutShort = FALSE
    /\ fill = <<>> /\ rx = <<>> /\ held = {}
    /\ umem = [f \in Reserve |-> Nothing]
    /\ delivered = <<>>

Numbers(d) ==
    IF feed.protocol = "CboePitch" THEN {LineNumber(d.msgs[i]) : i \in DOMAIN d.msgs}
    ELSE d.first..(d.first + d.count - 1)

(* ------------------------------- arrivals ----------------------------- *)

Ethernet(d) ==
    [bytes |-> 14 + 20 + 8 + d.bytes, ethertype |-> "IPv4", version |-> 4,
     ihl |-> 20, protocol |-> "UDP", udp |-> 8 + d.bytes, body |-> d]

\* The kernel queues a datagram at the socket, raising the edge of a socket
\* that epoll watches.
QueueDatagram(d) ==
    /\ pc \in {"open", "wait", "poll"}
    /\ Len(socket) < SocketSlots
    /\ socket' = Append(socket, d)
    /\ edge' = (pc # "open")
    /\ UNCHANGED <<xdpVars, lost>>

\* The kernel writes a packet to the next frame of the fill ring.
QueueFrame(f) ==
    /\ pc \in {"wait", "poll", "copy"}
    /\ fill # <<>>
    /\ umem' = [umem EXCEPT ![Head(fill)] = f]
    /\ rx' = Append(rx, Head(fill))
    /\ fill' = Tail(fill)
    /\ UNCHANGED <<socket, edge, held, lost>>

\* The network drops it, or nobody has room for it.
Lose(d) ==
    /\ lost' = lost \cup Numbers(d)
    /\ UNCHANGED <<socket, edge, xdpVars>>

Arrive(d) ==
    \/ feed.transport = "udp" /\ QueueDatagram(d)
    \/ feed.transport = "xdp" /\ QueueFrame(Ethernet(d))
    \/ Lose(d)

\* synthetic_mcast_sender and journal_capture_loopback: one message each.
SendSynthetic ==
    /\ feed.transport = "udp"
    /\ sent < Len(feed.tape)
    /\ Arrive(SyntheticDatagram(feed.protocol, feed.tape[sent + 1], sent + 1))
    /\ sent' = sent + 1
    /\ UNCHANGED <<feed, strays, pc, cutShort, delivered>>

\* afxdp_loopback_bench: pack_datagram until it has nothing to give.
Packed == PackDatagram(SubSeq(feed.tape, sent + 1, Len(feed.tape)), sent + 1,
                       MaxMessages, MaxBytes)

SendPacked ==
    /\ feed.transport = "xdp"
    /\ sent < Len(feed.tape)
    /\ Packed.count > 0
    /\ Arrive(Packed)
    /\ sent' = sent + Packed.count
    /\ UNCHANGED <<feed, strays, pc, cutShort, delivered>>

\* Other traffic: an empty datagram, one too short for a header, and on the
\* AF_XDP queue a frame that is not IPv4.
Empty == [first |-> 1, count |-> 0, msgs |-> <<>>, payload |-> 0, bytes |-> 0]

Stray ==
    /\ feed.transport # "file"
    /\ strays < MaxStrays
    /\ \/ feed.transport = "udp" /\ \E n \in {0, 5} : QueueDatagram([Empty EXCEPT !.bytes = n])
       \/ feed.transport = "xdp" /\ QueueFrame(Ethernet(Empty))
       \/ feed.transport = "xdp" /\ QueueFrame([Ethernet(Empty) EXCEPT !.ethertype = "ARP"])
    /\ strays' = strays + 1
    /\ UNCHANGED <<feed, sent, pc, cutShort, delivered>>

(* ------------------------- opening and closing ------------------------ *)

\* Every step of open that fails closes what was opened before it, so a
\* failed open leaves the session closed.
OpenSocket ==
    /\ feed.transport = "udp" /\ pc = "closed"
    /\ pc' = "open"
    /\ UNCHANGED <<feed, senderVars, socket, edge, cutShort, xdpVars, delivered>>

OpenXsk ==
    /\ feed.transport = "xdp" /\ pc = "closed"
    /\ fill' = [i \in 1..(FrameCount \div 2) |-> i - 1]
    /\ pc' = "bound"
    /\ UNCHANGED <<feed, senderVars, socket, edge, cutShort, rx, held, umem, delivered>>

\* The last step of open: from the moment the program is attached and its map
\* names the socket, packets come to the rings; a step that fails takes back
\* what was attached, and open closes the receiver.
AttachXdpRedirect ==
    /\ pc = "bound"
    /\ \/ pc' = "wait" /\ UNCHANGED fill
       \/ pc' = "stopped" /\ fill' = <<>>
    /\ UNCHANGED <<feed, senderVars, socket, edge, cutShort, rx, held, umem, delivered>>

\* EPOLL_CTL_ADD reports data that is already there.
AddSession ==
    /\ pc = "open"
    /\ edge' = (socket # <<>>)
    /\ pc' = "wait"
    /\ UNCHANGED <<feed, senderVars, socket, cutShort, xdpVars, delivered>>

Backlog ==
    IF feed.transport = "xdp" THEN [i \in DOMAIN rx |-> umem[rx[i]].body] ELSE socket

\* stop, the time budget and the target are looked at between drains; the
\* application then closes the session and what was not read is gone.
StopAndClose ==
    /\ pc = "wait"
    /\ lost' = lost \cup UNION {Numbers(Backlog[i]) : i \in DOMAIN Backlog}
    /\ socket' = <<>> /\ rx' = <<>> /\ fill' = <<>>
    /\ pc' = "stopped"
    /\ UNCHANGED <<feed, sent, strays, edge, cutShort, held, umem, delivered>>

(* --------------------------- the drain loops -------------------------- *)

\* epoll_wait returns and consumes the edge; the AF_XDP session just polls.
Wake ==
    /\ pc = "wait"
    /\ feed.transport = "udp" => edge
    /\ edge' = FALSE
    /\ cutShort' = FALSE
    /\ pc' = "poll"
    /\ UNCHANGED <<feed, senderVars, socket, xdpVars, delivered>>

Sink(d) == delivered' = delivered \o DecodeDatagram(feed.protocol, d)

(* Mutant of PollSocket: one datagram per wake-up. *)
PollSocketOnce ==
    /\ feed.transport = "udp" /\ pc = "poll"
    /\ pc' = "wait"
    /\ \/ socket = <<>> /\ UNCHANGED <<socket, delivered>>
       \/ /\ socket # <<>>
          /\ socket' = Tail(socket)
          /\ IF Head(socket).bytes = 0 THEN UNCHANGED delivered ELSE Sink(Head(socket))
    /\ UNCHANGED <<feed, senderVars, edge, cutShort, xdpVars>>

\* FeedSession::poll, one recvfrom: until EAGAIN, an empty datagram or any
\* other error, which leaves what is queued where it is.
PollSocket ==
    /\ feed.transport = "udp" /\ pc = "poll"
    /\ \/ /\ socket = <<>>
          /\ pc' = "wait"
          /\ UNCHANGED <<socket, cutShort, delivered>>
       \/ /\ pc' = "wait"
          /\ cutShort' = TRUE
          /\ UNCHANGED <<socket, delivered>>
       \/ /\ socket # <<>>
          /\ socket' = Tail(socket)
          /\ IF Head(socket).bytes = 0
             THEN pc' = "wait" /\ cutShort' = TRUE /\ UNCHANGED delivered
             ELSE Sink(Head(socket)) /\ UNCHANGED <<pc, cutShort>>
    /\ UNCHANGED <<feed, senderVars, edge, xdpVars>>

\* AfxdpReceiver::recv up to the release of the consumer index.
TakeFrame ==
    /\ feed.transport = "xdp" /\ pc = "poll"
    /\ \/ rx = <<>> /\ pc' = "wait" /\ UNCHANGED <<rx, held>>
       \/ /\ rx # <<>>
          /\ held' = {Head(rx)}
          /\ rx' = Tail(rx)
          /\ pc' = "copy"
    /\ UNCHANGED <<feed, senderVars, socket, edge, cutShort, fill, umem, delivered>>

(* Mutant of CopyFrame: the frame of a skipped packet is forgotten. *)
CopyFrameLeaks ==
    /\ pc = "copy"
    /\ \E f \in held :
        IF UdpPayloadBytes(umem[f]) = 0
        THEN pc' = "wait" /\ UNCHANGED <<delivered, fill>>
        ELSE pc' = "poll" /\ Sink(umem[f].body) /\ fill' = Append(fill, f)
    /\ held' = {}
    /\ UNCHANGED <<feed, senderVars, socket, edge, cutShort, rx, umem>>

\* The rest of recv: a frame without a UDP payload ends the drain, any other
\* is copied out, framed and decoded; the frame goes back to the fill ring.
CopyFrame ==
    /\ pc = "copy"
    /\ \E f \in held :
        /\ IF UdpPayloadBytes(umem[f]) = 0
           THEN pc' = "wait" /\ UNCHANGED delivered
           ELSE pc' = "poll" /\ Sink(umem[f].body)
        /\ fill' = Append(fill, f)
    /\ held' = {}
    /\ UNCHANGED <<feed, senderVars, socket, edge, cutShort, rx, umem>>

(* ------------------------------- files -------------------------------- *)

\* The evidence tool; reading behind a packet may also end the process.
ReadEvidence(files) ==
    \/ \E beyond \in Beyond : delivered' = FlattenSeq(EvidenceSource(files, beyond))
    \/ /\ \E i \in DOMAIN files.iex : ShortUdp(files.iex[i])
       /\ delivered' = <<>>

\* The loaders of the applications: one pass over the capture.
ReadCapture ==
    /\ feed.transport = "file" /\ pc = "closed"
    /\ CASE feed.protocol = "raw"      -> delivered' = FlattenSeq(LoadRaw(feed.tape))
         [] feed.protocol = "pcap"     -> delivered' = LoadPcap(feed.tape)
         [] feed.protocol = "cert"     -> delivered' = LoadCert(feed.tape)
         [] feed.protocol = "journal"  -> delivered' = OfflineJournal(feed.tape)
         [] feed.protocol = "evidence" -> ReadEvidence(feed.tape[1])
         [] OTHER                      -> delivered' = LoadFramed(feed.tape, feed.protocol)
    /\ pc' = "stopped"
    /\ UNCHANGED <<feed, senderVars, socket, edge, cutShort, xdpVars>>

Next ==
    \/ SendSynthetic \/ SendPacked \/ Stray
    \/ OpenSocket \/ OpenXsk \/ AttachXdpRedirect \/ AddSession \/ StopAndClose
    \/ Wake \/ PollSocket \/ TakeFrame \/ CopyFrame
    \/ ReadCapture

\* The thread that runs the loop is scheduled.
Fairness == WF_vars(Wake) /\ WF_vars(PollSocket) /\ WF_vars(TakeFrame) /\ WF_vars(CopyFrame)

Spec == Init /\ [][Next]_vars /\ Fairness

(* ----------------------------- properties ----------------------------- *)

InFlight ==
    UNION ({Numbers(Backlog[i]) : i \in DOMAIN Backlog}
           \cup {Numbers(umem[f].body) : f \in held})

(***************************************************************************)
(* What the sink of a live session has seen is, event for event, what the  *)
(* offline loader makes of the same capture, less the messages that were   *)
(* lost or wait in a buffer: numbers, order and contents agree, a refused  *)
(* message leaves a hole in the numbers and shifts nothing, and no frame   *)
(* is overwritten while it is read.                                        *)
(***************************************************************************)
WireReplaysFile ==
    feed.transport # "file" =>
        delivered = SelectSeq(LoadFramed(feed.tape, feed.protocol),
                        LAMBDA ev : /\ ev.sequence <= sent
                                    /\ ev.sequence \notin lost
                                    /\ ev.sequence \notin InFlight)

(***************************************************************************)
(* Each umem frame handed to the kernel is at every moment in exactly one  *)
(* of the fill ring, the rx ring and the hands of recv, on the path that   *)
(* copies a datagram and on the one that skips a frame.                    *)
(***************************************************************************)
FramesOwnedOnce ==
    pc \in {"wait", "poll", "copy"} /\ feed.transport = "xdp" =>
        /\ Len(fill) + Len(rx) + Cardinality(held) = Cardinality(Reserve)
        /\ ToSet(fill) \cup ToSet(rx) \cup held = Reserve

(***************************************************************************)
(* The session loop reads every datagram that is waiting, although an edge *)
(* is reported once: a drain only leaves data behind when an empty         *)
(* datagram or a receive error ended it, and then until the next arrival.  *)
(***************************************************************************)
EveryDatagramRead ==
    []<>(pc \in {"closed", "open", "stopped"} \/ Backlog = <<>> \/ cutShort)

\* An IEX capture with one message per packet.
OneDeepPerPacket(packets) ==
    LET whole == WholePackets(packets)
        alone(f, m) == [f EXCEPT !.msgs = <<m>>,
                                 !.udp = 8 + PcapIexHeader + EndOffset(<<m>>, 1),
                                 !.bytes = 14 + f.ihl + 8 + PcapIexHeader + EndOffset(<<m>>, 1)]
    IN FlattenSeq([p \in DOMAIN whole |->
           [n \in DOMAIN PcapMessages(whole[p]) |-> alone(whole[p], whole[p].msgs[n])]])

\* A CME capture with one message per packet.
OnePerPacket(blocks) ==
    FlattenSeq([b \in DOMAIN blocks |->
        [n \in 1..Leading(blocks[b].msgs, LAMBDA k : Decodable(blocks[b], k)) |->
            [blocks[b] EXCEPT !.msgs = <<blocks[b].msgs[n]>>,
                              !.bytes = PacketHeader + blocks[b].msgs[n].size]]])

\* The stamps go up, the missing ones aside.
StampsRise(events) ==
    \A i, j \in DOMAIN events :
        i < j /\ events[i].ts # 0 /\ events[j].ts # 0 => events[i].ts <= events[j].ts

(***************************************************************************)
(* The readers of captures agree on what a capture holds.  The hot decoder *)
(* gives what the generic one gives on every message.  The raw stream      *)
(* gives what the framed file gives when every message has its own length. *)
(* The stamps the journal writer fills in never take time back: where the  *)
(* stamps of a capture go up, so do those of its journal, and behind the   *)
(* first one none is missing.  How an exchange groups messages in packets  *)
(* changes neither their order nor their numbers.  The two IEX loaders     *)
(* differ only where they must: what the evidence tool, unless it gave up, *)
(* has of IEX is what the phase 1 loader gives for the capture without its *)
(* oversize packets, as long as no packet's UDP length is below 8.         *)
(***************************************************************************)
LoadersAgree ==
    feed.transport = "file" /\ pc = "stopped" =>
        CASE feed.protocol = "raw" ->
                (\A i \in DOMAIN feed.tape : feed.tape[i].size = WireLen(feed.tape[i].kind))
                    => delivered = LoadFramed(feed.tape, "NasdaqItch50")
          [] feed.protocol = "journal" ->
                StampsRise(LoadFramed(feed.tape, "NasdaqItch50")) =>
                    \A i, j \in DOMAIN delivered : i < j => delivered[i].ts <= delivered[j].ts
          [] feed.protocol = "NasdaqItch50" ->
                delivered = FlattenSeq([i \in 1..Len(NumberedEntries(feed.tape)) |->
                    ParseHot(NumberedEntries(feed.tape)[i].msg, i)])
          [] feed.protocol = "pcap" ->
                delivered = LoadPcap(OneDeepPerPacket(AsRead(feed.tape)))
          [] feed.protocol = "cert" ->
                delivered = LoadCert(OnePerPacket(feed.tape))
          [] feed.protocol = "evidence" ->
                LET files == feed.tape[1]
                    sized == SelectSeq(files.iex, LAMBDA f : ~f.oversize)
                IN (/\ \A i \in DOMAIN files.iex : ~ShortUdp(files.iex[i])
                    /\ files.raw => LoadRaw(files.nasdaq) # None)
                   => SelectSeq(delivered, LAMBDA ev : ev.venue = "Iex") = LoadPcap(sized)
          [] OTHER -> TRUE

(* -------------- what the proofs need: an inductive invariant ----------- *)

\* The kernel and the receiver own frames between open and close.
Bound == feed.transport = "xdp" /\ pc \in {"bound", "wait", "poll", "copy"}

\* The rings hold frames of the reserve, and recv one while it copies.
RingsOK ==
    /\ fill \in Seq(Reserve) /\ rx \in Seq(Reserve)
    /\ IF pc = "copy" THEN \E f \in Reserve : held = {f} ELSE held = {}

\* The frames are counted and none is missing: so none is there twice.
FrameInv ==
    /\ RingsOK
    /\ pc = "open" => feed.transport = "udp"
    /\ feed.transport = "xdp" /\ pc \in {"closed", "bound"} => rx = <<>>
    /\ Bound => /\ Len(fill) + Len(rx) + Cardinality(held) = Cardinality(Reserve)
                /\ ToSet(fill) \cup ToSet(rx) \cup held = Reserve
====
