----------------------------- MODULE WireProofs -----------------------------
(***************************************************************************)
(* WireFeed for every feed, every number of frames and every buffer size:     *)
(* ownership of the AF_XDP frames.                                           *)
(***************************************************************************)
EXTENDS WireFeed, ArithmeticLemmas, TLAPS

(* What a ring holds after a push and before a pop. *)
LEMMA PushedFrame ==
    ASSUME NEW S, NEW s \in Seq(S), NEW x \in S
    PROVE  /\ Append(s, x) \in Seq(S) /\ Len(Append(s, x)) = Len(s) + 1
           /\ ToSet(Append(s, x)) = ToSet(s) \cup {x}
  <1> DEFINE d == Append(s, x)
             n == Len(s)
  <1>1. /\ d \in Seq(S) /\ Len(d) = n + 1 /\ n \in Nat
        /\ \A i \in 1 .. n : d[i] = s[i]
        /\ d[n + 1] = x
    BY AppendProperties, LenProperties
  <1>2. DOMAIN d = 1 .. n + 1 /\ DOMAIN s = 1 .. n  BY <1>1, LenProperties
  <1> HIDE DEF d, n
  <1>3. \A i \in 1 .. n + 1 : i \in 1 .. n \/ i = n + 1  BY <1>1
  <1>4. n + 1 \in 1 .. n + 1 /\ \A i \in 1 .. n : i \in 1 .. n + 1  BY <1>1
  <1>5. ToSet(d) = ToSet(s) \cup {x}  BY <1>1, <1>2, <1>3, <1>4 DEF ToSet
  <1> QED  BY <1>1, <1>5 DEF d, n

LEMMA PoppedFrame ==
    ASSUME NEW S, NEW s \in Seq(S), s # <<>>
    PROVE  /\ Head(s) \in S /\ Tail(s) \in Seq(S) /\ Len(s) = Len(Tail(s)) + 1
           /\ ToSet(s) = ToSet(Tail(s)) \cup {Head(s)}
  <1> DEFINE d == Tail(s)
             n == Len(s)
  <1>1. /\ d \in Seq(S) /\ Len(d) = n - 1 /\ n \in Nat \ {0}
        /\ \A i \in 1 .. n - 1 : d[i] = s[i + 1]
        /\ Head(s) = s[1] /\ Head(s) \in S
    BY HeadTailProperties, LenProperties, EmptySeq
  <1>2. DOMAIN d = 1 .. n - 1 /\ DOMAIN s = 1 .. n  BY <1>1, LenProperties
  <1> HIDE DEF d, n
  <1>3. ToSet(s) \subseteq ToSet(d) \cup {s[1]}
    <2> SUFFICES ASSUME NEW i \in 1 .. n PROVE s[i] = s[1] \/ \E j \in 1 .. n - 1 : d[j] = s[i]
      BY <1>2 DEF ToSet
    <2>1. CASE i = 1  BY <2>1
    <2>2. CASE i # 1
      <3>1. i - 1 \in 1 .. n - 1 /\ (i - 1) + 1 = i  BY <1>1, <2>2
      <3> QED  BY <1>1, <3>1
    <2> QED  BY <2>1, <2>2
  <1>4. ToSet(d) \cup {s[1]} \subseteq ToSet(s)
    <2>1. 1 \in 1 .. n /\ \A j \in 1 .. n - 1 : j + 1 \in 1 .. n /\ s[j + 1] = d[j]  BY <1>1
    <2> QED  BY <1>2, <2>1 DEF ToSet
  <1>5. ToSet(s) = ToSet(d) \cup {s[1]}  BY <1>3, <1>4
  <1> QED  BY <1>1, <1>5 DEF d, n

LEMMA EmptyRing == ASSUME NEW S PROVE <<>> \in Seq(S) /\ Len(<<>>) = 0 /\ ToSet(<<>>) = {}
  BY EmptySeq DEF ToSet

(* The frames that open puts on the fill ring. *)
LEMMA FilledRing ==
    LET n == FrameCount \div 2
        s == [i \in 1 .. n |-> i - 1]
    IN s \in Seq(Reserve) /\ Len(s) = Cardinality(Reserve) /\ ToSet(s) = Reserve
  <1> DEFINE n == FrameCount \div 2
             s == [i \in 1 .. n |-> i - 1]
  <1>0. n \in Nat
    <2>1. FrameCount \in Nat  BY WireAssumption
    <2>2. 2 \in Nat \ {0}  OBVIOUS
    <2> QED  BY <2>1, <2>2, DivMod
  <1>1. Reserve = 0 .. n - 1  BY DEF Reserve
  <1> HIDE DEF n
  <1>2. s \in [1 .. n -> Reserve]  BY <1>0, <1>1
  <1>3. s \in Seq(Reserve) /\ Len(s) = n  BY <1>0, <1>2, FunctionIsSeq
  <1>4. Cardinality(Reserve) = n
    <2>1. Cardinality(0 .. n - 1) = IF 0 > n - 1 THEN 0 ELSE (n - 1) - 0 + 1
      BY <1>0, FS_Interval
    <2> QED  BY <1>0, <1>1, <2>1
  <1>5. ToSet(s) = Reserve
    <2>1. DOMAIN s = 1 .. n  OBVIOUS
    <2>2. \A i \in 1 .. n : s[i] \in Reserve  BY <1>2
    <2>3. ASSUME NEW f \in Reserve PROVE \E i \in 1 .. n : s[i] = f
      <3>1. f + 1 \in 1 .. n /\ (f + 1) - 1 = f  BY <1>0, <1>1
      <3> QED  BY <3>1
    <2> HIDE DEF s
    <2> QED  BY <2>1, <2>2, <2>3 DEF ToSet
  <1> QED  BY <1>3, <1>4, <1>5 DEF n

LEMMA OneHeld == ASSUME NEW x PROVE Cardinality({x}) = 1  BY FS_Singleton
LEMMA NoneHeld == Cardinality({}) = 0  BY FS_EmptySet
------------------------------------------------------------------------------
(* What FrameInv says of the frames and the receiver's position. *)
frameVars == <<feed, pc, fill, rx, held>>

LEMMA FramesRest ==
    ASSUME FrameInv, UNCHANGED frameVars PROVE FrameInv'
  BY DEF FrameInv, RingsOK, Bound, frameVars

(* The kernel moves a frame from the fill ring to the rx ring. *)
LEMMA QueueFrameInv ==
    ASSUME FrameInv, feed.transport = "xdp", NEW f, QueueFrame(f), UNCHANGED <<feed, pc>>
    PROVE  FrameInv'
  <1>1. /\ fill # <<>> /\ rx' = Append(rx, Head(fill)) /\ fill' = Tail(fill) /\ held' = held
        /\ feed' = feed /\ pc' = pc /\ pc \in {"wait", "poll", "copy"}
    BY DEF QueueFrame
  <1>2. /\ fill \in Seq(Reserve) /\ rx \in Seq(Reserve) /\ Bound
        /\ Len(fill) + Len(rx) + Cardinality(held) = Cardinality(Reserve)
        /\ ToSet(fill) \cup ToSet(rx) \cup held = Reserve
    BY <1>1 DEF FrameInv, RingsOK, Bound
  <1>3. /\ Head(fill) \in Reserve /\ fill' \in Seq(Reserve) /\ Len(fill) = Len(fill') + 1
        /\ ToSet(fill) = ToSet(fill') \cup {Head(fill)}
    BY <1>1, <1>2, PoppedFrame
  <1>4. /\ rx' \in Seq(Reserve) /\ Len(rx') = Len(rx) + 1
        /\ ToSet(rx') = ToSet(rx) \cup {Head(fill)}
    BY <1>1, <1>2, <1>3, PushedFrame
  <1>5. Len(fill') + Len(rx') + Cardinality(held) = Cardinality(Reserve)
    <2>1. Len(fill) \in Nat /\ Len(rx) \in Nat /\ Len(fill') \in Nat
      BY <1>2, <1>3, LenProperties
    <2>2. Cardinality(held) \in Nat
      <3>1. CASE pc = "copy"
        <4>1. PICK x \in Reserve : held = {x}  BY <3>1 DEF FrameInv, RingsOK
        <4>2. Cardinality(held) = 1  BY <4>1, OneHeld
        <4> QED  BY <4>2
      <3>2. CASE pc # "copy"
        <4>1. held = {}  BY <3>2 DEF FrameInv, RingsOK
        <4> QED  BY <4>1, NoneHeld
      <3> QED  BY <3>1, <3>2
    <2> QED  BY <1>2, <1>3, <1>4, <2>1, <2>2
  <1>6. ToSet(fill') \cup ToSet(rx') \cup held = Reserve  BY <1>2, <1>3, <1>4
  <1>7. RingsOK'  BY <1>1, <1>3, <1>4 DEF FrameInv, RingsOK
  <1> QED  BY <1>1, <1>5, <1>6, <1>7 DEF FrameInv, Bound

(* What arrives takes a frame, or none. *)
LEMMA ArriveInv ==
    ASSUME FrameInv, NEW d, Arrive(d), UNCHANGED <<feed, pc>>
    PROVE  FrameInv'
  <1>1. CASE feed.transport = "udp" /\ QueueDatagram(d)
    BY <1>1, FramesRest DEF QueueDatagram, xdpVars, frameVars
  <1>2. CASE feed.transport = "xdp" /\ QueueFrame(Ethernet(d))
    BY <1>2, QueueFrameInv
  <1>3. CASE Lose(d)  BY <1>3, FramesRest DEF Lose, xdpVars, frameVars
  <1> QED  BY <1>1, <1>2, <1>3 DEF Arrive

LEMMA StrayInv == ASSUME FrameInv, Stray PROVE FrameInv'
  <1>1. UNCHANGED <<feed, pc>>  BY DEF Stray
  <1>2. CASE feed.transport = "udp" /\ \E n \in {0, 5} : QueueDatagram([Empty EXCEPT !.bytes = n])
    BY <1>1, <1>2, FramesRest DEF QueueDatagram, xdpVars, frameVars
  <1>3. CASE feed.transport = "xdp" /\ QueueFrame(Ethernet(Empty))
    BY <1>1, <1>3, QueueFrameInv
  <1>4. CASE feed.transport = "xdp" /\ QueueFrame([Ethernet(Empty) EXCEPT !.ethertype = "ARP"])
    BY <1>1, <1>4, QueueFrameInv
  <1> QED  BY <1>2, <1>3, <1>4 DEF Stray

LEMMA OpenXskInv == ASSUME FrameInv, OpenXsk PROVE FrameInv'
  <1>1. /\ fill' = [i \in 1 .. (FrameCount \div 2) |-> i - 1] /\ rx' = <<>> /\ held' = {}
        /\ pc' = "bound" /\ feed' = feed
    BY DEF OpenXsk, FrameInv, RingsOK
  <1>2. fill' \in Seq(Reserve) /\ Len(fill') = Cardinality(Reserve) /\ ToSet(fill') = Reserve
    BY <1>1, FilledRing
  <1>3. rx' \in Seq(Reserve) /\ Len(rx') = 0 /\ ToSet(rx') = {}  BY <1>1, EmptyRing
  <1>4. Len(fill') + Len(rx') + Cardinality(held') = Cardinality(Reserve)
    <2>1. Cardinality(held') = 0  BY <1>1, NoneHeld
    <2>2. Len(fill') \in Nat  BY <1>2, LenProperties
    <2> QED  BY <1>2, <1>3, <2>1, <2>2
  <1>5. ToSet(fill') \cup ToSet(rx') \cup held' = Reserve  BY <1>1, <1>2, <1>3
  <1>6. RingsOK'  BY <1>1, <1>2, <1>3 DEF RingsOK
  <1> QED  BY <1>1, <1>4, <1>5, <1>6 DEF FrameInv, Bound

LEMMA TakeFrameInv == ASSUME FrameInv, TakeFrame PROVE FrameInv'
  <1>1. feed.transport = "xdp" /\ pc = "poll" /\ feed' = feed /\ fill' = fill  BY DEF TakeFrame
  <1>2. CASE rx = <<>> /\ pc' = "wait" /\ UNCHANGED <<rx, held>>
    BY <1>1, <1>2 DEF FrameInv, RingsOK, Bound
  <1>3. CASE rx # <<>> /\ held' = {Head(rx)} /\ rx' = Tail(rx) /\ pc' = "copy"
    <2>1. /\ fill \in Seq(Reserve) /\ rx \in Seq(Reserve) /\ held = {}
          /\ Len(fill) + Len(rx) + Cardinality(held) = Cardinality(Reserve)
          /\ ToSet(fill) \cup ToSet(rx) \cup held = Reserve
      BY <1>1 DEF FrameInv, RingsOK, Bound
    <2>2. /\ Head(rx) \in Reserve /\ rx' \in Seq(Reserve) /\ Len(rx) = Len(rx') + 1
          /\ ToSet(rx) = ToSet(rx') \cup {Head(rx)}
      BY <1>3, <2>1, PoppedFrame
    <2>3. Len(fill) + Len(rx') + Cardinality(held') = Cardinality(Reserve)
      <3>1. Cardinality(held) = 0  BY <2>1, NoneHeld
      <3>2. Cardinality(held') = 1  BY <1>3, OneHeld
      <3>3. Len(fill) \in Nat /\ Len(rx') \in Nat  BY <2>1, <2>2, LenProperties
      <3> QED  BY <2>1, <2>2, <3>1, <3>2, <3>3
    <2>4. ToSet(fill) \cup ToSet(rx') \cup held' = Reserve  BY <1>3, <2>1, <2>2
    <2>5. RingsOK'  BY <1>1, <1>3, <2>1, <2>2 DEF RingsOK
    <2> QED  BY <1>1, <1>3, <2>3, <2>4, <2>5 DEF FrameInv, Bound
  <1> QED  BY <1>2, <1>3 DEF TakeFrame

LEMMA CopyFrameInv == ASSUME FrameInv, CopyFrame PROVE FrameInv'
  <1>1. PICK x \in Reserve : held = {x}  BY DEF CopyFrame, FrameInv, RingsOK
  <1>2. /\ fill' = Append(fill, x) /\ held' = {} /\ rx' = rx /\ feed' = feed
        /\ pc = "copy" /\ pc' \in {"wait", "poll"}
    BY <1>1 DEF CopyFrame
  <1>3. fill \in Seq(Reserve) /\ rx \in Seq(Reserve)  BY DEF FrameInv, RingsOK
  <1>4. fill' \in Seq(Reserve) /\ Len(fill') = Len(fill) + 1 /\ ToSet(fill') = ToSet(fill) \cup {x}
    BY <1>1, <1>2, <1>3, PushedFrame
  <1>5. RingsOK'  BY <1>2, <1>3, <1>4 DEF RingsOK
  <1>6. CASE feed.transport = "xdp"
    <2>1. /\ Len(fill) + Len(rx) + Cardinality(held) = Cardinality(Reserve)
          /\ ToSet(fill) \cup ToSet(rx) \cup held = Reserve
      BY <1>2, <1>6 DEF FrameInv, Bound
    <2>2. Len(fill') + Len(rx) + Cardinality(held') = Cardinality(Reserve)
      <3>1. Cardinality(held) = 1  BY <1>1, OneHeld
      <3>2. Cardinality(held') = 0  BY <1>2, NoneHeld
      <3>3. Len(fill) \in Nat /\ Len(rx) \in Nat  BY <1>3, LenProperties
      <3> QED  BY <1>4, <2>1, <3>1, <3>2, <3>3
    <2>3. ToSet(fill') \cup ToSet(rx) \cup held' = Reserve  BY <1>1, <1>2, <1>4, <2>1
    <2> QED  BY <1>2, <1>5, <2>2, <2>3 DEF FrameInv, Bound
  <1>7. CASE feed.transport # "xdp"  BY <1>2, <1>5, <1>7 DEF FrameInv, Bound
  <1> QED  BY <1>6, <1>7

LEMMA FrameInit == Init => FrameInv
  BY EmptySeq DEF Init, FrameInv, RingsOK, Bound

LEMMA FrameStep == FrameInv /\ [Next]_vars => FrameInv'
  <1> SUFFICES ASSUME FrameInv, [Next]_vars PROVE FrameInv'  OBVIOUS
  <1>1. CASE SendSynthetic  BY <1>1, ArriveInv DEF SendSynthetic
  <1>2. CASE SendPacked  BY <1>2, ArriveInv DEF SendPacked
  <1>3. CASE Stray  BY <1>3, StrayInv
  <1>4. CASE OpenSocket
    BY <1>4 DEF OpenSocket, FrameInv, RingsOK, Bound, xdpVars
  <1>5. CASE OpenXsk  BY <1>5, OpenXskInv
  <1>6. CASE AttachXdpRedirect
    BY <1>6, EmptySeq DEF AttachXdpRedirect, FrameInv, RingsOK, Bound
  <1>7. CASE AddSession
    BY <1>7 DEF AddSession, FrameInv, RingsOK, Bound, xdpVars
  <1>8. CASE StopAndClose
    <2>1. fill' = <<>> /\ rx' = <<>> /\ held' = held /\ pc = "wait" /\ pc' = "stopped"
      BY <1>8 DEF StopAndClose
    <2> QED  BY <2>1, EmptySeq DEF FrameInv, RingsOK, Bound
  <1>9. CASE Wake  BY <1>9 DEF Wake, FrameInv, RingsOK, Bound, xdpVars
  <1>10. CASE PollSocket
    BY <1>10 DEF PollSocket, FrameInv, RingsOK, Bound, xdpVars
  <1>11. CASE TakeFrame  BY <1>11, TakeFrameInv
  <1>12. CASE CopyFrame  BY <1>12, CopyFrameInv
  <1>13. CASE ReadCapture
    <2>1. fill' = fill /\ rx' = rx /\ held' = held /\ pc = "closed" /\ pc' = "stopped" /\ feed' = feed
      BY <1>13 DEF ReadCapture, xdpVars
    <2> QED  BY <2>1 DEF FrameInv, RingsOK, Bound
  <1>14. CASE UNCHANGED vars  BY <1>14, FramesRest DEF vars, xdpVars, frameVars
  <1> QED
    BY <1>1, <1>2, <1>3, <1>4, <1>5, <1>6, <1>7, <1>8, <1>9, <1>10, <1>11, <1>12, <1>13, <1>14
       DEF Next

(* Every frame of the umem reserve has one owner at every moment. *)
THEOREM FrameInvariant == Spec => []FrameInv
  BY FrameInit, FrameStep, PTL DEF Spec

(* No frame leaks and none is handed out twice, on the path that copies a      *)
(* datagram and on the one that skips a packet.                              *)
THEOREM FramesHaveOneOwner == Spec => []FramesOwnedOnce
  <1>1. FrameInv => FramesOwnedOnce  BY DEF FrameInv, Bound, FramesOwnedOnce
  <1> QED  BY <1>1, FrameInvariant, PTL
==============================================================================
