----------------------------- MODULE LinkProofs -----------------------------
(***************************************************************************)
(* Lemmas about the operators both boards are built from: the link, the    *)
(* frames, the host messages and the pairing record.                       *)
(***************************************************************************)
EXTENDS EspNowLink, PairingStore, FiniteSetTheorems, TLAPS

USE DEF Option, Bytes

\* espnow.rs: the methods of the link return a link.
LEMMA LinkCalls ==
    ASSUME NEW l \in Link, NEW mac \in Macs, NEW f \in Frame
    PROVE  /\ NewLink \in Link
           /\ learn_peer(l, mac) \in Link
           /\ reset_pairing(l) \in Link
           /\ reset_sequence(l) \in Link
           /\ AfterReceive(l, f) \in Link
<1>1. f.kind = "Control" => f.packet.sequence \in Sequences16
  BY DEF Frame, ControlPacket
<1>2. AfterReceive(l, f) \in Link
  BY <1>1 DEF Link, AfterReceive
<1> QED
  BY <1>2 DEF Link, NewLink, learn_peer, reset_pairing, reset_sequence

\* espnow.rs: which methods of the link change its peer, and how.
LEMMA PeerChanges ==
    ASSUME NEW l \in Link, NEW mac \in Macs, NEW f \in Frame
    PROVE  /\ learn_peer(l, mac).paired_peer
                  = IF AddPeerSucceeds(l, mac) THEN mac ELSE l.paired_peer
           /\ learn_peer(l, mac).last_sequence = l.last_sequence
           /\ AfterReceive(l, f).paired_peer = l.paired_peer
           /\ AfterReceive(l, f).last_sequence # l.last_sequence
                  => f.kind = "Control" /\ IsFresh(l, f.packet)
           /\ reset_sequence(l).paired_peer = l.paired_peer
           /\ reset_sequence(l).last_sequence = None
           /\ reset_pairing(l).paired_peer = None
           /\ reset_pairing(l).last_sequence = None
<1>1. AfterReceive(l, f).paired_peer = l.paired_peer
  BY DEF Link, AfterReceive
<1>2. AfterReceive(l, f).last_sequence # l.last_sequence
          => f.kind = "Control" /\ IsFresh(l, f.packet)
  BY DEF AfterReceive
<1>3. learn_peer(l, mac).paired_peer
          = IF AddPeerSucceeds(l, mac) THEN mac ELSE l.paired_peer
  BY DEF Link, learn_peer
<1>4. learn_peer(l, mac).last_sequence = l.last_sequence
  BY DEF Link, learn_peer
<1> QED
  BY <1>1, <1>2, <1>3, <1>4 DEF Link, reset_sequence, reset_pairing

\* A new link has room for the stored peer, and for nothing it must accept.
LEMMA NewLinkLearns ==
    ASSUME NEW mac \in Macs
    PROVE  /\ NewLink \in Link
           /\ NewLink.paired_peer = None
           /\ NewLink.last_sequence = None
           /\ learn_peer(NewLink, mac) \in Link
           /\ learn_peer(NewLink, mac).paired_peer = mac
           /\ learn_peer(NewLink, mac).last_sequence = None
<1>1. AddPeerSucceeds(NewLink, mac)
  BY FS_EmptySet, LinkAssumption DEF AddPeerSucceeds, NewLink
<1> QED
  BY <1>1 DEF Link, NewLink, learn_peer

\* pairing.rs: without faults a write takes effect.
LEMMA FlashWrites ==
    ASSUME FlashFaults = FALSE, NEW flash, NEW record
    PROVE  FlashWrite(flash, record) = {record}
BY DEF FlashWrite

\* The fields of a frame.
LEMMA FrameFields ==
    ASSUME NEW f \in Frame
    PROVE  /\ f.src \in Macs
           /\ f.kind = "Control" => f.packet \in ControlPacket
           /\ f.kind = "TunnelEvt" => f.bytes \in Telemetry
BY DEF Frame

\* The fields of a host command.
LEMMA CommandFields ==
    ASSUME NEW c \in HostToBoard
    PROVE  /\ c.op = "SetMotorEnable" => c.r_en \in BOOLEAN /\ c.l_en \in BOOLEAN
           /\ c.op = "SetMotorPwm" => c.duty \in I8
           /\ c.op = "EnableRemoteTelemetry" => c.on \in BOOLEAN
           /\ c.op = "ForPeer" => c.payload \in Payloads
BY DEF HostToBoard, Ping, SetLed, Repair

\* The events the loop produces.
LEMMA EventTypes ==
    /\ LedAck \in Telemetry
    /\ CurrentSense \in Telemetry
    /\ \A d \in I8 : MotorState(d) \in Telemetry /\ CurrentSenseRaw(d) \in Telemetry
    /\ \A k \in LinkStates : EspNowLinkState(k) \in Telemetry
    /\ \A p \in ControlPacket : ReceivedPacket(p) \in Telemetry
    /\ \A s \in BoardKind, e \in Telemetry : FromPeer(s, e) \in BoardToHost
    /\ Telemetry \subseteq BoardToHost
<1>1. \A p \in ControlPacket : ReceivedPacket(p) \in Telemetry
  BY DEF ControlPacket, ReceivedPacket, Telemetry
<1>2. \A s \in BoardKind, e \in Telemetry : FromPeer(s, e) \in BoardToHost
  BY DEF FromPeer, BoardToHost
<1>3. Telemetry \subseteq BoardToHost
  BY DEF BoardToHost
<1> QED
  BY <1>1, <1>2, <1>3 DEF Telemetry, LedAck, CurrentSense, MotorState, CurrentSenseRaw,
                          EspNowLinkState

\* The frames the link hands to the radio.
LEMMA SentFrames ==
    ASSUME NEW l \in Link, NEW Self \in Macs
    PROVE  /\ \A p \in Payloads :
                SendToPeer(l, TunnelCmdFrame(Self, l.paired_peer, p)) \in Seq(Frame)
           /\ \A e \in Telemetry :
                SendToPeer(l, TunnelEvtFrame(Self, l.paired_peer, e)) \in Seq(Frame)
           /\ SendToPeer(l, PairAckFrame(Self, l.paired_peer)) \in Seq(Frame)
           /\ is_paired(l) => l.paired_peer \in Macs
<1>1. is_paired(l) => l.paired_peer \in Macs
  BY DEF Link, is_paired
<1>2. is_paired(l) => \A p \in Payloads : TunnelCmdFrame(Self, l.paired_peer, p) \in Frame
  BY <1>1 DEF TunnelCmdFrame, Frame, Destinations
<1>3. is_paired(l) => \A e \in Telemetry : TunnelEvtFrame(Self, l.paired_peer, e) \in Frame
  BY <1>1 DEF TunnelEvtFrame, Frame, Destinations
<1>4. is_paired(l) => PairAckFrame(Self, l.paired_peer) \in Frame
  BY <1>1 DEF PairAckFrame, Frame, Destinations
<1> QED
  BY <1>1, <1>2, <1>3, <1>4 DEF SendToPeer

\* pairing.rs: a record that was written, or not, loads as an address or not
\* at all.
LEMMA FlashTypes ==
    ASSUME NEW flash \in Option(Macs), NEW record \in Option(Macs)
    PROVE  FlashWrite(flash, record) \subseteq Option(Macs)
BY DEF FlashWrite

-----------------------------------------------------------------------------
(* The radio's list of peers.                                              *)

\* A link that is paired can send to its peer.
PeerListed(l) == is_paired(l) => l.paired_peer \in l.peers

\* The frames that a board with this link can send.
Deliverable(l) == {f \in Frame : f.dst \in Reachable(l)}

\* espnow.rs: no method of the link leaves it with a peer it cannot send to,
\* and none takes a peer off the list.
LEMMA CallsKeepListed ==
    ASSUME NEW l \in Link, PeerListed(l), NEW mac \in Macs, NEW f \in Frame
    PROVE  /\ PeerListed(learn_peer(l, mac))
           /\ PeerListed(AfterReceive(l, f))
           /\ PeerListed(reset_pairing(l))
           /\ PeerListed(reset_sequence(l))
<1>1. PeerListed(learn_peer(l, mac))
  BY DEF PeerListed, learn_peer, is_paired, Link
<1>2. PeerListed(AfterReceive(l, f))
  BY DEF PeerListed, AfterReceive, is_paired, Link
<1> QED
  BY <1>1, <1>2 DEF PeerListed, reset_pairing, reset_sequence, is_paired, Link

\* A link that boots is not paired, or with the peer it registered.
LEMMA BootListed ==
    PeerListed(NewLink) /\ \A stored \in Macs : PeerListed(learn_peer(NewLink, stored))
<1>1. NewLink \in Link /\ ~is_paired(NewLink)
  BY DEF NewLink, Link, is_paired
<1>2. PeerListed(NewLink)
  BY <1>1 DEF PeerListed
<1> QED
  BY <1>1, <1>2, CallsKeepListed DEF PeerListed, learn_peer, is_paired, Link

\* What a listed link hands to the radio can be sent.
LEMMA ListedSends ==
    ASSUME NEW l \in Link, PeerListed(l), NEW Self \in Macs
    PROVE  /\ \A p \in Payloads :
                SendToPeer(l, TunnelCmdFrame(Self, l.paired_peer, p)) \in Seq(Deliverable(l))
           /\ \A e \in Telemetry :
                /\ is_paired(l) => TunnelEvtFrame(Self, l.paired_peer, e) \in Deliverable(l)
                /\ SendToPeer(l, TunnelEvtFrame(Self, l.paired_peer, e)) \in Seq(Deliverable(l))
           /\ SendToPeer(l, PairAckFrame(Self, l.paired_peer)) \in Seq(Deliverable(l))
           /\ \A p \in ControlPacket : ControlFrame(Self, ControlDestination(l), p) \in Deliverable(l)
<1>1. is_paired(l) => l.paired_peer \in Macs /\ l.paired_peer \in l.peers
  BY DEF Link, PeerListed, is_paired
<1>2. is_paired(l) => \A p \in Payloads : TunnelCmdFrame(Self, l.paired_peer, p) \in Deliverable(l)
  BY <1>1 DEF TunnelCmdFrame, Frame, Destinations, Deliverable, Reachable
<1>3. is_paired(l) => \A e \in Telemetry : TunnelEvtFrame(Self, l.paired_peer, e) \in Deliverable(l)
  BY <1>1 DEF TunnelEvtFrame, Frame, Destinations, Deliverable, Reachable
<1>4. is_paired(l) => PairAckFrame(Self, l.paired_peer) \in Deliverable(l)
  BY <1>1 DEF PairAckFrame, Frame, Destinations, Deliverable, Reachable
<1>5. \A p \in ControlPacket : ControlFrame(Self, ControlDestination(l), p) \in Deliverable(l)
  BY <1>1 DEF ControlFrame, ControlDestination, Frame, Destinations, Deliverable, Reachable
<1> QED
  BY <1>2, <1>3, <1>4, <1>5 DEF SendToPeer

-----------------------------------------------------------------------------
(* The radio's queue.                                                      *)

\* The radio's queue never holds more than its depth.
LEMMA EnqueuedTypes ==
    ASSUME NEW q \in Seq(Frame), Len(q) <= RxDepth, NEW f \in Frame
    PROVE  \A r \in Enqueued(q, f) : r \in Seq(Frame) /\ Len(r) <= RxDepth
<1>1. Len(q) < RxDepth => Append(q, f) \in Seq(Frame) /\ Len(Append(q, f)) <= RxDepth
  BY LinkAssumption
<1>2. ASSUME ~(Len(q) < RxDepth)
      PROVE  Append(Tail(q), f) \in Seq(Frame) /\ Len(Append(Tail(q), f)) <= RxDepth
  <2>1. q # <<>> /\ Len(q) = RxDepth
    BY <1>2, LinkAssumption
  <2>2. Tail(q) \in Seq(Frame) /\ Len(Tail(q)) = Len(q) - 1
    BY <2>1
  <2> QED
    BY <2>1, <2>2, LinkAssumption
<1> QED
  BY <1>1, <1>2 DEF Enqueued

\* A queue that takes a frame holds what it held, and that frame.
LEMMA EnqueuedIn ==
    ASSUME NEW S, NEW q \in Seq(S), NEW f \in S, NEW r \in Enqueued(q, f)
    PROVE  r \in Seq(S)
<1>1. Append(q, f) \in Seq(S)
  OBVIOUS
<1>2. ASSUME ~(Len(q) < RxDepth) PROVE Append(Tail(q), f) \in Seq(S)
  <2>1. q # <<>>
    BY <1>2, LinkAssumption
  <2>2. Tail(q) \in Seq(S)
    BY <2>1
  <2> QED
    BY <2>2
<1> QED
  BY <1>1, <1>2 DEF Enqueued

-----------------------------------------------------------------------------
(* Sequence numbers.                                                       *)

LEMMA Differences ==
    ASSUME NEW a \in Sequences16, NEW b \in Sequences16
    PROVE  wrapping_sub(a, b) = IF a >= b THEN a - b ELSE a - b + SeqMod
<1>1. SeqMod \in Nat /\ SeqMod >= 2 /\ a \in 0 .. SeqMod - 1 /\ b \in 0 .. SeqMod - 1
  BY SeqModAssumption DEF Sequences16
<1>2. CASE a >= b
  <2>1. a - b \in 0 .. SeqMod - 1
    BY <1>1, <1>2
  <2>2. \A n \in 0 .. SeqMod - 1 : n % SeqMod = n
    BY <1>1
  <2> QED
    BY <1>2, <2>1, <2>2 DEF wrapping_sub
<1>3. CASE a < b
  <2>1. /\ a - b + SeqMod \in 0 .. SeqMod - 1
    BY <1>1, <1>3
  <2>2. \A n \in 0 .. SeqMod - 1 : (n - SeqMod) % SeqMod = n
    BY <1>1
  <2>3. (a - b + SeqMod) - SeqMod = a - b
    BY <1>1
  <2> QED
    BY <1>1, <1>3, <2>1, <2>2, <2>3 DEF wrapping_sub
<1> QED
  BY <1>1, <1>2, <1>3

\* protocol.rs: of two different numbers exactly one is newer, unless they are
\* half a cycle apart, when neither is; so a frame and the frames before it
\* are never both taken for news, whatever the length of the cycle.
THEOREM NewerIsOneWay ==
    ASSUME NEW a \in Sequences16, NEW b \in Sequences16
    PROVE  /\ ~(is_newer_sequence(a, b) /\ is_newer_sequence(b, a))
           /\ a # b /\ wrapping_sub(a, b) # SeqMod \div 2
                  => is_newer_sequence(a, b) \/ is_newer_sequence(b, a)
<1>1. /\ SeqMod \in Nat /\ SeqMod = 2 * (SeqMod \div 2) /\ SeqMod \div 2 \in Nat
      /\ a \in 0 .. SeqMod - 1 /\ b \in 0 .. SeqMod - 1
  BY SeqModAssumption DEF Sequences16
<1>2. /\ wrapping_sub(a, b) = IF a >= b THEN a - b ELSE a - b + SeqMod
      /\ wrapping_sub(b, a) = IF b >= a THEN b - a ELSE b - a + SeqMod
  BY Differences
<1> HIDE DEF wrapping_sub
<1> QED
  BY <1>1, <1>2 DEF is_newer_sequence
=============================================================================
