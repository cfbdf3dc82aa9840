----------------------------- MODULE EspNowLink -----------------------------
(***************************************************************************)
(* common_comms/src/espnow.rs over common_comms/src/frame.rs: the link     *)
(* object that both boards own.  The link is a record; every method of the *)
(* program that changes it is an operator from the old to the new record.  *)
(***************************************************************************)
EXTENDS HostProtocol, FiniteSets

CONSTANTS
    MaxPeers,   \* capacity of the radio's peer list
    RxDepth     \* capacity of the radio's receive queue

ASSUME LinkAssumption ==
    /\ MaxPeers \in Nat \ {0}
    /\ RxDepth \in Nat \ {0}

-----------------------------------------------------------------------------
(* Frames: the envelope, with the addresses the radio reports.             *)

Destinations == Macs \cup {Broadcast}

ControlFrame(src, dst, p) ==
    [kind |-> "Control", src |-> src, dst |-> dst, packet |-> p]
TunnelCmdFrame(src, dst, p) ==
    [kind |-> "TunnelCmd", src |-> src, dst |-> dst, bytes |-> p]
TunnelEvtFrame(src, dst, e) ==
    [kind |-> "TunnelEvt", src |-> src, dst |-> dst, bytes |-> e]
PairAckFrame(src, dst) == [kind |-> "PairAck", src |-> src, dst |-> dst]

\* A Malformed frame is one decode_frame or from_bytes rejects.
Frame ==
    [kind : {"Control"}, src : Macs, dst : Destinations, packet : ControlPacket]
        \cup [kind : {"TunnelCmd"}, src : Macs, dst : Destinations, bytes : Payloads]
        \cup [kind : {"TunnelEvt"}, src : Macs, dst : Destinations, bytes : Telemetry]
        \cup [kind : {"PairAck", "Malformed"}, src : Macs, dst : Destinations]

\* The radio's receive queue when one more frame comes in.  The code only
\* knows its depth: a frame that finds it full may be lost or may push out
\* the oldest one.
Enqueued(q, f) ==
    IF Len(q) < RxDepth THEN {Append(q, f)} ELSE {q, Append(Tail(q), f)}

-----------------------------------------------------------------------------
(* The link object.                                                        *)

Link == [paired_peer : Option(Macs), last_sequence : Option(Sequences16),
         peers : SUBSET Macs]

NewLink == [paired_peer |-> None, last_sequence |-> None, peers |-> {}]

is_paired(l) == l.paired_peer # None

\* Transport::add_peer: idempotent, fails only when the peer list is full.
AddPeerSucceeds(l, mac) == mac \in l.peers \/ Cardinality(l.peers) < MaxPeers

\* learn_peer if the answer of add_peer were ignored.
LearnAnyway(l, mac) ==
    [l EXCEPT !.paired_peer = mac,
              !.peers = IF Cardinality(@) < MaxPeers THEN @ \cup {mac} ELSE @]

learn_peer(l, mac) ==
    IF AddPeerSucceeds(l, mac)
    THEN [l EXCEPT !.paired_peer = mac, !.peers = @ \cup {mac}]
    ELSE l

\* The peer stays on the radio's own list: nothing ever removes it there.
reset_pairing(l) == [l EXCEPT !.paired_peer = None, !.last_sequence = None]

ResetNothing(l) == l
reset_sequence(l) == [l EXCEPT !.last_sequence = None]

\* Where the radio can send: to everyone, and to the peers on its list.
Reachable(l) == {Broadcast} \cup l.peers

ControlDestination(l) == IF is_paired(l) THEN l.paired_peer ELSE Broadcast

\* send_tunnel_cmd, send_tunnel_evt and send_pair_ack fail while unpaired.
SendToPeer(l, frame) == IF is_paired(l) THEN <<frame>> ELSE <<>>

\* Anything is fresh while no sequence number has been recorded.
IsFresh(l, p) ==
    \A last \in {l.last_sequence} \ {None} : is_newer_sequence(last, p.sequence)

\* try_receive returns Ok(Some(_)), as opposed to an error the caller skips.
Delivers(l, f) ==
    /\ f.kind # "Malformed"
    /\ f.kind = "Control" => IsFresh(l, f.packet)

\* The link after try_receive has looked at f.  The sequence number advances
\* for every fresh control frame, whoever sent it.
AfterReceive(l, f) ==
    IF f.kind = "Control" /\ IsFresh(l, f.packet)
    THEN [l EXCEPT !.last_sequence = f.packet.sequence]
    ELSE l
=============================================================================
