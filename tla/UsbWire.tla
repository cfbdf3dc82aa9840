------------------------------ MODULE UsbWire ------------------------------
(***************************************************************************)
(* The USB serial line between a host and a board, and the COBS framing of *)
(* common_host_proto/src/lib.rs on it.                                     *)
(*                                                                         *)
(* Towards the board every byte counts, because the board reassembles the  *)
(* frames itself: a command is FrameBytes bytes, the last of which is the  *)
(* terminator.  A byte is the command it belongs to and its place there.   *)
(* Towards the host the line carries whole messages; a message that was    *)
(* cut off leaves a Fragment, which the reader joins to the next message.  *)
(***************************************************************************)
EXTENDS HostProtocol

CONSTANTS
    FrameBytes,  \* length of an encoded command
    WireBytes,   \* bytes the line holds towards the board
    WireMsgs,    \* messages the line holds towards the host
    Garbage,     \* what decode_host makes of a frame that is no message
    Fragment     \* the remains of a message towards the host

ASSUME WireAssumption ==
    /\ FrameBytes \in Nat \ {0, 1}
    /\ WireBytes \in Nat /\ WireBytes >= FrameBytes
    /\ WireMsgs \in Nat \ {0}
    /\ Garbage \notin HostToBoard
    /\ Fragment \notin BoardToHost \cup Reply

VARIABLES
    from_host,  \* bytes on their way to the board
    to_host     \* messages on their way to the host

wires == <<from_host, to_host>>

encode_host(c) == [i \in 1 .. FrameBytes |-> [msg |-> c, at |-> i]]

Byte == [msg : HostToBoard, at : 1 .. FrameBytes]
IsTerminator(b) == b.at = FrameBytes
IsWhole(frame) == frame = encode_host(frame[1].msg)

HasRoom == Len(from_host) + FrameBytes <= WireBytes
=============================================================================
