------------------------------ MODULE UsbLink ------------------------------
(***************************************************************************)
(* vehicle/src/usb_link.rs and controller/src/usb_link.rs: the task that   *)
(* reassembles commands from the USB bytes, answers them or forwards them  *)
(* to the main loop, and writes the loop's events to the host.             *)
(*                                                                         *)
(* The task and the main loop share a cooperative executor: the loop runs  *)
(* only while the task awaits, that is in "select" and in "write", never   *)
(* between two bytes of a chunk ("bytes").                                 *)
(*                                                                         *)
(* The main loop is seen through the two channels: in a turn it takes all  *)
(* that is in CMDS and offers some events to EVENTS.                       *)
(***************************************************************************)
EXTENDS UsbWire

CONSTANTS
    Board,        \* the board's kind
    Forwarded,    \* commands handle_cmd forwards; the board ignores others
    MaxFrame,     \* MAX_FRAME_BYTES, 64 in the code
    ChunkBytes,   \* the read buffer, 16 in the code
    EventsDepth,  \* capacity of EVENTS, 8 in the code
    CmdsDepth,    \* capacity of CMDS, 4 in the code
    Bursts,       \* events the loop may offer in one turn
    Accidents     \* commands that the decoder may find in a damaged frame

ASSUME UsbLinkAssumption ==
    /\ Board \in BoardKind
    /\ Forwarded \subseteq HostToBoard \ {Ping}
    /\ MaxFrame \in Nat /\ MaxFrame >= FrameBytes
    /\ ChunkBytes \in Nat \ {0}
    /\ EventsDepth \in Nat \ {0} /\ CmdsDepth \in Nat \ {0}
    /\ Accidents \subseteq HostToBoard
    /\ None \notin BoardToHost \cup Reply
    /\ \A burst \in Bursts : burst \in Seq(BoardToHost)

VARIABLES
    usb_pc,    \* where the task is
    rx_frame,  \* rx_frame[..rx_pos]
    chunk,     \* the bytes of chunk[..n] not looked at yet
    out,       \* the message being written, or None
    events,    \* the EVENTS channel
    cmds       \* the CMDS channel

usbVars == <<usb_pc, rx_frame, chunk, out, events, cmds>>

UsbInit ==
    /\ usb_pc = "select"
    /\ rx_frame = <<>> /\ chunk = <<>>
    /\ out = None
    /\ events = <<>> /\ cmds = <<>>

-----------------------------------------------------------------------------
(* The select: events come first.                                          *)

TakeEvent ==
    /\ usb_pc = "select"
    /\ events # <<>>
    /\ out' = Head(events)
    /\ events' = Tail(events)
    /\ usb_pc' = "write"
    /\ UNCHANGED <<rx_frame, chunk, cmds, wires>>

ReadChunk ==
    /\ usb_pc = "select"
    /\ events = <<>>
    /\ \E n \in 1 .. ChunkBytes :
           /\ n <= Len(from_host)
           /\ chunk' = SubSeq(from_host, 1, n)
           /\ from_host' = SubSeq(from_host, n + 1, Len(from_host))
    /\ usb_pc' = "bytes"
    /\ UNCHANGED <<rx_frame, out, events, cmds, to_host>>

ReadFails ==
    /\ usb_pc = "select"
    /\ events = <<>>
    /\ rx_frame' = <<>>
    /\ UNCHANGED <<usb_pc, chunk, out, events, cmds, wires>>

-----------------------------------------------------------------------------
(* The bytes of a chunk.  A byte that finds the frame full is dropped and  *)
(* the frame with it.                                                      *)

Stored(b) == IF Len(rx_frame) < MaxFrame THEN Append(rx_frame, b) ELSE <<>>

decode_host(frame) == IF IsWhole(frame) THEN {frame[1].msg} ELSE Accidents \cup {Garbage}

\* Where the task goes on after a chunk's byte or a reply.
Resume(rest) == IF rest = <<>> THEN "select" ELSE "bytes"

Forward(c) ==
    /\ c \in Forwarded
    /\ Len(cmds) < CmdsDepth
    /\ cmds' = Append(cmds, c)
    /\ UNCHANGED out

ReplyTo(c) ==
    IF c = Ping THEN Pong(Board)
    ELSE IF c = Garbage THEN Error("ParseError")
    ELSE IF c \in Forwarded THEN Error("Busy")
    ELSE Error("NotApplicable")

Refuse(c) ==
    /\ c \in Forwarded => Len(cmds) = CmdsDepth
    /\ out' = ReplyTo(c)
    /\ UNCHANGED cmds

handle_cmd(c) == Forward(c) \/ Refuse(c)

KeptFrame(frame) == frame
NextFrame(frame) == <<>>

EndsFrame(b) == IsTerminator(b) /\ Stored(b) # <<>>

StoreByte ==
    /\ usb_pc = "bytes"
    /\ ~EndsFrame(Head(chunk))
    /\ rx_frame' = Stored(Head(chunk))
    /\ chunk' = Tail(chunk)
    /\ usb_pc' = Resume(chunk')
    /\ UNCHANGED <<out, events, cmds, wires>>

EndFrame ==
    /\ usb_pc = "bytes"
    /\ EndsFrame(Head(chunk))
    /\ \E c \in decode_host(Stored(Head(chunk))) : handle_cmd(c)
    /\ rx_frame' = NextFrame(Stored(Head(chunk)))
    /\ chunk' = Tail(chunk)
    /\ usb_pc' = IF out' = None THEN Resume(chunk') ELSE "write"
    /\ UNCHANGED <<events, wires>>

\* write_all and flush return once the line has taken the message.
WriteOut ==
    /\ usb_pc = "write"
    /\ Len(to_host) < WireMsgs
    /\ to_host' = Append(to_host, out)
    /\ out' = None
    /\ usb_pc' = Resume(chunk)
    /\ UNCHANGED <<rx_frame, chunk, events, cmds, from_host>>

UsbStep == TakeEvent \/ ReadChunk \/ StoreByte \/ EndFrame \/ WriteOut

-----------------------------------------------------------------------------
(* The main loop and a reset of the board.                                 *)

\* try_send drops what finds EVENTS full.
Offered(burst) ==
    LET all == events \o burst
    IN  IF Len(all) > EventsDepth THEN SubSeq(all, 1, EventsDepth) ELSE all

LoopTurn ==
    /\ usb_pc # "bytes"
    /\ cmds' = <<>>
    /\ \E burst \in Bursts : events' = Offered(burst)
    /\ UNCHANGED <<usb_pc, rx_frame, chunk, out, wires>>

\* Some of what is on the line may be gone with the board's FIFO, and a
\* message being written is cut off.
BoardReset ==
    /\ usb_pc' = "select"
    /\ rx_frame' = <<>> /\ chunk' = <<>>
    /\ out' = None
    /\ events' = <<>> /\ cmds' = <<>>
    /\ \E n \in 0 .. Len(from_host) : from_host' = SubSeq(from_host, n + 1, Len(from_host))
    /\ to_host' \in {to_host} \cup
           IF out # None /\ Len(to_host) < WireMsgs THEN {Append(to_host, Fragment)} ELSE {}
=============================================================================
