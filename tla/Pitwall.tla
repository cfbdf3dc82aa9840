------------------------------ MODULE Pitwall ------------------------------
(***************************************************************************)
(* pitwall/: the host program.  A reader thread turns what comes from the  *)
(* board into messages on one channel and reports a lost port on another;  *)
(* the main thread connects, shows the telemetry and sends commands.       *)
(*                                                                         *)
(* The phases of the main thread are the values of ui_pc: "dial" is a turn *)
(* of handshake, "drain" and "keys" are the parts of a turn of run, and    *)
(* "send" is a write to the port that may have to wait.  A key press is    *)
(* the effect it has: the input line is not kept, only the line that Enter *)
(* submits.  Log, error count, history, drawing and the age of a panel are *)
(* left out.                                                               *)
(*                                                                         *)
(* COBS carries no checksum: the remains of a cut message and the message  *)
(* after it are one frame to the reader thread, which either drops it or   *)
(* reads it as one of the Misreads.                                        *)
(***************************************************************************)
EXTENDS UsbWire, Functions

CONSTANTS
    Lines,     \* lines the user may submit
    Misreads,  \* messages that the reader may find in a damaged frame
    Backlog    \* when so many messages wait, only a Pong is added to them,
               \* and only one: a bound of the model, the code's channel has none

ASSUME PitwallAssumption ==
    /\ Backlog \in Nat \ {0}
    /\ None \notin BoardKind \cup Decodable
    /\ Misreads \subseteq Decodable

VARIABLES
    port,       \* "open", "lost", or "closed" while no program runs
    reader,     \* the reader thread runs
    torn,       \* what cobs_buf reads next is not a message from its start
    misled,     \* a misread has been handed on in this run of the program; it
                \* exists for the properties, no guard reads it
    rx_msg,     \* messages from the reader thread
    rx_exit,    \* the reader thread has reported why it stopped
    ui_pc,      \* where the main thread is
    sending,    \* the command it is sending, or None
    gateway,    \* app.gateway
    connected,  \* app.connected
    panels      \* app.controller and app.vehicle

appVars == <<gateway, connected, panels>>
hostVars == <<port, reader, torn, misled, rx_msg, rx_exit, ui_pc, sending, appVars>>

NoTelemetry == [link |-> None, stick |-> None, duty |-> None]

HostInit ==
    /\ port = "open" /\ reader = TRUE /\ torn = FALSE
    /\ misled = FALSE
    /\ rx_msg = <<>> /\ rx_exit = FALSE
    /\ ui_pc = "dial" /\ sending = None
    /\ gateway = None /\ connected = FALSE
    /\ panels = [k \in BoardKind |-> NoTelemetry]

-----------------------------------------------------------------------------
(* The reader thread.                                                      *)

Surplus(m) == Len(rx_msg) >= Backlog /\ (m.ev = "Pong" => \E p \in Range(rx_msg) : p.ev = "Pong")

\* A fragment spoils the message that follows it.
CutForGood(m) == torn \/ m = Fragment
Cut(m) == m = Fragment

\* What the bytes of m may make cobs_buf return.
feed(m) ==
    IF m = Fragment THEN {None}
    ELSE IF torn THEN Misreads \cup {None}
    ELSE {m}

ReaderTakes ==
    /\ reader /\ port = "open"
    /\ to_host # <<>>
    /\ to_host' = Tail(to_host)
    /\ torn' = Cut(Head(to_host))
    /\ \E data \in feed(Head(to_host)) :
           IF data = None \/ Surplus(data) THEN UNCHANGED <<rx_msg, misled>>
           ELSE rx_msg' = Append(rx_msg, data) /\ misled' = (misled \/ torn)
    /\ UNCHANGED <<port, reader, rx_exit, ui_pc, sending, appVars, from_host>>

ReaderStops ==
    /\ reader /\ port = "lost"
    /\ reader' = FALSE
    /\ rx_exit' = TRUE
    /\ UNCHANGED <<port, torn, misled, rx_msg, ui_pc, sending, appVars, wires>>

ReaderStep == ReaderTakes \/ ReaderStops

-----------------------------------------------------------------------------
(* Sending.  A write that the line has no room for waits, at most 100 ms;  *)
(* a write that fails ends the program.                                    *)

Goto(next) == ui_pc' = next /\ UNCHANGED <<port, reader, torn, misled, rx_exit>>

\* Nothing outlives a program that ends.
Forget ==
    /\ misled' = FALSE
    /\ rx_msg' = <<>> /\ rx_exit' = FALSE
    /\ sending' = None
    /\ gateway' = None /\ connected' = FALSE
    /\ panels' = [k \in BoardKind |-> NoTelemetry]

Exit ==
    /\ ui_pc' = "ended"
    /\ port' = "closed" /\ reader' = FALSE /\ torn' = FALSE
    /\ Forget

send_host_msg ==
    /\ ui_pc = "send"
    /\ \/ /\ port = "open" /\ HasRoom
          /\ from_host' = from_host \o encode_host(sending)
          /\ Goto(IF gateway = None THEN "dial" ELSE "drain")
          /\ sending' = None
          /\ UNCHANGED <<rx_msg, appVars>>
       \/ port = "lost" /\ Exit /\ UNCHANGED from_host
    /\ UNCHANGED to_host

\* The write times out, or the program is killed during it.
Interrupted ==
    /\ ui_pc = "send" /\ port = "open"
    /\ \E n \in 0 .. FrameBytes - 1 :
           /\ Len(from_host) + n <= WireBytes
           /\ from_host' = from_host \o SubSeq(encode_host(sending), 1, n)
    /\ Exit
    /\ UNCHANGED to_host

-----------------------------------------------------------------------------
(* handshake.                                                              *)

DialLost ==
    /\ ui_pc = "dial" /\ rx_exit
    /\ Exit
    /\ UNCHANGED wires

\* Ten seconds have passed.
GiveUp ==
    /\ ui_pc = "dial"
    /\ Exit
    /\ UNCHANGED wires

HandshakeTurn == ui_pc = "dial" /\ ~rx_exit

HearPong ==
    /\ HandshakeTurn /\ rx_msg # <<>>
    /\ Head(rx_msg).ev = "Pong"
    /\ rx_msg' = Tail(rx_msg)
    /\ gateway' = Head(rx_msg).board
    /\ connected' = TRUE
    /\ Goto("drain")
    /\ UNCHANGED <<sending, panels, wires>>

HearOther ==
    /\ HandshakeTurn /\ rx_msg # <<>>
    /\ Head(rx_msg).ev # "Pong"
    /\ rx_msg' = Tail(rx_msg)
    /\ Goto("dial")
    /\ UNCHANGED <<sending, appVars, wires>>

\* Nothing heard, and half a second since the last ping.
SendPing ==
    /\ HandshakeTurn /\ rx_msg = <<>>
    /\ sending' = Ping
    /\ Goto("send")
    /\ UNCHANGED <<rx_msg, appVars, wires>>

-----------------------------------------------------------------------------
(* run: telemetry.                                                         *)

apply_telemetry(b, e) ==
    IF e.ev = "EspNowLinkState" THEN [b EXCEPT !.link = e.state]
    ELSE IF e.ev \in {"JoystickState", "ReceivedPacket"} THEN [b EXCEPT !.stick = e.y]
    ELSE IF e.ev = "MotorState" THEN [b EXCEPT !.duty = e.duty]
    ELSE b

\* The panel a message is shown on: telemetry of the board on USB belongs to
\* the gateway, relayed telemetry to its source.
ByGateway(m) == gateway
Producer(m) == IF m.ev = "FromPeer" THEN m.source ELSE gateway
Telemetered(m) == IF m.ev = "FromPeer" THEN m.payload ELSE m

Ingest ==
    /\ ui_pc = "drain" /\ rx_msg # <<>>
    /\ rx_msg' = Tail(rx_msg)
    /\ LET m == Head(rx_msg)
       IN  \/ /\ m.ev = "Pong"
              /\ gateway' = m.board
              /\ connected' = TRUE
              /\ UNCHANGED panels
           \/ m.ev = "Error" /\ UNCHANGED <<gateway, connected, panels>>
           \/ /\ m.ev \notin {"Pong", "Error"}
              /\ panels' = [panels EXCEPT ![Producer(m)] = apply_telemetry(@, Telemetered(m))]
              /\ UNCHANGED <<gateway, connected>>
    /\ Goto("drain")
    /\ UNCHANGED <<sending, wires>>

\* The channel is empty: has the reader stopped?  What it does between the two
\* looks it may as well do after them.
CheckExit ==
    /\ ui_pc = "drain" /\ rx_msg = <<>>
    /\ ui_pc' = "keys"
    /\ rx_exit' = FALSE
    /\ connected' = (connected /\ ~rx_exit)
    /\ UNCHANGED <<port, reader, torn, misled, rx_msg, sending, gateway, panels, wires>>

-----------------------------------------------------------------------------
(* run: keys.                                                              *)

Clamp100(n) == IF n > 100 THEN 100 ELSE IF n < -100 THEN -100 ELSE n

parse_plain(line) ==
    IF line.word = "motor_pwm"
    THEN IF line.arg \in I8 THEN SetMotorPwm(Clamp100(line.arg)) ELSE None
    ELSE IF line.word \in {"motor_en", "remote_tele", "led", "ping", "repair"}
    THEN line.arg
    ELSE None

\* "peer <cmd>" wraps what <cmd> parses to.
parse_command(line) ==
    IF line.word # "peer" THEN parse_plain(line)
    ELSE IF parse_plain(line.arg) = None THEN None ELSE ForPeer(parse_plain(line.arg))

\* What the words of a line may be followed by.
PlainLine ==
    [word : {"motor_pwm"}, arg : Int]
        \cup [word : {"motor_en", "remote_tele", "led", "ping", "repair"}, arg : HostToBoard]

ASSUME LinesAssumption ==
    \A l \in Lines :
        \/ l \in PlainLine
        \/ /\ l.word = "peer" /\ l.arg \in PlainLine
           /\ parse_plain(l.arg) \in Option(Payloads)

KeyTurn == ui_pc = "keys" /\ UNCHANGED <<rx_msg, gateway, connected, panels, wires>>

\* No key within 50 ms, one that edits the line or opens or closes the help,
\* an empty or unknown line.
NoCommand ==
    /\ KeyTurn
    /\ Goto("drain")
    /\ UNCHANGED sending

\* Enter; not while the help is open.
Submit ==
    /\ KeyTurn
    /\ \E l \in Lines : parse_command(l) # None /\ sending' = parse_command(l)
    /\ Goto("send")

\* Esc, Ctrl+C or "quit".
Quit ==
    /\ ui_pc = "keys"
    /\ Exit
    /\ UNCHANGED wires

UiStep ==
    \/ DialLost \/ GiveUp
    \/ HearPong \/ HearOther \/ SendPing
    \/ send_host_msg
    \/ Ingest \/ CheckExit
    \/ NoCommand \/ Submit \/ Quit

-----------------------------------------------------------------------------
(* The world around the program.                                           *)

\* The program is started (again).  What the line still held for the host
\* may be gone, in part or all of it, the start of a message too.
Start ==
    /\ ui_pc = "ended"
    /\ ui_pc' = "dial"
    /\ port' = "open" /\ reader' = TRUE /\ torn' \in BOOLEAN
    /\ Forget
    /\ \E n \in 0 .. Len(to_host) : to_host' = SubSeq(to_host, n + 1, Len(to_host))
    /\ UNCHANGED from_host

\* The cable is pulled.
Unplug ==
    /\ port = "open"
    /\ port' = "lost"
    /\ from_host' = <<>> /\ to_host' = <<>>
    /\ UNCHANGED <<reader, torn, misled, rx_msg, rx_exit, ui_pc, sending, appVars>>
=============================================================================
