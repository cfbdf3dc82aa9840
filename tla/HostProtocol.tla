---------------------------- MODULE HostProtocol ----------------------------
(***************************************************************************)
(* common_host_proto/src/lib.rs: the messages between a USB host and the   *)
(* boards, and the payloads that are relayed between the boards.           *)
(*                                                                         *)
(* A payload is the raw postcard encoding of a message.  A decoder either  *)
(* returns the message that was encoded or fails, so a payload is that     *)
(* message itself, or some member of Payloads that is no message at all.   *)
(* LED colours and the measured currents and voltages are left out.        *)
(***************************************************************************)
EXTENDS ControlProtocol

CONSTANT Payloads  \* relay payloads that may travel in ForPeer and TunnelCmd

I8 == -128 .. 127
I16 == -32768 .. 32767

LinkStates == {"AwaitingFirstPacket", "Alive", "TimedOut"}
BoardKind == {"Controller", "Vehicle"}

Ping == [op |-> "Ping"]
SetLed == [op |-> "SetLed"]
Repair == [op |-> "Repair"]
SetMotorEnable(r, l) == [op |-> "SetMotorEnable", r_en |-> r, l_en |-> l]
SetMotorPwm(d) == [op |-> "SetMotorPwm", duty |-> d]
EnableRemoteTelemetry(on) == [op |-> "EnableRemoteTelemetry", on |-> on]
ForPeer(p) == [op |-> "ForPeer", payload |-> p]

HostToBoard ==
    {Ping, SetLed, Repair}
        \cup [op : {"SetMotorEnable"}, r_en : BOOLEAN, l_en : BOOLEAN]
        \cup [op : {"SetMotorPwm"}, duty : I8]
        \cup [op : {"EnableRemoteTelemetry"}, on : BOOLEAN]
        \cup [op : {"ForPeer"}, payload : Payloads]

\* decode_host_payload fails on a payload that is no host message.
HostPayloadDecodes(p) == p \in HostToBoard

LedAck == [ev |-> "LedAck"]
CurrentSense == [ev |-> "CurrentSense"]
CurrentSenseRaw(d) == [ev |-> "CurrentSenseRaw", duty |-> d]
MotorState(d) == [ev |-> "MotorState", duty |-> d]
EspNowLinkState(k) == [ev |-> "EspNowLinkState", state |-> k]
ReceivedPacket(p) ==
    [ev |-> "ReceivedPacket", x |-> p.x, y |-> p.y, buttons |-> p.buttons]
JoystickState(j) ==
    [ev |-> "JoystickState", x |-> j.x, y |-> j.y, buttons |-> j.buttons]
FromPeer(source, event) ==
    [ev |-> "FromPeer", source |-> source, payload |-> event]

\* Replies of the USB task; they never come from a main loop.
Pong(board) == [ev |-> "Pong", board |-> board]
Error(kind) == [ev |-> "Error", kind |-> kind]
HostError == {"NotApplicable", "ParseError", "Busy"}
Reply == [ev : {"Pong"}, board : BoardKind] \cup [ev : {"Error"}, kind : HostError]

\* The events a board produces itself; only these are ever relayed.
Telemetry ==
    {LedAck, CurrentSense}
        \cup [ev : {"CurrentSenseRaw", "MotorState"}, duty : I8]
        \cup [ev : {"EspNowLinkState"}, state : LinkStates]
        \cup [ev : {"ReceivedPacket", "JoystickState"},
              x : Bytes, y : Bytes, buttons : SUBSET Buttons]

BoardToHost ==
    Telemetry \cup [ev : {"FromPeer"}, source : BoardKind, payload : Telemetry]

\* What decode_board may return, damaged frames included: duties are 16 bits
\* wide, and a relayed payload may decode to nothing that a panel shows.
Opaque == [ev |-> "Opaque"]
AnyTelemetry ==
    Telemetry \cup [ev : {"CurrentSenseRaw", "MotorState"}, duty : I16] \cup {Opaque}
Decodable ==
    AnyTelemetry
        \cup [ev : {"FromPeer"}, source : BoardKind, payload : AnyTelemetry]
        \cup [ev : {"Pong"}, board : BoardKind]
        \cup [ev : {"Error"}, kind : HostError \cup {"FrameTooLarge"}]
=============================================================================
