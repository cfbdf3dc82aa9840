---------------------------- MODULE MCController ----------------------------
(***************************************************************************)
(* Small instances of Controller.  Each cfg picks its Sticks, Arrivals,    *)
(* UsbCommands and BootPresses from the definitions below.                 *)
(***************************************************************************)
EXTENDS Controller

CONSTANTS pad, car, other, third, garbage

Position(x, y, b) == [x |-> x, y |-> y, buttons |-> b]

\* Released, a held button, full ahead and a stick pushed aside.
MCSticks ==
    {Position(128, 128, {}), Position(128, 128, {"C"}), Position(128, 255, {}),
     Position(0, 128, {})}
Centred == {Position(128, 128, {}), Position(128, 128, Buttons)}

PairPayloads == {Repair, Ping, SetLed, SetMotorPwm(50), EnableRemoteTelemetry(TRUE),
                 ForPeer(garbage), garbage}
PairArrivals ==
    {PairAckFrame(s, pad) : s \in {car, other, third}}
        \cup {TunnelCmdFrame(car, pad, p) : p \in PairPayloads}
        \cup {TunnelCmdFrame(other, pad, Repair)}
        \cup {TunnelEvtFrame(s, pad, LedAck) : s \in {car, other}}
        \cup {ControlFrame(other, Broadcast, [sequence |-> 1, x |-> 128, y |-> 255, buttons |-> {}]),
              [kind |-> "Malformed", src |-> car, dst |-> pad]}
PairCommands == {Repair, SetLed, EnableRemoteTelemetry(TRUE), EnableRemoteTelemetry(FALSE),
                 ForPeer(garbage)}
AckOnly == {PairAckFrame(car, pad)}

ReadSlowOrQuick == {0, ReadTimeoutMs}
ReadQuick == {0}
NoCommands == {}
BothPresses == BOOLEAN
NoReset == {}
PlainReset == {FALSE}
NoPayloads == {}
=============================================================================
