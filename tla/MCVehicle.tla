----------------------------- MODULE MCVehicle -----------------------------
(***************************************************************************)
(* Small instances of Vehicle.  Each cfg picks its Arrivals, UsbCommands   *)
(* and BootPresses from the definitions below.                             *)
(***************************************************************************)
EXTENDS Vehicle

CONSTANTS car, pad, other, garbage

MCMacs == {car, pad, other}

Packet(n, y, b) == [sequence |-> n, x |-> 128, y |-> y, buttons |-> b]
From(src, dst, ps) == {ControlFrame(src, dst, p) : p \in ps}

\* Centred, full ahead, full astern, and the brake with the stick ahead.
DrivePackets ==
    {Packet(0, 127, {}), Packet(1, 255, {}), Packet(2, 0, {}), Packet(3, 255, {"C"})}

\* One controller and every kind of stick position; the override at the
\* extremes of i8.
DriveArrivals == From(pad, car, DrivePackets)
DriveCommands ==
    {SetMotorPwm(-128), SetMotorPwm(50), SetMotorPwm(0), SetMotorEnable(FALSE, TRUE)}

\* One controller, one drive packet per sequence number.
OneSender == From(pad, car, {Packet(n, 255, {}) : n \in Sequences16})
TwoSenders == OneSender \cup From(other, Broadcast, {Packet(n, 255, {}) : n \in Sequences16})

\* Pairing: two controllers, on the broadcast address or on ours, and every
\* other kind of frame.
PairPayloads == {Repair, Ping, SetLed, SetMotorPwm(50), EnableRemoteTelemetry(TRUE),
                 ForPeer(garbage), garbage}
PairArrivals ==
    From(pad, Broadcast, {Packet(0, 255, {})})
        \cup From(pad, car, {Packet(1, 127, {})})
        \cup From(other, Broadcast, {Packet(1, 0, {})})
        \cup {TunnelCmdFrame(pad, car, p) : p \in PairPayloads}
        \cup {TunnelCmdFrame(other, car, Repair), TunnelCmdFrame(other, car, SetMotorPwm(50))}
        \cup {TunnelEvtFrame(s, car, LedAck) : s \in {pad, other}}
        \cup {PairAckFrame(other, car), [kind |-> "Malformed", src |-> pad, dst |-> car]}
PairCommands == {Repair, SetLed, EnableRemoteTelemetry(TRUE), EnableRemoteTelemetry(FALSE), ForPeer(garbage)}

NoCommands == {}
BothPresses == BOOLEAN
NoReset == {}
PlainReset == {FALSE}
NoPayloads == {}
=============================================================================
