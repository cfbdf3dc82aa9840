------------------------------ MODULE Vehicle ------------------------------
(***************************************************************************)
(* vehicle/src/main.rs: the vehicle board.  One main loop that drains the  *)
(* radio, runs the link state machine, drains the USB commands, holds the  *)
(* manual override, samples the current and sleeps.                        *)
(*                                                                         *)
(* The loop's phases are the values of pc.  "boot" (the calibration of the *)
(* current sense), "blink", "sense" and "sleep" are the awaits: only there *)
(* may the USB task, which shares the cooperative executor, put a command  *)
(* into CMDS.  The radio stack is not cooperative: a frame may arrive in   *)
(* every phase.                                                            *)
(*                                                                         *)
(* Real time passes in the blink and in the sleep; the other phases, the   *)
(* current measurement included, are taken to be instantaneous.  The LED   *)
(* colour is left out; SetLed keeps its acknowledgement.                   *)
(***************************************************************************)
EXTENDS EspNowLink, LinkWatchdog, PairingStore, HBridge, Drive

CONSTANTS
    Self,          \* the vehicle's own address
    Arrivals,      \* frames the radio may deliver
    UsbCommands,   \* commands the USB task may put into CMDS
    CmdsDepth,     \* capacity of CMDS, 4 in the code
    MaxRxDrain,    \* MAX_RX_DRAIN_PER_TICK, 8 in the code
    SensePeriod,   \* ticks between two current measurements, 4 in the code
    BlinkMs,       \* length of the two connection blinks, 800 in the code
    BootPresses    \* states of the BOOT button at a reset; {}: no reset

ASSUME VehicleAssumption ==
    /\ Self \in Macs
    /\ Arrivals \subseteq Frame
    /\ UsbCommands \subseteq HostToBoard \ {Ping}
    /\ CmdsDepth \in Nat \ {0}
    /\ MaxRxDrain \in Nat \ {0}
    /\ SensePeriod \in Nat \ {0}
    /\ BlinkMs \in Nat
    /\ BootPresses \subseteq BOOLEAN

\* Beyond this much silence quiet_ms no longer tells states apart.
QuietCap == LinkTimeoutMs + LoopIntervalMs + BlinkMs + 1

VARIABLES
    pc,              \* phase of the main loop
    drained,         \* frames taken in this drain
    rx,              \* receive queue of the radio
    link,            \* the EspNowLink
    flash,           \* what the pairing record in flash loads as
    watchdog,        \* the LinkWatchdog
    last_state,      \* s.last_state
    tick,            \* s.tick, modulo SensePeriod
    motor,           \* the H-bridge
    manual_pwm,      \* s.manual_pwm
    last_duty,       \* s.last_duty
    stream_to_peer,  \* s.stream_to_peer
    cmds,            \* the CMDS channel
    sent,            \* frames handed to the radio in the last step
    emitted,         \* events offered to the EVENTS channel in the last step
    quiet_ms         \* real time since the last accepted control frame

radioVars == <<drained, rx>>
linkVars == <<link, flash, watchdog, last_state>>
driveVars == <<motor, manual_pwm, last_duty, stream_to_peer>>
vars == <<pc, drained, rx, link, flash, watchdog, last_state, tick, motor,
          manual_pwm, last_duty, stream_to_peer, cmds, sent, emitted, quiet_ms>>

-----------------------------------------------------------------------------
(* Boot.                                                                   *)

BootLink(stored) == IF stored = None THEN NewLink ELSE learn_peer(NewLink, stored)

Init ==
    /\ pc = "boot"
    /\ drained = 0
    /\ rx = <<>>
    /\ flash \in Option(Macs \ {Self})
    /\ link = BootLink(flash)
    /\ watchdog = NewWatchdog
    /\ last_state = "AwaitingFirstPacket"
    /\ tick = 1 % SensePeriod
    /\ motor = BootMotor
    /\ manual_pwm = None
    /\ last_duty = 0
    /\ stream_to_peer = FALSE
    /\ cmds = <<>>
    /\ sent = <<>>
    /\ emitted = <<>>
    /\ quiet_ms = 0

\* A reset at any moment.  With BOOT held the pairing record is cleared
\* before it is loaded.
Reboot(held) ==
    /\ pc' = "boot"
    /\ drained' = 0
    /\ rx' = <<>>
    /\ flash' \in IF held THEN FlashWrite(flash, None) ELSE {flash}
    /\ link' = BootLink(flash')
    /\ watchdog' = NewWatchdog
    /\ last_state' = "AwaitingFirstPacket"
    /\ tick' = 1 % SensePeriod
    /\ motor' = BootMotor
    /\ manual_pwm' = None
    /\ last_duty' = 0
    /\ stream_to_peer' = FALSE
    /\ cmds' = <<>>
    /\ sent' = <<>>
    /\ emitted' = <<>>
    /\ quiet_ms' = 0

-----------------------------------------------------------------------------
(* Telemetry and commands.                                                 *)

Quietly == sent' = <<>> /\ emitted' = <<>>

\* Every event goes to the USB host and, while streaming, to the peer.
emit_telemetry(l, acks, events) ==
    /\ emitted' = events
    /\ sent' = acks \o
           IF stream_to_peer /\ is_paired(l)
           THEN [i \in DOMAIN events |->
                    TunnelEvtFrame(Self, l.paired_peer, events[i])]
           ELSE <<>>

ApplySetLed(cmd) ==
    /\ cmd.op = "SetLed"
    /\ emitted' = <<LedAck>>
    /\ sent' = <<>>
    /\ UNCHANGED <<driveVars, link, flash>>

ApplySetMotorEnable(cmd) ==
    /\ cmd.op = "SetMotorEnable"
    /\ motor' = set_enables(motor, cmd.r_en, cmd.l_en)
    /\ Quietly
    /\ UNCHANGED <<manual_pwm, last_duty, stream_to_peer, link, flash>>

ApplySetMotorPwm(cmd) ==
    /\ cmd.op = "SetMotorPwm"
    /\ manual_pwm' = cmd.duty
    /\ motor' = set_pwm(motor, cmd.duty)
    /\ last_duty' = cmd.duty
    /\ emit_telemetry(link, <<>>, <<MotorState(cmd.duty)>>)
    /\ UNCHANGED <<stream_to_peer, link, flash>>

ApplyEnableRemoteTelemetry(cmd) ==
    /\ cmd.op = "EnableRemoteTelemetry"
    /\ stream_to_peer' = cmd.on
    /\ Quietly
    /\ UNCHANGED <<motor, manual_pwm, last_duty, link, flash>>

ApplyRepair(cmd) ==
    /\ cmd.op = "Repair"
    /\ flash' \in FlashWrite(flash, None)
    /\ link' = reset_pairing(link)
    /\ Quietly
    /\ UNCHANGED driveVars

ApplyForPeer(cmd) ==
    /\ cmd.op = "ForPeer"
    /\ sent' = SendToPeer(link, TunnelCmdFrame(Self, link.paired_peer, cmd.payload))
    /\ emitted' = <<>>
    /\ UNCHANGED <<driveVars, link, flash>>

ApplyOther(cmd) ==
    /\ cmd.op = "Ping"
    /\ Quietly
    /\ UNCHANGED <<driveVars, link, flash>>

apply_local_cmd(cmd) ==
    \/ ApplySetLed(cmd)
    \/ ApplySetMotorEnable(cmd)
    \/ ApplySetMotorPwm(cmd)
    \/ ApplyEnableRemoteTelemetry(cmd)
    \/ ApplyRepair(cmd)
    \/ ApplyForPeer(cmd)
    \/ ApplyOther(cmd)

\* calibrate_offset returns and the main loop starts.
Calibrated ==
    /\ pc = "boot"
    /\ pc' = "drain"
    /\ Quietly
    /\ UNCHANGED <<radioVars, linkVars, tick, driveVars, cmds, quiet_ms>>

-----------------------------------------------------------------------------
(* The receive drain.                                                      *)

AcceptsAnyone(l, source) == TRUE
AcceptsControl(l, source) == ~is_paired(l) \/ l.paired_peer = source
AcceptsTunnel(l, source) == l.paired_peer = source

TakeFrame ==
    /\ pc = "drain"
    /\ drained < MaxRxDrain
    /\ rx # <<>>
    /\ rx' = Tail(rx)
    /\ drained' = drained + 1

\* A frame with no effect but for the sequence number: one that does not
\* decode or is stale, a PairAck, one from a board that is not the peer, or
\* a tunnelled command that is no host message.
SkipFrame ==
    /\ TakeFrame
    /\ LET f == Head(rx)
       IN  /\ \/ ~Delivers(link, f)
              \/ f.kind = "PairAck"
              \/ f.kind = "Control" /\ ~AcceptsControl(link, f.src)
              \/ /\ f.kind \in {"TunnelCmd", "TunnelEvt"}
                 /\ ~AcceptsTunnel(link, f.src)
              \/ f.kind = "TunnelCmd" /\ ~HostPayloadDecodes(f.bytes)
           /\ link' = AfterReceive(link, f)
    /\ Quietly
    /\ UNCHANGED <<pc, flash, watchdog, last_state, tick, driveVars, cmds, quiet_ms>>

\* The operator's brake button, the joystick, or the override that holds
\* while the joystick is centred.
ActOnPacket(p) ==
    \/ /\ "C" \in p.buttons
       /\ manual_pwm' = None
       /\ motor' = brake(motor)
       /\ last_duty' = 0
    \/ /\ "C" \notin p.buttons
       /\ y_to_duty(p.y) # 0 \/ manual_pwm = None
       /\ manual_pwm' = None
       /\ motor' = set_pwm(motor, y_to_duty(p.y))
       /\ last_duty' = y_to_duty(p.y)
    \/ /\ "C" \notin p.buttons
       /\ y_to_duty(p.y) = 0 /\ manual_pwm # None
       /\ UNCHANGED <<motor, manual_pwm>>
       /\ last_duty' = manual_pwm

AnswersNewcomers(l, f) == f.dst = Broadcast /\ ~is_paired(l)

\* A controller that broadcasts has not learned the vehicle yet, or again.
AnswersPairing(l, f) == f.dst = Broadcast

HandleControl ==
    /\ TakeFrame
    /\ LET f == Head(rx)
           received == AfterReceive(link, f)
       IN  /\ f.kind = "Control"
           /\ Delivers(link, f)
           /\ AcceptsControl(link, f.src)
           /\ link' = IF is_paired(link) THEN received ELSE learn_peer(received, f.src)
           /\ IF ~is_paired(link) /\ is_paired(link')
              THEN flash' \in FlashWrite(flash, f.src)
              ELSE UNCHANGED flash
           /\ ActOnPacket(f.packet)
           /\ emit_telemetry(link',
                  IF AnswersPairing(link, f)
                  THEN SendToPeer(link', PairAckFrame(Self, link'.paired_peer))
                  ELSE <<>>,
                  <<ReceivedPacket(f.packet), MotorState(last_duty')>>)
    /\ watchdog' = record_valid_packet(watchdog)
    /\ quiet_ms' = 0
    /\ UNCHANGED <<pc, last_state, tick, stream_to_peer, cmds>>

HandleTunnelCmd ==
    /\ TakeFrame
    /\ LET f == Head(rx)
       IN  /\ f.kind = "TunnelCmd"
           /\ AcceptsTunnel(link, f.src)
           /\ HostPayloadDecodes(f.bytes)
           /\ apply_local_cmd(f.bytes)
    /\ UNCHANGED <<pc, watchdog, last_state, tick, cmds, quiet_ms>>

HandleTunnelEvt ==
    /\ TakeFrame
    /\ LET f == Head(rx)
       IN  /\ f.kind = "TunnelEvt"
           /\ AcceptsTunnel(link, f.src)
           /\ emitted' = <<FromPeer("Controller", f.bytes)>>
    /\ sent' = <<>>
    /\ UNCHANGED <<pc, linkVars, tick, driveVars, cmds, quiet_ms>>

QueueEmpty == rx = <<>>
DrainOver == rx = <<>> \/ drained = MaxRxDrain

DrainDone ==
    /\ pc = "drain"
    /\ DrainOver
    /\ pc' = "state"
    /\ drained' = 0
    /\ Quietly
    /\ UNCHANGED <<rx, linkVars, tick, driveVars, cmds, quiet_ms>>

-----------------------------------------------------------------------------
(* The link state machine.  state() never returns to AwaitingFirstPacket,  *)
(* so that arm of the code's match has no action here.                     *)

LinkUnchanged ==
    /\ pc = "state"
    /\ state(watchdog) = last_state
    /\ pc' = "usb"
    /\ Quietly
    /\ UNCHANGED <<radioVars, linkVars, tick, driveVars, cmds, quiet_ms>>

LinkBecomesAlive ==
    /\ pc = "state"
    /\ state(watchdog) = "Alive"
    /\ last_state # "Alive"
    /\ motor' = enable(motor)
    /\ pc' = "blink"
    /\ Quietly
    /\ UNCHANGED <<radioVars, linkVars, tick, manual_pwm, last_duty,
                   stream_to_peer, cmds, quiet_ms>>

BlinkDone ==
    /\ pc = "blink"
    /\ quiet_ms' = AtMost(quiet_ms + BlinkMs, QuietCap)
    /\ emit_telemetry(link, <<>>, <<EspNowLinkState("Alive")>>)
    /\ last_state' = "Alive"
    /\ pc' = "usb"
    /\ UNCHANGED <<radioVars, link, flash, watchdog, tick, driveVars, cmds>>

LinkTimesOut ==
    /\ pc = "state"
    /\ state(watchdog) = "TimedOut"
    /\ last_state # "TimedOut"
    /\ link' = reset_sequence(link)
    /\ motor' = brake(motor)
    /\ last_duty' = 0
    /\ emit_telemetry(link', <<>>, <<EspNowLinkState("TimedOut")>>)
    /\ last_state' = "TimedOut"
    /\ pc' = "usb"
    /\ UNCHANGED <<radioVars, flash, watchdog, tick, manual_pwm, stream_to_peer,
                   cmds, quiet_ms>>

-----------------------------------------------------------------------------
(* USB commands, the manual override, current sense and the sleep.         *)

ApplyUsbCommand ==
    /\ pc = "usb"
    /\ cmds # <<>>
    /\ apply_local_cmd(Head(cmds))
    /\ cmds' = Tail(cmds)
    /\ UNCHANGED <<pc, radioVars, watchdog, last_state, tick, quiet_ms>>

ReassertNothing(m) == m
Reassert(m) == IF manual_pwm = None THEN m ELSE set_pwm(m, manual_pwm)

UsbDrainDone ==
    /\ pc = "usb"
    /\ cmds = <<>>
    /\ motor' = Reassert(motor)
    /\ last_duty' = IF manual_pwm = None THEN last_duty ELSE manual_pwm
    /\ pc' = IF tick = 0 THEN "sense" ELSE "sleep"
    /\ Quietly
    /\ UNCHANGED <<radioVars, linkVars, tick, manual_pwm, stream_to_peer, cmds, quiet_ms>>

Sense ==
    /\ pc = "sense"
    /\ emit_telemetry(link, <<>>, <<CurrentSense, CurrentSenseRaw(last_duty)>>)
    /\ pc' = "sleep"
    /\ UNCHANGED <<radioVars, linkVars, tick, driveVars, cmds, quiet_ms>>

Sleep ==
    /\ pc = "sleep"
    /\ watchdog' = Elapsed(watchdog)
    /\ quiet_ms' = AtMost(quiet_ms + LoopIntervalMs, QuietCap)
    /\ tick' = (tick + 1) % SensePeriod
    /\ pc' = "drain"
    /\ Quietly
    /\ UNCHANGED <<radioVars, link, flash, last_state, driveVars, cmds>>

-----------------------------------------------------------------------------
(* The environment.                                                        *)

FrameArrives(f) ==
    /\ rx' \in Enqueued(rx, f)
    /\ Quietly
    /\ UNCHANGED <<pc, drained, linkVars, tick, driveVars, cmds, quiet_ms>>

\* handle_cmd in the USB task.  A command that finds CMDS full is answered
\* Busy and changes nothing here.
UsbCommandArrives(c) ==
    /\ pc \in {"boot", "blink", "sense", "sleep"}
    /\ Len(cmds) < CmdsDepth
    /\ cmds' = Append(cmds, c)
    /\ Quietly
    /\ UNCHANGED <<pc, radioVars, linkVars, tick, driveVars, quiet_ms>>

Receive == SkipFrame \/ HandleControl \/ HandleTunnelCmd \/ HandleTunnelEvt
LinkStep == LinkUnchanged \/ LinkBecomesAlive \/ BlinkDone \/ LinkTimesOut

\* A step of the main loop.
Step ==
    \/ Calibrated
    \/ Receive
    \/ DrainDone
    \/ LinkStep
    \/ ApplyUsbCommand
    \/ UsbDrainDone
    \/ Sense
    \/ Sleep

Next ==
    \/ Step
    \/ \E f \in Arrivals : FrameArrives(f)
    \/ \E c \in UsbCommands : UsbCommandArrives(c)
    \/ \E held \in BootPresses : Reboot(held)

Spec == Init /\ [][Next]_vars

\* Every await of the loop is on a timer or on the ADC, and the executor
\* runs the task again when it completes.
FairSpec == Spec /\ WF_vars(Step)
-----------------------------------------------------------------------------
(* Properties.                                                             *)

\* Every variable keeps the type the program gives it.  What could fail is
\* the PWM percentage (set_pwm is given the whole of i8) and the bounds of
\* the queues and of the drain.
TypeOK ==
    /\ pc \in {"boot", "drain", "state", "blink", "usb", "sense", "sleep"}
    /\ drained \in 0 .. MaxRxDrain
    /\ rx \in Seq(Frame) /\ Len(rx) <= RxDepth
    /\ link \in Link
    /\ flash \in Option(Macs)
    /\ watchdog \in Watchdog
    /\ last_state \in LinkStates
    /\ tick \in 0 .. SensePeriod - 1
    /\ motor \in Motor
    /\ manual_pwm \in Option(I8)
    /\ last_duty \in I8
    /\ stream_to_peer \in BOOLEAN
    /\ cmds \in Seq(HostToBoard) /\ Len(cmds) <= CmdsDepth
    /\ sent \in Seq(Frame)
    /\ emitted \in Seq(BoardToHost)
    /\ quiet_ms \in 0 .. QuietCap

\* The motor turns on the operator's command, not on a USB override.
Driving == manual_pwm = None /\ Output(motor) # 0

\* However the loop's awaits and the radio interleave, a motor that turns on
\* a control packet has been given one within the link timeout, plus one loop
\* interval, plus the connection blink the loop may sit in meanwhile.
StopDeadline == Driving => quiet_ms <= LinkTimeoutMs + LoopIntervalMs + BlinkMs

\* The motor's mode in terms of FailSafe.
mode ==
    IF manual_pwm # None THEN "override"
    ELSE IF Output(motor) # 0 THEN "operator" ELSE "stopped"

Promise == INSTANCE FailSafe
    WITH Deadline <- LinkTimeoutMs + LoopIntervalMs + BlinkMs,
         Delays <- {LoopIntervalMs, BlinkMs},
         silence <- quiet_ms

\* The loop implements FailSafe: the motor starts only on an accepted control
\* packet or a host's command, and stops in time.
ImplementsFailSafe == Promise!Spec

\* The sharper deadline of docs/espnow-shared-protocol.md:59-62: the stop is
\* immediate once the silence exceeds the timeout, which for a loop that
\* looks every interval means within one interval of it.  The queue is empty:
\* nothing valid is waiting to be looked at.
StopsWithinTimeout ==
    Driving /\ rx = <<>> => quiet_ms <= LinkTimeoutMs + LoopIntervalMs

\* While the link has timed out and no override is set, the motor is still
\* whenever the loop waits, whatever commands came in on USB or the tunnel.
FailSafeHold ==
    pc = "sleep" /\ last_state = "TimedOut" /\ manual_pwm = None
        => motor.rpwm = 0 /\ motor.lpwm = 0

\* An override holds through control packets, the connection blink and the
\* timeout brake: outside the phase that applies it, the bridge drives
\* exactly the duty the host asked for.
ManualHeld ==
    manual_pwm # None /\ pc # "usb" => Output(motor) = Clamped(manual_pwm)

\* The duty reported with the raw current readings is the one the bridge
\* drives at that moment, and never are both sides of the bridge driven.
LastDutyTracksMotor ==
    /\ Output(motor) = Clamped(last_duty)
    /\ motor.rpwm = 0 \/ motor.lpwm = 0

\* common_comms/src/espnow.rs:136-137: once the link has timed out the next
\* control packet is accepted whatever its number is, so a controller that
\* restarted its count is heard again.
NextControlAccepted ==
    pc = "sleep" /\ last_state = "TimedOut" => link.last_sequence = None

\* docs/espnow-shared-protocol.md:89-91: while paired, a frame of another
\* board changes neither the motor, nor the override, nor the watchdog, nor
\* the pairing.
OnlyPairedPeerCommands ==
    [][ rx # <<>> /\ drained' = drained + 1 /\ is_paired(link)
            /\ Head(rx).src # link.paired_peer
        => /\ UNCHANGED <<driveVars, watchdog, flash>>
           /\ link'.paired_peer = link.paired_peer ]_vars

\* A reset comes up with the pairing the loop was running with: learning and
\* forgetting a peer reach the flash in the same step.
FlashRemembersPeer == flash = link.paired_peer

\* common_comms/src/espnow.rs:52-55: a unicast needs its receiver on the radio's
\* list.  Whatever peer was learned, forgotten, restored at a reset, or refused
\* because the list is full, no frame is addressed to a board off the list.
SendsAreDeliverable == \A i \in DOMAIN sent : sent[i].dst \in Reachable(link)

\* However fast frames come in, the loop comes round to its sleep, so the
\* watchdog's clock advances and the fail-safe can act, unless the board is
\* reset again and again.
LoopKeepsTicking == []<>(pc \in {"boot", "sleep"})
=============================================================================
