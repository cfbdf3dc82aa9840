----------------------------- MODULE Controller -----------------------------
(***************************************************************************)
(* controller/src/main.rs: the controller board.  One main loop that       *)
(* drains the radio, samples the joystick, transmits on a change or when   *)
(* the keepalive is due, drains the USB commands and sleeps.               *)
(*                                                                         *)
(* "sample" and "sleep" are the loop's awaits: there real time passes and  *)
(* the USB task may put a command into CMDS.  The joystick is read with    *)
(* controller/src/joystick.rs; its raw button levels only matter where two *)
(* samples are compared.  LEDs and logs are left out.                      *)
(***************************************************************************)
EXTENDS EspNowLink, PairingStore

CONSTANTS
    Self,              \* the controller's own address
    Arrivals,          \* frames the radio may deliver
    UsbCommands,       \* commands the USB task may put into CMDS
    CmdsDepth,         \* capacity of CMDS, 4 in the code
    MaxRxDrain,        \* MAX_RX_DRAIN_PER_TICK, 8 in the code
    Sticks,            \* joystick positions the sensor may report
    ReadTimes,         \* how long a read that returns may take, in ms
    ReadTimeoutMs,     \* JOYSTICK_READ_TIMEOUT_MS, 80 in the code
    TickMs,            \* CONTROL_LOOP_TICK_MS, 10 in the code
    TxIntervalMs,      \* CONTROL_TX_INTERVAL_MS, 100 in the code
    NeutralFailures,   \* READ_FAILURES_BEFORE_NEUTRAL_KEEPALIVE, 3
    LinkTimeoutMs,     \* LINK_TIMEOUT_MS, 500 in the code
    BootPresses        \* states of the BOOT button at a reset; {}: no reset

Stick == [x : Bytes, y : Bytes, buttons : SUBSET Buttons]

\* The keepalive interval is longer than the reads that make it neutral.
ASSUME ControllerAssumption ==
    /\ Self \in Macs
    /\ Arrivals \subseteq Frame
    /\ UsbCommands \subseteq HostToBoard
    /\ CmdsDepth \in Nat \ {0}
    /\ MaxRxDrain \in Nat \ {0}
    /\ Sticks \subseteq Stick
    /\ ReadTimeoutMs \in Nat
    /\ ReadTimes \subseteq 0 .. ReadTimeoutMs
    /\ TickMs \in Nat \ {0}
    /\ TxIntervalMs \in Nat
    /\ NeutralFailures \in Nat \ {0}
    /\ TxIntervalMs > (NeutralFailures - 1) * TickMs
    /\ LinkTimeoutMs \in Nat
    /\ BootPresses \subseteq BOOLEAN

\* The longest time between two control frames: the loop turns once per
\* TickMs of its own count, and each turn may also spend a whole read.
MaxGap == ((TxIntervalMs + TickMs - 1) \div TickMs) * (ReadTimeoutMs + TickMs)
GapCap == MaxGap + 1

VARIABLES
    pc,              \* phase of the main loop
    drained,         \* frames taken in this drain
    rx,              \* receive queue of the radio
    link,            \* the EspNowLink
    flash,           \* what the pairing record in flash loads as
    last_sampled,    \* last_sampled_state
    change,          \* tx_state when tx_reason is "change", else None
    failures,        \* consecutive_read_failures, up to NeutralFailures
    ticks_since_tx,  \* the loop's own count of the time since it transmitted
    tx_seq,          \* sequence number of the last control packet
    stream_to_peer,  \* the local of that name
    cmds,            \* the CMDS channel
    sent,            \* frames handed to the radio in the last step
    emitted,         \* events offered to the EVENTS channel in the last step
    gap_ms           \* real time since the last control frame, or since boot

radioVars == <<drained, rx>>
linkVars == <<link, flash>>
txVars == <<last_sampled, change, failures, ticks_since_tx, tx_seq>>
vars == <<pc, drained, rx, link, flash, last_sampled, change, failures,
          ticks_since_tx, tx_seq, stream_to_peer, cmds, sent, emitted, gap_ms>>

-----------------------------------------------------------------------------
(* Boot.                                                                   *)

BootUnlisted(stored) == [NewLink EXCEPT !.paired_peer = stored]
BootLink(stored) == IF stored = None THEN NewLink ELSE learn_peer(NewLink, stored)

Init ==
    /\ pc = "drain"
    /\ drained = 0
    /\ rx = <<>>
    /\ flash \in Option(Macs \ {Self})
    /\ link = BootLink(flash)
    /\ last_sampled = None
    /\ change = None
    /\ failures = 0
    /\ ticks_since_tx = TxIntervalMs
    /\ tx_seq = 0
    /\ stream_to_peer = FALSE
    /\ cmds = <<>>
    /\ sent = <<>>
    /\ emitted = <<>>
    /\ gap_ms = 0

\* A reset at any moment; held is the BOOT button.
Reboot(held) ==
    /\ pc' = "drain"
    /\ drained' = 0
    /\ rx' = <<>>
    /\ flash' \in IF held THEN FlashWrite(flash, None) ELSE {flash}
    /\ link' = BootLink(flash')
    /\ last_sampled' = None
    /\ change' = None
    /\ failures' = 0
    /\ ticks_since_tx' = TxIntervalMs
    /\ tx_seq' = 0
    /\ stream_to_peer' = FALSE
    /\ cmds' = <<>>
    /\ sent' = <<>>
    /\ emitted' = <<>>
    /\ gap_ms' = 0

-----------------------------------------------------------------------------
(* Telemetry and commands.                                                 *)

Quietly == sent' = <<>> /\ emitted' = <<>>

emit_telemetry(event) ==
    /\ emitted' = <<event>>
    /\ sent' = IF stream_to_peer
               THEN SendToPeer(link, TunnelEvtFrame(Self, link.paired_peer, event))
               ELSE <<>>

ApplySetLed(cmd) ==
    /\ cmd.op = "SetLed"
    /\ emitted' = <<LedAck>>
    /\ sent' = <<>>
    /\ UNCHANGED <<linkVars, stream_to_peer>>

ApplyEnableRemoteTelemetry(cmd) ==
    /\ cmd.op = "EnableRemoteTelemetry"
    /\ stream_to_peer' = cmd.on
    /\ Quietly
    /\ UNCHANGED linkVars

ApplyRepair(cmd) ==
    /\ cmd.op = "Repair"
    /\ flash' \in FlashWrite(flash, None)
    /\ link' = reset_pairing(link)
    /\ Quietly
    /\ UNCHANGED stream_to_peer

ApplyForPeer(cmd) ==
    /\ cmd.op = "ForPeer"
    /\ sent' = SendToPeer(link, TunnelCmdFrame(Self, link.paired_peer, cmd.payload))
    /\ emitted' = <<>>
    /\ UNCHANGED <<linkVars, stream_to_peer>>

\* The controller has no motor.
ApplyOther(cmd) ==
    /\ cmd.op \in {"Ping", "SetMotorEnable", "SetMotorPwm"}
    /\ Quietly
    /\ UNCHANGED <<linkVars, stream_to_peer>>

apply_local_cmd(cmd) ==
    \/ ApplySetLed(cmd)
    \/ ApplyEnableRemoteTelemetry(cmd)
    \/ ApplyRepair(cmd)
    \/ ApplyForPeer(cmd)
    \/ ApplyOther(cmd)

-----------------------------------------------------------------------------
(* The receive drain.                                                      *)

TakeFrame ==
    /\ pc = "drain"
    /\ drained < MaxRxDrain
    /\ rx # <<>>
    /\ rx' = Tail(rx)
    /\ drained' = drained + 1
    /\ UNCHANGED <<pc, txVars, cmds, gap_ms>>

AcceptsAnyAck(l) == TRUE
AcceptsPairAck(l) == ~is_paired(l)
AcceptsTunnel(l, source) == l.paired_peer = source

\* A frame with no effect but for the sequence number: one that does not
\* decode, a control frame, a PairAck once paired, a tunnel frame from a board
\* that is not the peer, or a tunnelled command that is no host message.
SkipFrame ==
    /\ TakeFrame
    /\ LET f == Head(rx)
       IN  /\ \/ f.kind \in {"Malformed", "Control"}
              \/ f.kind = "PairAck" /\ ~AcceptsPairAck(link)
              \/ /\ f.kind \in {"TunnelCmd", "TunnelEvt"}
                 /\ ~AcceptsTunnel(link, f.src)
              \/ f.kind = "TunnelCmd" /\ ~HostPayloadDecodes(f.bytes)
           /\ link' = AfterReceive(link, f)
    /\ Quietly
    /\ UNCHANGED <<flash, stream_to_peer>>

HandlePairAck ==
    /\ TakeFrame
    /\ LET f == Head(rx)
       IN  /\ f.kind = "PairAck"
           /\ AcceptsPairAck(link)
           /\ link' = learn_peer(link, f.src)
           /\ IF AddPeerSucceeds(link, f.src)
              THEN flash' \in FlashWrite(flash, f.src)
              ELSE UNCHANGED flash
    /\ Quietly
    /\ UNCHANGED stream_to_peer

HandleTunnelCmd ==
    /\ TakeFrame
    /\ LET f == Head(rx)
       IN  /\ f.kind = "TunnelCmd"
           /\ AcceptsTunnel(link, f.src)
           /\ HostPayloadDecodes(f.bytes)
           /\ apply_local_cmd(f.bytes)

HandleTunnelEvt ==
    /\ TakeFrame
    /\ LET f == Head(rx)
       IN  /\ f.kind = "TunnelEvt"
           /\ AcceptsTunnel(link, f.src)
           /\ emitted' = <<FromPeer("Vehicle", f.bytes)>>
    /\ sent' = <<>>
    /\ UNCHANGED <<linkVars, stream_to_peer>>

QueueEmpty == rx = <<>>
DrainOver == rx = <<>> \/ drained = MaxRxDrain

DrainDone ==
    /\ pc = "drain"
    /\ DrainOver
    /\ pc' = "sample"
    /\ drained' = 0
    /\ Quietly
    /\ UNCHANGED <<rx, linkVars, txVars, stream_to_peer, cmds, gap_ms>>

-----------------------------------------------------------------------------
(* Sampling and transmitting.                                              *)

Neutral == [x |-> 128, y |-> 128, buttons |-> {}]
OffCentre(s) == s.x # 128 \/ s.y # 128

\* Two samples with the same buttons can still differ in the raw level of a
\* released button, and then count as a change.
Changed(s) == last_sampled # s \/ OffCentre(s)
RawLevelsDiffer(s) == s.buttons # Buttons

Took(d) == IF gap_ms + d > GapCap THEN GapCap ELSE gap_ms + d

SampleOk(s, d) ==
    /\ pc = "sample"
    /\ failures' = 0
    /\ last_sampled' = s
    /\ \/ /\ Changed(s) \/ RawLevelsDiffer(s)
          /\ change' = s
          /\ emit_telemetry(JoystickState(s))
       \/ /\ ~Changed(s)
          /\ change' = None
          /\ Quietly
    /\ gap_ms' = Took(d)
    /\ pc' = "transmit"
    /\ UNCHANGED <<radioVars, linkVars, ticks_since_tx, tx_seq, stream_to_peer, cmds>>

\* The read returned an error after d, or was cut off by the timeout.
SampleFailed(d) ==
    /\ pc = "sample"
    /\ failures' = IF failures < NeutralFailures THEN failures + 1 ELSE failures
    /\ change' = None
    /\ gap_ms' = Took(d)
    /\ pc' = "transmit"
    /\ Quietly
    /\ UNCHANGED <<radioVars, linkVars, last_sampled, ticks_since_tx, tx_seq,
                   stream_to_peer, cmds>>

KeepaliveWhenHealthy == failures = 0 /\ ticks_since_tx >= TxIntervalMs
KeepaliveOverdue == ticks_since_tx > TxIntervalMs
KeepaliveDue == ticks_since_tx >= TxIntervalMs

LastSampleAlways == IF last_sampled = None THEN Neutral ELSE last_sampled
KeepaliveState ==
    IF failures >= NeutralFailures \/ last_sampled = None THEN Neutral ELSE last_sampled

send_control(s) ==
    /\ pc = "transmit"
    /\ tx_seq' = (tx_seq + 1) % SeqMod
    /\ sent' = <<ControlFrame(Self, ControlDestination(link),
                     [sequence |-> tx_seq', x |-> s.x, y |-> s.y, buttons |-> s.buttons])>>
    /\ ticks_since_tx' = 0
    /\ gap_ms' = 0
    /\ pc' = "cmds"
    /\ emitted' = <<>>
    /\ UNCHANGED <<radioVars, linkVars, last_sampled, change, failures,
                   stream_to_peer, cmds>>

SendChange == change # None /\ send_control(change)
SendKeepalive == change = None /\ KeepaliveDue /\ send_control(KeepaliveState)

NothingToSend ==
    /\ pc = "transmit"
    /\ change = None
    /\ ~KeepaliveDue
    /\ pc' = "cmds"
    /\ Quietly
    /\ UNCHANGED <<radioVars, linkVars, txVars, stream_to_peer, cmds, gap_ms>>

-----------------------------------------------------------------------------
(* USB commands and the sleep.                                             *)

ApplyUsbCommand ==
    /\ pc = "cmds"
    /\ cmds # <<>>
    /\ apply_local_cmd(Head(cmds))
    /\ cmds' = Tail(cmds)
    /\ UNCHANGED <<pc, radioVars, txVars, gap_ms>>

UsbDrainDone ==
    /\ pc = "cmds"
    /\ cmds = <<>>
    /\ pc' = "sleep"
    /\ Quietly
    /\ UNCHANGED <<radioVars, linkVars, txVars, stream_to_peer, cmds, gap_ms>>

Sleep ==
    /\ pc = "sleep"
    /\ ticks_since_tx' = ticks_since_tx + TickMs
    /\ gap_ms' = Took(TickMs)
    /\ pc' = "drain"
    /\ Quietly
    /\ UNCHANGED <<radioVars, linkVars, last_sampled, change, failures, tx_seq,
                   stream_to_peer, cmds>>

-----------------------------------------------------------------------------
(* The environment.                                                        *)

FrameArrives(f) ==
    /\ rx' \in Enqueued(rx, f)
    /\ Quietly
    /\ UNCHANGED <<pc, drained, linkVars, txVars, stream_to_peer, cmds, gap_ms>>

\* handle_cmd in the USB task; a full CMDS is answered Busy.
UsbCommandArrives(c) ==
    /\ pc \in {"sample", "sleep"}
    /\ Len(cmds) < CmdsDepth
    /\ cmds' = Append(cmds, c)
    /\ Quietly
    /\ UNCHANGED <<pc, radioVars, linkVars, txVars, stream_to_peer, gap_ms>>

Receive == SkipFrame \/ HandlePairAck \/ HandleTunnelCmd \/ HandleTunnelEvt
Sample ==
    \/ \E s \in Sticks, d \in ReadTimes : SampleOk(s, d)
    \/ \E d \in ReadTimes \cup {ReadTimeoutMs} : SampleFailed(d)
Transmit == SendChange \/ SendKeepalive \/ NothingToSend

\* A step of the main loop.
Step ==
    \/ Receive
    \/ DrainDone
    \/ Sample
    \/ Transmit
    \/ ApplyUsbCommand
    \/ UsbDrainDone
    \/ Sleep

Next ==
    \/ Step
    \/ \E f \in Arrivals : FrameArrives(f)
    \/ \E c \in UsbCommands : UsbCommandArrives(c)
    \/ \E held \in BootPresses : Reboot(held)

Spec == Init /\ [][Next]_vars

\* The read is bounded by with_timeout, the sleep by its timer.
FairSpec == Spec /\ WF_vars(Step)
-----------------------------------------------------------------------------
(* Properties.                                                             *)

\* Every variable keeps its type.  What could fail are the bounds: of the
\* loop's count of the time since it transmitted, of the queues and of the
\* drain.
TypeOK ==
    /\ pc \in {"drain", "sample", "transmit", "cmds", "sleep"}
    /\ drained \in 0 .. MaxRxDrain
    /\ rx \in Seq(Frame) /\ Len(rx) <= RxDepth
    /\ link \in Link
    /\ flash \in Option(Macs)
    /\ last_sampled \in Option(Stick)
    /\ change \in Option(Stick)
    /\ failures \in 0 .. NeutralFailures
    /\ ticks_since_tx \in 0 .. TxIntervalMs + TickMs
    /\ tx_seq \in Sequences16
    /\ stream_to_peer \in BOOLEAN
    /\ cmds \in Seq(HostToBoard) /\ Len(cmds) <= CmdsDepth
    /\ sent \in Seq(Frame)
    /\ emitted \in Seq(BoardToHost)
    /\ gap_ms \in 0 .. GapCap

\* A control frame with the stick off centre carries the sample taken in the
\* same turn of the loop: neither a joystick that stops answering nor a
\* keepalive ever replays an earlier motion.
MotionIsFresh ==
    \A i \in DOMAIN sent :
        /\ sent[i].kind = "Control"
        /\ OffCentre(sent[i].packet)
        => /\ failures = 0
           /\ ReceivedPacket(sent[i].packet) = ReceivedPacket(last_sampled)

\* The loop's count of time ignores the reads, so the gap between two control
\* frames may stretch; this is how far.
GapIsBounded == gap_ms <= MaxGap

\* docs/espnow-shared-protocol.md:56-59: the command stream is the keepalive,
\* so a running controller does not let the vehicle's timeout pass between
\* two control frames.
StreamIsKeepalive == gap_ms <= LinkTimeoutMs

\* A reset comes up with the pairing the loop was running with.
FlashRemembersPeer == flash = link.paired_peer

\* common_comms/src/espnow.rs:52-55: a unicast needs its receiver on the radio's
\* list.  Whatever peer was learned, forgotten, restored at a reset, or refused
\* because the list is full, no frame is addressed to a board off the list.
SendsAreDeliverable == \A i \in DOMAIN sent : sent[i].dst \in Reachable(link)

\* docs/espnow-shared-protocol.md:89-91: no PairAck and no reset replaces the
\* peer by another one; the pairing has to be cleared first.
PeerNeverReplaced ==
    [][ is_paired(link) /\ is_paired(link')
        => link'.paired_peer = link.paired_peer ]_vars

\* Whatever the radio, the joystick and the USB host do, the loop transmits
\* control frames again and again, unless the board is reset before it can.
KeepsTransmitting == []<>(gap_ms = 0)
=============================================================================
