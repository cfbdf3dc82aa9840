--------------------------- MODULE VehicleProofs ---------------------------
(***************************************************************************)
(* Proofs about Vehicle, for every value of its constants: the types, the  *)
(* motor's invariants, the stop deadline, that the loop implements         *)
(* FailSafe, and that its watchdog stands for the code's two clocks.       *)
(***************************************************************************)
EXTENDS Vehicle, LinkProofs, WatchdogClock

USE DEF Option, Bytes

-----------------------------------------------------------------------------
(* What the operators of the components return.                            *)

\* drive.rs never asks for more than full duty.
LEMMA DutyRange == \A y \in Bytes : y_to_duty(y) \in -100 .. 100
BY DEF y_to_duty, DEAD_ZONE, CENTER, AtMost100

\* ibt2.rs: set_pwm drives one side, at the clamped duty.
LEMMA SetPwm ==
    ASSUME NEW m \in Motor, NEW d \in I8
    PROVE  /\ set_pwm(m, d) \in Motor
           /\ Output(set_pwm(m, d)) = Clamped(d)
           /\ set_pwm(m, d).rpwm = 0 \/ set_pwm(m, d).lpwm = 0
<1>1. Percent(d) \in 0 .. 100
  BY DEF I8, Percent
<1>2. set_pwm(m, d) \in Motor
  <2>1. \A r, l \in 0 .. 100 : [m EXCEPT !.rpwm = r, !.lpwm = l] \in Motor
    BY DEF Motor
  <2>2. /\ (IF d > 0 THEN Percent(d) ELSE 0) \in 0 .. 100
        /\ (IF d < 0 THEN Percent(d) ELSE 0) \in 0 .. 100
    BY <1>1
  <2> QED
    BY <2>1, <2>2 DEF set_pwm
<1>3. /\ set_pwm(m, d).rpwm = IF d > 0 THEN Percent(d) ELSE 0
      /\ set_pwm(m, d).lpwm = IF d < 0 THEN Percent(d) ELSE 0
  BY DEF Motor, set_pwm
<1>4. Output(set_pwm(m, d)) = Clamped(d)
  BY <1>3 DEF I8, Output, Percent, Clamped
<1>5. set_pwm(m, d).rpwm = 0 \/ set_pwm(m, d).lpwm = 0
  BY <1>3 DEF I8
<1> QED
  BY <1>2, <1>4, <1>5

\* ibt2.rs: what the other calls do to the bridge.
LEMMA BridgeCalls ==
    ASSUME NEW m \in Motor, NEW r \in BOOLEAN, NEW l \in BOOLEAN
    PROVE  /\ BootMotor \in Motor /\ Output(BootMotor) = 0
           /\ BootMotor.rpwm = 0 /\ BootMotor.lpwm = 0
           /\ brake(m) \in Motor /\ Output(brake(m)) = 0
           /\ brake(m).rpwm = 0 /\ brake(m).lpwm = 0
           /\ enable(m) \in Motor /\ Output(enable(m)) = Output(m)
           /\ enable(m).rpwm = m.rpwm /\ enable(m).lpwm = m.lpwm
           /\ set_enables(m, r, l) \in Motor /\ Output(set_enables(m, r, l)) = Output(m)
           /\ set_enables(m, r, l).rpwm = m.rpwm /\ set_enables(m, r, l).lpwm = m.lpwm
<1>1. BootMotor \in Motor /\ brake(m) \in Motor
  BY DEF Motor, BootMotor, brake
<1>2. enable(m) \in Motor /\ set_enables(m, r, l) \in Motor
  BY DEF Motor, enable, set_enables
<1>3. /\ enable(m).rpwm = m.rpwm /\ enable(m).lpwm = m.lpwm
      /\ set_enables(m, r, l).rpwm = m.rpwm /\ set_enables(m, r, l).lpwm = m.lpwm
  BY DEF Motor, enable, set_enables
<1>4. /\ BootMotor.rpwm = 0 /\ BootMotor.lpwm = 0
      /\ brake(m).rpwm = 0 /\ brake(m).lpwm = 0
  BY DEF BootMotor, brake
<1> QED
  BY <1>1, <1>2, <1>3, <1>4 DEF Output

LEMMA ClampedSmall == \A d \in -100 .. 100 : d \in I8 /\ Clamped(d) = d
BY DEF I8, Clamped

LEMMA BootLinkType ==
    ASSUME NEW stored \in Option(Macs)
    PROVE  BootLink(stored) \in Link
<1>1. NewLink \in Link
  BY DEF Link, NewLink
<1> QED
  BY <1>1 DEF BootLink, learn_peer, Link

LEMMA EmitTypes ==
    ASSUME NEW l \in Link, NEW acks \in Seq(Frame), NEW events \in Seq(Telemetry),
           emit_telemetry(l, acks, events)
    PROVE  sent' \in Seq(Frame) /\ emitted' \in Seq(BoardToHost)
<1>1. emitted' \in Seq(BoardToHost)
  BY EventTypes DEF emit_telemetry
<1>2. is_paired(l) => l.paired_peer \in Macs
  BY SentFrames, VehicleAssumption
<1>3. ASSUME is_paired(l)
      PROVE  [i \in DOMAIN events |-> TunnelEvtFrame(Self, l.paired_peer, events[i])]
                \in Seq(Frame)
  <2>1. \A e \in Telemetry : TunnelEvtFrame(Self, l.paired_peer, e) \in Frame
    BY <1>2, <1>3, VehicleAssumption DEF TunnelEvtFrame, Frame, Destinations
  <2>2. DOMAIN events = 1 .. Len(events) /\ Len(events) \in Nat
    OBVIOUS
  <2>3. \A i \in DOMAIN events : events[i] \in Telemetry
    OBVIOUS
  <2> QED
    BY <2>1, <2>2, <2>3
<1> QED
  BY <1>1, <1>3 DEF emit_telemetry

LEMMA QuietTypes == Quietly => sent' \in Seq(Frame) /\ emitted' \in Seq(BoardToHost)
BY DEF Quietly

\* keepalive.rs
LEMMA WatchdogTypes ==
    ASSUME NEW w \in Watchdog
    PROVE  /\ NewWatchdog \in Watchdog
           /\ record_valid_packet(w) \in Watchdog
           /\ Elapsed(w) \in Watchdog
           /\ Elapsed(w).heard = w.heard
           /\ Elapsed(w).silent_ms = AtMost(w.silent_ms + LoopIntervalMs, SilentCap)
<1>1. SilentCap \in Nat /\ LoopIntervalMs \in Nat
  BY WatchdogAssumption DEF SilentCap
<1>2. AtMost(w.silent_ms + LoopIntervalMs, SilentCap) \in 0 .. SilentCap
  BY <1>1 DEF Watchdog, AtMost
<1>3. NewWatchdog \in Watchdog /\ record_valid_packet(w) \in Watchdog
  BY <1>1 DEF Watchdog, NewWatchdog, record_valid_packet
<1> QED
  BY <1>2, <1>3 DEF Watchdog, Elapsed

LEMMA QuietCapType == QuietCap \in Nat /\ LoopIntervalMs \in Nat /\ BlinkMs \in Nat
BY WatchdogAssumption, VehicleAssumption DEF QuietCap

-----------------------------------------------------------------------------
(* Commands: what apply_local_cmd does to the state, whoever sent it.      *)

LEMMA ApplyTypes ==
    ASSUME TypeOK, NEW cmd \in HostToBoard, apply_local_cmd(cmd)
    PROVE  /\ link' \in Link
           /\ flash' \in Option(Macs)
           /\ motor' \in Motor
           /\ manual_pwm' \in Option(I8)
           /\ last_duty' \in I8
           /\ stream_to_peer' \in BOOLEAN
           /\ sent' \in Seq(Frame)
           /\ emitted' \in Seq(BoardToHost)
<1> USE DEF TypeOK, driveVars
<1>1. CASE ApplySetLed(cmd)
  BY <1>1, EventTypes DEF ApplySetLed
<1>2. CASE ApplySetMotorEnable(cmd)
  BY <1>2, CommandFields, BridgeCalls, QuietTypes DEF ApplySetMotorEnable
<1>3. CASE ApplySetMotorPwm(cmd)
  <2>1. cmd.duty \in I8
    BY <1>3, CommandFields DEF ApplySetMotorPwm
  <2>2. <<>> \in Seq(Frame) /\ <<MotorState(cmd.duty)>> \in Seq(Telemetry)
    BY <2>1, EventTypes
  <2>3. sent' \in Seq(Frame) /\ emitted' \in Seq(BoardToHost)
    BY <1>3, <2>2, EmitTypes DEF ApplySetMotorPwm
  <2> QED
    BY <1>3, <2>1, <2>3, SetPwm DEF ApplySetMotorPwm
<1>4. CASE ApplyEnableRemoteTelemetry(cmd)
  BY <1>4, CommandFields, QuietTypes DEF ApplyEnableRemoteTelemetry
<1>5. CASE ApplyRepair(cmd)
  <2>1. flash' \in Option(Macs)
    BY <1>5, FlashTypes DEF ApplyRepair
  <2>2. reset_pairing(link) \in Link
    BY DEF Link, reset_pairing
  <2> QED
    BY <1>5, <2>1, <2>2, QuietTypes DEF ApplyRepair
<1>6. CASE ApplyForPeer(cmd)
  BY <1>6, CommandFields, SentFrames, VehicleAssumption DEF ApplyForPeer
<1>7. CASE ApplyOther(cmd)
  BY <1>7, QuietTypes DEF ApplyOther
<1> QED
  BY <1>1, <1>2, <1>3, <1>4, <1>5, <1>6, <1>7 DEF apply_local_cmd

\* What a command may do to the motor: nothing that shows, or start an
\* override that the bridge then drives.
LEMMA ApplyEffects ==
    ASSUME TypeOK, NEW cmd \in HostToBoard, apply_local_cmd(cmd)
    PROVE  \/ /\ manual_pwm' \in I8
              /\ Output(motor') = Clamped(manual_pwm')
              /\ motor'.rpwm = 0 \/ motor'.lpwm = 0
              /\ last_duty' = manual_pwm'
           \/ /\ UNCHANGED <<manual_pwm, last_duty>>
              /\ motor'.rpwm = motor.rpwm /\ motor'.lpwm = motor.lpwm
              /\ Output(motor') = Output(motor)
<1> USE DEF TypeOK, driveVars
<1>1. CASE ApplySetMotorEnable(cmd)
  <2>1. cmd.r_en \in BOOLEAN /\ cmd.l_en \in BOOLEAN
    BY <1>1, CommandFields DEF ApplySetMotorEnable
  <2>2. motor' = set_enables(motor, cmd.r_en, cmd.l_en) /\ UNCHANGED <<manual_pwm, last_duty>>
    BY <1>1 DEF ApplySetMotorEnable
  <2> QED
    BY <2>1, <2>2, BridgeCalls
<1>2. CASE ApplySetMotorPwm(cmd)
  BY <1>2, CommandFields, SetPwm DEF ApplySetMotorPwm
<1>3. CASE ~ApplySetMotorEnable(cmd) /\ ~ApplySetMotorPwm(cmd)
  BY <1>3 DEF apply_local_cmd, ApplySetLed, ApplyEnableRemoteTelemetry, ApplyRepair,
              ApplyForPeer, ApplyOther
<1> QED
  BY <1>1, <1>2, <1>3

-----------------------------------------------------------------------------
(* Types.                                                                  *)

LEMMA InitTypes == Init => TypeOK
<1> SUFFICES ASSUME Init PROVE TypeOK
  OBVIOUS
<1>1. flash \in Option(Macs) /\ link \in Link
  BY BootLinkType DEF Init
<1>2. watchdog \in Watchdog
  BY WatchdogAssumption DEF Init, Watchdog, NewWatchdog, SilentCap
<1>3. motor \in Motor
  BY DEF Init, Motor, BootMotor
<1>4. tick \in 0 .. SensePeriod - 1
  BY VehicleAssumption DEF Init
<1>5. /\ drained \in 0 .. MaxRxDrain
      /\ rx \in Seq(Frame) /\ Len(rx) <= RxDepth
      /\ cmds \in Seq(HostToBoard) /\ Len(cmds) <= CmdsDepth
      /\ sent \in Seq(Frame) /\ emitted \in Seq(BoardToHost)
  BY VehicleAssumption, LinkAssumption DEF Init
<1>6. quiet_ms \in 0 .. QuietCap
  BY QuietCapType DEF Init
<1>7. /\ pc \in {"boot", "drain", "state", "blink", "usb", "sense", "sleep"}
      /\ last_state \in LinkStates
      /\ manual_pwm \in Option(I8) /\ last_duty \in I8
  BY DEF Init, LinkStates, I8
<1>8. stream_to_peer \in BOOLEAN
  BY DEF Init
<1> QED
  BY <1>1, <1>2, <1>3, <1>4, <1>5, <1>6, <1>7, <1>8 DEF TypeOK

\* A frame taken from the radio leaves the drain in order.
LEMMA TakeTypes ==
    ASSUME TypeOK, TakeFrame
    PROVE  /\ Head(rx) \in Frame
           /\ rx' \in Seq(Frame) /\ Len(rx') <= RxDepth
           /\ drained' \in 0 .. MaxRxDrain
BY VehicleAssumption, LinkAssumption DEF TypeOK, TakeFrame

\* What a control packet does to the motor.
LEMMA ActEffects ==
    ASSUME TypeOK, NEW p \in ControlPacket, ActOnPacket(p)
    PROVE  /\ motor' \in Motor
           /\ manual_pwm' \in Option(I8)
           /\ last_duty' \in I8
           /\ \/ /\ manual_pwm' = None
                 /\ Output(motor') = Clamped(last_duty')
                 /\ motor'.rpwm = 0 \/ motor'.lpwm = 0
              \/ /\ manual_pwm' # None
                 /\ UNCHANGED <<motor, manual_pwm>>
                 /\ last_duty' = manual_pwm
<1> USE DEF TypeOK
<1>1. y_to_duty(p.y) \in I8
  BY DutyRange, ClampedSmall DEF ControlPacket
<1>2. CASE "C" \in p.buttons
  <2>1. motor' = brake(motor) /\ manual_pwm' = None /\ last_duty' = 0
    BY <1>2 DEF ActOnPacket
  <2>2. /\ brake(motor) \in Motor /\ Output(brake(motor)) = 0
        /\ brake(motor).rpwm = 0
    BY BridgeCalls
  <2>3. 0 \in I8 /\ Clamped(0) = 0
    BY DEF I8, Clamped
  <2> QED
    BY <2>1, <2>2, <2>3
<1>3. CASE "C" \notin p.buttons /\ (y_to_duty(p.y) # 0 \/ manual_pwm = None)
  BY <1>1, <1>3, SetPwm DEF ActOnPacket
<1>4. CASE "C" \notin p.buttons /\ y_to_duty(p.y) = 0 /\ manual_pwm # None
  BY <1>4 DEF ActOnPacket
<1> QED
  BY <1>2, <1>3, <1>4

LEMMA ReceiveTypes == TypeOK /\ Receive => TypeOK'
<1> SUFFICES ASSUME TypeOK, Receive PROVE TypeOK'
  OBVIOUS
<1> DEFINE f == Head(rx)
<1>0. TakeFrame
  BY DEF Receive, SkipFrame, HandleControl, HandleTunnelCmd, HandleTunnelEvt
<1>1. /\ f \in Frame
      /\ rx' \in Seq(Frame) /\ Len(rx') <= RxDepth
      /\ drained' \in 0 .. MaxRxDrain
  BY <1>0, TakeTypes
<1>2. f.src \in Macs /\ AfterReceive(link, f) \in Link
  BY <1>1, FrameFields, LinkCalls DEF TypeOK
<1> HIDE DEF f
<1>3. CASE SkipFrame
  <2>1. sent' \in Seq(Frame) /\ emitted' \in Seq(BoardToHost)
    BY <1>3, QuietTypes DEF SkipFrame
  <2> QED
    BY <1>1, <1>2, <1>3, <2>1 DEF SkipFrame, TypeOK, driveVars, f
<1>4. CASE HandleControl
  <2>1. f.packet \in ControlPacket
    BY <1>1, <1>4, FrameFields DEF HandleControl, f
  <2>2. link' \in Link
    <3>1. learn_peer(AfterReceive(link, f), f.src) \in Link
      BY <1>1, <1>2, LinkCalls
    <3> QED
      BY <1>2, <1>4, <3>1 DEF HandleControl, f
  <2>3. flash' \in Option(Macs)
    BY <1>2, <1>4, FlashTypes DEF HandleControl, TypeOK, f
  <2>4. motor' \in Motor /\ manual_pwm' \in Option(I8) /\ last_duty' \in I8
    BY <1>4, <2>1, ActEffects DEF HandleControl, f
  <2>5. <<ReceivedPacket(f.packet), MotorState(last_duty')>> \in Seq(Telemetry)
    BY <2>1, <2>4, EventTypes
  <2>6. (IF f.dst = Broadcast
         THEN SendToPeer(link', PairAckFrame(Self, link'.paired_peer))
         ELSE <<>>) \in Seq(Frame)
    BY <2>2, SentFrames, VehicleAssumption
  <2>7. sent' \in Seq(Frame) /\ emitted' \in Seq(BoardToHost)
    BY <1>4, <2>2, <2>5, <2>6, EmitTypes DEF HandleControl, AnswersPairing, f
  <2>8. watchdog' \in Watchdog
    BY <1>4, WatchdogTypes DEF HandleControl, TypeOK
  <2>9. quiet_ms' \in 0 .. QuietCap
    BY <1>4, QuietCapType DEF HandleControl
  <2> QED
    BY <1>1, <1>4, <2>2, <2>3, <2>4, <2>7, <2>8, <2>9 DEF HandleControl, TypeOK
<1>5. CASE HandleTunnelCmd
  <2>1. f.bytes \in HostToBoard /\ apply_local_cmd(f.bytes)
    BY <1>5 DEF HandleTunnelCmd, HostPayloadDecodes, f
  <2> QED
    BY <1>1, <1>5, <2>1, ApplyTypes DEF HandleTunnelCmd, TypeOK
<1>6. CASE HandleTunnelEvt
  <2>1. f.bytes \in Telemetry
    BY <1>1, <1>6, FrameFields DEF HandleTunnelEvt, f
  <2>2. emitted' \in Seq(BoardToHost) /\ sent' \in Seq(Frame)
    BY <1>6, <2>1, EventTypes DEF HandleTunnelEvt, BoardKind, f
  <2> QED
    BY <1>1, <1>6, <2>2 DEF HandleTunnelEvt, TypeOK, linkVars, driveVars
<1> QED
  BY <1>3, <1>4, <1>5, <1>6 DEF Receive

LEMMA LinkStepTypes == TypeOK /\ (DrainDone \/ LinkStep) => TypeOK'
<1> SUFFICES ASSUME TypeOK, DrainDone \/ LinkStep PROVE TypeOK'
  OBVIOUS
<1> USE DEF linkVars, driveVars, radioVars
<1>1. CASE DrainDone
  BY <1>1, QuietTypes, VehicleAssumption DEF DrainDone, TypeOK
<1>2. CASE LinkUnchanged
  BY <1>2, QuietTypes DEF LinkUnchanged, TypeOK
<1>3. CASE LinkBecomesAlive
  <2>1. enable(motor) \in Motor
    BY BridgeCalls DEF TypeOK
  <2> QED
    BY <1>3, <2>1, QuietTypes DEF LinkBecomesAlive, TypeOK
<1>4. CASE BlinkDone
  <2>1. <<>> \in Seq(Frame) /\ <<EspNowLinkState("Alive")>> \in Seq(Telemetry)
    BY EventTypes DEF LinkStates
  <2>2. sent' \in Seq(Frame) /\ emitted' \in Seq(BoardToHost)
    BY <1>4, <2>1, EmitTypes DEF BlinkDone, TypeOK
  <2>3. quiet_ms' \in 0 .. QuietCap
    BY <1>4, QuietCapType DEF BlinkDone, TypeOK, AtMost
  <2> QED
    BY <1>4, <2>2, <2>3 DEF BlinkDone, TypeOK, LinkStates
<1>5. CASE LinkTimesOut
  <2>1. <<>> \in Seq(Frame) /\ <<EspNowLinkState("TimedOut")>> \in Seq(Telemetry)
    BY EventTypes DEF LinkStates
  <2>2. link' \in Link
    BY <1>5 DEF LinkTimesOut, TypeOK, Link, reset_sequence
  <2>3. sent' \in Seq(Frame) /\ emitted' \in Seq(BoardToHost)
    BY <1>5, <2>1, <2>2, EmitTypes DEF LinkTimesOut
  <2>4. motor' \in Motor
    BY <1>5, BridgeCalls DEF LinkTimesOut, TypeOK
  <2> QED
    BY <1>5, <2>2, <2>3, <2>4 DEF LinkTimesOut, TypeOK, LinkStates, I8
<1> QED
  BY <1>1, <1>2, <1>3, <1>4, <1>5 DEF LinkStep

LEMMA RestTypes ==
    TypeOK /\ (Calibrated \/ ApplyUsbCommand \/ UsbDrainDone \/ Sense \/ Sleep) => TypeOK'
<1> SUFFICES ASSUME TypeOK, Calibrated \/ ApplyUsbCommand \/ UsbDrainDone \/ Sense \/ Sleep
             PROVE  TypeOK'
  OBVIOUS
<1> USE DEF linkVars, driveVars, radioVars
<1>1. CASE ApplyUsbCommand
  <2>1. Head(cmds) \in HostToBoard /\ apply_local_cmd(Head(cmds))
    BY <1>1 DEF ApplyUsbCommand, TypeOK
  <2>2. cmds' \in Seq(HostToBoard) /\ Len(cmds') <= CmdsDepth
    BY <1>1, VehicleAssumption DEF ApplyUsbCommand, TypeOK
  <2> QED
    BY <1>1, <2>1, <2>2, ApplyTypes DEF ApplyUsbCommand, TypeOK
<1>2. CASE UsbDrainDone
  <2>1. motor' \in Motor /\ last_duty' \in I8
    BY <1>2, SetPwm DEF UsbDrainDone, TypeOK, Reassert
  <2> QED
    BY <1>2, <2>1, QuietTypes DEF UsbDrainDone, TypeOK
<1>3. CASE Sense
  <2>1. <<>> \in Seq(Frame) /\ <<CurrentSense, CurrentSenseRaw(last_duty)>> \in Seq(Telemetry)
    BY EventTypes DEF TypeOK
  <2>2. sent' \in Seq(Frame) /\ emitted' \in Seq(BoardToHost)
    BY <1>3, <2>1, EmitTypes DEF Sense, TypeOK
  <2> QED
    BY <1>3, <2>2 DEF Sense, TypeOK
<1>4. CASE Sleep
  <2>1. watchdog' \in Watchdog
    BY <1>4, WatchdogTypes DEF Sleep, TypeOK
  <2>2. quiet_ms' \in 0 .. QuietCap
    BY <1>4, QuietCapType DEF Sleep, TypeOK, AtMost
  <2>3. tick' \in 0 .. SensePeriod - 1
    BY <1>4, VehicleAssumption DEF Sleep, TypeOK
  <2> QED
    BY <1>4, <2>1, <2>2, <2>3, QuietTypes DEF Sleep, TypeOK
<1>5. CASE Calibrated
  BY <1>5, QuietTypes DEF Calibrated, TypeOK
<1> QED
  BY <1>1, <1>2, <1>3, <1>4, <1>5

LEMMA EnvironmentTypes ==
    ASSUME TypeOK,
           \/ \E f \in Arrivals : FrameArrives(f)
           \/ \E c \in UsbCommands : UsbCommandArrives(c)
           \/ \E held \in BootPresses : Reboot(held)
    PROVE  TypeOK'
<1> USE DEF linkVars, driveVars, radioVars
<1>1. ASSUME NEW f \in Arrivals, FrameArrives(f) PROVE TypeOK'
  <2>1. f \in Frame
    BY VehicleAssumption
  <2>2. rx' \in Seq(Frame) /\ Len(rx') <= RxDepth
    BY <1>1, <2>1, EnqueuedTypes DEF FrameArrives, TypeOK
  <2> QED
    BY <1>1, <2>2, QuietTypes DEF FrameArrives, TypeOK
<1>2. ASSUME NEW c \in UsbCommands, UsbCommandArrives(c) PROVE TypeOK'
  <2>1. c \in HostToBoard
    BY VehicleAssumption
  <2>2. cmds' \in Seq(HostToBoard) /\ Len(cmds') <= CmdsDepth
    BY <1>2, <2>1, VehicleAssumption DEF UsbCommandArrives, TypeOK
  <2> QED
    BY <1>2, <2>2, QuietTypes DEF UsbCommandArrives, TypeOK
<1>3. ASSUME NEW held \in BootPresses, Reboot(held) PROVE TypeOK'
  <2>1. flash' \in Option(Macs)
    BY <1>3, FlashTypes DEF Reboot, TypeOK
  <2>2. link' \in Link
    BY <1>3, <2>1, BootLinkType DEF Reboot
  <2>3. watchdog' \in Watchdog
    BY <1>3, WatchdogTypes DEF Reboot, TypeOK
  <2>4. motor' \in Motor
    BY <1>3, BridgeCalls DEF Reboot, TypeOK
  <2>5. tick' \in 0 .. SensePeriod - 1
    BY <1>3, VehicleAssumption DEF Reboot
  <2>6. /\ drained' \in 0 .. MaxRxDrain
        /\ rx' \in Seq(Frame) /\ Len(rx') <= RxDepth
        /\ cmds' \in Seq(HostToBoard) /\ Len(cmds') <= CmdsDepth
        /\ sent' \in Seq(Frame) /\ emitted' \in Seq(BoardToHost)
    BY <1>3, VehicleAssumption, LinkAssumption DEF Reboot
  <2>7. /\ pc' \in {"boot", "drain", "state", "blink", "usb", "sense", "sleep"}
        /\ last_state' \in LinkStates
        /\ manual_pwm' \in Option(I8) /\ last_duty' \in I8
    BY <1>3 DEF Reboot, LinkStates, I8
  <2>8. stream_to_peer' \in BOOLEAN
    BY <1>3 DEF Reboot
  <2>9. quiet_ms' \in 0 .. QuietCap
    BY <1>3, QuietCapType DEF Reboot
  <2> QED
    BY <2>1, <2>2, <2>3, <2>4, <2>5, <2>6, <2>7, <2>8, <2>9 DEF TypeOK
<1> QED
  BY <1>1, <1>2, <1>3

\* Every variable of the vehicle keeps its type, for all constants.
THEOREM VehicleTypes == Spec => []TypeOK
<1>1. Init => TypeOK
  BY InitTypes
<1>2. TypeOK /\ [Next]_vars => TypeOK'
  <2>1. TypeOK /\ UNCHANGED vars => TypeOK'
    BY DEF TypeOK, vars
  <2> QED
    BY <2>1, ReceiveTypes, LinkStepTypes, RestTypes, EnvironmentTypes DEF Next, Step
<1> QED
  BY <1>1, <1>2, PTL DEF Spec

-----------------------------------------------------------------------------
(* The motor.                                                              *)

\* The inductive invariant behind the deadline.  A motor that turns for the
\* operator was heard of; it has been quiet for as long as the watchdog has
\* counted, and for one blink more, during which the watchdog does not count.
\* While the link is not yet, or no longer, Alive, the motor turns for the
\* operator only from the packet just received to the end of the blink that
\* packet causes.
DeadlineInv ==
    Driving =>
        /\ watchdog.heard
        /\ quiet_ms <= watchdog.silent_ms + BlinkMs
        /\ watchdog.silent_ms <= LinkTimeoutMs \/ pc \in {"drain", "state"}
        /\ last_state # "Alive" =>
               watchdog.silent_ms = 0 /\ quiet_ms = 0 /\ pc \in {"drain", "state", "blink"}

\* The loop blinks before it notes that the link is alive.
BlinkInv == pc = "blink" => last_state # "Alive"

MotorInv == TypeOK /\ LastDutyTracksMotor /\ ManualHeld /\ BlinkInv /\ DeadlineInv

LEMMA MotorInvInit == Init => MotorInv
<1> SUFFICES ASSUME Init PROVE MotorInv
  OBVIOUS
<1>1. TypeOK
  BY InitTypes
<1>2. /\ motor.rpwm = 0 /\ motor.lpwm = 0 /\ Output(motor) = 0
      /\ last_duty = 0 /\ manual_pwm = None
  BY DEF Init, BootMotor, Output
<1>3. BlinkInv
  BY DEF Init, BlinkInv
<1> QED
  BY <1>1, <1>2, <1>3
     DEF MotorInv, LastDutyTracksMotor, ManualHeld, DeadlineInv, Driving, Clamped

\* A command changes what the motor does only by starting an override.
LEMMA CommandKeepsMotorInv ==
    ASSUME MotorInv, TypeOK', NEW cmd \in HostToBoard, apply_local_cmd(cmd),
           UNCHANGED <<watchdog, last_state, quiet_ms, pc>>
    PROVE  MotorInv'
<1>1. CASE /\ manual_pwm' \in I8
           /\ Output(motor') = Clamped(manual_pwm')
           /\ motor'.rpwm = 0 \/ motor'.lpwm = 0
           /\ last_duty' = manual_pwm'
  <2>1. manual_pwm' # None
    BY <1>1, NamesAssumption DEF I8
  <2> QED
    BY <1>1, <2>1 DEF MotorInv, BlinkInv, LastDutyTracksMotor, ManualHeld, DeadlineInv, Driving
<1>2. CASE /\ UNCHANGED <<manual_pwm, last_duty>>
           /\ motor'.rpwm = motor.rpwm /\ motor'.lpwm = motor.lpwm
           /\ Output(motor') = Output(motor)
  BY <1>2 DEF MotorInv, BlinkInv, LastDutyTracksMotor, ManualHeld, DeadlineInv, Driving
<1> QED
  BY <1>1, <1>2, ApplyEffects DEF MotorInv

LEMMA ReceiveKeepsMotorInv == MotorInv /\ Receive => MotorInv'
<1> SUFFICES ASSUME MotorInv, Receive PROVE MotorInv'
  OBVIOUS
<1>1. TypeOK /\ TypeOK'
  BY ReceiveTypes DEF MotorInv
<1>2. CASE SkipFrame \/ HandleTunnelEvt
  <2>1. UNCHANGED <<motor, manual_pwm, last_duty, watchdog, last_state, quiet_ms, pc>>
    BY <1>2 DEF SkipFrame, HandleTunnelEvt, linkVars, driveVars
  <2> QED
    BY <1>1, <2>1 DEF MotorInv, BlinkInv, LastDutyTracksMotor, ManualHeld, DeadlineInv, Driving
<1>3. CASE HandleControl
  <2>1. Head(rx).packet \in ControlPacket /\ pc' = "drain"
    BY <1>1, <1>3, TakeTypes, FrameFields DEF HandleControl, TakeFrame
  <2>2. \/ /\ manual_pwm' = None
           /\ Output(motor') = Clamped(last_duty')
           /\ motor'.rpwm = 0 \/ motor'.lpwm = 0
        \/ /\ manual_pwm' # None
           /\ UNCHANGED <<motor, manual_pwm>>
           /\ last_duty' = manual_pwm
    BY <1>1, <1>3, <2>1, ActEffects DEF HandleControl
  <2>3. watchdog' = [heard |-> TRUE, silent_ms |-> 0] /\ quiet_ms' = 0
    BY <1>3 DEF HandleControl, record_valid_packet
  <2>4. pc = "drain"
    BY <1>3 DEF HandleControl, TakeFrame
  <2>5. LastDutyTracksMotor' /\ ManualHeld' /\ BlinkInv'
    BY <2>1, <2>2, <2>4 DEF MotorInv, BlinkInv, LastDutyTracksMotor, ManualHeld
  <2>6. DeadlineInv'
    BY <2>1, <2>3, QuietCapType, WatchdogAssumption DEF DeadlineInv
  <2> QED
    BY <1>1, <2>5, <2>6 DEF MotorInv
<1>4. CASE HandleTunnelCmd
  <2>1. Head(rx).bytes \in HostToBoard /\ apply_local_cmd(Head(rx).bytes)
    BY <1>4 DEF HandleTunnelCmd, HostPayloadDecodes
  <2>2. UNCHANGED <<watchdog, last_state, quiet_ms, pc>>
    BY <1>4 DEF HandleTunnelCmd
  <2> QED
    BY <1>1, <2>1, <2>2, CommandKeepsMotorInv
<1> QED
  BY <1>2, <1>3, <1>4 DEF Receive

LEMMA LinkStepKeepsMotorInv == MotorInv /\ (DrainDone \/ LinkStep) => MotorInv'
<1> SUFFICES ASSUME MotorInv, DrainDone \/ LinkStep PROVE MotorInv'
  OBVIOUS
<1> USE DEF linkVars, driveVars
<1>1. TypeOK /\ TypeOK'
  BY LinkStepTypes DEF MotorInv
<1>2. CASE DrainDone
  BY <1>1, <1>2 DEF DrainDone, MotorInv, BlinkInv, LastDutyTracksMotor, ManualHeld, DeadlineInv, Driving
<1>3. CASE LinkUnchanged
  <2>1. /\ UNCHANGED <<motor, manual_pwm, last_duty, watchdog, last_state, quiet_ms>>
        /\ pc = "state" /\ pc' = "usb"
        /\ state(watchdog) = last_state
    BY <1>3 DEF LinkUnchanged
  <2>2. Driving => last_state = "Alive"
    BY <2>1, WatchdogAssumption DEF MotorInv, DeadlineInv, state
  <2>3. last_state = "Alive" => watchdog.silent_ms <= LinkTimeoutMs
    BY <1>1, <2>1, WatchdogAssumption DEF state, TypeOK, Watchdog, SilentCap
  <2>4. DeadlineInv'
    BY <2>1, <2>2, <2>3 DEF MotorInv, DeadlineInv, Driving
  <2> QED
    BY <1>1, <2>1, <2>4 DEF MotorInv, BlinkInv, LastDutyTracksMotor, ManualHeld
<1>4. CASE LinkBecomesAlive
  <2>1. /\ UNCHANGED <<manual_pwm, last_duty, watchdog, last_state, quiet_ms>>
        /\ pc' = "blink" /\ pc = "state"
        /\ motor' = enable(motor)
        /\ state(watchdog) = "Alive" /\ last_state # "Alive"
    BY <1>4 DEF LinkBecomesAlive
  <2>2. /\ motor'.rpwm = motor.rpwm /\ motor'.lpwm = motor.lpwm
        /\ Output(motor') = Output(motor)
    BY <1>1, <2>1, BridgeCalls DEF TypeOK
  <2>3. watchdog.silent_ms <= LinkTimeoutMs
    BY <1>1, <2>1, WatchdogAssumption DEF state, TypeOK, Watchdog, SilentCap
  <2> QED
    BY <1>1, <2>1, <2>2, <2>3
       DEF MotorInv, BlinkInv, LastDutyTracksMotor, ManualHeld, DeadlineInv, Driving
<1>5. CASE BlinkDone
  <2>1. /\ UNCHANGED <<motor, manual_pwm, last_duty, watchdog>>
        /\ pc = "blink" /\ pc' = "usb"
        /\ last_state' = "Alive"
        /\ quiet_ms' = AtMost(quiet_ms + BlinkMs, QuietCap)
    BY <1>5 DEF BlinkDone
  <2>2. DeadlineInv'
    <3> SUFFICES ASSUME Driving'
                 PROVE  /\ watchdog'.heard
                        /\ quiet_ms' <= watchdog'.silent_ms + BlinkMs
                        /\ watchdog'.silent_ms <= LinkTimeoutMs
      BY <2>1 DEF DeadlineInv
    <3>1. Driving
      BY <2>1 DEF Driving
    <3> QED
      <4>1. watchdog.silent_ms = 0 /\ quiet_ms = 0 /\ watchdog.heard
        BY <2>1, <3>1 DEF MotorInv, BlinkInv, DeadlineInv
      <4> QED
        BY <2>1, <4>1, QuietCapType, WatchdogAssumption DEF AtMost
  <2> QED
    BY <1>1, <2>1, <2>2 DEF MotorInv, BlinkInv, LastDutyTracksMotor, ManualHeld
<1>6. CASE LinkTimesOut
  <2>1. /\ motor' = brake(motor) /\ last_duty' = 0
        /\ UNCHANGED manual_pwm /\ pc' = "usb"
    BY <1>6 DEF LinkTimesOut
  <2>2. motor'.rpwm = 0 /\ motor'.lpwm = 0 /\ Output(motor') = 0
    BY <2>1 DEF brake, Output
  <2>3. LastDutyTracksMotor' /\ ManualHeld' /\ BlinkInv' /\ DeadlineInv'
    BY <2>1, <2>2 DEF BlinkInv, LastDutyTracksMotor, ManualHeld, DeadlineInv, Driving, Clamped
  <2> QED
    BY <1>1, <2>3 DEF MotorInv
<1> QED
  BY <1>2, <1>3, <1>4, <1>5, <1>6 DEF LinkStep

LEMMA RestKeepsMotorInv ==
    MotorInv /\ (Calibrated \/ ApplyUsbCommand \/ UsbDrainDone \/ Sense \/ Sleep) => MotorInv'
<1> SUFFICES ASSUME MotorInv, Calibrated \/ ApplyUsbCommand \/ UsbDrainDone \/ Sense \/ Sleep
             PROVE  MotorInv'
  OBVIOUS
<1> USE DEF linkVars, driveVars
<1>1. TypeOK /\ TypeOK'
  BY RestTypes DEF MotorInv
<1>2. CASE ApplyUsbCommand
  <2>1. Head(cmds) \in HostToBoard /\ apply_local_cmd(Head(cmds))
    BY <1>1, <1>2 DEF ApplyUsbCommand, TypeOK
  <2>2. UNCHANGED <<watchdog, last_state, quiet_ms, pc>>
    BY <1>2 DEF ApplyUsbCommand
  <2> QED
    BY <1>1, <2>1, <2>2, CommandKeepsMotorInv
<1>3. CASE UsbDrainDone
  <2>1. /\ UNCHANGED <<manual_pwm, watchdog, last_state, quiet_ms>>
        /\ pc = "usb" /\ pc' \in {"sense", "sleep"}
    BY <1>3 DEF UsbDrainDone
  <2>2. CASE manual_pwm = None
    <3>1. UNCHANGED <<motor, last_duty>>
      BY <1>3, <2>2 DEF UsbDrainDone, Reassert
    <3> QED
      BY <1>1, <2>1, <2>2, <3>1
         DEF MotorInv, BlinkInv, LastDutyTracksMotor, ManualHeld, DeadlineInv, Driving
  <2>3. CASE manual_pwm # None
    <3>1. motor' = set_pwm(motor, manual_pwm) /\ last_duty' = manual_pwm
      BY <1>3, <2>3 DEF UsbDrainDone, Reassert
    <3>2. /\ Output(motor') = Clamped(manual_pwm)
          /\ motor'.rpwm = 0 \/ motor'.lpwm = 0
      BY <1>1, <2>3, <3>1, SetPwm DEF TypeOK
    <3> QED
      BY <1>1, <2>1, <2>3, <3>1, <3>2
         DEF MotorInv, BlinkInv, LastDutyTracksMotor, ManualHeld, DeadlineInv, Driving
  <2> QED
    BY <2>2, <2>3
<1>4. CASE Sense
  BY <1>1, <1>4
     DEF Sense, MotorInv, BlinkInv, LastDutyTracksMotor, ManualHeld, DeadlineInv, Driving
<1>5. CASE Sleep
  <2>1. /\ UNCHANGED <<motor, manual_pwm, last_duty, last_state>>
        /\ pc = "sleep" /\ pc' = "drain"
        /\ watchdog'.heard = watchdog.heard
        /\ watchdog'.silent_ms = AtMost(watchdog.silent_ms + LoopIntervalMs, SilentCap)
        /\ quiet_ms' = AtMost(quiet_ms + LoopIntervalMs, QuietCap)
    BY <1>1, <1>5, WatchdogTypes DEF Sleep, TypeOK
  <2>2. DeadlineInv'
    <3> SUFFICES ASSUME Driving'
                 PROVE  /\ watchdog'.heard
                        /\ quiet_ms' <= watchdog'.silent_ms + BlinkMs
                        /\ last_state = "Alive"
      BY <2>1 DEF DeadlineInv
    <3>1. /\ watchdog.heard
          /\ quiet_ms <= watchdog.silent_ms + BlinkMs
          /\ watchdog.silent_ms <= LinkTimeoutMs
          /\ last_state = "Alive"
      BY <2>1 DEF MotorInv, DeadlineInv, Driving
    <3>2. watchdog.silent_ms \in Nat /\ quiet_ms \in Nat
      BY <1>1, WatchdogAssumption, QuietCapType DEF TypeOK, Watchdog, SilentCap
    <3>3. watchdog'.silent_ms = watchdog.silent_ms + LoopIntervalMs
      BY <2>1, <3>1, <3>2, WatchdogAssumption DEF AtMost, SilentCap
    <3>4. quiet_ms' <= quiet_ms + LoopIntervalMs
      BY <2>1, <3>2, QuietCapType DEF AtMost
    <3>5. quiet_ms' \in Nat
      BY <1>1, QuietCapType DEF TypeOK
    <3> QED
      BY <2>1, <3>1, <3>2, <3>3, <3>4, <3>5, QuietCapType
  <2> QED
    BY <1>1, <2>1, <2>2 DEF MotorInv, BlinkInv, LastDutyTracksMotor, ManualHeld
<1>6. CASE Calibrated
  BY <1>1, <1>6
     DEF Calibrated, MotorInv, BlinkInv, LastDutyTracksMotor, ManualHeld, DeadlineInv, Driving
<1> QED
  BY <1>2, <1>3, <1>4, <1>5, <1>6

LEMMA EnvironmentKeepsMotorInv ==
    ASSUME MotorInv,
           \/ \E f \in Arrivals : FrameArrives(f)
           \/ \E c \in UsbCommands : UsbCommandArrives(c)
           \/ \E held \in BootPresses : Reboot(held)
    PROVE  MotorInv'
<1>1. TypeOK'
  BY EnvironmentTypes DEF MotorInv
<1>2. CASE \/ \E f \in Arrivals : FrameArrives(f)
           \/ \E c \in UsbCommands : UsbCommandArrives(c)
  <2>1. UNCHANGED <<motor, manual_pwm, last_duty, watchdog, last_state, quiet_ms, pc>>
    BY <1>2 DEF FrameArrives, UsbCommandArrives, linkVars, driveVars
  <2> QED
    BY <1>1, <2>1
       DEF MotorInv, BlinkInv, LastDutyTracksMotor, ManualHeld, DeadlineInv, Driving
<1>3. CASE \E held \in BootPresses : Reboot(held)
  <2>1. /\ motor' = BootMotor /\ last_duty' = 0 /\ manual_pwm' = None
        /\ pc' = "boot"
    BY <1>3 DEF Reboot
  <2>2. motor'.rpwm = 0 /\ motor'.lpwm = 0 /\ Output(motor') = 0
    BY <2>1 DEF BootMotor, Output
  <2> QED
    BY <1>1, <2>1, <2>2
       DEF MotorInv, BlinkInv, LastDutyTracksMotor, ManualHeld, DeadlineInv, Driving, Clamped
<1> QED
  BY <1>2, <1>3

LEMMA NextKeepsMotorInv == MotorInv /\ [Next]_vars => MotorInv'
<1>1. MotorInv /\ UNCHANGED vars => MotorInv'
  BY DEF vars, MotorInv, BlinkInv, LastDutyTracksMotor, ManualHeld, DeadlineInv,
         Driving, TypeOK
<1> QED
  BY <1>1, ReceiveKeepsMotorInv, LinkStepKeepsMotorInv, RestKeepsMotorInv,
     EnvironmentKeepsMotorInv DEF Next, Step

LEMMA MotorInvHolds == Spec => []MotorInv
BY MotorInvInit, NextKeepsMotorInv, PTL DEF Spec

\* A motor that turns for the operator was told to within the link timeout,
\* one loop interval and one blink, whatever those are.
THEOREM StopDeadlineHolds == Spec => []StopDeadline
<1>1. MotorInv => StopDeadline
  <2> SUFFICES ASSUME MotorInv, Driving
               PROVE  quiet_ms <= LinkTimeoutMs + LoopIntervalMs + BlinkMs
    BY DEF StopDeadline
  <2>1. quiet_ms <= watchdog.silent_ms + BlinkMs
    BY DEF MotorInv, DeadlineInv
  <2>2. watchdog.silent_ms \in 0 .. LinkTimeoutMs + LoopIntervalMs /\ quiet_ms \in 0 .. QuietCap
    BY DEF MotorInv, TypeOK, Watchdog, SilentCap
  <2> QED
    BY <2>1, <2>2, QuietCapType, WatchdogAssumption
<1> QED
  BY <1>1, MotorInvHolds, PTL

\* While the link has timed out and no override is set, the motor is still
\* whenever the loop sleeps.
THEOREM FailSafeHolds == Spec => []FailSafeHold
<1>1. MotorInv => FailSafeHold
  <2> SUFFICES ASSUME MotorInv, pc = "sleep", last_state = "TimedOut", manual_pwm = None
               PROVE  motor.rpwm = 0 /\ motor.lpwm = 0
    BY DEF FailSafeHold
  <2>1. Output(motor) = 0
    BY DEF MotorInv, DeadlineInv, Driving
  <2>2. motor.rpwm \in 0 .. 100 /\ motor.lpwm \in 0 .. 100
    BY DEF MotorInv, TypeOK, Motor
  <2> QED
    BY <2>1, <2>2 DEF MotorInv, LastDutyTracksMotor, Output
<1> QED
  BY <1>1, MotorInvHolds, PTL

\* An override holds outside the phase that applies it.
THEOREM OverrideHolds == Spec => []ManualHeld
<1>1. MotorInv => ManualHeld
  BY DEF MotorInv
<1> QED
  BY <1>1, MotorInvHolds, PTL

\* The duty the vehicle reports is the one its bridge drives, on one side.
THEOREM ReportedDutyIsDriven == Spec => []LastDutyTracksMotor
<1>1. MotorInv => LastDutyTracksMotor
  BY DEF MotorInv
<1> QED
  BY <1>1, MotorInvHolds, PTL

-----------------------------------------------------------------------------
(* The loop implements FailSafe.                                           *)

LEMMA SameModeStutters ==
    UNCHANGED <<motor, manual_pwm, quiet_ms>> => UNCHANGED <<mode, quiet_ms>>
BY DEF mode

LEMMA CommandRefines ==
    ASSUME MotorInv, NEW cmd \in HostToBoard, apply_local_cmd(cmd), UNCHANGED quiet_ms
    PROVE  Promise!HostOverride \/ UNCHANGED <<mode, quiet_ms>>
<1>1. TypeOK
  BY DEF MotorInv
<1>2. CASE manual_pwm' \in I8
  BY <1>2, NamesAssumption DEF I8, mode, Promise!HostOverride
<1>3. CASE UNCHANGED manual_pwm /\ Output(motor') = Output(motor)
  BY <1>3 DEF mode
<1> QED
  BY <1>1, <1>2, <1>3, ApplyEffects

\* Time that passes for the loop is time that passes for FailSafe.
LEMMA TimeRefines ==
    ASSUME MotorInv, MotorInv', NEW d \in {LoopIntervalMs, BlinkMs},
           quiet_ms' = AtMost(quiet_ms + d, QuietCap), UNCHANGED <<motor, manual_pwm>>
    PROVE  Promise!Elapse(d)
<1>1. quiet_ms \in 0 .. QuietCap /\ d \in Nat
  BY QuietCapType DEF MotorInv, TypeOK
<1>2. quiet_ms' = Promise!Passed(d)
  BY <1>1, QuietCapType, WatchdogAssumption DEF Promise!Passed, AtMost, QuietCap
<1>3. UNCHANGED mode
  BY DEF mode
<1>4. mode = "operator" => Driving'
  BY DEF mode, Driving
<1>5. Driving' => quiet_ms' <= LinkTimeoutMs + LoopIntervalMs + BlinkMs
  <2>1. Driving' => quiet_ms' <= watchdog'.silent_ms + BlinkMs
    BY DEF MotorInv, DeadlineInv
  <2>2. /\ watchdog'.silent_ms \in 0 .. LinkTimeoutMs + LoopIntervalMs
        /\ quiet_ms' \in 0 .. QuietCap
    BY DEF MotorInv, TypeOK, Watchdog, SilentCap
  <2> QED
    BY <2>1, <2>2, QuietCapType, WatchdogAssumption
<1> QED
  BY <1>2, <1>3, <1>4, <1>5 DEF Promise!Elapse

LEMMA StepRefines ==
    ASSUME MotorInv, MotorInv', Step
    PROVE  [Promise!Next]_<<mode, quiet_ms>>
<1> USE DEF driveVars, linkVars
<1>1. CASE Calibrated \/ SkipFrame \/ HandleTunnelEvt \/ DrainDone \/ LinkUnchanged \/ Sense
  BY <1>1, SameModeStutters
     DEF Calibrated, SkipFrame, HandleTunnelEvt, DrainDone, LinkUnchanged, Sense
<1>2. CASE HandleControl
  BY <1>2 DEF HandleControl, mode, Promise!Hear, Promise!Modes, Promise!Next
<1>3. CASE HandleTunnelCmd
  <2>1. Head(rx).bytes \in HostToBoard /\ apply_local_cmd(Head(rx).bytes)
        /\ UNCHANGED quiet_ms
    BY <1>3 DEF HandleTunnelCmd, HostPayloadDecodes
  <2> QED
    BY <2>1, CommandRefines DEF Promise!Next
<1>4. CASE ApplyUsbCommand
  <2>1. Head(cmds) \in HostToBoard /\ apply_local_cmd(Head(cmds)) /\ UNCHANGED quiet_ms
    BY <1>4 DEF ApplyUsbCommand, MotorInv, TypeOK
  <2> QED
    BY <2>1, CommandRefines DEF Promise!Next
<1>5. CASE LinkBecomesAlive
  <2>1. motor' = enable(motor) /\ UNCHANGED <<manual_pwm, quiet_ms>>
    BY <1>5 DEF LinkBecomesAlive
  <2>2. Output(motor') = Output(motor)
    BY <2>1, BridgeCalls DEF MotorInv, TypeOK
  <2> QED
    BY <2>1, <2>2 DEF mode
<1>6. CASE BlinkDone
  <2>1. Promise!Elapse(BlinkMs)
    BY <1>6, TimeRefines DEF BlinkDone
  <2> QED
    BY <2>1 DEF Promise!Next
<1>7. CASE LinkTimesOut
  <2>1. motor' = brake(motor) /\ UNCHANGED <<manual_pwm, quiet_ms>>
    BY <1>7 DEF LinkTimesOut
  <2>2. Output(motor') = 0
    BY <2>1 DEF brake, Output
  <2> QED
    BY <2>1, <2>2 DEF mode, Promise!Halt, Promise!Next
<1>8. CASE UsbDrainDone
  BY <1>8 DEF UsbDrainDone, Reassert, mode
<1>9. CASE Sleep
  <2>1. Promise!Elapse(LoopIntervalMs)
    BY <1>9, TimeRefines DEF Sleep
  <2> QED
    BY <2>1 DEF Promise!Next
<1> QED
  BY <1>1, <1>2, <1>3, <1>4, <1>5, <1>6, <1>7, <1>8, <1>9 DEF Step, Receive, LinkStep

\* The motor starts only on an accepted control packet or a host's command,
\* leaves a host's override only for an operator or a reset, and stops in time.
THEOREM VehicleImplementsFailSafe == Spec => ImplementsFailSafe
<1>1. Init => Promise!Init
  BY DEF Init, Promise!Init, mode, BootMotor, Output
<1>2. MotorInv /\ MotorInv' /\ [Next]_vars => [Promise!Next]_<<mode, quiet_ms>>
  <2> SUFFICES ASSUME MotorInv, MotorInv', [Next]_vars
               PROVE  [Promise!Next]_<<mode, quiet_ms>>
    OBVIOUS
  <2>1. CASE Step
    BY <2>1, StepRefines
  <2>2. CASE \/ \E f \in Arrivals : FrameArrives(f)
             \/ \E c \in UsbCommands : UsbCommandArrives(c)
    BY <2>2, SameModeStutters DEF FrameArrives, UsbCommandArrives, driveVars
  <2>3. CASE \E held \in BootPresses : Reboot(held)
    <3>1. motor' = BootMotor /\ manual_pwm' = None /\ quiet_ms' = 0
      BY <2>3 DEF Reboot
    <3> QED
      BY <3>1 DEF mode, BootMotor, Output, Promise!Restart, Promise!Next
  <2>4. CASE UNCHANGED vars
    BY <2>4, SameModeStutters DEF vars
  <2> QED
    BY <2>1, <2>2, <2>3, <2>4 DEF Next
<1> QED
  BY <1>1, <1>2, MotorInvHolds, PTL DEF Spec, ImplementsFailSafe, Promise!Spec

-----------------------------------------------------------------------------
(* The watchdog's clocks.                                                  *)

\* keepalive.rs: the silence, cut off at SilentCap, is all that the watchdog
\* has of its clocks, for every timeout and loop interval and at any time.
THEOREM ClockIsSilence ==
    ASSUME NEW now \in Nat, NEW l \in (0 .. now) \cup {None}
    PROVE  /\ Silence(l, now) \in Watchdog
           /\ SilenceSuffices(l, now)
<1> DEFINE silent == IF l = None THEN now ELSE now - l
           w == Silence(l, now)
<1>1. LinkTimeoutMs \in Nat /\ LoopIntervalMs \in Nat /\ SilentCap = LinkTimeoutMs + LoopIntervalMs
  BY WatchdogAssumption DEF SilentCap
<1>2. silent \in Nat
  BY NamesAssumption
<1>3. w = [heard |-> l # None, silent_ms |-> AtMost(silent, SilentCap)]
  BY DEF Silence
<1>4. AtMost(silent, SilentCap) \in 0 .. SilentCap
  BY <1>1, <1>2 DEF AtMost
<1>5. AtMost(silent, SilentCap) > LinkTimeoutMs <=> silent > LinkTimeoutMs
  BY <1>1, <1>2, WatchdogAssumption DEF AtMost
<1>6. state(w) = state_at(l, now)
  <2>1. w.heard = (l # None) /\ (w.silent_ms > LinkTimeoutMs <=> silent > LinkTimeoutMs)
    BY <1>3, <1>5
  <2> HIDE DEF w
  <2>2. CASE l = None
    BY <2>1, <2>2 DEF state, state_at
  <2>3. CASE l # None
    BY <2>1, <2>3 DEF state, state_at
  <2> QED
    BY <2>2, <2>3
<1>7. record_valid_packet(w) = Silence(now, now)
  <2>1. now # None /\ now - now = 0
    BY NamesAssumption
  <2>2. AtMost(0, SilentCap) = 0
    BY <1>1 DEF AtMost
  <2>3. Silence(now, now) = [heard |-> TRUE, silent_ms |-> AtMost(0, SilentCap)]
    BY <2>1 DEF Silence
  <2> QED
    BY <2>2, <2>3 DEF record_valid_packet
<1>8. Elapsed(w) = Silence(l, now + LoopIntervalMs)
  <2>1. Elapsed(w) = [heard |-> l # None,
                      silent_ms |-> AtMost(AtMost(silent, SilentCap) + LoopIntervalMs, SilentCap)]
    BY <1>3 DEF Elapsed
  <2>2. AtMost(AtMost(silent, SilentCap) + LoopIntervalMs, SilentCap)
            = AtMost(silent + LoopIntervalMs, SilentCap)
    BY <1>1, <1>2 DEF AtMost
  <2>3. Silence(l, now + LoopIntervalMs)
            = [heard |-> l # None, silent_ms |-> AtMost(silent + LoopIntervalMs, SilentCap)]
    <3>1. CASE l = None
      BY <3>1 DEF Silence
    <3>2. CASE l # None
      <4>1. (now + LoopIntervalMs) - l = silent + LoopIntervalMs
        BY <1>1, <3>2
      <4>2. Silence(l, now + LoopIntervalMs)
                = [heard |-> l # None,
                   silent_ms |-> AtMost((now + LoopIntervalMs) - l, SilentCap)]
        BY <3>2 DEF Silence
      <4> HIDE DEF silent
      <4> QED
        BY <4>1, <4>2
    <3> QED
      BY <3>1, <3>2
  <2> QED
    BY <2>1, <2>2, <2>3
<1>9. w \in Watchdog
  BY <1>3, <1>4 DEF Watchdog
<1> QED
  BY <1>6, <1>7, <1>8, <1>9 DEF SilenceSuffices
=============================================================================
