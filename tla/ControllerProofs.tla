-------------------------- MODULE ControllerProofs --------------------------
(***************************************************************************)
(* Proofs about Controller, for every value of its constants: the types,   *)
(* that no control frame replays an earlier motion of the stick, that the  *)
(* controller keeps sending, and what becomes of its pairing.              *)
(***************************************************************************)
EXTENDS Controller, LinkProofs

USE DEF Option, Bytes

-----------------------------------------------------------------------------
(* Frames that are handed to the radio outside send_control.               *)

NoControl(frames) == \A i \in DOMAIN frames : frames[i].kind # "Control"

\* What a step other than send_control leaves in sent and emitted.
Reported == sent' \in Seq(Frame) /\ emitted' \in Seq(BoardToHost) /\ NoControl(sent')

LEMMA QuietReports == Quietly => Reported
BY DEF Quietly, Reported, NoControl

LEMMA BootLinkType ==
    ASSUME NEW stored \in Option(Macs)
    PROVE  BootLink(stored) \in Link
<1>1. NewLink \in Link
  BY DEF Link, NewLink
<1> QED
  BY <1>1 DEF BootLink, learn_peer, Link

LEMMA EmitReports ==
    ASSUME link \in Link, NEW event \in Telemetry, emit_telemetry(event)
    PROVE  Reported
<1>1. sent' \in Seq(Frame)
  BY SentFrames, ControllerAssumption DEF emit_telemetry
<1>2. NoControl(sent')
  BY DEF emit_telemetry, SendToPeer, TunnelEvtFrame, NoControl
<1>3. emitted' \in Seq(BoardToHost)
  BY EventTypes DEF emit_telemetry
<1> QED
  BY <1>1, <1>2, <1>3 DEF Reported

LEMMA ApplyReports ==
    ASSUME TypeOK, NEW cmd \in HostToBoard, apply_local_cmd(cmd)
    PROVE  /\ link' \in Link
           /\ flash' \in Option(Macs)
           /\ stream_to_peer' \in BOOLEAN
           /\ Reported
<1> USE DEF TypeOK, linkVars
<1>1. CASE ApplySetLed(cmd)
  <2>1. Reported
    BY <1>1, EventTypes DEF ApplySetLed, Reported, NoControl
  <2> QED
    BY <1>1, <2>1 DEF ApplySetLed
<1>2. CASE ApplyEnableRemoteTelemetry(cmd)
  BY <1>2, CommandFields, QuietReports DEF ApplyEnableRemoteTelemetry
<1>3. CASE ApplyRepair(cmd)
  <2>1. flash' \in Option(Macs)
    BY <1>3, FlashTypes DEF ApplyRepair
  <2>2. reset_pairing(link) \in Link
    BY DEF Link, reset_pairing
  <2> QED
    BY <1>3, <2>1, <2>2, QuietReports DEF ApplyRepair
<1>4. CASE ApplyForPeer(cmd)
  <2>1. sent' \in Seq(Frame)
    BY <1>4, CommandFields, SentFrames, ControllerAssumption DEF ApplyForPeer
  <2>2. NoControl(sent')
    BY <1>4 DEF ApplyForPeer, SendToPeer, TunnelCmdFrame, NoControl
  <2> QED
    BY <1>4, <2>1, <2>2 DEF ApplyForPeer, Reported
<1>5. CASE ApplyOther(cmd)
  BY <1>5, QuietReports DEF ApplyOther
<1> QED
  BY <1>1, <1>2, <1>3, <1>4, <1>5 DEF apply_local_cmd

LEMMA ConstantTypes ==
    /\ TickMs \in Nat \ {0} /\ TxIntervalMs \in Nat /\ NeutralFailures \in Nat \ {0}
    /\ Neutral \in Stick
    /\ Sticks \subseteq Stick
    /\ 0 \in Sequences16
    /\ \A n \in Sequences16 : (n + 1) % SeqMod \in Sequences16
<1>1. Neutral \in Stick
  BY DEF Neutral, Stick, Buttons
<1>2. 0 \in Sequences16 /\ \A n \in Sequences16 : (n + 1) % SeqMod \in Sequences16
  BY SeqModAssumption DEF Sequences16
<1> QED
  BY <1>1, <1>2, ControllerAssumption

LEMMA GapCapType == GapCap \in Nat
<1>1. (TxIntervalMs + TickMs - 1) \div TickMs \in Nat
  BY ControllerAssumption
<1>2. ReadTimeoutMs + TickMs \in Nat
  BY ControllerAssumption
<1>3. MaxGap \in Nat
  BY <1>1, <1>2 DEF MaxGap
<1> QED
  BY <1>3 DEF GapCap

\* The ghost clock saturates; its cap is a natural number.
LEMMA GapTypes ==
    ASSUME gap_ms \in 0 .. GapCap, NEW d \in Nat
    PROVE  Took(d) \in 0 .. GapCap
BY GapCapType DEF Took

-----------------------------------------------------------------------------
(* Types.                                                                  *)

\* Once the loop has had its turn to transmit, the keepalive is not due.
Types == TypeOK /\ (pc \in {"cmds", "sleep"} => ticks_since_tx < TxIntervalMs)

LEMMA IntervalPositive == TxIntervalMs > 0
<1>1. (NeutralFailures - 1) * TickMs >= 0
  BY ControllerAssumption
<1> QED
  BY <1>1, ControllerAssumption

\* After a reset, and at the start.
LEMMA BootTypes ==
    ASSUME NEW stored \in Option(Macs)
    PROVE  /\ BootLink(stored) \in Link
           /\ <<>> \in Seq(Frame) /\ Len(<<>>) <= RxDepth /\ Len(<<>>) <= CmdsDepth
           /\ 0 \in 0 .. MaxRxDrain /\ 0 \in 0 .. GapCap /\ 0 \in 0 .. NeutralFailures
           /\ TxIntervalMs \in 0 .. TxIntervalMs + TickMs
BY BootLinkType, GapCapType, ControllerAssumption, LinkAssumption

LEMMA InitTypes == Init => Types
<1> SUFFICES ASSUME Init PROVE Types
  OBVIOUS
<1>1. flash \in Option(Macs)
  BY DEF Init
<1>2. /\ link \in Link
      /\ rx \in Seq(Frame) /\ Len(rx) <= RxDepth
      /\ cmds \in Seq(HostToBoard) /\ Len(cmds) <= CmdsDepth
      /\ sent \in Seq(Frame) /\ emitted \in Seq(BoardToHost)
      /\ drained \in 0 .. MaxRxDrain
      /\ gap_ms \in 0 .. GapCap
      /\ failures \in 0 .. NeutralFailures
      /\ ticks_since_tx \in 0 .. TxIntervalMs + TickMs
      /\ tx_seq \in Sequences16
  BY <1>1, BootTypes, ConstantTypes DEF Init
<1>3. stream_to_peer \in BOOLEAN
  BY DEF Init
<1> QED
  BY <1>1, <1>2, <1>3 DEF Init, Types, TypeOK

LEMMA ReceiveTypes == Types /\ Receive => Types' /\ NoControl(sent')
<1> SUFFICES ASSUME Types, Receive PROVE Types' /\ NoControl(sent')
  OBVIOUS
<1> DEFINE f == Head(rx)
<1> USE DEF linkVars, txVars
<1>1. TakeFrame
  BY DEF Receive, SkipFrame, HandlePairAck, HandleTunnelCmd, HandleTunnelEvt
<1>2. /\ f \in Frame
      /\ rx' \in Seq(Frame) /\ Len(rx') <= RxDepth
      /\ drained' \in 0 .. MaxRxDrain
      /\ UNCHANGED <<pc, last_sampled, change, failures, ticks_since_tx, tx_seq, cmds, gap_ms>>
  BY <1>1, ControllerAssumption, LinkAssumption DEF TakeFrame, Types, TypeOK
<1>3. f.src \in Macs /\ AfterReceive(link, f) \in Link /\ learn_peer(link, f.src) \in Link
  BY <1>2, FrameFields, LinkCalls DEF Types, TypeOK
<1> HIDE DEF f
<1>4. /\ link' \in Link
      /\ flash' \in Option(Macs)
      /\ stream_to_peer' \in BOOLEAN
      /\ Reported
  <2>1. CASE SkipFrame
    BY <1>3, <2>1, QuietReports DEF SkipFrame, Types, TypeOK, f
  <2>2. CASE HandlePairAck
    <3>1. flash' \in Option(Macs)
      BY <1>3, <2>2, FlashTypes DEF HandlePairAck, Types, TypeOK, f
    <3> QED
      BY <1>3, <2>2, <3>1, QuietReports DEF HandlePairAck, Types, TypeOK, f
  <2>3. CASE HandleTunnelCmd
    BY <2>3, ApplyReports DEF HandleTunnelCmd, HostPayloadDecodes, Types
  <2>4. CASE HandleTunnelEvt
    <3>1. f.bytes \in Telemetry
      BY <1>2, <2>4, FrameFields DEF HandleTunnelEvt, f
    <3>2. Reported
      BY <2>4, <3>1, EventTypes DEF HandleTunnelEvt, Reported, NoControl, BoardKind, f
    <3> QED
      BY <2>4, <3>2 DEF HandleTunnelEvt, Types, TypeOK
  <2> QED
    BY <2>1, <2>2, <2>3, <2>4 DEF Receive
<1> QED
  BY <1>2, <1>4 DEF Types, TypeOK, Reported

LEMMA SampleTypes == Types /\ Sample => Types' /\ NoControl(sent')
<1> SUFFICES ASSUME Types, Sample PROVE Types' /\ NoControl(sent')
  OBVIOUS
<1> USE DEF radioVars, linkVars
<1>1. ASSUME NEW s \in Sticks, NEW d \in ReadTimes, SampleOk(s, d)
      PROVE  Types' /\ NoControl(sent')
  <2>1. s \in Stick /\ JoystickState(s) \in Telemetry /\ d \in Nat
    BY ConstantTypes, ControllerAssumption DEF Stick, JoystickState, Telemetry
  <2>2. Reported
    BY <1>1, <2>1, EmitReports, QuietReports DEF SampleOk, Types, TypeOK
  <2>3. last_sampled' \in Option(Stick) /\ change' \in Option(Stick) /\ failures' \in 0 .. NeutralFailures
    BY <1>1, <2>1, ConstantTypes DEF SampleOk
  <2>4. gap_ms' \in 0 .. GapCap
    BY <1>1, <2>1, GapTypes DEF SampleOk, Types, TypeOK
  <2> QED
    BY <1>1, <2>2, <2>3, <2>4 DEF SampleOk, Types, TypeOK, Reported
<1>2. ASSUME NEW d \in ReadTimes \cup {ReadTimeoutMs}, SampleFailed(d)
      PROVE  Types' /\ NoControl(sent')
  <2>1. d \in Nat
    BY ControllerAssumption
  <2>2. gap_ms' \in 0 .. GapCap
    BY <1>2, <2>1, GapTypes DEF SampleFailed, Types, TypeOK
  <2>3. failures' \in 0 .. NeutralFailures
    BY <1>2, ConstantTypes DEF SampleFailed, Types, TypeOK
  <2> QED
    BY <1>2, <2>2, <2>3, QuietReports DEF SampleFailed, Types, TypeOK, Reported
<1> QED
  BY <1>1, <1>2 DEF Sample

LEMMA SendTypes ==
    ASSUME Types, NEW s \in Stick, send_control(s)
    PROVE  Types'
<1> USE DEF radioVars, linkVars
<1>1. tx_seq' \in Sequences16
  BY ConstantTypes DEF send_control, Types, TypeOK
<1>2. sent' \in Seq(Frame)
  <2>1. [sequence |-> tx_seq', x |-> s.x, y |-> s.y, buttons |-> s.buttons] \in ControlPacket
    BY <1>1 DEF ControlPacket, Stick
  <2>2. ControlDestination(link) \in Destinations
    BY DEF ControlDestination, Destinations, is_paired, Link, Types, TypeOK
  <2> QED
    BY <2>1, <2>2, ControllerAssumption DEF send_control, ControlFrame, Frame
<1>3. ticks_since_tx' = 0 /\ gap_ms' = 0 /\ emitted' = <<>> /\ pc' = "cmds"
  BY DEF send_control
<1> QED
  BY <1>1, <1>2, <1>3, IntervalPositive, ConstantTypes, GapCapType
     DEF send_control, Types, TypeOK

LEMMA TransmitTypes == Types /\ Transmit => Types'
<1> SUFFICES ASSUME Types, Transmit PROVE Types'
  OBVIOUS
<1>1. CASE SendChange
  BY <1>1, SendTypes DEF SendChange, Types, TypeOK
<1>2. CASE SendKeepalive
  <2>1. KeepaliveState \in Stick
    BY ConstantTypes DEF KeepaliveState, Types, TypeOK
  <2> QED
    BY <1>2, <2>1, SendTypes DEF SendKeepalive
<1>3. CASE NothingToSend
  BY <1>3, QuietReports, ConstantTypes
     DEF NothingToSend, KeepaliveDue, Types, TypeOK, radioVars, linkVars, txVars, Reported
<1> QED
  BY <1>1, <1>2, <1>3 DEF Transmit

LEMMA RestTypes ==
    Types /\ (DrainDone \/ ApplyUsbCommand \/ UsbDrainDone \/ Sleep) => Types' /\ NoControl(sent')
<1> SUFFICES ASSUME Types, DrainDone \/ ApplyUsbCommand \/ UsbDrainDone \/ Sleep
             PROVE  Types' /\ NoControl(sent')
  OBVIOUS
<1> USE DEF radioVars, linkVars, txVars
<1>1. CASE DrainDone
  BY <1>1, QuietReports, ControllerAssumption DEF DrainDone, Types, TypeOK, Reported
<1>2. CASE ApplyUsbCommand
  <2>1. Head(cmds) \in HostToBoard /\ apply_local_cmd(Head(cmds))
    BY <1>2 DEF ApplyUsbCommand, Types, TypeOK
  <2>2. cmds' \in Seq(HostToBoard) /\ Len(cmds') <= CmdsDepth
    BY <1>2, ControllerAssumption DEF ApplyUsbCommand, Types, TypeOK
  <2> QED
    BY <1>2, <2>1, <2>2, ApplyReports DEF ApplyUsbCommand, Types, TypeOK, Reported
<1>3. CASE UsbDrainDone
  BY <1>3, QuietReports DEF UsbDrainDone, Types, TypeOK, Reported
<1>4. CASE Sleep
  <2>1. gap_ms' \in 0 .. GapCap
    BY <1>4, GapTypes, ConstantTypes DEF Sleep, Types, TypeOK
  <2>2. ticks_since_tx' \in 0 .. TxIntervalMs + TickMs
    BY <1>4, ConstantTypes DEF Sleep, Types, TypeOK
  <2> QED
    BY <1>4, <2>1, <2>2, QuietReports DEF Sleep, Types, TypeOK, Reported
<1> QED
  BY <1>1, <1>2, <1>3, <1>4

LEMMA EnvironmentTypes ==
    ASSUME Types,
           \/ \E f \in Arrivals : FrameArrives(f)
           \/ \E c \in UsbCommands : UsbCommandArrives(c)
           \/ \E held \in BootPresses : Reboot(held)
    PROVE  Types' /\ NoControl(sent')
<1> USE DEF radioVars, linkVars, txVars
<1>1. ASSUME NEW f \in Arrivals, FrameArrives(f) PROVE Types' /\ NoControl(sent')
  <2>1. f \in Frame
    BY ControllerAssumption
  <2>2. rx' \in Seq(Frame) /\ Len(rx') <= RxDepth
    BY <1>1, <2>1, EnqueuedTypes DEF FrameArrives, Types, TypeOK
  <2> QED
    BY <1>1, <2>2, QuietReports DEF FrameArrives, Types, TypeOK, Reported
<1>2. ASSUME NEW c \in UsbCommands, UsbCommandArrives(c) PROVE Types' /\ NoControl(sent')
  <2>1. c \in HostToBoard
    BY ControllerAssumption
  <2>2. cmds' \in Seq(HostToBoard) /\ Len(cmds') <= CmdsDepth
    BY <1>2, <2>1, ControllerAssumption DEF UsbCommandArrives, Types, TypeOK
  <2> QED
    BY <1>2, <2>2, QuietReports DEF UsbCommandArrives, Types, TypeOK, Reported
<1>3. ASSUME NEW held \in BootPresses, Reboot(held) PROVE Types' /\ NoControl(sent')
  <2>1. flash' \in Option(Macs)
    BY <1>3, FlashTypes DEF Reboot, Types, TypeOK
  <2>2. /\ link' \in Link
        /\ rx' \in Seq(Frame) /\ Len(rx') <= RxDepth
        /\ cmds' \in Seq(HostToBoard) /\ Len(cmds') <= CmdsDepth
        /\ sent' \in Seq(Frame) /\ emitted' \in Seq(BoardToHost)
        /\ drained' \in 0 .. MaxRxDrain
        /\ gap_ms' \in 0 .. GapCap
        /\ failures' \in 0 .. NeutralFailures
        /\ ticks_since_tx' \in 0 .. TxIntervalMs + TickMs
        /\ tx_seq' \in Sequences16
    BY <1>3, <2>1, BootTypes, ConstantTypes DEF Reboot
  <2>3. stream_to_peer' \in BOOLEAN
    BY <1>3 DEF Reboot
  <2>4. NoControl(sent')
    BY <1>3 DEF Reboot, NoControl
  <2> QED
    BY <1>3, <2>1, <2>2, <2>3, <2>4 DEF Reboot, Types, TypeOK
<1> QED
  BY <1>1, <1>2, <1>3

LEMMA NextKeepsTypes == Types /\ [Next]_vars => Types'
<1>1. Types /\ UNCHANGED vars => Types'
  BY DEF Types, TypeOK, vars
<1> QED
  BY <1>1, ReceiveTypes, SampleTypes, TransmitTypes, RestTypes, EnvironmentTypes DEF Next, Step

\* Every variable of the controller keeps its type, for all constants; in
\* particular the loop never lets its own count pass the keepalive interval.
THEOREM ControllerTypes == Spec => []TypeOK
<1>1. Types => TypeOK
  BY DEF Types
<1> QED
  BY <1>1, InitTypes, NextKeepsTypes, PTL DEF Spec

-----------------------------------------------------------------------------
(* No stale motion.                                                        *)

\* The last sample had the stick off centre.
Off == last_sampled # None /\ OffCentre(last_sampled)

\* The turns of the loop since a control frame was sent were all turns in
\* which the joystick could not be read.
FailedSince(n) == ticks_since_tx <= n * TickMs

\* The inductive invariant.  A motion is sent in the turn it is sampled in,
\* so when the keepalive falls due with the last sample off centre, every
\* turn since was a failed read, and enough of them to make it neutral.
MotionInv ==
    /\ pc = "transmit" /\ change # None => change = last_sampled /\ failures = 0
    /\ Off /\ failures < NeutralFailures =>
         /\ pc \in {"drain", "sample"} => FailedSince(failures + 1)
         /\ pc = "transmit" /\ change = None => FailedSince(failures)
         /\ pc \in {"cmds", "sleep"} => FailedSince(failures)

FreshInv == Types /\ MotionInv /\ MotionIsFresh

LEMMA Products ==
    ASSUME NEW n \in 0 .. NeutralFailures
    PROVE  /\ n * TickMs \in Nat
           /\ (n + 1) * TickMs = n * TickMs + TickMs
           /\ n < NeutralFailures => n * TickMs < TxIntervalMs
<1>1. n * TickMs \in Nat /\ (n + 1) * TickMs = n * TickMs + TickMs
  BY ConstantTypes
<1>2. ASSUME n < NeutralFailures PROVE n * TickMs <= (NeutralFailures - 1) * TickMs
  BY <1>2, ConstantTypes
<1> QED
  BY <1>1, <1>2, ConstantTypes, ControllerAssumption

LEMMA NoControlIsFresh == NoControl(sent') => MotionIsFresh'
BY DEF NoControl, MotionIsFresh

\* Steps that leave the transmitter alone.
LEMMA IdleKeepsMotionInv ==
    ASSUME Types, MotionInv, UNCHANGED txVars,
           \/ UNCHANGED pc
           \/ pc = "drain" /\ pc' = "sample"
           \/ pc = "transmit" /\ change = None /\ pc' = "cmds"
           \/ pc = "cmds" /\ pc' = "sleep"
    PROVE  MotionInv'
BY DEF Types, TypeOK, MotionInv, Off, FailedSince, txVars

LEMMA SampleKeepsMotionInv ==
    ASSUME Types, MotionInv, Sample
    PROVE  MotionInv'
<1>1. ASSUME NEW s \in Sticks, NEW d \in ReadTimes, SampleOk(s, d) PROVE MotionInv'
  <2>1. pc' = "transmit" /\ failures' = 0 /\ last_sampled' = s
    BY <1>1 DEF SampleOk
  <2>2. change' = s \/ (change' = None /\ ~OffCentre(s))
    BY <1>1 DEF SampleOk, Changed
  <2>3. change' # None \/ ~Off'
    BY <2>1, <2>2 DEF Off
  <2> QED
    BY <2>1, <2>2, <2>3 DEF MotionInv
<1>2. ASSUME NEW d \in ReadTimes \cup {ReadTimeoutMs}, SampleFailed(d) PROVE MotionInv'
  <2>1. /\ pc = "sample" /\ pc' = "transmit" /\ change' = None
        /\ UNCHANGED <<last_sampled, ticks_since_tx>>
        /\ failures' = IF failures < NeutralFailures THEN failures + 1 ELSE failures
    BY <1>2 DEF SampleFailed
  <2>2. Off' = Off
    BY <2>1 DEF Off
  <2> QED
    BY <2>1, <2>2 DEF MotionInv, FailedSince
<1> QED
  BY <1>1, <1>2 DEF Sample

\* Sending either carries this turn's sample, or a centred stick.
LEMMA SendKeepsFresh ==
    ASSUME Types, MotionInv, SendChange \/ SendKeepalive
    PROVE  MotionInv' /\ MotionIsFresh'
<1>1. PICK s : send_control(s) /\ (OffCentre(s) => s = last_sampled /\ failures = 0)
  <2>1. CASE SendChange
    BY <2>1 DEF SendChange, MotionInv, send_control
  <2>2. CASE SendKeepalive
    <3>1. pc = "transmit" /\ change = None /\ ticks_since_tx >= TxIntervalMs
          /\ send_control(KeepaliveState)
      BY <2>2 DEF SendKeepalive, KeepaliveDue, send_control
    <3>2. Off => ~(failures < NeutralFailures)
      <4> SUFFICES ASSUME Off, failures < NeutralFailures PROVE FALSE
        OBVIOUS
      <4>1. ticks_since_tx <= failures * TickMs
        BY <3>1 DEF MotionInv, FailedSince
      <4>2. failures * TickMs \in Nat /\ failures * TickMs < TxIntervalMs
        BY Products DEF Types, TypeOK
      <4> QED
        BY <3>1, <4>1, <4>2, ConstantTypes DEF Types, TypeOK
    <3>3. failures < NeutralFailures \/ failures >= NeutralFailures
      BY ConstantTypes DEF Types, TypeOK
    <3>4. ~OffCentre(KeepaliveState)
      BY <3>2, <3>3 DEF Off, KeepaliveState, Neutral, OffCentre
    <3> QED
      BY <3>1, <3>4
  <2> QED
    BY <2>1, <2>2
<1>2. /\ sent' = <<ControlFrame(Self, ControlDestination(link),
                       [sequence |-> tx_seq', x |-> s.x, y |-> s.y, buttons |-> s.buttons])>>
      /\ UNCHANGED <<last_sampled, failures>>
      /\ pc' = "cmds" /\ ticks_since_tx' = 0
  BY <1>1 DEF send_control
<1>3. MotionIsFresh'
  BY <1>1, <1>2 DEF MotionIsFresh, ControlFrame, OffCentre, ReceivedPacket
<1>4. 0 <= failures * TickMs
  BY Products DEF Types, TypeOK
<1>5. MotionInv'
  BY <1>2, <1>4 DEF MotionInv, FailedSince
<1> QED
  BY <1>3, <1>5

LEMMA SleepKeepsMotionInv ==
    ASSUME Types, MotionInv, Sleep
    PROVE  MotionInv'
<1>1. /\ pc = "sleep" /\ pc' = "drain"
      /\ UNCHANGED <<last_sampled, failures>>
      /\ ticks_since_tx' = ticks_since_tx + TickMs
  BY DEF Sleep
<1>2. /\ failures * TickMs \in Nat
      /\ (failures + 1) * TickMs = failures * TickMs + TickMs
  BY Products DEF Types, TypeOK
<1>3. ticks_since_tx \in Nat
  BY ConstantTypes DEF Types, TypeOK
<1> QED
  BY <1>1, <1>2, <1>3, ConstantTypes DEF MotionInv, FailedSince, Off

LEMMA NextKeepsFresh == FreshInv /\ [Next]_vars => FreshInv'
<1> SUFFICES ASSUME FreshInv, [Next]_vars PROVE FreshInv'
  OBVIOUS
<1>1. Types /\ MotionInv /\ Types'
  BY NextKeepsTypes DEF FreshInv
<1>2. CASE SendChange \/ SendKeepalive
  BY <1>1, <1>2, SendKeepsFresh DEF FreshInv
<1>3. CASE Sample
  BY <1>1, <1>3, SampleTypes, SampleKeepsMotionInv, NoControlIsFresh DEF FreshInv
<1>4. CASE Sleep
  BY <1>1, <1>4, RestTypes, SleepKeepsMotionInv, NoControlIsFresh DEF FreshInv
<1>5. CASE NothingToSend
  <2>1. MotionInv'
    BY <1>1, <1>5, IdleKeepsMotionInv DEF NothingToSend
  <2>2. NoControl(sent')
    BY <1>5, QuietReports DEF NothingToSend, Reported
  <2> QED
    BY <1>1, <2>1, <2>2, NoControlIsFresh DEF FreshInv
<1>6. CASE Receive \/ DrainDone \/ ApplyUsbCommand \/ UsbDrainDone
  <2>1. MotionInv'
    BY <1>1, <1>6, IdleKeepsMotionInv
       DEF Receive, SkipFrame, HandlePairAck, HandleTunnelCmd, HandleTunnelEvt, TakeFrame,
           DrainDone, ApplyUsbCommand, UsbDrainDone, txVars
  <2>2. NoControl(sent')
    BY <1>1, <1>6, ReceiveTypes, RestTypes
  <2> QED
    BY <1>1, <2>1, <2>2, NoControlIsFresh DEF FreshInv
<1>7. CASE \/ \E f \in Arrivals : FrameArrives(f)
           \/ \E c \in UsbCommands : UsbCommandArrives(c)
  <2>1. UNCHANGED <<pc, txVars>>
    BY <1>7 DEF FrameArrives, UsbCommandArrives
  <2>2. NoControl(sent')
    BY <1>1, <1>7, EnvironmentTypes
  <2> QED
    BY <1>1, <2>1, <2>2, IdleKeepsMotionInv, NoControlIsFresh DEF FreshInv
<1>8. CASE \E held \in BootPresses : Reboot(held)
  <2>1. MotionInv'
    BY <1>8 DEF Reboot, MotionInv, Off
  <2>2. NoControl(sent')
    BY <1>1, <1>8, EnvironmentTypes
  <2> QED
    BY <1>1, <2>1, <2>2, NoControlIsFresh DEF FreshInv
<1>9. CASE UNCHANGED vars
  BY <1>1, <1>9 DEF FreshInv, MotionInv, MotionIsFresh, Off, FailedSince, vars
<1> QED
  BY <1>2, <1>3, <1>4, <1>5, <1>6, <1>7, <1>8, <1>9 DEF Next, Step, Transmit

\* Neither a joystick that stops answering nor a keepalive replays a motion,
\* provided the keepalive interval outlasts the reads that make it neutral.
THEOREM MotionIsFreshHolds == Spec => []MotionIsFresh
<1>1. Init => FreshInv
  <2> SUFFICES ASSUME Init PROVE FreshInv
    OBVIOUS
  <2>1. MotionInv /\ MotionIsFresh
    BY DEF Init, MotionInv, MotionIsFresh, Off
  <2> QED
    BY <2>1, InitTypes DEF FreshInv
<1>2. FreshInv => MotionIsFresh
  BY DEF FreshInv
<1> QED
  BY <1>1, <1>2, NextKeepsFresh, PTL DEF Spec

-----------------------------------------------------------------------------
(* The gap between two control frames.                                     *)

Turns == (TxIntervalMs + TickMs - 1) \div TickMs
TurnMs == ReadTimeoutMs + TickMs

\* The inductive invariant.  In n turns since it transmitted the loop has
\* counted n ticks and spent at most n turns of real time, less the read that
\* the current turn has not made yet; before its first transmission it counts
\* as due.
Due == ticks_since_tx = TxIntervalMs
GapAfter(n) ==
    /\ ticks_since_tx = n * TickMs
    /\ pc \in {"drain", "sample"} => gap_ms <= n * TurnMs - ReadTimeoutMs
    /\ pc \in {"transmit", "cmds", "sleep"} => gap_ms <= n * TurnMs
GapInv ==
    \/ Due /\ pc \in {"drain", "sample"} /\ gap_ms = 0
    \/ Due /\ pc = "transmit" /\ gap_ms <= TurnMs
    \/ \E n \in 0 .. Turns : GapAfter(n)

LEMMA TurnTypes ==
    /\ Turns \in Nat /\ TurnMs \in Nat /\ TurnMs = ReadTimeoutMs + TickMs
    /\ ReadTimeoutMs \in Nat /\ TickMs \in Nat /\ TxIntervalMs \in Nat
    /\ MaxGap = Turns * TurnMs
<1>1. Turns \in Nat
  BY ControllerAssumption DEF Turns
<1> QED
  BY <1>1, ControllerAssumption DEF TurnMs, MaxGap, Turns

\* The loop that is not due has a turn left, and there is one at all.
LEMMA TurnsSuffice ==
    /\ \A n \in Nat : n * TickMs < TxIntervalMs => n + 1 <= Turns
    /\ 1 <= Turns
<1> DEFINE a == TxIntervalMs + TickMs - 1
<1>1. a \in Nat /\ TickMs \in Nat \ {0}
  BY IntervalPositive, ControllerAssumption
<1>2. a < (a \div TickMs + 1) * TickMs
  BY <1>1
<1>3. TxIntervalMs - 1 < Turns * TickMs
  <2>1. (Turns + 1) * TickMs = Turns * TickMs + TickMs
    BY TurnTypes
  <2>2. Turns * TickMs \in Nat
    BY TurnTypes
  <2> QED
    BY <1>1, <1>2, <2>1, <2>2, TurnTypes DEF Turns
<1>4. ASSUME NEW n \in Nat, n * TickMs < TxIntervalMs PROVE n + 1 <= Turns
  <2> SUFFICES ASSUME Turns <= n PROVE FALSE
    BY TurnTypes
  <2>1. Turns * TickMs <= n * TickMs
    BY <1>1, TurnTypes
  <2>2. n * TickMs \in Nat /\ Turns * TickMs \in Nat
    BY <1>1, TurnTypes
  <2> QED
    BY <1>3, <1>4, <2>1, <2>2, TurnTypes
<1>5. 0 * TickMs < TxIntervalMs
  BY <1>1, IntervalPositive
<1> QED
  BY <1>4, <1>5

LEMMA TurnProducts ==
    ASSUME NEW n \in 0 .. Turns
    PROVE  /\ n * TurnMs \in Nat /\ n * TickMs \in Nat
           /\ (n + 1) * TurnMs = n * TurnMs + TurnMs
           /\ (n + 1) * TickMs = n * TickMs + TickMs
           /\ n * TurnMs <= MaxGap
<1>1. n * TurnMs <= Turns * TurnMs
  BY TurnTypes
<1> QED
  BY <1>1, TurnTypes

\* Steps that leave the clocks alone.
LEMMA IdleKeepsGapInv ==
    ASSUME Types, GapInv, UNCHANGED <<ticks_since_tx, gap_ms>>,
           \/ UNCHANGED pc
           \/ pc = "drain" /\ pc' = "sample"
           \/ pc = "transmit" /\ ~KeepaliveDue /\ pc' = "cmds"
           \/ pc = "cmds" /\ pc' = "sleep"
    PROVE  GapInv'
<1>1. pc \in {"cmds", "sleep"} => ~Due
  BY ConstantTypes DEF Types, TypeOK, Due
<1>2. ASSUME NEW n \in 0 .. Turns, GapAfter(n) PROVE GapAfter(n)'
  BY <1>2 DEF GapAfter
<1>3. pc = "transmit" /\ Due => KeepaliveDue
  BY ConstantTypes DEF Due, KeepaliveDue
<1> QED
  BY <1>1, <1>2, <1>3 DEF GapInv, Due

LEMMA SampleKeepsGapInv ==
    ASSUME Types, GapInv, Sample
    PROVE  GapInv'
<1>1. /\ pc = "sample" /\ pc' = "transmit" /\ UNCHANGED ticks_since_tx
      /\ \E d \in 0 .. ReadTimeoutMs : gap_ms' = Took(d)
  BY ControllerAssumption DEF Sample, SampleOk, SampleFailed
<1>2. gap_ms' <= gap_ms + ReadTimeoutMs /\ gap_ms \in Nat /\ gap_ms' \in Nat
  BY <1>1, GapCapType, ControllerAssumption DEF Took, Types, TypeOK
<1>3. CASE Due /\ gap_ms = 0
  BY <1>1, <1>2, <1>3, TurnTypes DEF GapInv, Due
<1>4. ASSUME NEW n \in 0 .. Turns, GapAfter(n) PROVE GapAfter(n)'
  BY <1>1, <1>2, <1>4, TurnTypes, TurnProducts DEF GapAfter
<1> QED
  BY <1>1, <1>3, <1>4 DEF GapInv

LEMMA SleepKeepsGapInv ==
    ASSUME Types, GapInv, Sleep
    PROVE  GapInv'
<1>1. /\ pc = "sleep" /\ pc' = "drain"
      /\ ticks_since_tx' = ticks_since_tx + TickMs
      /\ gap_ms' <= gap_ms + TickMs /\ gap_ms \in Nat /\ gap_ms' \in Nat
  BY GapCapType, ControllerAssumption DEF Sleep, Took, Types, TypeOK
<1>2. ticks_since_tx < TxIntervalMs
  BY <1>1 DEF Types
<1>3. PICK n \in 0 .. Turns : GapAfter(n)
  BY <1>1 DEF GapInv
<1>4. n + 1 \in 0 .. Turns
  BY <1>2, <1>3, TurnsSuffice, TurnTypes DEF GapAfter
<1>5. GapAfter(n + 1)'
  BY <1>1, <1>3, TurnTypes, TurnProducts DEF GapAfter
<1> QED
  BY <1>4, <1>5 DEF GapInv

LEMMA NextKeepsGapInv == Types /\ GapInv /\ [Next]_vars => GapInv'
<1> SUFFICES ASSUME Types, GapInv, [Next]_vars PROVE GapInv'
  OBVIOUS
<1>1. CASE SendChange \/ SendKeepalive
  <2>1. ticks_since_tx' = 0 /\ gap_ms' = 0 /\ pc' = "cmds"
    BY <1>1 DEF SendChange, SendKeepalive, send_control
  <2>2. GapAfter(0)'
    BY <2>1, TurnTypes DEF GapAfter
  <2> QED
    BY <2>2, TurnTypes DEF GapInv
<1>2. CASE Sample
  BY <1>2, SampleKeepsGapInv
<1>3. CASE Sleep
  BY <1>3, SleepKeepsGapInv
<1>4. CASE \E held \in BootPresses : Reboot(held)
  BY <1>4 DEF Reboot, GapInv, Due
<1>5. CASE NothingToSend
  BY <1>5, IdleKeepsGapInv DEF NothingToSend, txVars
<1>6. CASE Receive \/ DrainDone \/ ApplyUsbCommand \/ UsbDrainDone
  BY <1>6, IdleKeepsGapInv
     DEF Receive, SkipFrame, HandlePairAck, HandleTunnelCmd, HandleTunnelEvt, TakeFrame,
         DrainDone, ApplyUsbCommand, UsbDrainDone, txVars
<1>7. CASE \/ \E f \in Arrivals : FrameArrives(f)
           \/ \E c \in UsbCommands : UsbCommandArrives(c)
           \/ UNCHANGED vars
  BY <1>7, IdleKeepsGapInv DEF FrameArrives, UsbCommandArrives, vars, txVars
<1> QED
  BY <1>1, <1>2, <1>3, <1>4, <1>5, <1>6, <1>7 DEF Next, Step, Transmit

\* The longest silence of a controller that is not reset: one read that times
\* out in each of the turns that the loop counts to the keepalive.
THEOREM GapIsBoundedHolds == Spec => []GapIsBounded
<1>1. Init => GapInv
  BY DEF Init, GapInv, Due
<1>2. Types /\ GapInv => GapIsBounded
  <2> SUFFICES ASSUME Types, GapInv PROVE gap_ms <= MaxGap
    BY DEF GapIsBounded
  <2>1. gap_ms \in Nat
    BY GapCapType DEF Types, TypeOK
  <2>2. ASSUME NEW n \in 0 .. Turns, GapAfter(n) PROVE gap_ms <= MaxGap
    <3>1. n * TurnMs \in Nat /\ n * TurnMs <= MaxGap
      BY TurnProducts
    <3>2. gap_ms <= n * TurnMs
      BY <2>1, <2>2, <3>1, TurnTypes DEF GapAfter, Types, TypeOK
    <3>3. MaxGap \in Nat
      BY TurnTypes
    <3> QED
      BY <2>1, <3>1, <3>2, <3>3
  <2>3. TurnMs <= MaxGap
    BY TurnProducts, TurnsSuffice, TurnTypes
  <2> QED
    BY <2>1, <2>2, <2>3, TurnTypes DEF GapInv
<1>3. Spec => []Types
  BY InitTypes, NextKeepsTypes, PTL DEF Spec
<1> QED
  BY <1>1, <1>2, <1>3, NextKeepsGapInv, PTL DEF Spec

-----------------------------------------------------------------------------
(* The pairing: the peer is never replaced, and a reset comes up with it.   *)

LEMMA BootRestores ==
    ASSUME NEW stored \in Option(Macs)
    PROVE  BootLink(stored).paired_peer = stored
BY NewLinkLearns DEF BootLink, NewLink

\* What a step may do to the pairing, flash included: nothing, forget the
\* peer, or learn one while there is none.
Kept == link'.paired_peer = link.paired_peer /\ flash' = flash
Forgotten == link'.paired_peer = None /\ flash' \in FlashWrite(flash, None)
Learned ==
    /\ ~is_paired(link)
    /\ link'.paired_peer \in Macs
    /\ flash' \in FlashWrite(flash, link'.paired_peer)
Restored ==
    /\ flash' \in {flash} \cup FlashWrite(flash, None)
    /\ link'.paired_peer = flash'

LEMMA CommandOnPairing ==
    ASSUME TypeOK, NEW cmd \in HostToBoard, apply_local_cmd(cmd)
    PROVE  Kept \/ Forgotten
<1>1. CASE ApplyRepair(cmd)
  BY <1>1 DEF ApplyRepair, reset_pairing, Forgotten, TypeOK, Link
<1>2. CASE ~ApplyRepair(cmd)
  BY <1>2 DEF apply_local_cmd, ApplySetLed, ApplyEnableRemoteTelemetry, ApplyForPeer,
              ApplyOther, linkVars, Kept
<1> QED
  BY <1>1, <1>2

LEMMA ReceiveOnPairing ==
    ASSUME TypeOK, Receive
    PROVE  Kept \/ Forgotten \/ Learned
<1> DEFINE f == Head(rx)
<1>1. f \in Frame /\ f.src \in Macs /\ link \in Link
  <2>1. TakeFrame
    BY DEF Receive, SkipFrame, HandlePairAck, HandleTunnelCmd, HandleTunnelEvt
  <2>2. Head(rx) \in Frame
    BY <2>1 DEF TakeFrame, TypeOK
  <2> QED
    BY <2>2, FrameFields DEF TypeOK
<1> HIDE DEF f
<1>2. CASE SkipFrame
  <2>1. link' = AfterReceive(link, f) /\ flash' = flash
    BY <1>2 DEF SkipFrame, f
  <2> QED
    BY <1>1, <2>1, PeerChanges DEF Kept
<1>3. CASE HandlePairAck
  <2>1. /\ ~is_paired(link)
        /\ link' = learn_peer(link, f.src)
        /\ IF AddPeerSucceeds(link, f.src)
           THEN flash' \in FlashWrite(flash, f.src)
           ELSE flash' = flash
    BY <1>3 DEF HandlePairAck, AcceptsPairAck, f
  <2>2. link'.paired_peer = IF AddPeerSucceeds(link, f.src) THEN f.src ELSE link.paired_peer
    BY <1>1, <2>1, PeerChanges
  <2> QED
    BY <1>1, <2>1, <2>2 DEF Kept, Learned
<1>4. CASE HandleTunnelCmd
  <2>1. f.bytes \in HostToBoard /\ apply_local_cmd(f.bytes)
    BY <1>4 DEF HandleTunnelCmd, HostPayloadDecodes, f
  <2> QED
    BY <2>1, CommandOnPairing
<1>5. CASE HandleTunnelEvt
  BY <1>5 DEF HandleTunnelEvt, linkVars, Kept
<1> QED
  BY <1>2, <1>3, <1>4, <1>5 DEF Receive

LEMMA NextOnPairing ==
    ASSUME TypeOK, [Next]_vars
    PROVE  Kept \/ Forgotten \/ Learned \/ Restored
<1>1. CASE Receive
  BY <1>1, ReceiveOnPairing
<1>2. CASE ApplyUsbCommand
  <2>1. Head(cmds) \in HostToBoard /\ apply_local_cmd(Head(cmds))
    BY <1>2 DEF ApplyUsbCommand, TypeOK
  <2> QED
    BY <2>1, CommandOnPairing
<1>3. ASSUME NEW held \in BootPresses, Reboot(held) PROVE Restored
  <2>1. /\ flash' \in IF held THEN FlashWrite(flash, None) ELSE {flash}
        /\ link' = BootLink(flash')
    BY <1>3 DEF Reboot
  <2>2. flash' \in Option(Macs)
    BY <2>1, FlashTypes DEF TypeOK
  <2> QED
    BY <2>1, <2>2, BootRestores DEF Restored
<1>4. CASE Sample \/ Transmit
  BY <1>4 DEF Sample, SampleOk, SampleFailed, Transmit, SendChange, SendKeepalive,
              NothingToSend, send_control, linkVars, Kept
<1>5. CASE \/ DrainDone \/ UsbDrainDone \/ Sleep
           \/ \E f \in Arrivals : FrameArrives(f)
           \/ \E c \in UsbCommands : UsbCommandArrives(c)
           \/ UNCHANGED vars
  BY <1>5 DEF DrainDone, UsbDrainDone, Sleep, FrameArrives, UsbCommandArrives, vars,
              linkVars, Kept
<1> QED
  BY <1>1, <1>2, <1>3, <1>4, <1>5 DEF Next, Step

\* While writes to flash take effect, a reset at any moment comes up with the
\* pairing the loop was running with.
THEOREM FlashRemembers ==
    ASSUME FlashFaults = FALSE
    PROVE  Spec => []FlashRemembersPeer
<1>1. Init => FlashRemembersPeer
  BY BootRestores DEF Init, FlashRemembersPeer
<1>2. TypeOK /\ FlashRemembersPeer /\ [Next]_vars => FlashRemembersPeer'
  <2> SUFFICES ASSUME TypeOK, FlashRemembersPeer, [Next]_vars PROVE FlashRemembersPeer'
    OBVIOUS
  <2>1. \A record : FlashWrite(flash, record) = {record}
    BY DEF FlashWrite
  <2> QED
    BY <2>1, NextOnPairing DEF Kept, Forgotten, Learned, Restored, FlashRemembersPeer
<1> QED
  BY <1>1, <1>2, ControllerTypes, PTL DEF Spec

\* No PairAck, no command and no reset replaces the peer by another one.
THEOREM PeerNeverReplacedHolds ==
    ASSUME FlashFaults = FALSE
    PROVE  Spec => PeerNeverReplaced
<1>1. ASSUME TypeOK, FlashRemembersPeer, [Next]_vars, is_paired(link), is_paired(link')
      PROVE  link'.paired_peer = link.paired_peer
  <2>1. FlashWrite(flash, None) = {None}
    BY DEF FlashWrite
  <2> QED
    BY <1>1, <2>1, NextOnPairing
       DEF Kept, Forgotten, Learned, Restored, FlashRemembersPeer, is_paired
<1> QED
  BY <1>1, FlashRemembers, ControllerTypes, PTL DEF Spec, PeerNeverReplaced

-----------------------------------------------------------------------------
(* The radio's list of peers.                                              *)

\* The inductive invariant: the peer itself is on the list.
DeliverInv == PeerListed(link) /\ SendsAreDeliverable

LEMMA BootDelivers ==
    ASSUME NEW stored \in Option(Macs)
    PROVE  PeerListed(BootLink(stored))
<1>1. CASE stored = None
  BY <1>1, BootListed DEF BootLink
<1>2. CASE stored \in Macs
  <2>1. BootLink(stored) = learn_peer(NewLink, stored)
    BY <1>2, NamesAssumption DEF BootLink
  <2> QED
    BY <1>2, <2>1, BootListed
<1> QED
  BY <1>1, <1>2

\* A step that sends nothing, or something to the peer it keeps.
LEMMA QuietDelivers ==
    ASSUME PeerListed(link'), sent' = <<>>
    PROVE  DeliverInv'
BY DEF DeliverInv, SendsAreDeliverable

LEMMA TunnelDelivers ==
    ASSUME PeerListed(link), link' = link, NEW frame, frame.dst = link.paired_peer,
           sent' = SendToPeer(link, frame)
    PROVE  DeliverInv'
BY DEF DeliverInv, SendsAreDeliverable, SendToPeer, PeerListed, Reachable

LEMMA CommandDelivers ==
    ASSUME TypeOK, DeliverInv, NEW cmd \in HostToBoard, apply_local_cmd(cmd)
    PROVE  DeliverInv'
<1> USE DEF linkVars
<1>0. link \in Link /\ PeerListed(link)
  BY DEF TypeOK, DeliverInv
<1>1. CASE ApplySetLed(cmd) \/ ApplyEnableRemoteTelemetry(cmd) \/ ApplyOther(cmd)
  <2>1. sent' = <<>> /\ link' = link
    BY <1>1 DEF ApplySetLed, ApplyEnableRemoteTelemetry, ApplyOther, Quietly
  <2> QED
    BY <1>0, <2>1, QuietDelivers
<1>2. CASE ApplyRepair(cmd)
  <2>1. sent' = <<>> /\ link' = reset_pairing(link)
    BY <1>2 DEF ApplyRepair, Quietly
  <2>2. PeerListed(link')
    BY <1>0, <2>1 DEF PeerListed, reset_pairing, is_paired, Link
  <2> QED
    BY <2>1, <2>2, QuietDelivers
<1>3. CASE ApplyForPeer(cmd)
  <2>1. TunnelCmdFrame(Self, link.paired_peer, cmd.payload).dst = link.paired_peer
    BY DEF TunnelCmdFrame
  <2> QED
    BY <1>0, <1>3, <2>1, TunnelDelivers DEF ApplyForPeer
<1> QED
  BY <1>1, <1>2, <1>3 DEF apply_local_cmd

LEMMA ReceiveDelivers ==
    ASSUME TypeOK, DeliverInv, Receive
    PROVE  DeliverInv'
<1> DEFINE f == Head(rx)
<1>1. f \in Frame /\ f.src \in Macs /\ link \in Link /\ PeerListed(link)
  <2>1. TakeFrame
    BY DEF Receive, SkipFrame, HandlePairAck, HandleTunnelCmd, HandleTunnelEvt
  <2>2. Head(rx) \in Frame
    BY <2>1 DEF TakeFrame, TypeOK
  <2> QED
    BY <2>2, FrameFields DEF TypeOK, DeliverInv
<1>2. PeerListed(AfterReceive(link, f)) /\ PeerListed(learn_peer(link, f.src))
  BY <1>1, CallsKeepListed
<1> HIDE DEF f
<1>3. CASE SkipFrame \/ HandlePairAck \/ HandleTunnelEvt
  <2>1. sent' = <<>>
    BY <1>3 DEF SkipFrame, HandlePairAck, HandleTunnelEvt, Quietly
  <2>2. PeerListed(link')
    BY <1>1, <1>2, <1>3 DEF SkipFrame, HandlePairAck, HandleTunnelEvt, linkVars, f
  <2> QED
    BY <2>1, <2>2, QuietDelivers
<1>4. CASE HandleTunnelCmd
  <2>1. f.bytes \in HostToBoard /\ apply_local_cmd(f.bytes)
    BY <1>4 DEF HandleTunnelCmd, HostPayloadDecodes, f
  <2> QED
    BY <2>1, CommandDelivers
<1> QED
  BY <1>3, <1>4 DEF Receive

LEMMA SampleDelivers ==
    ASSUME DeliverInv, Sample
    PROVE  DeliverInv'
<1>0. PeerListed(link) /\ link' = link
  BY DEF DeliverInv, Sample, SampleOk, SampleFailed, linkVars
<1>1. ASSUME NEW s \in Sticks, emit_telemetry(JoystickState(s)) PROVE DeliverInv'
  <2>1. TunnelEvtFrame(Self, link.paired_peer, JoystickState(s)).dst = link.paired_peer
    BY DEF TunnelEvtFrame
  <2> QED
    BY <1>0, <1>1, <2>1, QuietDelivers, TunnelDelivers DEF emit_telemetry
<1>2. CASE sent' = <<>>
  BY <1>0, <1>2, QuietDelivers
<1>3. sent' = <<>> \/ \E s \in Sticks : emit_telemetry(JoystickState(s))
  BY DEF Sample, SampleOk, SampleFailed, Quietly
<1> QED
  BY <1>1, <1>2, <1>3

LEMMA SendDelivers ==
    ASSUME DeliverInv, NEW s, send_control(s)
    PROVE  DeliverInv'
<1>1. /\ link' = link /\ Len(sent') = 1
      /\ sent'[1].dst = ControlDestination(link)
  BY DEF send_control, linkVars, ControlFrame
<1>2. ControlDestination(link) \in Reachable(link)
  BY DEF DeliverInv, PeerListed, ControlDestination, Reachable
<1>3. DOMAIN sent' = {1}
  BY DEF send_control
<1> QED
  BY <1>1, <1>2, <1>3 DEF DeliverInv, SendsAreDeliverable

\* Every frame the controller hands to the radio, the control stream included,
\* is a broadcast or goes to a board on the radio's list.
THEOREM SendsAreDeliverableHolds == Spec => []SendsAreDeliverable
<1>1. Init => DeliverInv
  BY BootDelivers DEF Init, DeliverInv, SendsAreDeliverable
<1>2. TypeOK /\ TypeOK' /\ DeliverInv /\ [Next]_vars => DeliverInv'
  <2> SUFFICES ASSUME TypeOK, TypeOK', DeliverInv, [Next]_vars PROVE DeliverInv'
    OBVIOUS
  <2>1. CASE Receive
    BY <2>1, ReceiveDelivers
  <2>2. CASE Sample
    BY <2>2, SampleDelivers
  <2>3. CASE SendChange \/ SendKeepalive
    BY <2>3, SendDelivers DEF SendChange, SendKeepalive
  <2>4. CASE ApplyUsbCommand
    <3>1. Head(cmds) \in HostToBoard /\ apply_local_cmd(Head(cmds))
      BY <2>4 DEF ApplyUsbCommand, TypeOK
    <3> QED
      BY <3>1, CommandDelivers
  <2>5. CASE \E held \in BootPresses : Reboot(held)
    <3>1. link' = BootLink(flash') /\ sent' = <<>>
      BY <2>5 DEF Reboot
    <3>2. PeerListed(link')
      BY <3>1, BootDelivers DEF TypeOK
    <3> QED
      BY <3>1, <3>2, QuietDelivers
  <2>6. CASE \/ DrainDone \/ NothingToSend \/ UsbDrainDone \/ Sleep
             \/ \E f \in Arrivals : FrameArrives(f)
             \/ \E c \in UsbCommands : UsbCommandArrives(c)
    <3>1. link' = link /\ sent' = <<>>
      BY <2>6 DEF DrainDone, NothingToSend, UsbDrainDone, Sleep, FrameArrives,
                  UsbCommandArrives, linkVars, Quietly
    <3> QED
      BY <3>1, QuietDelivers DEF DeliverInv
  <2>7. CASE UNCHANGED vars
    BY <2>7 DEF vars, linkVars, DeliverInv, SendsAreDeliverable
  <2> QED
    BY <2>1, <2>2, <2>3, <2>4, <2>5, <2>6, <2>7 DEF Next, Step, Transmit
<1>3. DeliverInv => SendsAreDeliverable
  BY DEF DeliverInv
<1> QED
  BY <1>1, <1>2, <1>3, ControllerTypes, PTL DEF Spec
=============================================================================
