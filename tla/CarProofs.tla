----------------------------- MODULE CarProofs -----------------------------
(***************************************************************************)
(* CarSystem is made of its boards, they agree on their pairing, and what  *)
(* is proved of a vehicle and of a controller is true of the two of them   *)
(* in the car, for every value of the constants: any queue depths and      *)
(* timings, any number of upsets, any number of strangers.                 *)
(***************************************************************************)
EXTENDS CarSystem, LinkProofs

USE DEF Option, Pad!Option, Car!Option

-----------------------------------------------------------------------------
(* The inductive invariant.                                                *)

Controls == {f \in Frame : f.kind = "Control"}
Stream == {f \in Controls : f.src = PadMac}
Acks == {f \in Frame : f = PairAckFrame(CarMac, PadMac)}
Samples == [x : Bytes, y : Bytes, buttons : SUBSET Buttons]

\* The controller streams no telemetry, has no commands but Repair to apply
\* and only ever hears acks.
PadInv ==
    /\ c_stream = FALSE
    /\ c_cmds \in Seq({Repair})
    /\ c_rx \in Seq(Acks)
    /\ c_tx_seq \in Sequences16
    /\ c_last_sampled \in Option(Samples)
    /\ c_change \in Option(Samples)
    /\ c_link \in Link
    /\ c_flash \in Option(Macs)
    /\ FlashFaults = FALSE => c_flash = c_link.paired_peer

\* The vehicle has no commands to apply and only ever hears control frames.
CarInv ==
    /\ v_stream = FALSE
    /\ v_cmds = <<>>
    /\ v_rx \in Seq(Controls)
    /\ v_link \in Link
    /\ v_flash \in Option(Macs)
    /\ FlashFaults = FALSE => v_flash = v_link.paired_peer

\* An ack on its way was sent by a vehicle that is still paired.
AckInv == c_rx # <<>> => v_link.paired_peer = PadMac

\* What holds of each board on its own, and of the two together.
BoardInv == PadInv /\ CarInv
PairingInv == BoardInv /\ AckInv /\ PairingAgrees

-----------------------------------------------------------------------------
(* Queues and records.                                                     *)

\* One more frame of S keeps the vehicle's queue one of S, and the vehicle as
\* it was; and so for the controller.
LEMMA CarHears ==
    ASSUME NEW S, v_rx \in Seq(S), NEW f \in S, Car!FrameArrives(f)
    PROVE  v_rx' \in Seq(S) /\ UNCHANGED <<v_link, v_flash, v_stream, v_cmds>>
<1>1. v_rx' \in Enqueued(v_rx, f)
  BY DEF Car!FrameArrives, Car!Enqueued, Enqueued
<1> QED
  BY <1>1, EnqueuedIn DEF Car!FrameArrives, Car!linkVars, Car!driveVars

LEMMA PadHears ==
    ASSUME NEW S, c_rx \in Seq(S), NEW f \in S, Pad!FrameArrives(f)
    PROVE  /\ c_rx' \in Seq(S)
           /\ UNCHANGED <<c_link, c_flash, c_stream, c_cmds, c_tx_seq, c_last_sampled, c_change>>
<1>1. c_rx' \in Enqueued(c_rx, f)
  BY DEF Pad!FrameArrives, Pad!Enqueued, Enqueued
<1> QED
  BY <1>1, EnqueuedIn DEF Pad!FrameArrives, Pad!linkVars, Pad!txVars

\* Booting restores the pairing that is in flash.
LEMMA BootRestores ==
    ASSUME NEW stored \in Option(Macs)
    PROVE  /\ Pad!BootLink(stored) \in Link /\ Pad!BootLink(stored).paired_peer = stored
           /\ Car!BootLink(stored) \in Link /\ Car!BootLink(stored).paired_peer = stored
<1>0. Pad!Cardinality({}) = Cardinality({}) /\ Car!Cardinality({}) = Cardinality({})
  BY DEF Cardinality, Pad!Cardinality, Car!Cardinality
<1>1. Cardinality({}) = 0 /\ Cardinality({}) < MaxPeers
  BY FS_EmptySet, LinkAssumption
<1>2. /\ Pad!NewLink \in Link /\ Pad!NewLink.paired_peer = None /\ Pad!NewLink.peers = {}
      /\ Car!NewLink \in Link /\ Car!NewLink.paired_peer = None /\ Car!NewLink.peers = {}
  BY DEF Pad!NewLink, Car!NewLink, Link
<1> QED
  BY <1>0, <1>1, <1>2
     DEF Pad!BootLink, Pad!learn_peer, Pad!AddPeerSucceeds, Car!BootLink, Car!learn_peer,
         Car!AddPeerSucceeds, Link
-----------------------------------------------------------------------------
(* The controller on its own.                                              *)

\* What a step of the controller may do to its pairing, its queue and the air.
PadLocal ==
    /\ PadInv'
    /\ c_rx' # <<>> => c_rx # <<>>
    /\ c_link'.paired_peer = CarMac => c_link.paired_peer = CarMac \/ c_rx # <<>>
    /\ \A i \in DOMAIN c_sent' : c_sent'[i] \in Stream

\* The receive drain: only acks are heard, and an ack pairs with the vehicle.
LEMMA PadReceives ==
    ASSUME PadInv, Pad!Receive PROVE PadLocal
<1> DEFINE f == Head(c_rx)
<1>1. c_rx # <<>> /\ c_rx' = Tail(c_rx) /\ UNCHANGED <<c_tx_seq, c_last_sampled, c_change, c_cmds>>
  BY DEF Pad!Receive, Pad!SkipFrame, Pad!HandlePairAck, Pad!HandleTunnelCmd,
         Pad!HandleTunnelEvt, Pad!TakeFrame, Pad!txVars
<1>2. f \in Acks /\ c_rx' \in Seq(Acks)
  BY <1>1 DEF PadInv
<1>3. f.kind = "PairAck" /\ f.src = CarMac
  BY <1>2 DEF Acks, PairAckFrame
<1>4. CASE Pad!SkipFrame
  <2>1. c_link' = c_link
    BY <1>3, <1>4 DEF Pad!SkipFrame, Pad!AfterReceive
  <2>2. c_sent' = <<>> /\ UNCHANGED <<c_flash, c_stream>>
    BY <1>4 DEF Pad!SkipFrame, Pad!Quietly
  <2> QED
    BY <1>1, <1>2, <2>1, <2>2 DEF PadInv, PadLocal
<1>5. CASE Pad!HandlePairAck
  <2>1. c_link' = Pad!learn_peer(c_link, CarMac)
    BY <1>3, <1>5 DEF Pad!HandlePairAck
  <2>2. /\ c_flash' \in {CarMac, c_flash, None}
        /\ FlashFaults = FALSE /\ Pad!AddPeerSucceeds(c_link, CarMac) => c_flash' = CarMac
        /\ ~Pad!AddPeerSucceeds(c_link, CarMac) => c_flash' = c_flash
    BY <1>3, <1>5 DEF Pad!HandlePairAck, Pad!FlashWrite
  <2>3. /\ c_link' \in Link /\ c_flash' \in Option(Macs)
        /\ FlashFaults = FALSE => c_flash' = c_link'.paired_peer
    BY <2>1, <2>2, CarSystemAssumption DEF PadInv, Pad!learn_peer, Link
  <2>4. c_sent' = <<>> /\ UNCHANGED c_stream
    BY <1>5 DEF Pad!HandlePairAck, Pad!Quietly
  <2> QED
    BY <1>1, <1>2, <2>3, <2>4 DEF PadInv, PadLocal
<1> QED
  BY <1>3, <1>4, <1>5 DEF Pad!Receive, Pad!HandleTunnelCmd, Pad!HandleTunnelEvt

\* A transmission is one control frame.
LEMMA PadTransmits ==
    ASSUME PadInv, Pad!Transmit PROVE PadLocal
<1>1. UNCHANGED <<c_rx, c_link, c_flash, c_last_sampled, c_change, c_stream, c_cmds>>
  BY DEF Pad!Transmit, Pad!SendChange, Pad!SendKeepalive, Pad!NothingToSend,
         Pad!send_control, Pad!radioVars, Pad!linkVars, Pad!txVars
<1>2. CASE Pad!NothingToSend
  BY <1>1, <1>2 DEF Pad!NothingToSend, Pad!Quietly, Pad!txVars, PadInv, PadLocal
<1>3. ASSUME NEW s \in Samples, Pad!send_control(s) PROVE PadLocal
  <2>1. c_tx_seq' \in Sequences16
    BY <1>3, SeqModAssumption DEF Pad!send_control, PadInv, Sequences16
  <2> DEFINE p == [sequence |-> c_tx_seq', x |-> s.x, y |-> s.y, buttons |-> s.buttons]
             d == Pad!ControlDestination(c_link)
  <2>2. p \in ControlPacket
    BY <2>1 DEF ControlPacket, Samples
  <2>3. d \in Destinations
    BY DEF PadInv, Pad!ControlDestination, Pad!is_paired, Destinations, Link
  <2>4. Pad!ControlFrame(PadMac, d, p) \in Stream
    BY <2>2, <2>3, CarSystemAssumption DEF Stream, Controls, Frame, Pad!ControlFrame
  <2>5. c_sent' = <<Pad!ControlFrame(PadMac, d, p)>>
    BY <1>3 DEF Pad!send_control
  <2>6. \A i \in DOMAIN c_sent' : c_sent'[i] \in Stream
    BY <2>4, <2>5
  <2> QED
    BY <1>1, <2>1, <2>6 DEF PadInv, PadLocal
<1>4. CASE Pad!SendChange
  BY <1>3, <1>4 DEF Pad!SendChange, PadInv
<1>5. CASE Pad!SendKeepalive
  <2>1. Pad!Neutral \in Samples
    BY DEF Pad!Neutral, Samples, Bytes
  <2>2. Pad!KeepaliveState \in Samples
    BY <2>1 DEF Pad!KeepaliveState, PadInv
  <2> QED
    BY <1>3, <1>5, <2>2 DEF Pad!SendKeepalive
<1> QED
  BY <1>2, <1>4, <1>5 DEF Pad!Transmit

\* Every step of the loop.
LEMMA PadSteps ==
    ASSUME PadInv, Pad!Step PROVE PadLocal
<1>1. CASE Pad!Receive
  BY <1>1, PadReceives
<1>2. CASE Pad!Transmit
  BY <1>2, PadTransmits
<1>3. CASE Pad!DrainDone \/ Pad!UsbDrainDone \/ Pad!Sleep
  BY <1>3
     DEF Pad!DrainDone, Pad!UsbDrainDone, Pad!Sleep, Pad!Quietly, Pad!radioVars,
         Pad!linkVars, Pad!txVars, PadInv, PadLocal
<1>4. CASE Pad!Sample
  <2>1. UNCHANGED <<c_rx, c_link, c_flash, c_tx_seq, c_stream, c_cmds>>
    BY <1>4 DEF Pad!Sample, Pad!SampleOk, Pad!SampleFailed, Pad!radioVars, Pad!linkVars
  <2>2. c_sent' = <<>>
    BY <1>4 DEF Pad!Sample, Pad!SampleOk, Pad!SampleFailed, Pad!emit_telemetry,
                Pad!Quietly, PadInv
  <2>3. c_last_sampled' \in Option(Samples) /\ c_change' \in Option(Samples)
    BY <1>4, CarSystemAssumption
       DEF Pad!Sample, Pad!SampleOk, Pad!SampleFailed, PadInv, Samples
  <2> QED
    BY <2>1, <2>2, <2>3 DEF PadInv, PadLocal
<1>5. CASE Pad!ApplyUsbCommand
  <2>1. Head(c_cmds) = Repair /\ c_cmds' \in Seq({Repair})
    BY <1>5 DEF Pad!ApplyUsbCommand, PadInv
  <2>2. Pad!ApplyRepair(Repair)
    BY <1>5, <2>1
       DEF Pad!ApplyUsbCommand, Pad!apply_local_cmd, Pad!ApplySetLed,
           Pad!ApplyEnableRemoteTelemetry, Pad!ApplyForPeer, Pad!ApplyOther, Repair
  <2>3. /\ c_link' = Pad!reset_pairing(c_link)
        /\ c_flash' \in Option(Macs) /\ (FlashFaults = FALSE => c_flash' = None)
    BY <2>2 DEF Pad!ApplyRepair, Pad!FlashWrite, PadInv
  <2>4. c_link' \in Link /\ c_link'.paired_peer = None
    BY <2>3 DEF PadInv, Pad!reset_pairing, Link
  <2>5. c_sent' = <<>> /\ UNCHANGED <<c_rx, c_tx_seq, c_last_sampled, c_change, c_stream>>
    BY <1>5, <2>2
       DEF Pad!ApplyUsbCommand, Pad!ApplyRepair, Pad!Quietly, Pad!radioVars, Pad!txVars
  <2>6. None # CarMac
    BY NamesAssumption, CarSystemAssumption
  <2> QED
    BY <2>1, <2>3, <2>4, <2>5, <2>6 DEF PadInv, PadLocal
<1> QED
  BY <1>1, <1>2, <1>3, <1>4, <1>5 DEF Pad!Step

-----------------------------------------------------------------------------
(* The vehicle on its own.                                                 *)

\* What a step of the vehicle may do: it keeps a pairing it has, and acks
\* only the controller it is then paired with.
CarLocal ==
    /\ CarInv'
    /\ v_link.paired_peer = PadMac => v_link'.paired_peer = PadMac
    /\ \A i \in DOMAIN v_sent' :
           v_sent'[i].dst \in {PadMac, Broadcast}
               => v_sent'[i] \in Acks /\ v_link'.paired_peer = PadMac

\* Looking at a frame changes the sequence number and nothing else.
LEMMA CarLooks ==
    ASSUME NEW l \in Link, NEW f \in Controls
    PROVE  /\ Car!AfterReceive(l, f) \in Link
           /\ Car!AfterReceive(l, f).paired_peer = l.paired_peer
<1>1. f.packet.sequence \in Sequences16
  BY DEF Controls, Frame, ControlPacket
<1> QED
  BY <1>1 DEF Car!AfterReceive, Link

\* The receive drain of the vehicle.
LEMMA CarReceives ==
    ASSUME CarInv, Car!Receive PROVE CarLocal
<1> DEFINE f == Head(v_rx)
           received == Car!AfterReceive(v_link, f)
<1>1. v_rx # <<>> /\ v_rx' = Tail(v_rx)
  BY DEF Car!Receive, Car!SkipFrame, Car!HandleControl, Car!HandleTunnelCmd,
         Car!HandleTunnelEvt, Car!TakeFrame
<1>2. f \in Controls /\ v_rx' \in Seq(Controls)
  BY <1>1 DEF CarInv
<1>3. f.kind = "Control" /\ f.src \in Macs
  BY <1>2 DEF Controls, Frame
<1>4. received \in Link /\ received.paired_peer = v_link.paired_peer
  BY <1>2, CarLooks DEF CarInv
<1>5. None \notin Macs /\ Broadcast \notin Macs
  BY NamesAssumption
<1>6. CASE Car!SkipFrame
  <2>1. v_link' = received /\ UNCHANGED <<v_flash, v_stream, v_cmds>> /\ v_sent' = <<>>
    BY <1>6 DEF Car!SkipFrame, Car!driveVars, Car!Quietly
  <2> QED
    BY <1>2, <1>4, <2>1 DEF CarInv, CarLocal
<1>7. CASE Car!HandleControl
  <2> DEFINE acks == Car!SendToPeer(v_link', Car!PairAckFrame(CarMac, v_link'.paired_peer))
  <2>1. v_link' = IF Car!is_paired(v_link) THEN received
                  ELSE Car!learn_peer(received, f.src)
    BY <1>7 DEF Car!HandleControl
  <2>2. /\ v_flash' \in {f.src, v_flash, None}
        /\ FlashFaults = FALSE
               => v_flash' = IF ~Car!is_paired(v_link) /\ Car!is_paired(v_link')
                             THEN f.src ELSE v_flash
    BY <1>7 DEF Car!HandleControl, Car!FlashWrite
  <2>3. /\ v_link' \in Link /\ v_flash' \in Option(Macs)
        /\ FlashFaults = FALSE => v_flash' = v_link'.paired_peer
        /\ v_link.paired_peer # None => v_link'.paired_peer = v_link.paired_peer
    <3>1. CASE Car!is_paired(v_link)
      <4>1. v_link' = received
        BY <2>1, <3>1
      <4>2. v_link' \in Link /\ v_link'.paired_peer = v_link.paired_peer
        BY <1>4, <4>1
      <4>3. v_flash' \in Option(Macs)
        BY <1>3, <2>2 DEF CarInv
      <4>4. FlashFaults = FALSE => v_flash' = v_link'.paired_peer
        BY <2>2, <3>1, <4>2 DEF CarInv
      <4> QED
        BY <4>2, <4>3, <4>4
    <3>2. CASE ~Car!is_paired(v_link)
      <4>1. v_link.paired_peer = None /\ received.paired_peer = None
        BY <1>4, <3>2 DEF Car!is_paired
      <4>2. v_link' = Car!learn_peer(received, f.src)
        BY <2>1, <3>2
      <4>3. v_link' \in Link /\ v_link'.paired_peer \in {None, f.src}
        BY <1>3, <1>4, <4>1, <4>2 DEF Car!learn_peer, Link
      <4>4. v_flash' \in Option(Macs)
        BY <1>3, <2>2 DEF CarInv
      <4>5. FlashFaults = FALSE => v_flash' = v_link'.paired_peer
        BY <1>3, <1>5, <2>2, <4>1, <4>3 DEF CarInv, Car!is_paired
      <4> QED
        BY <4>1, <4>3, <4>4, <4>5
    <3> QED
      BY <3>1, <3>2
  <2>4. v_sent' \in {acks, <<>>}
    BY <1>7 DEF Car!HandleControl, Car!emit_telemetry, CarInv, Car!SendToPeer
  <2>5. ASSUME NEW i \in DOMAIN v_sent', v_sent'[i].dst \in {PadMac, Broadcast}
        PROVE  v_sent'[i] \in Acks /\ v_link'.paired_peer = PadMac
    <3>1. v_sent'[i] = PairAckFrame(CarMac, v_link'.paired_peer) /\ v_link'.paired_peer # None
      BY <2>4, <2>5 DEF Car!SendToPeer, Car!PairAckFrame, PairAckFrame, Car!is_paired
    <3>2. v_link'.paired_peer \in Macs
      BY <2>3, <3>1 DEF Link
    <3>3. v_link'.paired_peer = PadMac
      BY <1>5, <2>5, <3>1, <3>2 DEF PairAckFrame
    <3> QED
      BY <3>1, <3>3, CarSystemAssumption DEF Acks, Frame, PairAckFrame, Destinations
  <2>6. UNCHANGED <<v_stream, v_cmds>>
    BY <1>7 DEF Car!HandleControl
  <2>7. PadMac # None
    BY <1>5, CarSystemAssumption
  <2> QED
    BY <1>2, <2>3, <2>5, <2>6, <2>7 DEF CarInv, CarLocal
<1> QED
  BY <1>3, <1>6, <1>7 DEF Car!Receive, Car!HandleTunnelCmd, Car!HandleTunnelEvt

\* Every step of the loop.
LEMMA CarSteps ==
    ASSUME CarInv, Car!Step PROVE CarLocal
<1> USE DEF Car!Quietly, Car!radioVars, Car!linkVars, Car!driveVars, CarInv, CarLocal
<1>1. CASE Car!Receive
  BY <1>1, CarReceives
<1>2. CASE Car!Calibrated \/ Car!DrainDone
  BY <1>2 DEF Car!Calibrated, Car!DrainDone
<1>3. CASE Car!LinkUnchanged \/ Car!LinkBecomesAlive
  BY <1>3 DEF Car!LinkUnchanged, Car!LinkBecomesAlive
<1>4. CASE Car!BlinkDone \/ Car!Sense
  <2>1. v_sent' = <<>>
    BY <1>4 DEF Car!BlinkDone, Car!Sense, Car!emit_telemetry
  <2> QED
    BY <1>4, <2>1 DEF Car!BlinkDone, Car!Sense
<1>5. CASE Car!LinkTimesOut
  <2>1. v_sent' = <<>>
    BY <1>5 DEF Car!LinkTimesOut, Car!emit_telemetry
  <2>2. v_link' \in Link /\ v_link'.paired_peer = v_link.paired_peer
    BY <1>5 DEF Car!LinkTimesOut, Car!reset_sequence, Link
  <2> QED
    BY <1>5, <2>1, <2>2 DEF Car!LinkTimesOut
<1>6. CASE Car!ApplyUsbCommand
  BY <1>6 DEF Car!ApplyUsbCommand
<1>7. CASE Car!UsbDrainDone \/ Car!Sleep
  BY <1>7 DEF Car!UsbDrainDone, Car!Sleep
<1> QED
  BY <1>1, <1>2, <1>3, <1>4, <1>5, <1>6, <1>7 DEF Car!Step, Car!LinkStep

-----------------------------------------------------------------------------
(* Both together.                                                          *)

LEMMA Initially == Init => PairingInv
<1> SUFFICES ASSUME Init PROVE PairingInv
  OBVIOUS
<1>1. c_flash = None /\ v_flash = None /\ None # CarMac
  BY NamesAssumption, CarSystemAssumption DEF Init
<1>2. c_link = Pad!BootLink(None) /\ v_link = Car!BootLink(None)
  BY <1>1 DEF Init, Pad!Init, Car!Init
<1>3. /\ c_link \in Link /\ c_link.paired_peer = None
      /\ v_link \in Link /\ v_link.paired_peer = None
  BY <1>2, BootRestores
<1>4. PadInv
  BY <1>1, <1>3, SeqModAssumption DEF Init, Pad!Init, PadInv, Sequences16
<1>5. CarInv
  BY <1>1, <1>3 DEF Init, Car!Init, CarInv
<1> QED
  BY <1>1, <1>3, <1>4, <1>5 DEF Init, Pad!Init, BoardInv, PairingInv, AckInv, PairingAgrees

\* A turn of the controller, and the frame of it that the vehicle hears.
LEMMA AfterPad ==
    ASSUME BoardInv, PadStep
    PROVE  /\ PadLocal /\ BoardInv' /\ v_link' = v_link
           /\ \/ UNCHANGED <<carOwn, v_rx>>
              \/ \E f \in FramesOf(PadMac) : Car!FrameArrives(f)
<1>1. PadLocal
  BY PadSteps DEF PadStep, BoardInv
<1>2. InRange(c_sent', CarMac) \subseteq Stream /\ Stream \subseteq FramesOf(PadMac)
  BY <1>1 DEF InRange, PadLocal, Stream, Controls, FramesOf
<1>3. CASE UNCHANGED <<carOwn, v_rx>>
  BY <1>1, <1>3 DEF carOwn, PadLocal, BoardInv, CarInv
<1>4. CASE \E f \in InRange(c_sent', CarMac) : Car!FrameArrives(f)
  <2>1. PICK f \in Stream : Car!FrameArrives(f)
    BY <1>2, <1>4
  <2>2. v_rx' \in Seq(Controls) /\ UNCHANGED <<v_link, v_flash, v_stream, v_cmds>>
    BY <2>1, CarHears DEF BoardInv, CarInv, Stream
  <2>3. CarInv'
    BY <2>2 DEF BoardInv, CarInv
  <2> QED
    BY <1>1, <1>2, <2>1, <2>2, <2>3 DEF PadLocal, BoardInv
<1> QED
  BY <1>3, <1>4 DEF PadStep

\* A turn of the vehicle, and the ack of it that the controller hears.
LEMMA AfterCar ==
    ASSUME BoardInv, CarStep
    PROVE  /\ CarLocal /\ BoardInv' /\ c_link' = c_link
           /\ c_rx' # c_rx => v_link'.paired_peer = PadMac
           /\ \/ UNCHANGED <<padOwn, c_rx>>
              \/ \E f \in FramesOf(CarMac) : Pad!FrameArrives(f)
<1>1. CarLocal
  BY CarSteps DEF CarStep, BoardInv
<1>2. CASE UNCHANGED <<padOwn, c_rx>>
  BY <1>1, <1>2 DEF padOwn, CarLocal, BoardInv, PadInv
<1>3. CASE \E f \in InRange(v_sent', PadMac) : Pad!FrameArrives(f)
  <2>1. PICK f \in InRange(v_sent', PadMac) : Pad!FrameArrives(f)
    BY <1>3
  <2>2. f \in Acks /\ v_link'.paired_peer = PadMac
    BY <1>1, <2>1 DEF InRange, CarLocal
  <2>3. f \in FramesOf(CarMac)
    BY <2>2 DEF Acks, FramesOf, PairAckFrame
  <2>4. /\ c_rx' \in Seq(Acks)
        /\ UNCHANGED <<c_link, c_flash, c_stream, c_cmds, c_tx_seq, c_last_sampled, c_change>>
    BY <2>1, <2>2, PadHears DEF BoardInv, PadInv
  <2>5. PadInv'
    BY <2>4 DEF BoardInv, PadInv
  <2> QED
    BY <1>1, <2>1, <2>2, <2>3, <2>4, <2>5 DEF CarLocal, BoardInv
<1> QED
  BY <1>2, <1>3 DEF CarStep

LEMMA AfterPadUpset ==
    ASSUME BoardInv, PadUpset
    PROVE  /\ BoardInv' /\ v_link' = v_link
           /\ FlashFaults = FALSE /\ c_link'.paired_peer = CarMac => c_link.paired_peer = CarMac
           /\ c_rx' # <<>> => c_rx # <<>>
<1>1. UNCHANGED <<v_rx, v_link, v_flash, v_stream, v_cmds>>
  BY DEF PadUpset, carOwn
<1>2. CarInv'
  BY <1>1 DEF BoardInv, CarInv
<1>3. ASSUME NEW held \in PadPresses, Pad!Reboot(held)
      PROVE  /\ PadInv' /\ c_rx' = <<>>
             /\ FlashFaults = FALSE /\ c_link'.paired_peer = CarMac => c_link.paired_peer = CarMac
  <2>1. c_flash' \in {c_flash, None}
    BY <1>3 DEF Pad!Reboot, Pad!FlashWrite
  <2>2. c_link' = Pad!BootLink(c_flash') /\ c_flash' \in Option(Macs)
    BY <1>3, <2>1 DEF Pad!Reboot, BoardInv, PadInv
  <2>3. c_link' \in Link /\ c_link'.paired_peer = c_flash'
    BY <2>2, BootRestores
  <2>4. PadInv' /\ c_rx' = <<>>
    BY <1>3, <2>2, <2>3, SeqModAssumption DEF Pad!Reboot, PadInv, Sequences16
  <2>5. None # CarMac
    BY NamesAssumption, CarSystemAssumption
  <2> QED
    BY <2>1, <2>3, <2>4, <2>5 DEF BoardInv, PadInv
<1>4. ASSUME Pad!UsbCommandArrives(Repair)
      PROVE  PadInv' /\ c_rx' = c_rx /\ c_link' = c_link
  <2>1. c_cmds' \in Seq({Repair})
    BY <1>4 DEF Pad!UsbCommandArrives, BoardInv, PadInv
  <2> QED
    BY <1>4, <2>1
       DEF Pad!UsbCommandArrives, Pad!radioVars, Pad!linkVars, Pad!txVars, BoardInv, PadInv
<1> QED
  BY <1>1, <1>2, <1>3, <1>4 DEF PadUpset, BoardInv

LEMMA AfterCarUpset ==
    ASSUME BoardInv, CarUpset
    PROVE  /\ BoardInv' /\ UNCHANGED <<c_link, c_rx>>
           /\ FlashFaults = FALSE /\ CarPresses \subseteq {FALSE}
                  => v_link'.paired_peer = v_link.paired_peer
<1>1. UNCHANGED padOwn /\ UNCHANGED c_rx
  BY DEF CarUpset
<1>2. PICK held \in CarPresses : Car!Reboot(held)
  BY DEF CarUpset
<1>3. v_flash' \in Option(Macs) /\ v_link' = Car!BootLink(v_flash')
      /\ (~held => v_flash' = v_flash)
  BY <1>2 DEF Car!Reboot, Car!FlashWrite, BoardInv, CarInv
<1>4. v_link' \in Link /\ v_link'.paired_peer = v_flash'
  BY <1>3, BootRestores
<1>5. CarInv'
  BY <1>2, <1>3, <1>4 DEF Car!Reboot, CarInv
<1>6. PadInv' /\ c_link' = c_link
  BY <1>1 DEF padOwn, BoardInv, PadInv
<1>7. FlashFaults = FALSE /\ CarPresses \subseteq {FALSE}
          => v_link'.paired_peer = v_link.paired_peer
  BY <1>2, <1>3, <1>4 DEF BoardInv, CarInv
<1> QED
  BY <1>1, <1>5, <1>6, <1>7 DEF BoardInv

LEMMA AfterStranger ==
    ASSUME BoardInv, StrangerSends
    PROVE  /\ BoardInv' /\ UNCHANGED <<c_link, c_rx, v_link>>
           /\ \E f \in Strangers : Car!FrameArrives(f)
<1>1. UNCHANGED padOwn /\ UNCHANGED c_rx
  BY DEF StrangerSends
<1>2. PICK f \in Strangers : Car!FrameArrives(f)
  BY DEF StrangerSends
<1>3. f \in Controls
  BY CarSystemAssumption DEF Controls
<1>4. v_rx' \in Seq(Controls) /\ UNCHANGED <<v_link, v_flash, v_stream, v_cmds>>
  BY <1>2, <1>3, CarHears DEF BoardInv, CarInv
<1>5. PadInv' /\ CarInv' /\ c_link' = c_link
  BY <1>1, <1>4 DEF padOwn, BoardInv, PadInv, CarInv
<1> QED
  BY <1>1, <1>2, <1>3, <1>4, <1>5 DEF BoardInv

LEMMA BoardsStay == BoardInv /\ UNCHANGED vars => BoardInv'
BY DEF vars, padOwn, carOwn, BoardInv, PadInv, CarInv

LEMMA NextKeepsBoards == BoardInv /\ [Next]_vars => BoardInv'
BY AfterPad, AfterCar, AfterPadUpset, AfterCarUpset, AfterStranger, BoardsStay DEF Next

-----------------------------------------------------------------------------
(* Each board of the car on its own.                                       *)

\* The two main loops: whatever the two boards of the car do, each of them does
\* what it would do on its own among boards that send what they like; so
\* whatever is proved of Controller and of Vehicle holds of the boards of the
\* car, flash faults and BOOT held on either board included.
THEOREM CarIsMadeOfItsBoards == Spec => Pad!Spec /\ Car!Spec
<1>1. Init => BoardInv
  BY Initially DEF PairingInv
<1>2. Init => Pad!Init /\ Car!Init
  BY DEF Init
<1>3. BoardInv /\ [Next]_vars => [Pad!Next]_Pad!vars /\ [Car!Next]_Car!vars
  <2> SUFFICES ASSUME BoardInv, [Next]_vars
               PROVE  [Pad!Next]_Pad!vars /\ [Car!Next]_Car!vars
    OBVIOUS
  <2>1. UNCHANGED <<padOwn, c_rx>> => UNCHANGED Pad!vars
    BY DEF padOwn, Pad!vars
  <2>2. UNCHANGED <<carOwn, v_rx>> => UNCHANGED Car!vars
    BY DEF carOwn, Car!vars
  <2>3. CASE PadStep
    <3>1. Pad!Next
      BY <2>3 DEF PadStep, Pad!Next
    <3>2. UNCHANGED <<carOwn, v_rx>> \/ Car!Next
      BY <2>3, AfterPad DEF Car!Next
    <3> QED
      BY <2>2, <3>1, <3>2
  <2>4. CASE CarStep
    <3>1. Car!Next
      BY <2>4 DEF CarStep, Car!Next
    <3>2. UNCHANGED <<padOwn, c_rx>> \/ Pad!Next
      BY <2>4, AfterCar DEF Pad!Next
    <3> QED
      BY <2>1, <3>1, <3>2
  <2>5. CASE PadUpset
    <3>1. Pad!Next
      BY <2>5 DEF PadUpset, Pad!Next
    <3>2. UNCHANGED <<carOwn, v_rx>>
      BY <2>5 DEF PadUpset
    <3> QED
      BY <2>2, <3>1, <3>2
  <2>6. CASE CarUpset
    <3>1. Car!Next
      BY <2>6 DEF CarUpset, Car!Next
    <3>2. UNCHANGED <<padOwn, c_rx>>
      BY <2>6 DEF CarUpset
    <3> QED
      BY <2>1, <3>1, <3>2
  <2>7. CASE StrangerSends
    <3>1. Car!Next
      BY <2>7, AfterStranger DEF Car!Next
    <3>2. UNCHANGED <<padOwn, c_rx>>
      BY <2>7 DEF StrangerSends
    <3> QED
      BY <2>1, <3>1, <3>2
  <2>8. CASE UNCHANGED vars
    BY <2>1, <2>2, <2>8 DEF vars
  <2> QED
    BY <2>3, <2>4, <2>5, <2>6, <2>7, <2>8 DEF Next
<1> QED
  BY <1>1, <1>2, <1>3, NextKeepsBoards, PTL DEF Spec, Pad!Spec, Car!Spec

-----------------------------------------------------------------------------
(* The pairing.                                                            *)

LEMMA PairingKept ==
    ASSUME FlashFaults = FALSE, CarPresses \subseteq {FALSE}, PairingInv, [Next]_vars
    PROVE  PairingInv'
<1> USE DEF AckInv, PairingAgrees
<1>1. BoardInv /\ BoardInv'
  BY NextKeepsBoards DEF PairingInv
<1>2. CASE PadStep
  BY <1>1, <1>2, AfterPad DEF PairingInv, PadLocal
<1>3. CASE CarStep
  BY <1>1, <1>3, AfterCar DEF PairingInv, CarLocal
<1>4. CASE PadUpset
  BY <1>1, <1>4, AfterPadUpset DEF PairingInv
<1>5. CASE CarUpset
  BY <1>1, <1>5, AfterCarUpset DEF PairingInv
<1>6. CASE StrangerSends
  BY <1>1, <1>6, AfterStranger DEF PairingInv
<1>7. CASE UNCHANGED vars
  BY <1>1, <1>7 DEF PairingInv, vars, padOwn, carOwn
<1> QED
  BY <1>2, <1>3, <1>4, <1>5, <1>6, <1>7 DEF Next

\* While writes to flash take effect and nobody resets the vehicle with BOOT
\* held, a controller is paired only with a vehicle that is paired with it.
THEOREM PairingAgreesHolds ==
    ASSUME FlashFaults = FALSE, CarPresses \subseteq {FALSE}
    PROVE  Spec => []PairingAgrees
<1>1. PairingInv /\ [Next]_vars => PairingInv'
  BY PairingKept
<1>2. PairingInv => PairingAgrees
  BY DEF PairingInv
<1> QED
  BY <1>1, <1>2, Initially, PTL DEF Spec

-----------------------------------------------------------------------------
(* What is proved of the boards, for the boards of the car.                *)

\* The theorems about Vehicle and Controller, of the two boards of the car.
CarT == INSTANCE VehiclePairingProofs WITH
    Self <- CarMac, Arrivals <- FramesOf(PadMac) \cup Strangers, UsbCommands <- {},
    BootPresses <- CarPresses,
    pc <- v_pc, drained <- v_drained, rx <- v_rx, link <- v_link, flash <- v_flash,
    watchdog <- v_watchdog, last_state <- v_last_state, tick <- v_tick,
    motor <- v_motor, manual_pwm <- v_manual_pwm, last_duty <- v_last_duty,
    stream_to_peer <- v_stream, cmds <- v_cmds, sent <- v_sent,
    emitted <- v_emitted, quiet_ms <- v_quiet_ms

PadT == INSTANCE ControllerProofs WITH
    Self <- PadMac, Arrivals <- FramesOf(CarMac), UsbCommands <- {Repair},
    BootPresses <- PadPresses,
    pc <- c_pc, drained <- c_drained, rx <- c_rx, link <- c_link, flash <- c_flash,
    last_sampled <- c_last_sampled, change <- c_change, failures <- c_failures,
    ticks_since_tx <- c_ticks, tx_seq <- c_tx_seq, stream_to_peer <- c_stream,
    cmds <- c_cmds, sent <- c_sent, emitted <- c_emitted, gap_ms <- c_gap_ms

\* Car and CarT are the same module, instantiated twice: so the proofs of the
\* second are about the first.
LEMMA SameVehicle == CarT!Spec <=> Car!Spec
<1> USE DEF CarT!Option, Car!Option, CarT!NewWatchdog, Car!NewWatchdog, CarT!BootMotor,
              Car!BootMotor, CarT!NewLink, Car!NewLink, CarT!learn_peer, Car!learn_peer,
              CarT!Enqueued, Car!Enqueued, CarT!Quietly, Car!Quietly, CarT!linkVars,
              Car!linkVars, CarT!driveVars, Car!driveVars, CarT!radioVars, Car!radioVars,
              CarT!FlashWrite, Car!FlashWrite, CarT!AddPeerSucceeds, Car!AddPeerSucceeds,
              CarT!DrainOver, Car!DrainOver, CarT!state, Car!state, CarT!apply_local_cmd,
              Car!apply_local_cmd, CarT!Reassert, Car!Reassert, CarT!emit_telemetry,
              Car!emit_telemetry, CarT!CurrentSense, Car!CurrentSense, CarT!CurrentSenseRaw,
              Car!CurrentSenseRaw, CarT!Elapsed, Car!Elapsed, CarT!AtMost, Car!AtMost,
              CarT!QuietCap, Car!QuietCap, CarT!TakeFrame, Car!TakeFrame, CarT!Delivers,
              Car!Delivers, CarT!AcceptsControl, Car!AcceptsControl, CarT!AcceptsTunnel,
              Car!AcceptsTunnel, CarT!HostPayloadDecodes, Car!HostPayloadDecodes,
              CarT!AfterReceive, Car!AfterReceive, CarT!is_paired, Car!is_paired,
              CarT!ActOnPacket, Car!ActOnPacket, CarT!AnswersPairing, Car!AnswersPairing,
              CarT!SendToPeer, Car!SendToPeer, CarT!PairAckFrame, Car!PairAckFrame,
              CarT!ReceivedPacket, Car!ReceivedPacket, CarT!MotorState, Car!MotorState,
              CarT!record_valid_packet, Car!record_valid_packet, CarT!FromPeer,
              Car!FromPeer, CarT!enable, Car!enable, CarT!EspNowLinkState,
              Car!EspNowLinkState, CarT!reset_sequence, Car!reset_sequence, CarT!brake,
              Car!brake, CarT!ApplySetLed, Car!ApplySetLed, CarT!ApplySetMotorEnable,
              Car!ApplySetMotorEnable, CarT!ApplySetMotorPwm, Car!ApplySetMotorPwm,
              CarT!ApplyEnableRemoteTelemetry, Car!ApplyEnableRemoteTelemetry,
              CarT!ApplyRepair, Car!ApplyRepair, CarT!ApplyForPeer, Car!ApplyForPeer,
              CarT!ApplyOther, Car!ApplyOther, CarT!set_pwm, Car!set_pwm,
              CarT!TunnelEvtFrame, Car!TunnelEvtFrame, CarT!SilentCap, Car!SilentCap,
              CarT!IsFresh, Car!IsFresh, CarT!HostToBoard, Car!HostToBoard, CarT!y_to_duty,
              Car!y_to_duty, CarT!SetLed, Car!SetLed, CarT!LedAck, Car!LedAck,
              CarT!SetMotorEnable, Car!SetMotorEnable, CarT!set_enables, Car!set_enables,
              CarT!SetMotorPwm, Car!SetMotorPwm, CarT!EnableRemoteTelemetry,
              Car!EnableRemoteTelemetry, CarT!Repair, Car!Repair, CarT!reset_pairing,
              Car!reset_pairing, CarT!ForPeer, Car!ForPeer, CarT!TunnelCmdFrame,
              Car!TunnelCmdFrame, CarT!Ping, Car!Ping, CarT!Percent, Car!Percent,
              CarT!is_newer_sequence, Car!is_newer_sequence, CarT!I8, Car!I8, CarT!CENTER,
              Car!CENTER, CarT!DEAD_ZONE, Car!DEAD_ZONE, CarT!AtMost100, Car!AtMost100,
              CarT!wrapping_sub, Car!wrapping_sub, Cardinality, CarT!Cardinality,
              Car!Cardinality
<1>1. CarT!Init <=> Car!Init
  BY DEF CarT!Init, Car!Init, CarT!BootLink, Car!BootLink
<1>2. CarT!Calibrated <=> Car!Calibrated
  BY DEF CarT!Calibrated, Car!Calibrated
<1>3. CarT!SkipFrame <=> Car!SkipFrame
  BY DEF CarT!SkipFrame, Car!SkipFrame
<1>4. CarT!HandleControl <=> Car!HandleControl
  BY DEF CarT!HandleControl, Car!HandleControl
<1>5. CarT!HandleTunnelCmd <=> Car!HandleTunnelCmd
  BY DEF CarT!HandleTunnelCmd, Car!HandleTunnelCmd
<1>6. CarT!HandleTunnelEvt <=> Car!HandleTunnelEvt
  BY DEF CarT!HandleTunnelEvt, Car!HandleTunnelEvt
<1>7. CarT!DrainDone <=> Car!DrainDone
  BY DEF CarT!DrainDone, Car!DrainDone
<1>8. CarT!LinkUnchanged <=> Car!LinkUnchanged
  BY DEF CarT!LinkUnchanged, Car!LinkUnchanged
<1>9. CarT!LinkBecomesAlive <=> Car!LinkBecomesAlive
  BY DEF CarT!LinkBecomesAlive, Car!LinkBecomesAlive
<1>10. CarT!BlinkDone <=> Car!BlinkDone
  BY DEF CarT!BlinkDone, Car!BlinkDone
<1>11. CarT!LinkTimesOut <=> Car!LinkTimesOut
  BY DEF CarT!LinkTimesOut, Car!LinkTimesOut
<1>12. CarT!ApplyUsbCommand <=> Car!ApplyUsbCommand
  BY DEF CarT!ApplyUsbCommand, Car!ApplyUsbCommand
<1>13. CarT!UsbDrainDone <=> Car!UsbDrainDone
  BY DEF CarT!UsbDrainDone, Car!UsbDrainDone
<1>14. CarT!Sense <=> Car!Sense
  BY DEF CarT!Sense, Car!Sense
<1>15. CarT!Sleep <=> Car!Sleep
  BY DEF CarT!Sleep, Car!Sleep
<1>16. \A a : CarT!FrameArrives(a) <=> Car!FrameArrives(a)
  BY DEF CarT!FrameArrives, Car!FrameArrives
<1>17. \A a : CarT!UsbCommandArrives(a) <=> Car!UsbCommandArrives(a)
  BY DEF CarT!UsbCommandArrives, Car!UsbCommandArrives
<1>18. \A a : CarT!Reboot(a) <=> Car!Reboot(a)
  BY DEF CarT!Reboot, Car!Reboot, CarT!BootLink, Car!BootLink
<1>19. CarT!Next <=> Car!Next
  BY <1>2, <1>3, <1>4, <1>5, <1>6, <1>7, <1>8, <1>9, <1>10, <1>11, <1>12, <1>13, <1>14,
     <1>15, <1>16, <1>17, <1>18 DEF CarT!Next, Car!Next, CarT!Step, Car!Step, CarT!Receive,
     Car!Receive, CarT!LinkStep, Car!LinkStep
<1>20. [CarT!Next]_CarT!vars <=> [Car!Next]_Car!vars
  BY <1>19 DEF CarT!vars, Car!vars
<1> QED
  BY <1>1, <1>20, PTL DEF CarT!Spec, Car!Spec

\* And so are Pad and PadT.
LEMMA SameController == PadT!Spec <=> Pad!Spec
<1> USE DEF PadT!Option, Pad!Option, PadT!NewLink, Pad!NewLink, PadT!learn_peer,
              Pad!learn_peer, PadT!Enqueued, Pad!Enqueued, PadT!Quietly, Pad!Quietly,
              PadT!linkVars, Pad!linkVars, PadT!txVars, Pad!txVars, PadT!radioVars,
              Pad!radioVars, PadT!FlashWrite, Pad!FlashWrite, PadT!AddPeerSucceeds,
              Pad!AddPeerSucceeds, PadT!DrainOver, Pad!DrainOver, PadT!apply_local_cmd,
              Pad!apply_local_cmd, PadT!Took, Pad!Took, PadT!TakeFrame, Pad!TakeFrame,
              PadT!AcceptsPairAck, Pad!AcceptsPairAck, PadT!AcceptsTunnel,
              Pad!AcceptsTunnel, PadT!HostPayloadDecodes, Pad!HostPayloadDecodes,
              PadT!AfterReceive, Pad!AfterReceive, PadT!FromPeer, Pad!FromPeer,
              PadT!Changed, Pad!Changed, PadT!RawLevelsDiffer, Pad!RawLevelsDiffer,
              PadT!emit_telemetry, Pad!emit_telemetry, PadT!JoystickState,
              Pad!JoystickState, PadT!send_control, Pad!send_control, PadT!KeepaliveDue,
              Pad!KeepaliveDue, PadT!KeepaliveState, Pad!KeepaliveState, PadT!ApplySetLed,
              Pad!ApplySetLed, PadT!ApplyEnableRemoteTelemetry,
              Pad!ApplyEnableRemoteTelemetry, PadT!ApplyRepair, Pad!ApplyRepair,
              PadT!ApplyForPeer, Pad!ApplyForPeer, PadT!ApplyOther, Pad!ApplyOther,
              PadT!GapCap, Pad!GapCap, PadT!is_paired, Pad!is_paired, PadT!HostToBoard,
              Pad!HostToBoard, PadT!IsFresh, Pad!IsFresh, PadT!OffCentre, Pad!OffCentre,
              PadT!Buttons, Pad!Buttons, PadT!SendToPeer, Pad!SendToPeer,
              PadT!TunnelEvtFrame, Pad!TunnelEvtFrame, PadT!ControlFrame, Pad!ControlFrame,
              PadT!ControlDestination, Pad!ControlDestination, PadT!Neutral, Pad!Neutral,
              PadT!SetLed, Pad!SetLed, PadT!LedAck, Pad!LedAck, PadT!EnableRemoteTelemetry,
              Pad!EnableRemoteTelemetry, PadT!Repair, Pad!Repair, PadT!reset_pairing,
              Pad!reset_pairing, PadT!ForPeer, Pad!ForPeer, PadT!TunnelCmdFrame,
              Pad!TunnelCmdFrame, PadT!Ping, Pad!Ping, PadT!SetMotorEnable,
              Pad!SetMotorEnable, PadT!SetMotorPwm, Pad!SetMotorPwm, PadT!MaxGap,
              Pad!MaxGap, PadT!I8, Pad!I8, PadT!is_newer_sequence, Pad!is_newer_sequence,
              PadT!wrapping_sub, Pad!wrapping_sub, Cardinality, PadT!Cardinality,
              Pad!Cardinality
<1>1. PadT!Init <=> Pad!Init
  BY DEF PadT!Init, Pad!Init, PadT!BootLink, Pad!BootLink
<1>2. PadT!SkipFrame <=> Pad!SkipFrame
  BY DEF PadT!SkipFrame, Pad!SkipFrame
<1>3. PadT!HandlePairAck <=> Pad!HandlePairAck
  BY DEF PadT!HandlePairAck, Pad!HandlePairAck
<1>4. PadT!HandleTunnelCmd <=> Pad!HandleTunnelCmd
  BY DEF PadT!HandleTunnelCmd, Pad!HandleTunnelCmd
<1>5. PadT!HandleTunnelEvt <=> Pad!HandleTunnelEvt
  BY DEF PadT!HandleTunnelEvt, Pad!HandleTunnelEvt
<1>6. PadT!DrainDone <=> Pad!DrainDone
  BY DEF PadT!DrainDone, Pad!DrainDone
<1>7. \A a, b : PadT!SampleOk(a, b) <=> Pad!SampleOk(a, b)
  BY DEF PadT!SampleOk, Pad!SampleOk
<1>8. \A a : PadT!SampleFailed(a) <=> Pad!SampleFailed(a)
  BY DEF PadT!SampleFailed, Pad!SampleFailed
<1>9. PadT!SendChange <=> Pad!SendChange
  BY DEF PadT!SendChange, Pad!SendChange
<1>10. PadT!SendKeepalive <=> Pad!SendKeepalive
  BY DEF PadT!SendKeepalive, Pad!SendKeepalive
<1>11. PadT!NothingToSend <=> Pad!NothingToSend
  BY DEF PadT!NothingToSend, Pad!NothingToSend
<1>12. PadT!ApplyUsbCommand <=> Pad!ApplyUsbCommand
  BY DEF PadT!ApplyUsbCommand, Pad!ApplyUsbCommand
<1>13. PadT!UsbDrainDone <=> Pad!UsbDrainDone
  BY DEF PadT!UsbDrainDone, Pad!UsbDrainDone
<1>14. PadT!Sleep <=> Pad!Sleep
  BY DEF PadT!Sleep, Pad!Sleep
<1>15. \A a : PadT!FrameArrives(a) <=> Pad!FrameArrives(a)
  BY DEF PadT!FrameArrives, Pad!FrameArrives
<1>16. \A a : PadT!UsbCommandArrives(a) <=> Pad!UsbCommandArrives(a)
  BY DEF PadT!UsbCommandArrives, Pad!UsbCommandArrives
<1>17. \A a : PadT!Reboot(a) <=> Pad!Reboot(a)
  BY DEF PadT!Reboot, Pad!Reboot, PadT!BootLink, Pad!BootLink
<1>18. PadT!Next <=> Pad!Next
  BY <1>2, <1>3, <1>4, <1>5, <1>6, <1>7, <1>8, <1>9, <1>10, <1>11, <1>12, <1>13, <1>14,
     <1>15, <1>16, <1>17 DEF PadT!Next, Pad!Next, PadT!Step, Pad!Step, PadT!Receive,
     Pad!Receive, PadT!Sample, Pad!Sample, PadT!Transmit, Pad!Transmit
<1>19. [PadT!Next]_PadT!vars <=> [Pad!Next]_Pad!vars
  BY <1>18 DEF PadT!vars, Pad!vars
<1> QED
  BY <1>1, <1>19, PTL DEF PadT!Spec, Pad!Spec

\* The frames, commands and sticks of the boards are those of the car.
LEMMA SameData ==
    /\ CarT!Frame = Frame /\ PadT!Frame = Frame
    /\ Repair \in PadT!HostToBoard
    /\ PadT!Stick = [x : Bytes, y : Bytes, buttons : SUBSET Buttons]
<1>1. CarT!ControlPacket = ControlPacket /\ PadT!ControlPacket = ControlPacket
  BY DEF ControlPacket, CarT!ControlPacket, PadT!ControlPacket,
         Sequences16, CarT!Sequences16, PadT!Sequences16, Bytes, CarT!Bytes, PadT!Bytes,
         Buttons, CarT!Buttons, PadT!Buttons
<1>2. CarT!Telemetry = Telemetry /\ PadT!Telemetry = Telemetry
  BY DEF Telemetry, CarT!Telemetry, PadT!Telemetry, LedAck, CarT!LedAck, PadT!LedAck,
         CurrentSense, CarT!CurrentSense, PadT!CurrentSense,
         I8, CarT!I8, PadT!I8, LinkStates, CarT!LinkStates, PadT!LinkStates,
         Bytes, CarT!Bytes, PadT!Bytes, Buttons, CarT!Buttons, PadT!Buttons
<1>3. CarT!Destinations = Destinations /\ PadT!Destinations = Destinations
  BY DEF Destinations, CarT!Destinations, PadT!Destinations
<1>4. CarT!Frame = Frame /\ PadT!Frame = Frame
  BY <1>1, <1>2, <1>3 DEF Frame, CarT!Frame, PadT!Frame
<1>5. Repair \in PadT!HostToBoard
  BY DEF Repair, PadT!HostToBoard, PadT!Repair
<1>6. PadT!Stick = [x : Bytes, y : Bytes, buttons : SUBSET Buttons]
  BY DEF PadT!Stick, Bytes, PadT!Bytes, Buttons, PadT!Buttons
<1> QED
  BY <1>4, <1>5, <1>6

\* The constants of the car are constants a vehicle and a controller can have.
LEMMA BoardsAreSound ==
    /\ CarT!VehicleAssumption /\ CarT!LinkAssumption /\ CarT!WatchdogAssumption
    /\ CarT!NamesAssumption /\ CarT!FlashAssumption /\ CarT!SeqModAssumption
    /\ PadT!ControllerAssumption /\ PadT!LinkAssumption
    /\ PadT!NamesAssumption /\ PadT!FlashAssumption /\ PadT!SeqModAssumption
<1>1. FramesOf(PadMac) \cup Strangers \subseteq Frame /\ FramesOf(CarMac) \subseteq Frame
  BY CarSystemAssumption DEF FramesOf
<1>2. CarT!VehicleAssumption
  BY <1>1, SameData, CarSystemAssumption DEF CarT!VehicleAssumption
<1>3. PadT!ControllerAssumption
  <2>1. \A s \in Sticks : s \in PadT!Stick
    BY SameData, CarSystemAssumption
  <2> QED
    BY <1>1, <2>1, SameData, CarSystemAssumption DEF PadT!ControllerAssumption
<1>4. CarT!LinkAssumption /\ PadT!LinkAssumption
  BY LinkAssumption DEF LinkAssumption, CarT!LinkAssumption, PadT!LinkAssumption
<1>5. CarT!WatchdogAssumption
  BY CarSystemAssumption DEF CarT!WatchdogAssumption
<1>6. CarT!NamesAssumption /\ PadT!NamesAssumption
  BY NamesAssumption DEF NamesAssumption, CarT!NamesAssumption, PadT!NamesAssumption
<1>7. /\ CarT!FlashAssumption /\ CarT!SeqModAssumption
      /\ PadT!FlashAssumption /\ PadT!SeqModAssumption
  BY FlashAssumption, SeqModAssumption
  DEF CarT!FlashAssumption, CarT!SeqModAssumption, PadT!FlashAssumption, PadT!SeqModAssumption
<1> QED
  BY <1>2, <1>3, <1>4, <1>5, <1>6, <1>7

-----------------------------------------------------------------------------
(* The car.                                                                *)

\* However the car is used, whatever is lost on the air, whoever else sends
\* and however often its boards are reset: the motor does not drive on a
\* command longer than one timeout, one interval and one blink after it was
\* heard, the fail-safe keeps both sides off, while the vehicle is paired
\* nobody but its peer commands it, and the vehicle keeps the promise FailSafe
\* spells out.
THEOREM CarStopsInTime ==
    Spec => /\ [](Car!StopDeadline /\ Car!FailSafeHold)
            /\ Car!OnlyPairedPeerCommands /\ Car!ImplementsFailSafe
<1>1. Spec => CarT!Spec
  BY CarIsMadeOfItsBoards, SameVehicle
<1>2. CarT!Spec => []CarT!StopDeadline
  BY CarT!StopDeadlineHolds, BoardsAreSound
<1>3. CarT!Spec => []CarT!FailSafeHold
  BY CarT!FailSafeHolds, BoardsAreSound
<1>4. CarT!Spec => CarT!OnlyPairedPeerCommands
  BY CarT!OnlyPairedPeerCommandsHolds, BoardsAreSound
<1>5. (CarT!StopDeadline <=> Car!StopDeadline) /\ (CarT!FailSafeHold <=> Car!FailSafeHold)
  BY DEF CarT!StopDeadline, Car!StopDeadline, CarT!Driving, Car!Driving,
         CarT!Output, Car!Output, CarT!FailSafeHold, Car!FailSafeHold
<1>6. CarT!OnlyPairedPeerCommands <=> Car!OnlyPairedPeerCommands
  BY DEF CarT!OnlyPairedPeerCommands, Car!OnlyPairedPeerCommands,
         CarT!is_paired, Car!is_paired, CarT!driveVars, Car!driveVars, CarT!vars, Car!vars,
         CarT!radioVars, Car!radioVars, CarT!linkVars, Car!linkVars
<1>7. CarT!Spec => CarT!ImplementsFailSafe
  BY CarT!VehicleImplementsFailSafe, BoardsAreSound
<1>8. CarT!ImplementsFailSafe <=> Car!ImplementsFailSafe
  <2> USE DEF CarT!mode, Car!mode, CarT!Output, Car!Output,
              CarT!Promise!Modes, Car!Promise!Modes, CarT!Promise!Passed, Car!Promise!Passed
  <2>1. CarT!Promise!Init <=> Car!Promise!Init
    BY DEF CarT!Promise!Init, Car!Promise!Init
  <2>2. CarT!Promise!Next <=> Car!Promise!Next
    BY DEF CarT!Promise!Next, Car!Promise!Next, CarT!Promise!Hear, Car!Promise!Hear,
           CarT!Promise!HostOverride, Car!Promise!HostOverride,
           CarT!Promise!Halt, Car!Promise!Halt, CarT!Promise!Elapse, Car!Promise!Elapse,
           CarT!Promise!Restart, Car!Promise!Restart
  <2>3. [CarT!Promise!Next]_<<CarT!mode, v_quiet_ms>>
            <=> [Car!Promise!Next]_<<Car!mode, v_quiet_ms>>
    BY <2>2
  <2> QED
    BY <2>1, <2>3, PTL DEF CarT!ImplementsFailSafe, Car!ImplementsFailSafe,
                           CarT!Promise!Spec, Car!Promise!Spec
<1> QED
  BY <1>1, <1>2, <1>3, <1>4, <1>5, <1>6, <1>7, <1>8, PTL

\* What the controller of the car sends is the joystick as it is, and it does
\* not fall silent for longer than its loop takes.
THEOREM CarIsToldInTime == Spec => [](Pad!MotionIsFresh /\ Pad!GapIsBounded)
<1>1. Spec => PadT!Spec
  BY CarIsMadeOfItsBoards, SameController
<1>2. PadT!Spec => []PadT!MotionIsFresh
  BY PadT!MotionIsFreshHolds, BoardsAreSound
<1>3. PadT!Spec => []PadT!GapIsBounded
  BY PadT!GapIsBoundedHolds, BoardsAreSound
<1>4. PadT!MotionIsFresh <=> Pad!MotionIsFresh
  BY DEF PadT!MotionIsFresh, Pad!MotionIsFresh, PadT!OffCentre, Pad!OffCentre,
         PadT!ReceivedPacket, Pad!ReceivedPacket
<1>5. PadT!GapIsBounded <=> Pad!GapIsBounded
  BY DEF PadT!GapIsBounded, Pad!GapIsBounded, PadT!MaxGap, Pad!MaxGap
<1> QED
  BY <1>1, <1>2, <1>3, <1>4, <1>5, PTL

\* With a flash that stores what it is given, a reset of either board comes up
\* with the pairing the board had, and the controller never trades its vehicle
\* for another one.
THEOREM CarRemembersPeers ==
    ASSUME FlashFaults = FALSE
    PROVE  Spec => /\ [](Car!FlashRemembersPeer /\ Pad!FlashRemembersPeer)
                   /\ Pad!PeerNeverReplaced
<1>1. Spec => CarT!Spec /\ PadT!Spec
  BY CarIsMadeOfItsBoards, SameVehicle, SameController
<1>2. CarT!Spec => []CarT!FlashRemembersPeer
  BY CarT!FlashRemembers, BoardsAreSound
<1>3. PadT!Spec => []PadT!FlashRemembersPeer
  BY PadT!FlashRemembers, BoardsAreSound
<1>4. PadT!Spec => PadT!PeerNeverReplaced
  BY PadT!PeerNeverReplacedHolds, BoardsAreSound
<1>5. /\ CarT!FlashRemembersPeer <=> Car!FlashRemembersPeer
      /\ PadT!FlashRemembersPeer <=> Pad!FlashRemembersPeer
  BY DEF CarT!FlashRemembersPeer, Car!FlashRemembersPeer,
         PadT!FlashRemembersPeer, Pad!FlashRemembersPeer
<1>6. PadT!PeerNeverReplaced <=> Pad!PeerNeverReplaced
  BY DEF PadT!PeerNeverReplaced, Pad!PeerNeverReplaced,
         PadT!is_paired, Pad!is_paired, PadT!vars, Pad!vars
<1> QED
  BY <1>1, <1>2, <1>3, <1>4, <1>5, <1>6, PTL

\* In a car with no stranger in range the vehicle has forgotten the sequence
\* number by the time it has gone to sleep timed out, so that the controller's
\* next frame counts, whichever number it restarts at.
THEOREM CarHearsItsPadAgain ==
    ASSUME Strangers = {}, PadMac # CarMac, Macs = {PadMac, CarMac}
    PROVE  Spec => []Car!NextControlAccepted
<1>1. Spec => CarT!Spec
  BY CarIsMadeOfItsBoards, SameVehicle
<1>2. /\ PadMac \in Macs /\ Macs \ {CarMac} = {PadMac}
      /\ \A f \in FramesOf(PadMac) \cup Strangers : f.src = PadMac
  BY DEF FramesOf
<1>3. CarT!Spec => []CarT!NextControlAccepted
  BY <1>2, CarT!NextControlAcceptedHolds, BoardsAreSound
<1>4. CarT!NextControlAccepted <=> Car!NextControlAccepted
  BY DEF CarT!NextControlAccepted, Car!NextControlAccepted
<1> QED
  BY <1>1, <1>3, <1>4, PTL
=============================================================================
