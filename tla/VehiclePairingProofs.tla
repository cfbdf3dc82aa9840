------------------------ MODULE VehiclePairingProofs ------------------------
(***************************************************************************)
(* Proofs about Vehicle's pairing, for every value of its constants: who   *)
(* may command it, what a reset comes up with, and when a controller that  *)
(* restarted its count is heard again.                                     *)
(***************************************************************************)
EXTENDS VehicleProofs

USE DEF Option, Bytes

-----------------------------------------------------------------------------
(* Foreign frames.                                                         *)

\* Only the drain takes a frame, and it counts what it takes.
LEMMA TakenByReceive ==
    ASSUME TypeOK, [Next]_vars, drained' = drained + 1
    PROVE  Receive
<1>1. drained \in Nat
  BY VehicleAssumption DEF TypeOK
<1>2. drained' # drained /\ drained' # 0
  BY <1>1
<1>3. ~UNCHANGED vars /\ ~(\E held \in BootPresses : Reboot(held))
  BY <1>2 DEF vars, Reboot
<1>4. /\ ~(\E f \in Arrivals : FrameArrives(f))
      /\ ~(\E c \in UsbCommands : UsbCommandArrives(c))
  BY <1>2 DEF FrameArrives, UsbCommandArrives, radioVars
<1>5. ~Calibrated /\ ~DrainDone /\ ~LinkStep /\ ~ApplyUsbCommand /\ ~UsbDrainDone
      /\ ~Sense /\ ~Sleep
  BY <1>2 DEF Calibrated, DrainDone, LinkStep, LinkUnchanged, LinkBecomesAlive,
              BlinkDone, LinkTimesOut, ApplyUsbCommand, UsbDrainDone, Sense, Sleep,
              radioVars
<1> QED
  BY <1>3, <1>4, <1>5 DEF Next, Step

\* While paired, a frame of another board changes neither the motor, nor the
\* override, nor the watchdog, nor the pairing, in RAM or in flash.
THEOREM OnlyPairedPeerCommandsHolds == Spec => OnlyPairedPeerCommands
<1>1. ASSUME TypeOK, [Next]_vars, rx # <<>>, drained' = drained + 1, is_paired(link),
             Head(rx).src # link.paired_peer
      PROVE  /\ UNCHANGED <<driveVars, watchdog, flash>>
             /\ link'.paired_peer = link.paired_peer
  <2>1. Receive
    BY <1>1, TakenByReceive
  <2>2. Head(rx) \in Frame /\ link \in Link
    BY <1>1 DEF TypeOK
  <2>3. ~HandleControl /\ ~HandleTunnelCmd /\ ~HandleTunnelEvt
    BY <1>1 DEF HandleControl, AcceptsControl, HandleTunnelCmd, HandleTunnelEvt, AcceptsTunnel
  <2>4. SkipFrame
    BY <2>1, <2>3 DEF Receive
  <2>5. AfterReceive(link, Head(rx)).paired_peer = link.paired_peer
    BY <2>2, PeerChanges, FrameFields
  <2> QED
    BY <2>4, <2>5 DEF SkipFrame
<1> QED
  BY <1>1, VehicleTypes, PTL DEF Spec, OnlyPairedPeerCommands

-----------------------------------------------------------------------------
(* The pairing in RAM and in flash.                                        *)

LEMMA BootRestores ==
    ASSUME NEW stored \in Option(Macs)
    PROVE  BootLink(stored).paired_peer = stored /\ BootLink(stored).last_sequence = None
BY NewLinkLearns DEF BootLink, NewLink

\* A command forgets the peer in both places or in neither.
LEMMA CommandKeepsFlash ==
    ASSUME FlashFaults = FALSE, TypeOK, FlashRemembersPeer, NEW cmd \in HostToBoard,
           apply_local_cmd(cmd)
    PROVE  FlashRemembersPeer'
<1>1. CASE ApplyRepair(cmd)
  <2>1. flash' \in FlashWrite(flash, None) /\ link' = reset_pairing(link)
    BY <1>1 DEF ApplyRepair
  <2>2. flash' = None
    BY <2>1, FlashWrites
  <2>3. link'.paired_peer = None
    BY <2>1 DEF reset_pairing, TypeOK, Link
  <2> QED
    BY <2>2, <2>3 DEF FlashRemembersPeer
<1>2. CASE ~ApplyRepair(cmd)
  BY <1>2 DEF apply_local_cmd, ApplySetLed, ApplySetMotorEnable, ApplySetMotorPwm,
              ApplyEnableRemoteTelemetry, ApplyForPeer, ApplyOther, FlashRemembersPeer
<1> QED
  BY <1>1, <1>2

LEMMA ReceiveKeepsFlash ==
    ASSUME FlashFaults = FALSE, TypeOK, FlashRemembersPeer, Receive
    PROVE  FlashRemembersPeer'
<1> DEFINE f == Head(rx)
<1>1. f \in Frame /\ f.src \in Macs /\ link \in Link
  <2>1. TakeFrame
    BY DEF Receive, SkipFrame, HandleControl, HandleTunnelCmd, HandleTunnelEvt
  <2> QED
    BY <2>1, TakeTypes, FrameFields DEF TypeOK
<1>2. /\ AfterReceive(link, f) \in Link
      /\ AfterReceive(link, f).paired_peer = link.paired_peer
      /\ AfterReceive(link, f).peers = link.peers
  BY <1>1, LinkCalls, PeerChanges DEF Link, AfterReceive
<1> HIDE DEF f
<1>3. CASE SkipFrame
  BY <1>2, <1>3 DEF SkipFrame, FlashRemembersPeer, f
<1>4. CASE HandleControl
  <2> DEFINE received == AfterReceive(link, f)
  <2>1. link' = IF is_paired(link) THEN received ELSE learn_peer(received, f.src)
    BY <1>4 DEF HandleControl, f
  <2>2. IF ~is_paired(link) /\ is_paired(link')
        THEN flash' \in FlashWrite(flash, f.src)
        ELSE UNCHANGED flash
    BY <1>4 DEF HandleControl, f
  <2>3. learn_peer(received, f.src).paired_peer \in {f.src, link.paired_peer}
    BY <1>1, <1>2, PeerChanges
  <2> HIDE DEF received
  <2>4. CASE is_paired(link)
    BY <1>2, <2>1, <2>2, <2>4 DEF FlashRemembersPeer, received
  <2>5. CASE ~is_paired(link)
    BY <2>1, <2>2, <2>3, <2>5, FlashWrites DEF FlashRemembersPeer, is_paired
  <2> QED
    BY <2>4, <2>5
<1>5. CASE HandleTunnelCmd
  <2>1. f.bytes \in HostToBoard /\ apply_local_cmd(f.bytes)
    BY <1>5 DEF HandleTunnelCmd, HostPayloadDecodes, f
  <2> QED
    BY <2>1, CommandKeepsFlash
<1>6. CASE HandleTunnelEvt
  BY <1>6 DEF HandleTunnelEvt, linkVars, FlashRemembersPeer
<1> QED
  BY <1>3, <1>4, <1>5, <1>6 DEF Receive

\* While writes to flash take effect, a reset at any moment comes up with the
\* pairing the loop was running with.
THEOREM FlashRemembers ==
    ASSUME FlashFaults = FALSE
    PROVE  Spec => []FlashRemembersPeer
<1>1. Init => FlashRemembersPeer
  BY BootRestores DEF Init, FlashRemembersPeer
<1>2. TypeOK /\ FlashRemembersPeer /\ [Next]_vars => FlashRemembersPeer'
  <2> SUFFICES ASSUME TypeOK, FlashRemembersPeer, [Next]_vars PROVE FlashRemembersPeer'
    OBVIOUS
  <2>1. CASE Receive
    BY <2>1, ReceiveKeepsFlash
  <2>2. CASE LinkTimesOut
    BY <2>2 DEF LinkTimesOut, reset_sequence, FlashRemembersPeer, TypeOK, Link
  <2>3. CASE ApplyUsbCommand
    <3>1. Head(cmds) \in HostToBoard /\ apply_local_cmd(Head(cmds))
      BY <2>3 DEF ApplyUsbCommand, TypeOK
    <3> QED
      BY <3>1, CommandKeepsFlash
  <2>4. CASE \E held \in BootPresses : Reboot(held)
    <3>1. PICK held \in BootPresses : Reboot(held)
      BY <2>4
    <3>2. /\ flash' \in IF held THEN FlashWrite(flash, None) ELSE {flash}
          /\ link' = BootLink(flash')
      BY <3>1 DEF Reboot
    <3>3. FlashWrite(flash, None) = {None}
      BY FlashWrites
    <3>4. flash' \in {flash, None}
      BY <3>2, <3>3
    <3> QED
      BY <3>2, <3>4, BootRestores DEF FlashRemembersPeer, TypeOK
  <2>5. CASE \/ Calibrated \/ DrainDone \/ LinkUnchanged \/ LinkBecomesAlive \/ BlinkDone
             \/ UsbDrainDone \/ Sense \/ Sleep
             \/ \E f \in Arrivals : FrameArrives(f)
             \/ \E c \in UsbCommands : UsbCommandArrives(c)
             \/ UNCHANGED vars
    BY <2>5 DEF Calibrated, DrainDone, LinkUnchanged, LinkBecomesAlive, BlinkDone,
                UsbDrainDone, Sense, Sleep, FrameArrives, UsbCommandArrives, vars, linkVars,
                FlashRemembersPeer
  <2> QED
    BY <2>1, <2>2, <2>3, <2>4, <2>5 DEF Next, Step, LinkStep
<1> QED
  BY <1>1, <1>2, VehicleTypes, PTL DEF Spec

-----------------------------------------------------------------------------
(* The radio's list of peers.                                              *)

\* The inductive invariant: the peer itself is on the list, so that whatever
\* the link sends to it can be sent.
DeliverInv == PeerListed(link) /\ sent \in Seq(Deliverable(link))

LEMMA QuietDelivers == Quietly => sent' \in Seq(Deliverable(link'))
BY DEF Quietly

\* Telemetry goes nowhere but to the peer.
LEMMA EmitDelivers ==
    ASSUME NEW l \in Link, PeerListed(l), NEW acks \in Seq(Deliverable(l)),
           NEW events \in Seq(Telemetry), emit_telemetry(l, acks, events)
    PROVE  sent' \in Seq(Deliverable(l))
<1>1. ASSUME is_paired(l)
      PROVE  [i \in DOMAIN events |-> TunnelEvtFrame(Self, l.paired_peer, events[i])]
                \in Seq(Deliverable(l))
  <2>1. \A e \in Telemetry : TunnelEvtFrame(Self, l.paired_peer, e) \in Deliverable(l)
    BY <1>1, ListedSends, VehicleAssumption
  <2>2. DOMAIN events = 1 .. Len(events) /\ Len(events) \in Nat
    OBVIOUS
  <2>3. \A i \in DOMAIN events : events[i] \in Telemetry
    OBVIOUS
  <2> QED
    BY <2>1, <2>2, <2>3
<1> QED
  BY <1>1 DEF emit_telemetry

LEMMA CommandDelivers ==
    ASSUME TypeOK, DeliverInv, NEW cmd \in HostToBoard, apply_local_cmd(cmd)
    PROVE  DeliverInv'
<1>0. link \in Link /\ PeerListed(link)
  BY DEF TypeOK, DeliverInv
<1>1. CASE ApplySetLed(cmd)
  BY <1>0, <1>1 DEF ApplySetLed, DeliverInv
<1>2. CASE ApplySetMotorEnable(cmd) \/ ApplyEnableRemoteTelemetry(cmd) \/ ApplyOther(cmd)
  BY <1>0, <1>2, QuietDelivers
  DEF ApplySetMotorEnable, ApplyEnableRemoteTelemetry, ApplyOther, DeliverInv
<1>3. CASE ApplySetMotorPwm(cmd)
  <2>1. <<MotorState(cmd.duty)>> \in Seq(Telemetry)
    BY <1>3, CommandFields, EventTypes DEF ApplySetMotorPwm
  <2>2. emit_telemetry(link, <<>>, <<MotorState(cmd.duty)>>) /\ link' = link
    BY <1>3 DEF ApplySetMotorPwm
  <2>3. <<>> \in Seq(Deliverable(link))
    OBVIOUS
  <2>4. sent' \in Seq(Deliverable(link))
    BY <1>0, <2>1, <2>2, <2>3, EmitDelivers
  <2> QED
    BY <1>0, <2>2, <2>4 DEF DeliverInv
<1>4. CASE ApplyRepair(cmd)
  <2>1. link' = reset_pairing(link) /\ Quietly
    BY <1>4 DEF ApplyRepair
  <2>2. PeerListed(link')
    BY <2>1 DEF PeerListed, reset_pairing, is_paired, TypeOK, Link
  <2> QED
    BY <2>1, <2>2, QuietDelivers DEF DeliverInv
<1>5. CASE ApplyForPeer(cmd)
  <2>1. cmd.payload \in Payloads
    BY <1>5, CommandFields DEF ApplyForPeer
  <2> QED
    BY <1>0, <1>5, <2>1, ListedSends, VehicleAssumption DEF ApplyForPeer, DeliverInv
<1> QED
  BY <1>1, <1>2, <1>3, <1>4, <1>5 DEF apply_local_cmd

LEMMA ReceiveDelivers ==
    ASSUME TypeOK, DeliverInv, Receive
    PROVE  DeliverInv'
<1> DEFINE f == Head(rx)
           received == AfterReceive(link, f)
<1>1. f \in Frame /\ f.src \in Macs /\ link \in Link /\ PeerListed(link)
  <2>1. TakeFrame
    BY DEF Receive, SkipFrame, HandleControl, HandleTunnelCmd, HandleTunnelEvt
  <2> QED
    BY <2>1, TakeTypes, FrameFields DEF TypeOK, DeliverInv
<1>2. received \in Link /\ PeerListed(received)
  BY <1>1, LinkCalls, CallsKeepListed
<1>3. learn_peer(received, f.src) \in Link /\ PeerListed(learn_peer(received, f.src))
  BY <1>1, <1>2, LinkCalls, CallsKeepListed
<1> HIDE DEF f, received
<1>4. CASE SkipFrame
  BY <1>2, <1>4, QuietDelivers DEF SkipFrame, DeliverInv, f, received
<1>5. CASE HandleControl
  <2>1. link' \in Link /\ PeerListed(link')
    BY <1>2, <1>3, <1>5 DEF HandleControl, f, received
  <2>2. f.packet \in ControlPacket
    BY <1>1, <1>5, FrameFields DEF HandleControl, f
  <2>3. last_duty' \in I8
    BY <1>5, <2>2, ActEffects DEF HandleControl, f
  <2>4. <<ReceivedPacket(f.packet), MotorState(last_duty')>> \in Seq(Telemetry)
    BY <2>2, <2>3, EventTypes
  <2>5. (IF f.dst = Broadcast
         THEN SendToPeer(link', PairAckFrame(Self, link'.paired_peer))
         ELSE <<>>) \in Seq(Deliverable(link'))
    BY <2>1, ListedSends, VehicleAssumption
  <2> QED
    BY <1>5, <2>1, <2>4, <2>5, EmitDelivers DEF HandleControl, AnswersPairing, DeliverInv, f
<1>6. CASE HandleTunnelCmd
  <2>1. f.bytes \in HostToBoard /\ apply_local_cmd(f.bytes)
    BY <1>6 DEF HandleTunnelCmd, HostPayloadDecodes, f
  <2> QED
    BY <2>1, CommandDelivers
<1>7. CASE HandleTunnelEvt
  BY <1>1, <1>7 DEF HandleTunnelEvt, linkVars, DeliverInv
<1> QED
  BY <1>4, <1>5, <1>6, <1>7 DEF Receive

LEMMA BootDelivers ==
    ASSUME NEW stored \in Option(Macs)
    PROVE  PeerListed(BootLink(stored))
<1>1. CASE stored = None
  BY <1>1, BootListed DEF BootLink
<1>2. CASE stored \in Macs
  <2>1. BootLink(stored) = learn_peer(NewLink, stored)
    BY <1>2, NamesAssumption DEF BootLink
  <2> QED
    BY <1>2, <2>1, BootListed
<1> QED
  BY <1>1, <1>2

\* Every frame the vehicle hands to the radio is a broadcast or goes to a board
\* on the radio's list, whatever the length of that list.
THEOREM SendsAreDeliverableHolds == Spec => []SendsAreDeliverable
<1>1. Init => DeliverInv
  BY BootDelivers DEF Init, DeliverInv
<1>2. TypeOK /\ TypeOK' /\ DeliverInv /\ [Next]_vars => DeliverInv'
  <2> SUFFICES ASSUME TypeOK, TypeOK', DeliverInv, [Next]_vars PROVE DeliverInv'
    OBVIOUS
  <2>0. /\ link \in Link /\ link' \in Link /\ PeerListed(link)
        /\ <<>> \in Seq(Deliverable(link))
    BY DEF TypeOK, DeliverInv
  <2>1. CASE Receive
    BY <2>1, ReceiveDelivers
  <2>2. CASE LinkTimesOut
    <3>1. link' = reset_sequence(link)
          /\ emit_telemetry(link', <<>>, <<EspNowLinkState("TimedOut")>>)
      BY <2>2 DEF LinkTimesOut
    <3>2. PeerListed(link')
      BY <2>0, <3>1 DEF PeerListed, reset_sequence, is_paired, Link
    <3>3. <<EspNowLinkState("TimedOut")>> \in Seq(Telemetry)
      BY EventTypes DEF LinkStates
    <3>4. <<>> \in Seq(Deliverable(link'))
      OBVIOUS
    <3>5. sent' \in Seq(Deliverable(link'))
      BY <2>0, <3>1, <3>2, <3>3, <3>4, EmitDelivers
    <3> QED
      BY <3>2, <3>5 DEF DeliverInv
  <2>3. CASE BlinkDone
    <3>1. link' = link /\ emit_telemetry(link, <<>>, <<EspNowLinkState("Alive")>>)
      BY <2>3 DEF BlinkDone
    <3>2. <<EspNowLinkState("Alive")>> \in Seq(Telemetry)
      BY EventTypes DEF LinkStates
    <3>3. sent' \in Seq(Deliverable(link))
      BY <2>0, <3>1, <3>2, EmitDelivers
    <3> QED
      BY <2>0, <3>1, <3>3 DEF DeliverInv
  <2>4. CASE Sense
    <3>1. link' = link /\ emit_telemetry(link, <<>>, <<CurrentSense, CurrentSenseRaw(last_duty)>>)
      BY <2>4 DEF Sense, linkVars
    <3>2. <<CurrentSense, CurrentSenseRaw(last_duty)>> \in Seq(Telemetry)
      BY EventTypes DEF TypeOK
    <3>3. sent' \in Seq(Deliverable(link))
      BY <2>0, <3>1, <3>2, EmitDelivers
    <3> QED
      BY <2>0, <3>1, <3>3 DEF DeliverInv
  <2>5. CASE ApplyUsbCommand
    <3>1. Head(cmds) \in HostToBoard /\ apply_local_cmd(Head(cmds))
      BY <2>5 DEF ApplyUsbCommand, TypeOK
    <3> QED
      BY <3>1, CommandDelivers
  <2>6. CASE \E held \in BootPresses : Reboot(held)
    <3>1. link' = BootLink(flash') /\ sent' = <<>>
      BY <2>6 DEF Reboot
    <3>2. flash' \in Option(Macs)
      BY DEF TypeOK
    <3> QED
      BY <3>1, <3>2, BootDelivers DEF DeliverInv
  <2>7. CASE \/ Calibrated \/ DrainDone \/ LinkUnchanged \/ LinkBecomesAlive
             \/ UsbDrainDone \/ Sleep
             \/ \E f \in Arrivals : FrameArrives(f)
             \/ \E c \in UsbCommands : UsbCommandArrives(c)
    <3>1. link' = link /\ Quietly
      BY <2>7 DEF Calibrated, DrainDone, LinkUnchanged, LinkBecomesAlive, UsbDrainDone,
                  Sleep, FrameArrives, UsbCommandArrives, linkVars
    <3> QED
      BY <2>0, <3>1, QuietDelivers DEF DeliverInv
  <2>8. CASE UNCHANGED vars
    BY <2>8 DEF vars, DeliverInv
  <2> QED
    BY <2>1, <2>2, <2>3, <2>4, <2>5, <2>6, <2>7, <2>8 DEF Next, Step, LinkStep
<1>3. DeliverInv => SendsAreDeliverable
  <2> SUFFICES ASSUME DeliverInv, NEW i \in DOMAIN sent PROVE sent[i].dst \in Reachable(link)
    BY DEF SendsAreDeliverable
  <2>1. sent[i] \in Deliverable(link)
    BY DEF DeliverInv
  <2> QED
    BY <2>1 DEF Deliverable
<1> QED
  BY <1>1, <1>2, <1>3, VehicleTypes, PTL DEF Spec

-----------------------------------------------------------------------------
(* Sequence numbers.                                                       *)

From(only) == {f \in Frame : f.src = only}

\* The inductive invariant: with one controller in range every fresh control
\* frame is accepted, so a number that is recorded while the link still
\* counts as timed out was recorded with the packet that revives it.
SoleInv(only) ==
    /\ rx \in Seq(From(only))
    /\ link.paired_peer \in {None, only}
    /\ flash \in {None, only}
    /\ last_state = "TimedOut" /\ link.last_sequence # None =>
           \/ pc = "blink"
           \/ pc \in {"drain", "state"} /\ state(watchdog) = "Alive"

\* A command leaves the number alone or clears it.
LEMMA CommandKeepsSole ==
    ASSUME NEW only, TypeOK, SoleInv(only), NEW cmd \in HostToBoard, apply_local_cmd(cmd)
    PROVE  /\ link'.paired_peer \in {None, only}
           /\ flash' \in {None, only}
           /\ link'.last_sequence \in {None, link.last_sequence}
<1>1. CASE ApplyRepair(cmd)
  <2>1. flash' \in FlashWrite(flash, None) /\ link' = reset_pairing(link)
    BY <1>1 DEF ApplyRepair
  <2>2. link'.paired_peer = None /\ link'.last_sequence = None
    BY <2>1 DEF reset_pairing, TypeOK, Link
  <2> QED
    BY <2>1, <2>2 DEF FlashWrite, SoleInv
<1>2. CASE ~ApplyRepair(cmd)
  BY <1>2 DEF apply_local_cmd, ApplySetLed, ApplySetMotorEnable, ApplySetMotorPwm,
              ApplyEnableRemoteTelemetry, ApplyForPeer, ApplyOther, SoleInv
<1> QED
  BY <1>1, <1>2

LEMMA ReceiveKeepsSole ==
    ASSUME NEW only \in Macs, TypeOK, SoleInv(only), Receive
    PROVE  SoleInv(only)'
<1> DEFINE f == Head(rx)
<1>0. TakeFrame
  BY DEF Receive, SkipFrame, HandleControl, HandleTunnelCmd, HandleTunnelEvt
<1>1. f \in From(only) /\ rx' \in Seq(From(only)) /\ pc = "drain" /\ pc' = "drain"
  <2>1. f \in From(only) /\ rx' \in Seq(From(only))
    BY <1>0 DEF TakeFrame, SoleInv
  <2> QED
    BY <1>0, <2>1 DEF TakeFrame, Receive, SkipFrame, HandleControl, HandleTunnelCmd,
                      HandleTunnelEvt
<1>2. f \in Frame /\ f.src = only /\ link \in Link
  BY <1>1 DEF From, TypeOK
<1>3. /\ AfterReceive(link, f) \in Link
      /\ AfterReceive(link, f).paired_peer = link.paired_peer
  BY <1>2, LinkCalls, PeerChanges
<1> HIDE DEF f
<1>4. CASE SkipFrame
  <2>1. link' = AfterReceive(link, f) /\ UNCHANGED <<flash, watchdog, last_state>>
    BY <1>4 DEF SkipFrame, f
  <2>2. link'.last_sequence = link.last_sequence
    <3>1. AcceptsControl(link, f.src)
      BY <1>2 DEF AcceptsControl, is_paired, SoleInv
    <3>2. ~(f.kind = "Control" /\ IsFresh(link, f.packet))
      BY <1>4, <3>1 DEF SkipFrame, Delivers, f
    <3> QED
      BY <1>2, <2>1, <3>2 DEF AfterReceive
  <2> QED
    BY <1>1, <1>3, <2>1, <2>2 DEF SoleInv
<1>5. CASE HandleControl
  <2> DEFINE received == AfterReceive(link, f)
  <2>1. /\ link' = IF is_paired(link) THEN received ELSE learn_peer(received, f.src)
        /\ flash' = flash \/ flash' \in FlashWrite(flash, f.src)
        /\ watchdog' = record_valid_packet(watchdog)
    BY <1>5 DEF HandleControl, f
  <2>2. learn_peer(received, f.src).paired_peer \in {only, link.paired_peer}
    BY <1>2, <1>3, PeerChanges
  <2> HIDE DEF received
  <2>3. link'.paired_peer \in {None, only}
    BY <1>3, <2>1, <2>2 DEF SoleInv, received
  <2>4. flash' \in {None, only}
    BY <1>2, <2>1 DEF FlashWrite, SoleInv
  <2>5. state(watchdog') = "Alive"
    BY <2>1, WatchdogAssumption DEF state, record_valid_packet
  <2> QED
    BY <1>1, <2>3, <2>4, <2>5 DEF SoleInv
<1>6. CASE HandleTunnelCmd
  <2>1. f.bytes \in HostToBoard /\ apply_local_cmd(f.bytes) /\ UNCHANGED <<watchdog, last_state>>
    BY <1>6 DEF HandleTunnelCmd, HostPayloadDecodes, f
  <2>2. /\ link'.paired_peer \in {None, only}
        /\ flash' \in {None, only}
        /\ link'.last_sequence \in {None, link.last_sequence}
    BY <2>1, CommandKeepsSole
  <2> QED
    BY <1>1, <2>1, <2>2 DEF SoleInv
<1>7. CASE HandleTunnelEvt
  BY <1>1, <1>7 DEF HandleTunnelEvt, linkVars, SoleInv
<1> QED
  BY <1>4, <1>5, <1>6, <1>7 DEF Receive

LEMMA StepKeepsSole ==
    ASSUME NEW only \in Macs, TypeOK, SoleInv(only), Step
    PROVE  SoleInv(only)'
<1> USE DEF linkVars, radioVars
<1>1. CASE Receive
  BY <1>1, ReceiveKeepsSole
<1>2. CASE LinkUnchanged
  BY <1>2 DEF LinkUnchanged, SoleInv
<1>3. CASE LinkBecomesAlive
  BY <1>3 DEF LinkBecomesAlive, SoleInv
<1>4. CASE BlinkDone
  BY <1>4 DEF BlinkDone, SoleInv
<1>5. CASE LinkTimesOut
  <2>1. link' = reset_sequence(link) /\ UNCHANGED <<rx, flash>>
    BY <1>5 DEF LinkTimesOut
  <2>2. link'.last_sequence = None /\ link'.paired_peer = link.paired_peer
    BY <2>1 DEF reset_sequence, TypeOK, Link
  <2> QED
    BY <2>1, <2>2 DEF SoleInv
<1>6. CASE ApplyUsbCommand
  <2>1. Head(cmds) \in HostToBoard /\ apply_local_cmd(Head(cmds))
        /\ UNCHANGED <<rx, watchdog, last_state, pc>> /\ pc = "usb"
    BY <1>6 DEF ApplyUsbCommand, TypeOK
  <2>2. /\ link'.paired_peer \in {None, only}
        /\ flash' \in {None, only}
        /\ link'.last_sequence \in {None, link.last_sequence}
    BY <2>1, CommandKeepsSole
  <2> QED
    BY <2>1, <2>2 DEF SoleInv
<1>7. CASE Sleep
  <2>1. pc = "sleep" /\ UNCHANGED <<rx, link, flash, last_state>>
    BY <1>7 DEF Sleep
  <2> QED
    BY <2>1 DEF SoleInv
<1>8. CASE Calibrated \/ DrainDone \/ UsbDrainDone \/ Sense
  BY <1>8 DEF Calibrated, DrainDone, UsbDrainDone, Sense, SoleInv
<1> QED
  BY <1>1, <1>2, <1>3, <1>4, <1>5, <1>6, <1>7, <1>8 DEF Step, LinkStep

\* With one controller in range, its next packet is accepted once the link
\* has timed out, whatever number it restarts its count with.
THEOREM NextControlAcceptedHolds ==
    ASSUME NEW only \in Macs, Macs \ {Self} = {only}, \A f \in Arrivals : f.src = only
    PROVE  Spec => []NextControlAccepted
<1>1. Init => SoleInv(only)
  <2> SUFFICES ASSUME Init PROVE SoleInv(only)
    OBVIOUS
  <2>1. flash \in {None, only} /\ link = BootLink(flash) /\ rx = <<>>
    BY DEF Init
  <2>2. link.paired_peer = flash
    BY <2>1, BootRestores
  <2> QED
    BY <2>1, <2>2 DEF Init, SoleInv
<1>2. TypeOK /\ SoleInv(only) /\ [Next]_vars => SoleInv(only)'
  <2> SUFFICES ASSUME TypeOK, SoleInv(only), [Next]_vars PROVE SoleInv(only)'
    OBVIOUS
  <2>1. CASE Step
    BY <2>1, StepKeepsSole
  <2>2. ASSUME NEW f \in Arrivals, FrameArrives(f) PROVE SoleInv(only)'
    <3>1. f \in From(only)
      BY VehicleAssumption DEF From
    <3>2. rx' \in Enqueued(rx, f) /\ UNCHANGED <<pc, linkVars>>
      BY <2>2 DEF FrameArrives
    <3>3. rx' \in Seq(From(only))
      BY <3>1, <3>2, EnqueuedIn DEF SoleInv
    <3> QED
      BY <3>2, <3>3 DEF SoleInv, linkVars
  <2>3. CASE \E c \in UsbCommands : UsbCommandArrives(c)
    BY <2>3 DEF UsbCommandArrives, SoleInv, radioVars, linkVars
  <2>4. ASSUME NEW held \in BootPresses, Reboot(held) PROVE SoleInv(only)'
    <3>1. /\ flash' \in IF held THEN FlashWrite(flash, None) ELSE {flash}
          /\ link' = BootLink(flash')
          /\ rx' = <<>> /\ last_state' = "AwaitingFirstPacket"
      BY <2>4 DEF Reboot
    <3>2. flash' \in {None, only}
      BY <3>1 DEF FlashWrite, SoleInv
    <3>3. link'.paired_peer = flash'
      BY <3>1, <3>2, BootRestores
    <3> QED
      BY <3>1, <3>2, <3>3 DEF SoleInv
  <2>5. CASE UNCHANGED vars
    BY <2>5 DEF vars, SoleInv
  <2> QED
    BY <2>1, <2>2, <2>3, <2>4, <2>5 DEF Next
<1>3. SoleInv(only) => NextControlAccepted
  BY DEF SoleInv, NextControlAccepted
<1> QED
  BY <1>1, <1>2, <1>3, VehicleTypes, PTL DEF Spec
=============================================================================
