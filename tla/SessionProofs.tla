--------------------------- MODULE SessionProofs ---------------------------
(***************************************************************************)
(* Proofs about HostSession, for every value of its constants: any frame   *)
(* length, buffer sizes, queue depths, lines, accidents, misreads and      *)
(* number of upsets.  Telemetry reaches the panel of the board it is       *)
(* about, unless a damaged frame was read as a message; every variable     *)
(* keeps its type; and board and program, byte by byte, implement          *)
(* CommandService.                                                         *)
(***************************************************************************)
EXTENDS HostSession, RecursionProofs

\* What the board sends unasked, and what it answers.
Answering == {Pong(Board)} \cup {Error(kind) : kind \in HostError}
Genuine == Offers \cup Answering

\* A set of messages that the board cannot leave: it holds what the loop
\* offers and what the task replies.
Emitted(M) ==
    /\ M \subseteq BoardToHost \cup Reply
    /\ \A c : ReplyTo(c) \in M
    /\ \A burst \in Bursts : burst \in Seq(M)

\* Whatever is on its way to a panel, in whichever queue, is of M; a misread is
\* only where it is known that there may be one.
MessageInv(M) ==
    /\ events \in Seq(M)
    /\ out \in M \cup {None}
    /\ to_host \in Seq(M \cup {Fragment})
    /\ rx_msg \in Seq(M \cup Misreads)
    /\ ~misled => rx_msg \in Seq(M)
    /\ misled \in BOOLEAN
    /\ usb_pc = "write" => out # None

\* What may stand in a field of a board's panel, and on all of it.
Values(k, field) == {None} \cup {apply_telemetry(NoTelemetry, e)[field] : e \in Produced(k)}
Shown(k) == [link : Values(k, "link"), stick : Values(k, "stick"), duty : Values(k, "duty")]

PanelInv ==
    /\ GatewayIsBoard
    /\ ui_pc \in {"drain", "keys"} => gateway # None
    /\ panels = [k \in BoardKind |-> panels[k]]
    /\ \A k \in BoardKind : panels[k] \in Shown(k)
\* The inductive invariant of PanelsOwnBoard.
ShownInv == MessageInv(Genuine) /\ (~misled => PanelInv)

-----------------------------------------------------------------------------
(* Messages.                                                               *)

LEMMA Suffixes ==
    ASSUME NEW S, NEW q \in Seq(S), NEW n \in 0 .. Len(q)
    PROVE  SubSeq(q, n + 1, Len(q)) \in Seq(S)
BY SubSeqProperties

LEMMA Prefixes ==
    ASSUME NEW S, NEW q \in Seq(S), NEW n \in Nat, n <= Len(q)
    PROVE  SubSeq(q, 1, n) \in Seq(S)
BY SubSeqProperties

LEMMA NoneIsNoMessage == ASSUME NEW M, Emitted(M) PROVE None \notin M
BY UsbLinkAssumption DEF Emitted

LEMMA BoardTaskMessages ==
    ASSUME NEW M, Emitted(M), MessageInv(M), UsbStep, UNCHANGED <<rx_msg, misled>>
    PROVE  MessageInv(M)'
<1> USE DEF wires
<1>1. CASE TakeEvent
  <2>1. out' \in M /\ events' \in Seq(M)
    BY <1>1 DEF TakeEvent, MessageInv
  <2>2. out' # None
    BY <2>1, NoneIsNoMessage
  <2> QED
    BY <1>1, <2>1, <2>2 DEF TakeEvent, MessageInv
<1>2. CASE ReadChunk
  BY <1>2 DEF ReadChunk, MessageInv
<1>3. CASE StoreByte
  BY <1>3 DEF StoreByte, Resume, MessageInv
<1>4. CASE EndFrame
  <2>1. PICK c : handle_cmd(c)
    BY <1>4 DEF EndFrame
  <2>2. out' \in M \cup {None}
    BY <2>1 DEF handle_cmd, Forward, Refuse, Emitted, MessageInv
  <2> QED
    BY <1>4, <2>2 DEF EndFrame, Resume, MessageInv
<1>5. CASE WriteOut
  <2>1. out \in M
    BY <1>5 DEF WriteOut, MessageInv
  <2>2. to_host' \in Seq(M \cup {Fragment})
    BY <1>5, <2>1 DEF WriteOut, MessageInv
  <2> QED
    BY <1>5, <2>2 DEF WriteOut, Resume, MessageInv
<1> QED
  BY <1>1, <1>2, <1>3, <1>4, <1>5 DEF UsbStep

\* The loop's events enter the channel as far as there is room.
LEMMA LoopMessages ==
    ASSUME NEW M, Emitted(M), MessageInv(M), LoopTurn, UNCHANGED <<rx_msg, misled>>
    PROVE  MessageInv(M)'
<1>1. PICK burst \in Bursts : events' = Offered(burst)
  BY DEF LoopTurn
<1>2. events \o burst \in Seq(M)
  BY DEF Emitted, MessageInv
<1>3. EventsDepth \in Nat
  BY UsbLinkAssumption
<1>4. Offered(burst) \in Seq(M)
  BY <1>2, <1>3, Prefixes DEF Offered
<1> QED
  BY <1>1, <1>4 DEF LoopTurn, MessageInv, wires

\* A cut message gets to the channel as nothing, or as a misread.
LEMMA ReaderMessages ==
    ASSUME NEW M, Emitted(M), MessageInv(M), ReaderStep, UNCHANGED usbVars
    PROVE  MessageInv(M)'
<1>1. CASE ReaderTakes
  <2> DEFINE m == Head(to_host)
  <2>1. to_host # <<>> /\ to_host' = Tail(to_host)
    BY <1>1 DEF ReaderTakes
  <2>2. /\ m \in M \cup {Fragment}
        /\ to_host' \in Seq(M \cup {Fragment})
    BY <2>1 DEF MessageInv
  <2>3. PICK data \in feed(m) :
            IF data = None \/ Surplus(data) THEN UNCHANGED <<rx_msg, misled>>
            ELSE rx_msg' = Append(rx_msg, data) /\ misled' = (misled \/ torn)
    BY <1>1 DEF ReaderTakes
  <2> HIDE DEF m
  <2>4. CASE UNCHANGED <<rx_msg, misled>>
    BY <2>2, <2>4 DEF MessageInv, usbVars
  <2>5. CASE /\ data # None
             /\ rx_msg' = Append(rx_msg, data) /\ misled' = (misled \/ torn)
    <3>1. data \in M \cup Misreads /\ (~torn => data \in M)
      BY <2>2, <2>5 DEF feed
    <3>2. rx_msg' \in Seq(M \cup Misreads)
      BY <2>5, <3>1 DEF MessageInv
    <3>3. misled' \in BOOLEAN /\ (~misled' => ~misled /\ ~torn)
      BY <2>5 DEF MessageInv
    <3>4. ~misled' => rx_msg' \in Seq(M)
      BY <2>5, <3>1, <3>3 DEF MessageInv
    <3> QED
      BY <2>2, <3>2, <3>3, <3>4 DEF MessageInv, usbVars
  <2> QED
    BY <2>3, <2>4, <2>5
<1>2. CASE ReaderStops
  BY <1>2 DEF ReaderStops, wires, MessageInv, usbVars
<1> QED
  BY <1>1, <1>2 DEF ReaderStep

\* The main thread takes the next message or, when it ends, drops them all.
LEMMA MainTakes ==
    ASSUME UiStep
    PROVE  /\ to_host' = to_host
           /\ \/ /\ misled' = misled
                 /\ rx_msg' = rx_msg \/ (rx_msg # <<>> /\ rx_msg' = Tail(rx_msg))
              \/ rx_msg' = <<>> /\ misled' = FALSE
BY DEF UiStep, DialLost, GiveUp, HearPong, HearOther, SendPing, send_host_msg, Ingest,
       CheckExit, NoCommand, Submit, Quit, KeyTurn, Goto, Exit, Forget, wires

LEMMA MainMessages ==
    ASSUME NEW M, Emitted(M), MessageInv(M), UiStep, UNCHANGED usbVars
    PROVE  MessageInv(M)'
<1>1. CASE /\ misled' = misled
           /\ rx_msg' = rx_msg \/ (rx_msg # <<>> /\ rx_msg' = Tail(rx_msg))
  <2>1. rx_msg' \in Seq(M \cup Misreads)
    BY <1>1 DEF MessageInv
  <2>2. ASSUME ~misled PROVE rx_msg' \in Seq(M)
    <3>1. rx_msg \in Seq(M)
      BY <2>2 DEF MessageInv
    <3> QED
      BY <1>1, <3>1
  <2> QED
    BY <1>1, <2>1, <2>2, MainTakes DEF MessageInv, usbVars
<1>2. CASE rx_msg' = <<>> /\ misled' = FALSE
  BY <1>2, MainTakes, EmptySeq DEF MessageInv, usbVars
<1> QED
  BY <1>1, <1>2, MainTakes

LEMMA WorldMessages ==
    ASSUME NEW M, Emitted(M), MessageInv(M), Restart \/ Upset
    PROVE  MessageInv(M)'
<1>1. CASE Restart
  <2>1. PICK n \in 0 .. Len(to_host) : to_host' = SubSeq(to_host, n + 1, Len(to_host))
    BY <1>1 DEF Restart, Start
  <2>2. to_host' \in Seq(M \cup {Fragment})
    BY <2>1, Suffixes DEF MessageInv
  <2> QED
    BY <1>1, <2>2, EmptySeq DEF Restart, Start, Forget, MessageInv, usbVars
<1>2. CASE BoardReset /\ UNCHANGED hostVars
  <2>1. to_host' \in {to_host, Append(to_host, Fragment)}
    BY <1>2 DEF BoardReset
  <2>2. to_host' \in Seq(M \cup {Fragment})
    <3>1. to_host \in Seq(M \cup {Fragment})
      BY DEF MessageInv
    <3> QED
      BY <2>1, <3>1
  <2> QED
    BY <1>2, <2>2 DEF BoardReset, MessageInv, hostVars
<1>3. CASE ReadFails /\ UNCHANGED hostVars
  BY <1>3 DEF ReadFails, MessageInv, hostVars, wires
<1>4. CASE (Unplug \/ Interrupted) /\ UNCHANGED usbVars
  <2>1. /\ UNCHANGED <<events, out, usb_pc>>
        /\ to_host' = to_host \/ to_host' = <<>>
        /\ \/ UNCHANGED <<rx_msg, misled>>
           \/ rx_msg' = <<>> /\ misled' = FALSE
    BY <1>4 DEF Unplug, Interrupted, Exit, Forget, usbVars
  <2>2. to_host' \in Seq(M \cup {Fragment})
    <3>1. to_host \in Seq(M \cup {Fragment})
      BY DEF MessageInv
    <3> QED
      BY <2>1, <3>1, EmptySeq
  <2>3. CASE UNCHANGED <<rx_msg, misled>>
    BY <2>1, <2>2, <2>3 DEF MessageInv
  <2>4. CASE rx_msg' = <<>> /\ misled' = FALSE
    BY <2>1, <2>2, <2>4, EmptySeq DEF MessageInv
  <2> QED
    BY <2>1, <2>3, <2>4
<1> QED
  BY <1>1, <1>2, <1>3, <1>4 DEF Upset

-----------------------------------------------------------------------------
(* Panels.                                                                 *)

\* What a message may say.
LEMMA TelemetryFields ==
    ASSUME NEW e \in Telemetry
    PROVE  /\ e.ev = "EspNowLinkState" => e.state \in LinkStates
           /\ e.ev \in {"JoystickState", "ReceivedPacket"} => e.y \in Bytes
           /\ e.ev = "MotorState" => e.duty \in I8
           /\ e.ev \notin {"FromPeer", "Pong", "Error"}
BY DEF Telemetry, LedAck, CurrentSense

LEMMA OffersAreEvents == Offers \subseteq BoardToHost
<1> SUFFICES ASSUME NEW m \in Offers PROVE m \in BoardToHost
  OBVIOUS
<1>1. PICK burst \in Bursts : m \in Range(burst)
  BY DEF Offers
<1>2. burst \in Seq(BoardToHost)
  BY UsbLinkAssumption
<1> QED
  BY <1>1, <1>2 DEF Range

LEMMA GenuineEmits == Emitted(Genuine)
<1>1. Genuine \subseteq BoardToHost \cup Reply
  <2>1. Answering \subseteq Reply
    BY UsbLinkAssumption DEF Answering, Pong, Error, Reply
  <2> QED
    BY <2>1, OffersAreEvents DEF Genuine
<1>2. \A c : ReplyTo(c) \in Genuine
  BY DEF ReplyTo, Genuine, Answering, HostError
<1>3. ASSUME NEW burst \in Bursts PROVE burst \in Seq(Genuine)
  <2>1. burst \in Seq(BoardToHost)
    BY UsbLinkAssumption
  <2>2. \A i \in 1 .. Len(burst) : burst[i] \in Genuine
    <3> TAKE i \in 1 .. Len(burst)
    <3>1. burst[i] \in Range(burst)
      BY <2>1 DEF Range
    <3> QED
      BY <3>1 DEF Offers, Genuine
  <2> QED
    BY <2>1, <2>2
<1> QED
  BY <1>1, <1>2, <1>3 DEF Emitted

\* A genuine message names the board on the port, or the board it is about.
LEMMA GenuineFacts ==
    ASSUME NEW m \in Genuine
    PROVE  /\ m.ev = "Pong" => m.board = Board
           /\ m.ev \notin {"Pong", "Error"} /\ gateway = Board =>
                  Producer(m) \in BoardKind /\ Telemetered(m) \in Produced(Producer(m))
<1>1. CASE m \in Answering
  BY <1>1 DEF Answering, Pong, Error
<1>2. CASE m \in Offers
  <2>1. m \in BoardToHost
    BY <1>2, OffersAreEvents
  <2>2. m.ev # "Pong"
    BY <2>1, TelemetryFields DEF BoardToHost
  <2>3. CASE m.ev = "FromPeer"
    <3>1. m.source \in BoardKind
      BY <2>1, <2>3, TelemetryFields DEF BoardToHost
    <3>2. m \in Relayed(m.source)
      BY <1>2, <2>3 DEF Relayed
    <3>3. Telemetered(m) \in Produced(m.source)
      BY <3>2 DEF Produced
    <3> QED
      BY <2>2, <2>3, <3>1, <3>3 DEF Producer
  <2>4. CASE m.ev # "FromPeer" /\ gateway = Board
    <3>1. m \in Direct(Board)
      BY <1>2, <2>4 DEF Direct
    <3>2. Telemetered(m) \in Produced(Board)
      BY <3>1 DEF Produced
    <3> QED
      BY <2>2, <2>4, <3>2, UsbLinkAssumption DEF Producer
  <2> QED
    BY <2>2, <2>3, <2>4
<1> QED
  BY <1>1, <1>2 DEF Genuine

LEMMA ApplyShows ==
    ASSUME NEW k, NEW b \in Shown(k), NEW e \in Produced(k)
    PROVE  apply_telemetry(b, e) \in Shown(k)
<1> DEFINE s == apply_telemetry(NoTelemetry, e)
<1>1. /\ s.link \in Values(k, "link") /\ s.stick \in Values(k, "stick")
      /\ s.duty \in Values(k, "duty")
  <2> HIDE DEF s
  <2>1. \A field : s[field] \in Values(k, field)
    BY DEF Values, s
  <2> QED
    BY <2>1
<1>2. CASE e.ev = "EspNowLinkState"
  BY <1>1, <1>2 DEF apply_telemetry, Shown, NoTelemetry
<1>3. CASE e.ev \in {"JoystickState", "ReceivedPacket"}
  BY <1>1, <1>3 DEF apply_telemetry, Shown, NoTelemetry
<1>4. CASE e.ev = "MotorState"
  BY <1>1, <1>4 DEF apply_telemetry, Shown, NoTelemetry
<1>5. CASE e.ev \notin {"EspNowLinkState", "JoystickState", "ReceivedPacket", "MotorState"}
  BY <1>5 DEF apply_telemetry
<1> QED
  BY <1>2, <1>3, <1>4, <1>5

LEMMA FreshPanels ==
    LET fresh == [k \in BoardKind |-> NoTelemetry]
    IN  /\ fresh = [k \in BoardKind |-> fresh[k]]
        /\ \A k \in BoardKind : fresh[k] \in Shown(k)
<1>1. \A k : NoTelemetry \in Shown(k)
  BY DEF NoTelemetry, Shown, Values
<1> QED
  BY <1>1

LEMMA ForgetShows == Forget => PanelInv' \/ ui_pc' \in {"drain", "keys"}
BY FreshPanels DEF Forget, PanelInv, GatewayIsBoard

LEMMA IngestShows ==
    ASSUME MessageInv(Genuine), PanelInv, ~misled, Ingest
    PROVE  PanelInv'
<1> DEFINE m == Head(rx_msg)
<1>1. m \in Genuine /\ gateway = Board /\ ui_pc' = "drain" /\ Board # None
  BY PitwallAssumption, UsbLinkAssumption DEF Ingest, MessageInv, PanelInv, GatewayIsBoard, Goto
<1>2. CASE m.ev \in {"Pong", "Error"}
  <2>1. panels' = panels /\ (gateway' = gateway \/ (m.ev = "Pong" /\ gateway' = m.board))
    BY <1>2 DEF Ingest
  <2>2. gateway' = Board
    BY <1>1, <2>1, GenuineFacts
  <2> QED
    BY <1>1, <2>1, <2>2 DEF PanelInv, GatewayIsBoard
<1>3. CASE m.ev \notin {"Pong", "Error"}
  <2> DEFINE k == Producer(m)
             e == Telemetered(m)
  <2>1. /\ panels' = [panels EXCEPT ![k] = apply_telemetry(panels[k], e)]
        /\ gateway' = gateway
    BY <1>3 DEF Ingest
  <2>2. k \in BoardKind /\ e \in Produced(k)
    BY <1>1, <1>3, GenuineFacts
  <2> HIDE DEF k, e
  <2>3. panels[k] \in Shown(k)
    BY <2>2 DEF PanelInv
  <2>4. apply_telemetry(panels[k], e) \in Shown(k)
    BY <2>2, <2>3, ApplyShows
  <2>5. panels' = [j \in BoardKind |-> panels'[j]]
    BY <2>1 DEF PanelInv
  <2>6. \A j \in BoardKind : panels'[j] \in Shown(j)
    <3> TAKE j \in BoardKind
    <3>1. CASE j = k
      BY <2>1, <2>2, <2>4, <3>1 DEF PanelInv
    <3>2. CASE j # k
      <4>1. panels'[j] = panels[j]
        BY <2>1, <3>2 DEF PanelInv
      <4> QED
        BY <4>1 DEF PanelInv
    <3> QED
      BY <3>1, <3>2
  <2> QED
    BY <1>1, <2>1, <2>5, <2>6 DEF PanelInv, GatewayIsBoard
<1> QED
  BY <1>2, <1>3

LEMMA MainShows ==
    ASSUME ShownInv, UiStep, ~misled'
    PROVE  PanelInv'
<1>1. CASE Exit
  BY <1>1, ForgetShows DEF Exit
<1>2. CASE ~Exit
  <2>1. UNCHANGED misled
    BY <1>2 DEF UiStep, DialLost, GiveUp, HearPong, HearOther, SendPing, send_host_msg, Ingest,
                CheckExit, NoCommand, Submit, Quit, KeyTurn, Goto
  <2>2. PanelInv /\ MessageInv(Genuine) /\ ~misled
    BY <2>1 DEF ShownInv
  <2>3. CASE Ingest
    BY <2>2, <2>3, IngestShows
  <2>4. CASE HearPong
    <3>1. Head(rx_msg) \in Genuine /\ Head(rx_msg).ev = "Pong"
      BY <2>2, <2>4 DEF HearPong, MessageInv
    <3>2. gateway' = Board /\ panels' = panels
      BY <2>4, <3>1, GenuineFacts DEF HearPong
    <3>3. Board # None
      BY PitwallAssumption, UsbLinkAssumption
    <3> QED
      BY <2>2, <3>2, <3>3 DEF PanelInv, GatewayIsBoard
  <2>5. CASE send_host_msg
    BY <1>2, <2>2, <2>5 DEF send_host_msg, Goto, appVars, PanelInv, GatewayIsBoard
  <2>6. CASE HearOther \/ SendPing \/ CheckExit \/ NoCommand \/ Submit
    <3>1. UNCHANGED <<gateway, panels>>
      BY <2>6 DEF HearOther, SendPing, CheckExit, NoCommand, Submit, KeyTurn, appVars
    <3>2. ui_pc' \in {"drain", "keys"} => ui_pc \in {"drain", "keys"}
      BY <2>6 DEF HearOther, SendPing, CheckExit, NoCommand, Submit, KeyTurn, Goto
    <3> QED
      BY <2>2, <3>1, <3>2 DEF PanelInv, GatewayIsBoard
  <2> QED
    BY <1>2, <2>3, <2>4, <2>5, <2>6 DEF UiStep, DialLost, GiveUp, Quit
<1> QED
  BY <1>1, <1>2

LEMMA OtherStepsShow ==
    ASSUME ShownInv, ~misled',
           BoardTask \/ BoardLoop \/ HostReader \/ Restart \/ Upset
    PROVE  PanelInv'
<1>1. CASE Restart
  BY <1>1, ForgetShows DEF Restart, Start
<1>2. CASE Upset /\ Interrupted
  BY <1>2, ForgetShows DEF Interrupted, Exit
<1>3. CASE BoardTask \/ BoardLoop \/ HostReader \/ (Upset /\ ~Interrupted)
  <2>1. UNCHANGED <<ui_pc, gateway, panels>>
    BY <1>3 DEF BoardTask, BoardLoop, HostReader, ReaderStep, ReaderTakes, ReaderStops,
                Upset, Unplug, hostVars, appVars
  <2>2. ~misled
    <3>1. CASE ReaderTakes
      <4>1. misled' = misled \/ misled' = (misled \/ torn)
        BY <3>1 DEF ReaderTakes
      <4> QED
        BY <4>1
    <3>2. CASE ~ReaderTakes
      <4>1. misled' = misled
        BY <1>3, <3>2 DEF BoardTask, BoardLoop, HostReader, ReaderStep, ReaderStops, Upset,
                          Unplug, hostVars
      <4> QED
        BY <4>1
    <3> QED
      BY <3>1, <3>2
  <2> QED
    BY <2>1, <2>2 DEF ShownInv, PanelInv, GatewayIsBoard
<1> QED
  BY <1>1, <1>2, <1>3

-----------------------------------------------------------------------------
(* The theorem.                                                            *)

\* Whatever the board offers about itself and its peer, and whatever befalls
\* the line: as long as no damaged frame was taken for a message, pitwall knows
\* the right gateway, or none, and every field of a panel shows what the board
\* of that panel produced.
THEOREM PanelsOwnBoardHolds == Spec => []PanelsOwnBoard
<1>1. Init => ShownInv
  <2> SUFFICES ASSUME Init PROVE ShownInv
    OBVIOUS
  <2>1. MessageInv(Genuine)
    BY EmptySeq DEF Init, UsbInit, HostInit, MessageInv
  <2> QED
    BY <2>1, FreshPanels DEF Init, HostInit, ShownInv, PanelInv, GatewayIsBoard
<1>2. ShownInv /\ [Next]_vars => ShownInv'
  <2> SUFFICES ASSUME ShownInv, [Next]_vars PROVE ShownInv'
    OBVIOUS
  <2>1. MessageInv(Genuine) /\ Emitted(Genuine)
    BY GenuineEmits DEF ShownInv
  <2>2. CASE BoardTask
    BY <2>1, <2>2, BoardTaskMessages, OtherStepsShow DEF BoardTask, hostVars, ShownInv
  <2>3. CASE BoardLoop
    BY <2>1, <2>3, LoopMessages, OtherStepsShow DEF BoardLoop, hostVars, ShownInv
  <2>4. CASE HostReader
    BY <2>1, <2>4, ReaderMessages, OtherStepsShow DEF HostReader, ShownInv
  <2>5. CASE HostMain
    BY <2>1, <2>5, MainMessages, MainShows DEF HostMain, ShownInv
  <2>6. CASE Restart \/ Upset
    BY <2>1, <2>6, WorldMessages, OtherStepsShow DEF ShownInv
  <2>7. CASE UNCHANGED vars
    BY <2>7 DEF vars, usbVars, hostVars, appVars, wires, ShownInv, MessageInv, PanelInv,
                GatewayIsBoard
  <2> QED
    BY <2>2, <2>3, <2>4, <2>5, <2>6, <2>7 DEF Next
<1>3. ShownInv => PanelsOwnBoard
  <2> SUFFICES ASSUME PanelInv, NEW k \in BoardKind,
                      NEW field \in {"link", "stick", "duty"}
               PROVE  IsAbout(k, field)
    BY DEF ShownInv, PanelInv, PanelsOwnBoard
  <2>1. panels[k][field] \in Values(k, field)
    BY DEF PanelInv, Shown
  <2> QED
    BY <2>1 DEF Values, IsAbout
<1> QED
  BY <1>1, <1>2, <1>3, PTL DEF Spec
-----------------------------------------------------------------------------
(* Types.                                                                  *)

\* What the board's messages say of the board: a Pong names it.
Own == {m \in BoardToHost \cup Reply : m.ev = "Pong" => m.board = Board}

\* Every byte on its way is of a command that pitwall sends.
Sent == [msg : Sendable, at : 1 .. FrameBytes]

TaskInv ==
    /\ usb_pc \in {"select", "bytes", "write"}
    /\ (usb_pc = "write") <=> (out # None)
    /\ usb_pc = "bytes" <=> chunk # <<>> /\ out = None
    /\ chunk \in Seq(Sent)
    /\ rx_frame \in Seq(Sent) /\ Len(rx_frame) <= MaxFrame
    /\ \A i \in 1 .. Len(rx_frame) : ~IsTerminator(rx_frame[i])
    /\ events \in Seq(BoardToHost) /\ Len(events) <= EventsDepth
    /\ cmds \in Seq(Forwarded) /\ Len(cmds) <= CmdsDepth
LineInv ==
    /\ from_host \in Seq(Sent) /\ Len(from_host) <= WireBytes
    /\ Len(to_host) <= WireMsgs
    /\ ui_pc = "send" => sending \in Sendable
DialInv ==
    /\ gateway \in BoardKind \cup {None}
    /\ ui_pc \in {"drain", "keys"} => gateway # None

\* The inductive invariant of TypeOK.
SessionInv == MessageInv(Own) /\ TaskInv /\ LineInv /\ DialInv

\* What a line parses to is a command.
LEMMA ParsedLines ==
    ASSUME NEW l \in Lines
    PROVE  parse_command(l) \in HostToBoard \cup {None}
<1>1. ASSUME NEW p \in PlainLine
      PROVE  parse_plain(p) \in HostToBoard \cup {None}
  <2>1. CASE p \in [word : {"motor_pwm"}, arg : Int]
    <3>1. p.arg \in Int /\ p.word = "motor_pwm"
      BY <2>1
    <3>2. CASE p.arg \in I8
      <4>1. Clamp100(p.arg) \in I8
        BY <3>1 DEF Clamp100, I8
      <4>2. SetMotorPwm(Clamp100(p.arg)) \in HostToBoard
        BY <4>1 DEF SetMotorPwm, HostToBoard
      <4> QED
        BY <3>1, <3>2, <4>2 DEF parse_plain
    <3>3. CASE p.arg \notin I8
      BY <3>1, <3>3 DEF parse_plain
    <3> QED
      BY <3>2, <3>3
  <2>2. CASE p \in [word : {"motor_en", "remote_tele", "led", "ping", "repair"},
                    arg : HostToBoard]
    <3>1. p.arg \in HostToBoard /\ p.word \in {"motor_en", "remote_tele", "led", "ping", "repair"}
      BY <2>2
    <3> QED
      BY <3>1 DEF parse_plain
  <2> QED
    BY <2>1, <2>2 DEF PlainLine
<1>2. CASE l \in PlainLine
  <2>1. l.word # "peer"
    BY <1>2 DEF PlainLine
  <2> QED
    BY <1>1, <1>2, <2>1 DEF parse_command
<1>3. CASE /\ l.word = "peer" /\ l.arg \in PlainLine
           /\ parse_plain(l.arg) \in Option(Payloads)
  <2>1. \A p \in Payloads : ForPeer(p) \in HostToBoard
    BY DEF ForPeer, HostToBoard
  <2> QED
    BY <1>3, <2>1 DEF parse_command, Option
<1> QED
  BY <1>2, <1>3, LinesAssumption

LEMMA SendableCommands == Sendable \subseteq HostToBoard /\ Ping \in Sendable
BY ParsedLines DEF Sendable, HostToBoard

LEMMA SentBytes == Sent \subseteq Byte
BY SendableCommands DEF Sent, Byte

\* An encoded command: its bytes, and the only terminator among them.
LEMMA EncodedCommand ==
    ASSUME NEW c \in Sendable
    PROVE  /\ encode_host(c) \in Seq(Sent)
           /\ Len(encode_host(c)) = FrameBytes
           /\ \A i \in 1 .. FrameBytes :
                  encode_host(c)[i] = [msg |-> c, at |-> i]
                  /\ (IsTerminator(encode_host(c)[i]) <=> i = FrameBytes)
<1>1. FrameBytes \in Nat
  BY WireAssumption
<1>2. \A i \in 1 .. FrameBytes : [msg |-> c, at |-> i] \in Sent
  BY DEF Sent
<1>3. encode_host(c) \in Seq(Sent) /\ Len(encode_host(c)) = FrameBytes
  BY <1>1, <1>2 DEF encode_host
<1> QED
  BY <1>3 DEF encode_host, IsTerminator

LEMMA TelemetryIsOwn == BoardToHost \subseteq Own /\ \A m \in BoardToHost : m \notin Reply
BY TelemetryFields DEF Own, BoardToHost, Reply

LEMMA OwnEmits == Emitted(Own)
<1>1. \A c : ReplyTo(c) \in Own
  <2>1. Pong(Board) \in Own
    BY UsbLinkAssumption DEF Own, Pong, Reply
  <2>2. \A k \in HostError : Error(k) \in Own
    BY DEF Own, Error, Reply
  <2> QED
    BY <2>1, <2>2 DEF ReplyTo, HostError
<1>2. \A burst \in Bursts : burst \in Seq(Own)
  <2> TAKE burst \in Bursts
  <2>1. burst \in Seq(BoardToHost)
    BY UsbLinkAssumption
  <2> QED
    BY <2>1, TelemetryIsOwn, SeqMonotonic
<1> QED
  BY <1>1, <1>2 DEF Emitted, Own

LEMMA SessionTypes == SessionInv => TypeOK
<1> SUFFICES ASSUME SessionInv PROVE TypeOK
  OBVIOUS
<1> USE DEF SessionInv
<1>1. from_host \in Seq(Byte) /\ rx_frame \in Seq(Byte)
  BY SentBytes, SeqMonotonic DEF LineInv, TaskInv
<1>2. to_host \in Seq(Telemetry \cup BoardToHost \cup Reply \cup {Fragment})
  <2>1. Own \cup {Fragment} \subseteq Telemetry \cup BoardToHost \cup Reply \cup {Fragment}
    BY DEF Own
  <2> QED
    BY <2>1, SeqMonotonic DEF MessageInv
<1>3. rx_msg \in Seq(BoardToHost \cup Reply \cup Misreads)
  <2>1. Own \cup Misreads \subseteq BoardToHost \cup Reply \cup Misreads
    BY DEF Own
  <2> QED
    BY <2>1, SeqMonotonic DEF MessageInv
<1>4. DOMAIN rx_frame = 1 .. Len(rx_frame)
  BY LenProperties DEF TaskInv
<1> QED
  BY <1>1, <1>2, <1>3, <1>4 DEF TypeOK, TaskInv, LineInv, DialInv

LEMMA StartTypes == Init => SessionInv
<1> SUFFICES ASSUME Init PROVE SessionInv
  OBVIOUS
<1> USE DEF Init, UsbInit, HostInit
<1>1. MessageInv(Own)
  BY EmptySeq DEF MessageInv
<1>2. TaskInv
  BY UsbLinkAssumption DEF TaskInv
<1>3. LineInv /\ DialInv
  BY WireAssumption DEF LineInv, DialInv
<1> QED
  BY <1>1, <1>2, <1>3 DEF SessionInv

LEMMA ResumeTypes ==
    ASSUME NEW rest
    PROVE  Resume(rest) \in {"select", "bytes"} /\ (Resume(rest) = "bytes" <=> rest # <<>>)
BY DEF Resume

LEMMA StoredTypes ==
    ASSUME TaskInv, NEW b \in Sent
    PROVE  /\ Stored(b) \in Seq(Sent) /\ Len(Stored(b)) <= MaxFrame
           /\ ~IsTerminator(b) =>
                  \A i \in 1 .. Len(Stored(b)) : ~IsTerminator(Stored(b)[i])
<1>1. rx_frame \in Seq(Sent) /\ Len(rx_frame) \in Nat /\ MaxFrame \in Nat
  BY UsbLinkAssumption DEF TaskInv
<1>2. CASE Len(rx_frame) < MaxFrame
  <2>1. Stored(b) = Append(rx_frame, b)
    BY <1>2 DEF Stored
  <2>2. /\ Append(rx_frame, b) \in Seq(Sent)
        /\ Len(Append(rx_frame, b)) = Len(rx_frame) + 1
        /\ \A i \in 1 .. Len(rx_frame) : Append(rx_frame, b)[i] = rx_frame[i]
        /\ Append(rx_frame, b)[Len(rx_frame) + 1] = b
    BY <1>1, AppendProperties
  <2>3. \A i \in 1 .. Len(rx_frame) : ~IsTerminator(rx_frame[i])
    BY DEF TaskInv
  <2>4. ~IsTerminator(b) => \A i \in 1 .. Len(rx_frame) + 1 : ~IsTerminator(Append(rx_frame, b)[i])
    BY <1>1, <2>2, <2>3
  <2> QED
    BY <1>1, <1>2, <2>1, <2>2, <2>4
<1>3. CASE ~(Len(rx_frame) < MaxFrame)
  <2>1. Stored(b) = <<>>
    BY <1>3 DEF Stored
  <2>2. <<>> \in Seq(Sent) /\ Len(<<>>) = 0
    BY EmptySeq
  <2> QED
    BY <1>1, <2>1, <2>2
<1> QED
  BY <1>2, <1>3

LEMMA NoBytesLeft ==
    ASSUME NEW S, NEW q \in Seq(S), q # <<>>
    PROVE  Head(q) \in S /\ Tail(q) \in Seq(S)
BY HeadTailProperties

LEMMA TaskTypes ==
    ASSUME SessionInv, UsbStep
    PROVE  /\ TaskInv'
           /\ from_host' \in Seq(Sent) /\ Len(from_host') <= WireBytes
           /\ Len(to_host') <= WireMsgs
<1> USE DEF wires
<1>0. /\ TaskInv /\ from_host \in Seq(Sent) /\ Len(from_host) <= WireBytes
      /\ Len(to_host) <= WireMsgs
      /\ WireBytes \in Nat /\ WireMsgs \in Nat
  BY WireAssumption DEF SessionInv, LineInv
<1>1. CASE TakeEvent
  <2>1. events # <<>> /\ events' = Tail(events) /\ out' = Head(events) /\ usb_pc = "select"
    BY <1>1 DEF TakeEvent
  <2>2. /\ Head(events) \in BoardToHost /\ Tail(events) \in Seq(BoardToHost)
        /\ Len(Tail(events)) = Len(events) - 1 /\ Len(events) \in Nat
    BY <1>0, <2>1, HeadTailProperties, LenProperties DEF TaskInv
  <2>3. out' # None
    BY <2>1, <2>2, UsbLinkAssumption
  <2>4. Len(events') <= EventsDepth
    BY <1>0, <2>1, <2>2, UsbLinkAssumption DEF TaskInv
  <2> QED
    BY <1>0, <1>1, <2>1, <2>2, <2>3, <2>4 DEF TakeEvent, TaskInv
<1>2. CASE ReadChunk
  <2>1. PICK n \in 1 .. ChunkBytes :
            /\ n <= Len(from_host)
            /\ chunk' = SubSeq(from_host, 1, n)
            /\ from_host' = SubSeq(from_host, n + 1, Len(from_host))
    BY <1>2 DEF ReadChunk
  <2>2. n \in 1 .. Len(from_host) /\ Len(from_host) \in Nat
    BY <1>0, <2>1, UsbLinkAssumption
  <2>3. chunk' \in Seq(Sent) /\ Len(chunk') = n
    BY <1>0, <2>1, <2>2, SubSeqProperties, ElementOfSeq
  <2>4. from_host' \in Seq(Sent) /\ Len(from_host') <= Len(from_host)
    BY <1>0, <2>1, <2>2, SubSeqProperties, ElementOfSeq
  <2>5. chunk' # <<>>
    BY <2>2, <2>3
  <2>6. usb_pc = "select" /\ usb_pc' = "bytes" /\ out' = out
    BY <1>2 DEF ReadChunk
  <2>7. TaskInv'
    BY <1>0, <1>2, <2>3, <2>5, <2>6 DEF ReadChunk, TaskInv
  <2>8. Len(from_host') \in Nat
    BY <2>4
  <2> QED
    BY <1>0, <1>2, <2>2, <2>4, <2>7, <2>8 DEF ReadChunk
<1>3. CASE StoreByte
  <2>1. chunk # <<>> /\ out = None
    BY <1>0, <1>3 DEF StoreByte, TaskInv
  <2>2. Head(chunk) \in Sent /\ Tail(chunk) \in Seq(Sent)
    BY <1>0, <2>1, NoBytesLeft DEF TaskInv
  <2>3. /\ rx_frame' = Stored(Head(chunk)) /\ chunk' = Tail(chunk)
        /\ usb_pc' = Resume(chunk') /\ ~EndsFrame(Head(chunk))
    BY <1>3 DEF StoreByte
  <2>4. IsTerminator(Head(chunk)) => rx_frame' = <<>>
    BY <2>3 DEF EndsFrame
  <2>5. \A i \in 1 .. Len(rx_frame') : ~IsTerminator(rx_frame'[i])
    <3>1. CASE IsTerminator(Head(chunk))
      <4>1. Len(rx_frame') = 0
        BY <2>4, <3>1, EmptySeq
      <4> QED
        BY <4>1
    <3>2. CASE ~IsTerminator(Head(chunk))
      BY <1>0, <2>2, <2>3, <3>2, StoredTypes
    <3> QED
      BY <3>1, <3>2
  <2>6. rx_frame' \in Seq(Sent) /\ Len(rx_frame') <= MaxFrame
    BY <1>0, <2>2, <2>3, StoredTypes
  <2>7. UNCHANGED <<out, events, cmds, from_host, to_host>>
    BY <1>3 DEF StoreByte
  <2>8. /\ usb_pc' \in {"select", "bytes"} /\ (usb_pc' = "bytes" <=> chunk' # <<>>)
    BY <2>3, ResumeTypes
  <2> QED
    BY <1>0, <2>1, <2>2, <2>3, <2>5, <2>6, <2>7, <2>8 DEF TaskInv
<1>4. CASE EndFrame
  <2>1. chunk # <<>> /\ out = None
    BY <1>0, <1>4 DEF EndFrame, TaskInv
  <2>2. Tail(chunk) \in Seq(Sent)
    BY <1>0, <2>1, NoBytesLeft DEF TaskInv
  <2>3. PICK c : handle_cmd(c)
    BY <1>4 DEF EndFrame
  <2>4. cmds' \in Seq(Forwarded) /\ Len(cmds') <= CmdsDepth
    <3>1. CASE Forward(c)
      <4>1. cmds' = Append(cmds, c) /\ c \in Forwarded /\ Len(cmds) < CmdsDepth
        BY <3>1 DEF Forward
      <4>2. cmds' \in Seq(Forwarded) /\ Len(cmds') = Len(cmds) + 1 /\ Len(cmds) \in Nat
        BY <1>0, <4>1, AppendProperties, LenProperties DEF TaskInv
      <4> QED
        BY <4>1, <4>2, UsbLinkAssumption
    <3>2. CASE Refuse(c)
      BY <1>0, <3>2 DEF Refuse, TaskInv
    <3> QED
      BY <2>3, <3>1, <3>2 DEF handle_cmd
  <2>5. rx_frame' = <<>> /\ <<>> \in Seq(Sent) /\ Len(<<>>) = 0 /\ MaxFrame >= 0
    BY <1>4, EmptySeq, UsbLinkAssumption DEF EndFrame, NextFrame
  <2>6. chunk' = Tail(chunk) /\ usb_pc' = IF out' = None THEN Resume(chunk') ELSE "write"
    BY <1>4 DEF EndFrame
  <2>7. /\ usb_pc' \in {"select", "bytes", "write"}
        /\ (usb_pc' = "write") <=> (out' # None)
        /\ usb_pc' = "bytes" <=> chunk' # <<>> /\ out' = None
    <3>1. CASE out' = None
      BY <2>6, <3>1, ResumeTypes
    <3>2. CASE out' # None
      BY <2>6, <3>2
    <3> QED
      BY <3>1, <3>2
  <2>8. UNCHANGED <<events, from_host, to_host>>
    BY <1>4 DEF EndFrame
  <2>9. \A i \in 1 .. Len(rx_frame') : ~IsTerminator(rx_frame'[i])
    BY <2>5
  <2>10. chunk' \in Seq(Sent)
    BY <2>2, <2>6
  <2> QED
    BY <1>0, <2>4, <2>5, <2>7, <2>8, <2>9, <2>10 DEF TaskInv
<1>5. CASE WriteOut
  <2>1. usb_pc' = Resume(chunk) /\ out' = None /\ chunk' = chunk
    BY <1>5 DEF WriteOut
  <2>2. usb_pc' \in {"select", "bytes"} /\ (usb_pc' = "bytes" <=> chunk' # <<>>)
    BY <2>1, ResumeTypes
  <2>3. TaskInv'
    BY <1>0, <1>5, <2>1, <2>2 DEF WriteOut, TaskInv
  <2>4. Len(to_host') = Len(to_host) + 1 /\ Len(to_host) \in Nat
    <3>1. to_host \in Seq(Own \cup {Fragment}) /\ out \in Own
      BY <1>5 DEF WriteOut, SessionInv, MessageInv
    <3>2. to_host' = Append(to_host, out)
      BY <1>5 DEF WriteOut
    <3> QED
      BY <3>1, <3>2, AppendProperties, LenProperties
  <2> QED
    BY <1>0, <1>5, <2>3, <2>4 DEF WriteOut
<1> QED
  BY <1>1, <1>2, <1>3, <1>4, <1>5 DEF UsbStep

LEMMA LoopTypes ==
    ASSUME TaskInv, LoopTurn
    PROVE  TaskInv'
<1>1. PICK burst \in Bursts : events' = Offered(burst)
  BY DEF LoopTurn
<1>2. events \o burst \in Seq(BoardToHost) /\ EventsDepth \in Nat
  BY UsbLinkAssumption, ConcatProperties DEF TaskInv
<1> DEFINE all == events \o burst
<1>3. CASE Len(all) > EventsDepth
  <2>1. SubSeq(all, 1, EventsDepth) \in Seq(BoardToHost) /\ Len(SubSeq(all, 1, EventsDepth)) = EventsDepth
    BY <1>2, <1>3, UsbLinkAssumption, SubSeqProperties, ElementOfSeq
  <2>2. events' = SubSeq(all, 1, EventsDepth)
    BY <1>1, <1>3 DEF Offered
  <2> HIDE DEF all
  <2>3. events' \in Seq(BoardToHost) /\ Len(events') <= EventsDepth
    BY <1>2, <2>1, <2>2
  <2> QED
    BY <2>3, EmptySeq, UsbLinkAssumption DEF LoopTurn, TaskInv
<1>4. CASE ~(Len(all) > EventsDepth)
  <2>1. events' = all
    BY <1>1, <1>4 DEF Offered
  <2>2. Len(all) \in Nat
    BY <1>2, LenProperties
  <2> HIDE DEF all
  <2>3. events' \in Seq(BoardToHost) /\ Len(events') <= EventsDepth
    BY <1>2, <1>4, <2>1, <2>2 DEF all
  <2> QED
    BY <2>3, EmptySeq, UsbLinkAssumption DEF LoopTurn, TaskInv
<1> QED
  BY <1>3, <1>4

\* Only the reader takes from the line to the host, and only sending adds to
\* the other.
LEMMA ReaderTypes ==
    ASSUME SessionInv, ReaderStep
    PROVE  LineInv' /\ DialInv'
<1>0. /\ to_host \in Seq(Own \cup {Fragment}) /\ Len(to_host) <= WireMsgs
      /\ WireMsgs \in Nat
  BY WireAssumption DEF SessionInv, MessageInv, LineInv
<1>1. UNCHANGED <<from_host, ui_pc, sending, gateway>>
  BY DEF ReaderStep, ReaderTakes, ReaderStops, appVars, wires
<1>2. CASE ReaderTakes
  <2>1. to_host # <<>> /\ to_host' = Tail(to_host)
    BY <1>2 DEF ReaderTakes
  <2>2. Len(to_host') = Len(to_host) - 1 /\ Len(to_host) \in Nat
    BY <1>0, <2>1, HeadTailProperties, LenProperties
  <2>3. Len(to_host') <= WireMsgs
    BY <1>0, <2>2
  <2> QED
    BY <1>1, <2>3 DEF SessionInv, LineInv, DialInv
<1>3. CASE ReaderStops
  BY <1>1, <1>3 DEF ReaderStops, wires, SessionInv, LineInv, DialInv
<1> QED
  BY <1>2, <1>3 DEF ReaderStep

LEMMA DecodedPong == \A m \in Misreads : m.ev = "Pong" => m.board \in BoardKind
<1>1. ASSUME NEW m \in Decodable, m.ev = "Pong" PROVE m.board \in BoardKind
  <2>1. \A e \in AnyTelemetry : e.ev # "Pong"
    BY TelemetryFields DEF AnyTelemetry, Opaque
  <2> QED
    BY <1>1, <2>1 DEF Decodable
<1> QED
  BY <1>1, PitwallAssumption

LEMMA MainTypes ==
    ASSUME SessionInv, UiStep
    PROVE  LineInv' /\ DialInv'
<1> USE DEF SessionInv
<1>0. rx_msg \in Seq(Own \cup Misreads)
  BY DEF MessageInv
<1>1. CASE send_host_msg
  <2>1. sending \in Sendable /\ from_host \in Seq(Sent) /\ to_host' = to_host /\ ui_pc = "send"
    BY <1>1 DEF send_host_msg, LineInv
  <2>2. CASE /\ HasRoom /\ gateway' = gateway
             /\ from_host' = from_host \o encode_host(sending)
             /\ ui_pc' = IF gateway = None THEN "dial" ELSE "drain"
    <3>1. encode_host(sending) \in Seq(Sent) /\ Len(encode_host(sending)) = FrameBytes
      BY <2>1, EncodedCommand
    <3>2. from_host' \in Seq(Sent) /\ Len(from_host') = Len(from_host) + FrameBytes
      BY <2>1, <2>2, <3>1, ConcatProperties
    <3> QED
      BY <2>1, <2>2, <3>2 DEF HasRoom, LineInv, DialInv
  <2>3. CASE ui_pc' = "ended" /\ from_host' = from_host /\ gateway' = None
    BY <2>1, <2>3 DEF LineInv, DialInv
  <2> QED
    BY <1>1, <2>2, <2>3 DEF send_host_msg, Goto, Exit, Forget, appVars
<1>2. CASE SendPing
  <2>1. ui_pc' = "send" /\ sending' = Ping /\ UNCHANGED <<gateway, from_host, to_host>>
    BY <1>2 DEF SendPing, Goto, wires, appVars
  <2> QED
    BY <2>1, SendableCommands DEF LineInv, DialInv
<1>3. CASE Submit
  <2>1. /\ ui_pc' = "send" /\ sending' \in Sendable
        /\ UNCHANGED <<gateway, from_host, to_host>>
    BY <1>3 DEF Submit, KeyTurn, Goto, wires, Sendable
  <2> QED
    BY <2>1 DEF LineInv, DialInv
<1>4. CASE HearPong \/ Ingest
  <2>1. /\ rx_msg # <<>> /\ ui_pc' = "drain" /\ UNCHANGED <<from_host, to_host>>
        /\ (gateway' = gateway \/ (Head(rx_msg).ev = "Pong" /\ gateway' = Head(rx_msg).board))
    BY <1>4 DEF HearPong, Ingest, Goto, wires
  <2>2. Head(rx_msg).ev = "Pong" => Head(rx_msg).board \in BoardKind
    <3>1. Head(rx_msg) \in Own \cup Misreads
      BY <1>0, <2>1, NoBytesLeft
    <3> QED
      BY <3>1, DecodedPong, UsbLinkAssumption DEF Own
  <2>3. gateway' \in BoardKind
    <3>1. CASE HearPong
      BY <2>2, <3>1 DEF HearPong
    <3>2. CASE Ingest
      BY <2>1, <2>2, <3>2 DEF Ingest, DialInv
    <3> QED
      BY <1>4, <3>1, <3>2
  <2>4. gateway' # None
    BY <2>3, PitwallAssumption
  <2> QED
    BY <2>1, <2>3, <2>4 DEF LineInv, DialInv
<1>5. CASE HearOther \/ CheckExit \/ NoCommand
  <2>1. UNCHANGED <<gateway, from_host, to_host>>
    BY <1>5 DEF HearOther, CheckExit, NoCommand, KeyTurn, appVars, wires
  <2>2. /\ ui_pc' # "send"
        /\ ui_pc' \in {"drain", "keys"} => ui_pc \in {"drain", "keys"}
    BY <1>5 DEF HearOther, CheckExit, NoCommand, KeyTurn, Goto
  <2> QED
    BY <2>1, <2>2 DEF LineInv, DialInv
<1>6. CASE DialLost \/ GiveUp \/ Quit
  BY <1>6 DEF DialLost, GiveUp, Quit, Exit, Forget, wires, LineInv, DialInv
<1> QED
  BY <1>1, <1>2, <1>3, <1>4, <1>5, <1>6 DEF UiStep

\* What is left of the line to the board is a suffix of it.
LEMMA SuffixLength ==
    ASSUME NEW S, NEW q \in Seq(S), NEW n \in 0 .. Len(q)
    PROVE  Len(SubSeq(q, n + 1, Len(q))) = Len(q) - n
<1>1. \A i \in n + 1 .. Len(q) : q[i] \in S
  BY ElementOfSeq
<1> QED
  BY <1>1, SubSeqProperties

LEMMA RestartTypes ==
    ASSUME SessionInv, Start
    PROVE  LineInv' /\ DialInv'
<1>1. to_host \in Seq(Own \cup {Fragment}) /\ Len(to_host) <= WireMsgs /\ WireMsgs \in Nat
  BY WireAssumption DEF SessionInv, MessageInv, LineInv
<1>2. PICK n \in 0 .. Len(to_host) : to_host' = SubSeq(to_host, n + 1, Len(to_host))
  BY DEF Start
<1>3. Len(to_host') = Len(to_host) - n /\ Len(to_host) \in Nat
  BY <1>1, <1>2, SuffixLength
<1>4. Len(to_host') <= WireMsgs
  BY <1>1, <1>3
<1> QED
  BY <1>4 DEF Start, Forget, SessionInv, LineInv, DialInv

LEMMA UpsetTypes ==
    ASSUME SessionInv, Upset
    PROVE  TaskInv' /\ LineInv' /\ DialInv'
<1> USE DEF SessionInv
<1>0. from_host \in Seq(Sent) /\ to_host \in Seq(Own \cup {Fragment})
  BY DEF LineInv, MessageInv
<1>1. CASE BoardReset /\ UNCHANGED hostVars
  <2>1. TaskInv'
    BY <1>1, EmptySeq, UsbLinkAssumption DEF BoardReset, TaskInv
  <2>2. PICK n \in 0 .. Len(from_host) : from_host' = SubSeq(from_host, n + 1, Len(from_host))
    BY <1>1 DEF BoardReset
  <2>3. /\ from_host' \in Seq(Sent) /\ Len(from_host') = Len(from_host) - n
        /\ Len(from_host) \in Nat
    BY <1>0, <2>2, Suffixes, SuffixLength
  <2>4. Len(from_host') <= WireBytes
    BY <2>3, WireAssumption DEF LineInv
  <2>5. to_host' = to_host \/ (Len(to_host) < WireMsgs /\ to_host' = Append(to_host, Fragment))
    BY <1>1 DEF BoardReset
  <2>6. Len(to_host') <= WireMsgs
    <3>1. CASE to_host' = to_host
      BY <3>1 DEF LineInv
    <3>2. CASE Len(to_host) < WireMsgs /\ to_host' = Append(to_host, Fragment)
      <4>1. Len(to_host') = Len(to_host) + 1 /\ Len(to_host) \in Nat
        BY <1>0, <3>2, AppendProperties, LenProperties
      <4> QED
        BY <3>2, <4>1, WireAssumption
    <3> QED
      BY <2>5, <3>1, <3>2
  <2> QED
    BY <1>1, <2>1, <2>3, <2>4, <2>6 DEF hostVars, appVars, LineInv, DialInv
<1>2. CASE ReadFails /\ UNCHANGED hostVars
  <2>1. TaskInv'
    BY <1>2, EmptySeq, UsbLinkAssumption DEF ReadFails, TaskInv
  <2> QED
    BY <1>2, <2>1 DEF ReadFails, hostVars, appVars, wires, LineInv, DialInv
<1>3. CASE Unplug /\ UNCHANGED usbVars
  BY <1>3, EmptySeq, WireAssumption DEF Unplug, usbVars, appVars, TaskInv, LineInv, DialInv
<1>4. CASE Interrupted /\ UNCHANGED usbVars
  <2>1. PICK n \in 0 .. FrameBytes - 1 :
            /\ Len(from_host) + n <= WireBytes
            /\ from_host' = from_host \o SubSeq(encode_host(sending), 1, n)
    BY <1>4 DEF Interrupted
  <2>2. encode_host(sending) \in Seq(Sent) /\ Len(encode_host(sending)) = FrameBytes
    BY <1>4, EncodedCommand DEF Interrupted, LineInv
  <2>3. n \in Nat /\ n <= Len(encode_host(sending))
    BY <2>1, <2>2, WireAssumption
  <2>4. /\ SubSeq(encode_host(sending), 1, n) \in Seq(Sent)
        /\ Len(SubSeq(encode_host(sending), 1, n)) = n
    BY <2>2, <2>3, SubSeqProperties, ElementOfSeq
  <2>5. from_host' \in Seq(Sent) /\ Len(from_host') <= WireBytes
    BY <1>0, <2>1, <2>4, ConcatProperties
  <2> QED
    BY <1>4, <2>5 DEF Interrupted, Exit, Forget, usbVars, appVars, TaskInv, LineInv, DialInv
<1> QED
  BY <1>1, <1>2, <1>3, <1>4 DEF Upset

LEMMA SessionStep == SessionInv /\ [Next]_vars => SessionInv'
<1> SUFFICES ASSUME SessionInv, [Next]_vars PROVE SessionInv'
  OBVIOUS
<1>0. Emitted(Own) /\ MessageInv(Own) /\ TaskInv /\ LineInv /\ DialInv
  BY OwnEmits DEF SessionInv
<1>1. CASE BoardTask
  <2>1. MessageInv(Own)'
    BY <1>0, <1>1, BoardTaskMessages DEF BoardTask, hostVars
  <2>2. TaskInv' /\ from_host' \in Seq(Sent) /\ Len(from_host') <= WireBytes /\ Len(to_host') <= WireMsgs
    BY <1>1, TaskTypes DEF BoardTask
  <2> QED
    BY <1>0, <1>1, <2>1, <2>2 DEF BoardTask, hostVars, appVars, LineInv, DialInv, SessionInv
<1>2. CASE BoardLoop
  <2>1. MessageInv(Own)'
    BY <1>0, <1>2, LoopMessages DEF BoardLoop, hostVars
  <2>2. TaskInv'
    BY <1>0, <1>2, LoopTypes DEF BoardLoop
  <2> QED
    BY <1>0, <1>2, <2>1, <2>2 DEF BoardLoop, LoopTurn, wires, hostVars, appVars, LineInv,
                                   DialInv, SessionInv
<1>3. CASE HostReader
  <2>1. MessageInv(Own)'
    BY <1>0, <1>3, ReaderMessages DEF HostReader
  <2> QED
    BY <1>0, <1>3, <2>1, ReaderTypes DEF HostReader, usbVars, TaskInv, SessionInv
<1>4. CASE HostMain
  <2>1. MessageInv(Own)'
    BY <1>0, <1>4, MainMessages DEF HostMain
  <2> QED
    BY <1>0, <1>4, <2>1, MainTypes DEF HostMain, usbVars, TaskInv, SessionInv
<1>5. CASE Restart
  <2>1. MessageInv(Own)'
    BY <1>0, <1>5, WorldMessages
  <2> QED
    BY <1>0, <1>5, <2>1, RestartTypes DEF Restart, usbVars, TaskInv, SessionInv
<1>6. CASE Upset
  <2>1. MessageInv(Own)'
    BY <1>0, <1>6, WorldMessages
  <2> QED
    BY <1>6, <2>1, UpsetTypes DEF SessionInv
<1>7. CASE UNCHANGED vars
  BY <1>0, <1>7 DEF vars, usbVars, hostVars, appVars, wires, MessageInv, TaskInv, LineInv,
                    DialInv, SessionInv
<1> QED
  BY <1>1, <1>2, <1>3, <1>4, <1>5, <1>6, <1>7 DEF Next

\* The reassembly buffer, both channels, both lines and the reader's channel
\* stay in their bounds and hold what belongs in them; the task is in
\* "write" exactly while it has a message to write; the buffer never holds a
\* terminator; and the main loop of pitwall runs only once it has heard of a
\* board.
THEOREM SessionTypeCorrect == Spec => []TypeOK
<1> QED
  BY StartTypes, SessionStep, SessionTypes, PTL DEF Spec

-----------------------------------------------------------------------------
(* What bytes spell.                                                       *)

Judged == HostToBoard \cup {Garbage}
Readable == [done : Seq(Judged), rest : Seq(Byte)]

LEMMA MeaningTypes ==
    ASSUME NEW frame \in Seq(Byte), frame # <<>>
    PROVE  /\ Meaning(frame) \in Judged
           /\ IsWhole(frame) <=> Meaning(frame) # Garbage
<1>1. frame[1] \in Byte
  <2>1. 1 \in 1 .. Len(frame)
    BY EmptySeq
  <2> QED
    BY <2>1, ElementOfSeq
<1>2. frame[1].msg \in HostToBoard
  BY <1>1 DEF Byte
<1> QED
  BY <1>2, WireAssumption DEF Meaning, Judged

LEMMA ReadOnTypes ==
    ASSUME NEW r \in Readable, NEW b \in Byte
    PROVE  ReadOn(r, b) \in Readable
<1>1. r.done \in Seq(Judged) /\ r.rest \in Seq(Byte)
  BY DEF Readable
<1>2. Append(r.rest, b) \in Seq(Byte) /\ Append(r.rest, b) # <<>> /\ <<>> \in Seq(Byte)
  BY <1>1, AppendProperties, EmptySeq
<1>3. Append(r.done, Meaning(Append(r.rest, b))) \in Seq(Judged)
  BY <1>1, <1>2, MeaningTypes, AppendProperties
<1> QED
  BY <1>1, <1>2, <1>3 DEF ReadOn, Readable

\* The equations of Reading.
LEMMA ReadingFolds ==
    /\ \A s \in Seq(Byte) : Reading[s] \in Readable
    /\ Reading[<<>>] = Nothing
    /\ \A s \in Seq(Byte), b \in Byte : Reading[Append(s, b)] = ReadOn(Reading[s], b)
<1> DEFINE step == [x \in Readable \X Byte |-> ReadOn(x[1], x[2])]
           Front(s) == SubSeq(s, 1, Len(s) - 1)
           Equation(f) == f = [s \in Seq(Byte) |->
                                 IF s = <<>> THEN Nothing
                                 ELSE ReadOn(f[Front(s)], s[Len(s)])]
<1>1. Nothing \in Readable
  BY EmptySeq DEF Nothing, Readable
<1>2. step \in [Readable \X Byte -> Readable]
  <2>1. ASSUME NEW x \in Readable \X Byte PROVE ReadOn(x[1], x[2]) \in Readable
    BY ReadOnTypes
  <2> QED
    BY <2>1
<1>3. \A r \in Readable, b \in Byte : step[<<r, b>>] = ReadOn(r, b)
  OBVIOUS
<1> HIDE DEF step
<1>4. \E f : Equation(f)
  <2>1. PICK f \in [Seq(Byte) -> Readable] : Folds(f, Byte, Nothing, step)
    BY <1>1, <1>2, SequenceRecursion
  <2>2. ASSUME NEW s \in Seq(Byte), s # <<>>
        PROVE  f[s] = ReadOn(f[Front(s)], s[Len(s)])
    <3>1. Front(s) \in Seq(Byte) /\ s[Len(s)] \in Byte /\ s = Append(Front(s), s[Len(s)])
      BY <2>2, FrontAndLast
    <3> HIDE DEF Front
    <3>2. f[Append(Front(s), s[Len(s)])] = step[<<f[Front(s)], s[Len(s)]>>]
      BY <2>1, <3>1 DEF Folds
    <3>3. f[Front(s)] \in Readable
      BY <3>1
    <3> QED
      BY <1>3, <3>1, <3>2, <3>3
  <2>3. \A s \in Seq(Byte) : f[s] = IF s = <<>> THEN Nothing ELSE ReadOn(f[Front(s)], s[Len(s)])
    BY <2>1, <2>2 DEF Folds
  <2> HIDE DEF Front
  <2>4. Equation(f)
    BY <2>3
  <2> QED
    BY <2>4
<1>5. Equation(Reading)
  BY <1>4 DEF Reading
<1>6. Reading[<<>>] = Nothing
  BY <1>5, EmptySeq
<1>7. ASSUME NEW s \in Seq(Byte), NEW b \in Byte
      PROVE  Reading[Append(s, b)] = ReadOn(Reading[s], b)
  <2> DEFINE t == Append(s, b)
  <2>1. t # <<>> /\ t \in Seq(Byte) /\ Front(t) = s /\ t[Len(t)] = b
    BY FrontOfAppend
  <2> HIDE DEF t, Front
  <2>2. Reading[t] = ReadOn(Reading[Front(t)], t[Len(t)])
    BY <1>5, <2>1
  <2> QED
    BY <2>1, <2>2 DEF t
<1> HIDE DEF Equation
<1> DEFINE T == {s \in Seq(Byte) : Reading[s] \in Readable}
<1>8. <<>> \in T
  BY <1>1, <1>6, EmptySeq
<1>9. ASSUME NEW s \in T, NEW b \in Byte PROVE Append(s, b) \in T
  <2>1. Append(s, b) \in Seq(Byte) /\ Reading[Append(s, b)] \in Readable
    BY <1>7, ReadOnTypes, AppendProperties
  <2> QED
    BY <2>1
<1>10. Seq(Byte) \subseteq T
  <2> HIDE DEF T
  <2>1. T \in SUBSET Seq(Byte)
    BY DEF T
  <2> QED
    BY <1>8, <1>9, <2>1, SequenceInduction
<1> QED
  BY <1>6, <1>7, <1>10

LEMMA WholeLength ==
    ASSUME NEW frame \in Seq(Byte), frame # <<>>, Meaning(frame) # Garbage
    PROVE  Len(frame) = FrameBytes
<1>1. FrameBytes \in Nat
  BY WireAssumption
<1>2. frame = [i \in 1 .. FrameBytes |-> [msg |-> frame[1].msg, at |-> i]]
  BY MeaningTypes DEF IsWhole, encode_host
<1>3. DOMAIN frame = 1 .. FrameBytes
  BY <1>2
<1> QED
  BY <1>1, <1>3, LenProperties

LEMMA MeaningOfLonger ==
    ASSUME NEW z \in Seq(Byte), NEW g \in Seq(Byte), z # <<>>, g # <<>>
    PROVE  Meaning(g) = Garbage \/ Meaning(z \o g) = Garbage
<1>2. z \o g \in Seq(Byte) /\ Len(z \o g) = Len(z) + Len(g) /\ Len(z) \in Nat \ {0} /\ Len(g) \in Nat
  BY ConcatProperties, EmptySeq
<1>3. z \o g # <<>>
  BY <1>2, EmptySeq
<1> SUFFICES ASSUME Meaning(g) # Garbage, Meaning(z \o g) # Garbage PROVE FALSE
  OBVIOUS
<1>4. Len(g) = FrameBytes /\ Len(z \o g) = FrameBytes
  BY <1>2, <1>3, WholeLength
<1> QED
  BY <1>2, <1>4

\* How what y spells changes when x comes before it: if no command ends in y,
\* y is appended to the rest of x; otherwise the first command that ends in y
\* is read together with that rest, and no other.
Continues(x, y) ==
    LET Rx == Reading[x]
        Ry == Reading[y]
        Rxy == Reading[x \o y]
    IN  \/ /\ Ry.done = <<>> /\ Ry.rest = y
           /\ Rxy.done = Rx.done /\ Rxy.rest = Rx.rest \o y
        \/ /\ Ry.done # <<>> /\ Rxy.rest = Ry.rest
           /\ \E g \in Seq(Byte) \ {<<>>} :
                  /\ Head(Ry.done) = Meaning(g)
                  /\ Rxy.done = Append(Rx.done, Meaning(Rx.rest \o g)) \o Tail(Ry.done)

LEMMA ReadingContinues == \A x, y \in Seq(Byte) : Continues(x, y)
<1> SUFFICES ASSUME NEW x \in Seq(Byte) PROVE \A y \in Seq(Byte) : Continues(x, y)
  OBVIOUS
<1> DEFINE T == {y \in Seq(Byte) : Continues(x, y)}
           xd == Reading[x].done
           xr == Reading[x].rest
<1>0. xd \in Seq(Judged) /\ xr \in Seq(Byte)
  BY ReadingFolds DEF Readable
<1>1. <<>> \in T
  <2> HIDE DEF xr
  <2>1. x \o <<>> = x /\ xr \o <<>> = xr /\ <<>> \in Seq(Byte)
    BY <1>0, ConcatEmptySeq, EmptySeq
  <2>2. Reading[<<>>].done = <<>> /\ Reading[<<>>].rest = <<>>
    BY ReadingFolds DEF Nothing
  <2>3. Reading[x \o <<>>].done = Reading[x].done
        /\ Reading[x \o <<>>].rest = Reading[x].rest \o <<>>
    BY <2>1 DEF xr
  <2>4. Continues(x, <<>>)
    BY <2>2, <2>3 DEF Continues
  <2> QED
    BY <2>1, <2>4
<1> HIDE DEF xd, xr
<1>2. ASSUME NEW y \in T, NEW b \in Byte PROVE Append(y, b) \in T
  <2> DEFINE yd == Reading[y].done
             yr == Reading[y].rest
             ad == Reading[x \o y].done
             ar == Reading[x \o y].rest
             yb == Append(y, b)
  <2>1. /\ y \in Seq(Byte) /\ x \o y \in Seq(Byte) /\ yb \in Seq(Byte) /\ yb # <<>>
        /\ x \o yb = Append(x \o y, b)
    BY ConcatProperties, AppendProperties, ConcatAppend
  <2>2. Continues(x, y)
    OBVIOUS
  <2>3. /\ yd \in Seq(Judged) /\ yr \in Seq(Byte)
        /\ ad \in Seq(Judged) /\ ar \in Seq(Byte)
    BY <2>1, ReadingFolds DEF Readable
  <2>4. /\ Reading[yb] = ReadOn(Reading[y], b)
        /\ Reading[x \o yb] = ReadOn(Reading[x \o y], b)
    BY <2>1, ReadingFolds
  <2>5. \/ /\ yd = <<>> /\ yr = y /\ ad = xd /\ ar = xr \o y
        \/ /\ yd # <<>> /\ ar = yr
           /\ \E g \in Seq(Byte) \ {<<>>} :
                  /\ Head(yd) = Meaning(g)
                  /\ ad = Append(xd, Meaning(xr \o g)) \o Tail(yd)
    BY <2>2 DEF Continues, xd, xr
  <2>6. IsTerminator(b) =>
            /\ Reading[yb].done = Append(yd, Meaning(Append(yr, b)))
            /\ Reading[yb].rest = <<>>
            /\ Reading[x \o yb].done = Append(ad, Meaning(Append(ar, b)))
            /\ Reading[x \o yb].rest = <<>>
    BY <2>4 DEF ReadOn
  <2>7. ~IsTerminator(b) =>
            /\ Reading[yb].done = yd /\ Reading[yb].rest = Append(yr, b)
            /\ Reading[x \o yb].done = ad /\ Reading[x \o yb].rest = Append(ar, b)
    BY <2>4 DEF ReadOn
  <2> SUFFICES Continues(x, yb)
    BY <2>1
  <2> HIDE DEF yd, yr, ad, ar
  <2>8. CASE yd = <<>>
    <3>1. yr = y /\ ad = xd /\ ar = xr \o y
      BY <2>5, <2>8
    <3>2. xr \o yb = Append(xr \o y, b)
      BY <1>0, <2>1, ConcatAppend
    <3>3. CASE IsTerminator(b)
      <4> DEFINE m == Meaning(yb)
                 n == Meaning(xr \o yb)
                 e == Append(xd, n)
      <4>1. m \in Judged
        BY <2>1, MeaningTypes
      <4>2. xr \o yb \in Seq(Byte) /\ xr \o yb # <<>>
        BY <1>0, <2>1, ConcatProperties, ConcatEqualIffEmpty
      <4>3. e \in Seq(Judged)
        BY <1>0, <4>2, MeaningTypes, AppendProperties
      <4> HIDE DEF m
      <4>4. /\ Head(Append(<<>>, m)) = m /\ Tail(Append(<<>>, m)) = <<>>
            /\ Append(<<>>, m) # <<>>
        BY <4>1, EmptySeq, HeadTailAppend, AppendProperties
      <4>5. e \o <<>> = e
        <5> HIDE DEF e
        <5> QED
          BY <4>3, ConcatEmptySeq
      <4>6. /\ Reading[yb].done = Append(<<>>, m) /\ Reading[yb].rest = <<>>
            /\ Reading[x \o yb].done = e /\ Reading[x \o yb].rest = <<>>
        BY <2>6, <2>8, <3>1, <3>2, <3>3 DEF m
      <4> HIDE DEF yb
      <4> QED
        BY <2>1, <4>4, <4>5, <4>6 DEF Continues, m, xd, xr
    <3>4. CASE ~IsTerminator(b)
      <4>1. /\ Reading[yb].done = <<>> /\ Reading[yb].rest = yb
            /\ Reading[x \o yb].done = xd /\ Reading[x \o yb].rest = xr \o yb
        BY <2>7, <2>8, <3>1, <3>2, <3>4
      <4> HIDE DEF yb
      <4> QED
        BY <4>1 DEF Continues, xd, xr
    <3> QED
      BY <3>3, <3>4
  <2>9. CASE yd # <<>>
    <3>1. PICK g \in Seq(Byte) \ {<<>>} :
              /\ Head(yd) = Meaning(g)
              /\ ad = Append(xd, Meaning(xr \o g)) \o Tail(yd)
      BY <2>5, <2>9
    <3>2. ar = yr
      BY <2>5, <2>9
    <3>3. CASE IsTerminator(b)
      <4> DEFINE m == Meaning(Append(yr, b))
                 e == Append(xd, Meaning(xr \o g))
                 t == Tail(yd)
      <4>1. m \in Judged
        <5>1. Append(yr, b) \in Seq(Byte) /\ Append(yr, b) # <<>>
          BY <2>3, AppendProperties
        <5> QED
          BY <5>1, MeaningTypes
      <4>2. e \in Seq(Judged)
        <5>1. xr \o g \in Seq(Byte) /\ xr \o g # <<>>
          BY <1>0, ConcatProperties, ConcatEqualIffEmpty
        <5> QED
          BY <1>0, <5>1, MeaningTypes, AppendProperties
      <4>3. t \in Seq(Judged)
        BY <2>3, <2>9, HeadTailProperties
      <4> HIDE DEF m, e
      <4>4. /\ Head(Append(yd, m)) = Head(yd)
            /\ Tail(Append(yd, m)) = Append(t, m)
            /\ Append(yd, m) # <<>>
        BY <2>3, <2>9, <4>1, HeadTailAppend, AppendProperties
      <4> HIDE DEF t
      <4>5. e \o Append(t, m) = Append(e \o t, m)
        BY <4>1, <4>2, <4>3, ConcatAppend
      <4>6. /\ Reading[yb].done = Append(yd, m) /\ Reading[yb].rest = <<>>
            /\ Reading[x \o yb].done = Append(e \o t, m) /\ Reading[x \o yb].rest = <<>>
        BY <2>6, <3>1, <3>2, <3>3 DEF m, e, t
      <4> HIDE DEF yb
      <4> QED
        BY <3>1, <4>4, <4>5, <4>6 DEF Continues, xd, xr, e
    <3>4. CASE ~IsTerminator(b)
      <4>1. /\ Reading[yb].done = yd /\ Reading[yb].rest = Append(yr, b)
            /\ Reading[x \o yb].done = ad /\ Reading[x \o yb].rest = Append(yr, b)
        BY <2>7, <3>2, <3>4
      <4> HIDE DEF yb
      <4> QED
        BY <2>9, <3>1, <4>1 DEF Continues, xd, xr
    <3> QED
      BY <3>3, <3>4
  <2> QED
    BY <2>8, <2>9
<1>3. Seq(Byte) \subseteq T
  <2> HIDE DEF T
  <2>1. T \in SUBSET Seq(Byte)
    BY DEF T
  <2> QED
    BY <1>1, <1>2, <2>1, SequenceInduction
<1> QED
  BY <1>3

\* The equations of Answers, and that it distributes over concatenation.
LEMMA HeardTypes ==
    ASSUME NEW r \in Seq(Reply), NEW m \in Message
    PROVE  Heard(r, m) \in Seq(Reply)
BY AppendProperties DEF Heard

LEMMA AnswersFold ==
    /\ \A s \in Seq(Message) : Answers[s] \in Seq(Reply)
    /\ Answers[<<>>] = <<>>
    /\ \A s \in Seq(Message), m \in Message : Answers[Append(s, m)] = Heard(Answers[s], m)
<1> DEFINE step == [x \in Seq(Reply) \X Message |-> Heard(x[1], x[2])]
           Front(s) == SubSeq(s, 1, Len(s) - 1)
           Equation(f) == f = [s \in Seq(Message) |->
                                 IF s = <<>> THEN <<>>
                                 ELSE Heard(f[Front(s)], s[Len(s)])]
<1>1. <<>> \in Seq(Reply)
  BY EmptySeq
<1>2. step \in [Seq(Reply) \X Message -> Seq(Reply)]
  <2>1. ASSUME NEW x \in Seq(Reply) \X Message PROVE Heard(x[1], x[2]) \in Seq(Reply)
    BY HeardTypes
  <2> QED
    BY <2>1
<1>3. \A r \in Seq(Reply), m \in Message : step[<<r, m>>] = Heard(r, m)
  OBVIOUS
<1> HIDE DEF step
<1>4. \E f : Equation(f)
  <2>1. PICK f \in [Seq(Message) -> Seq(Reply)] : Folds(f, Message, <<>>, step)
    BY <1>1, <1>2, SequenceRecursion
  <2>2. ASSUME NEW s \in Seq(Message), s # <<>>
        PROVE  f[s] = Heard(f[Front(s)], s[Len(s)])
    <3>1. Front(s) \in Seq(Message) /\ s[Len(s)] \in Message /\ s = Append(Front(s), s[Len(s)])
      BY <2>2, FrontAndLast
    <3> HIDE DEF Front
    <3>2. f[Append(Front(s), s[Len(s)])] = step[<<f[Front(s)], s[Len(s)]>>]
      BY <2>1, <3>1 DEF Folds
    <3>3. f[Front(s)] \in Seq(Reply)
      BY <3>1
    <3> QED
      BY <1>3, <3>1, <3>2, <3>3
  <2>3. \A s \in Seq(Message) : f[s] = IF s = <<>> THEN <<>> ELSE Heard(f[Front(s)], s[Len(s)])
    BY <2>1, <2>2 DEF Folds
  <2> HIDE DEF Front
  <2>4. Equation(f)
    BY <2>3
  <2> QED
    BY <2>4
<1>5. Equation(Answers)
  BY <1>4 DEF Answers
<1>6. Answers[<<>>] = <<>>
  BY <1>5, EmptySeq
<1>7. ASSUME NEW s \in Seq(Message), NEW m \in Message
      PROVE  Answers[Append(s, m)] = Heard(Answers[s], m)
  <2> DEFINE t == Append(s, m)
  <2>1. t # <<>> /\ t \in Seq(Message) /\ Front(t) = s /\ t[Len(t)] = m
    BY FrontOfAppend
  <2> HIDE DEF t, Front
  <2>2. Answers[t] = Heard(Answers[Front(t)], t[Len(t)])
    BY <1>5, <2>1
  <2> QED
    BY <2>1, <2>2 DEF t
<1> HIDE DEF Equation
<1> DEFINE T == {s \in Seq(Message) : Answers[s] \in Seq(Reply)}
<1>8. <<>> \in T
  BY <1>1, <1>6, EmptySeq
<1>9. ASSUME NEW s \in T, NEW m \in Message PROVE Append(s, m) \in T
  <2>1. Append(s, m) \in Seq(Message) /\ Answers[Append(s, m)] \in Seq(Reply)
    BY <1>7, HeardTypes, AppendProperties
  <2> QED
    BY <2>1
<1>10. Seq(Message) \subseteq T
  <2> HIDE DEF T
  <2>1. T \in SUBSET Seq(Message)
    BY DEF T
  <2> QED
    BY <1>8, <1>9, <2>1, SequenceInduction
<1> QED
  BY <1>6, <1>7, <1>10

LEMMA AnswersConcat ==
    \A s, t \in Seq(Message) : Answers[s \o t] = Answers[s] \o Answers[t]
<1> SUFFICES ASSUME NEW s \in Seq(Message)
             PROVE  \A t \in Seq(Message) : Answers[s \o t] = Answers[s] \o Answers[t]
  OBVIOUS
<1> DEFINE T == {t \in Seq(Message) : Answers[s \o t] = Answers[s] \o Answers[t]}
<1>1. <<>> \in T
  BY AnswersFold, ConcatEmptySeq, EmptySeq
<1>2. ASSUME NEW t \in T, NEW m \in Message PROVE Append(t, m) \in T
  <2>1. t \in Seq(Message) /\ Append(t, m) \in Seq(Message) /\ s \o t \in Seq(Message)
    BY AppendProperties, ConcatProperties
  <2>2. s \o Append(t, m) = Append(s \o t, m)
    BY <2>1, ConcatAppend
  <2>3. Answers[s \o Append(t, m)] = Heard(Answers[s \o t], m)
    BY <2>1, <2>2, AnswersFold
  <2>4. Answers[Append(t, m)] = Heard(Answers[t], m)
    BY <2>1, AnswersFold
  <2>5. Heard(Answers[s] \o Answers[t], m) = Answers[s] \o Heard(Answers[t], m)
    <3> DEFINE p == Answers[s]
               q == Answers[t]
    <3>1. p \in Seq(Reply) /\ q \in Seq(Reply)
      BY <2>1, AnswersFold
    <3> HIDE DEF p, q
    <3>2. m \in Reply => p \o Append(q, m) = Append(p \o q, m)
      BY <3>1, ConcatAppend
    <3>3. Heard(p \o q, m) = p \o Heard(q, m)
      BY <3>2 DEF Heard
    <3> QED
      BY <3>3 DEF p, q
  <2>6. Answers[s \o t] = Answers[s] \o Answers[t]
    OBVIOUS
  <2> QED
    BY <2>1, <2>3, <2>4, <2>5, <2>6
<1>3. Seq(Message) \subseteq T
  <2> HIDE DEF T
  <2>1. T \in SUBSET Seq(Message)
    BY DEF T
  <2> QED
    BY <1>1, <1>2, <2>1, SequenceInduction
<1> QED
  BY <1>3

\* A run of bytes without an end.
LEMMA NoEnd ==
    \A y \in Seq(Byte) :
        (\A i \in 1 .. Len(y) : ~IsTerminator(y[i]))
            => Reading[y].done = <<>> /\ Reading[y].rest = y
<1> DEFINE Endless(y) == \A i \in 1 .. Len(y) : ~IsTerminator(y[i])
           T == {y \in Seq(Byte) : Endless(y) => Reading[y].done = <<>> /\ Reading[y].rest = y}
<1>1. <<>> \in T
  BY ReadingFolds, EmptySeq DEF Nothing
<1>2. ASSUME NEW y \in T, NEW b \in Byte PROVE Append(y, b) \in T
  <2> DEFINE yb == Append(y, b)
  <2>1. /\ y \in Seq(Byte) /\ yb \in Seq(Byte) /\ Len(yb) = Len(y) + 1 /\ Len(y) \in Nat
        /\ (\A i \in 1 .. Len(y) : yb[i] = y[i]) /\ yb[Len(y) + 1] = b
    BY AppendProperties, LenProperties
  <2>2. Reading[yb] = ReadOn(Reading[y], b)
    BY <2>1, ReadingFolds
  <2> HIDE DEF yb
  <2> SUFFICES ASSUME Endless(yb) PROVE Reading[yb].done = <<>> /\ Reading[yb].rest = yb
    BY <2>1 DEF yb
  <2>3. ~IsTerminator(b) /\ Endless(y)
    <3>1. Len(y) + 1 \in 1 .. Len(yb) /\ \A i \in 1 .. Len(y) : i \in 1 .. Len(yb)
      BY <2>1
    <3> QED
      BY <2>1, <3>1
  <2>4. Reading[y].done = <<>> /\ Reading[y].rest = y
    BY <2>3
  <2> QED
    BY <2>2, <2>3, <2>4 DEF ReadOn, yb
<1>3. Seq(Byte) \subseteq T
  <2> HIDE DEF T
  <2>1. T \in SUBSET Seq(Byte)
    BY DEF T
  <2> QED
    BY <1>1, <1>2, <2>1, SequenceInduction
<1> QED
  BY <1>3

\* Only commands that pitwall sends are spelled.
LEMMA SpelledTypes ==
    \A s \in Seq(Sent) : Reading[s].done \in Seq(Sendable \cup {Garbage})
<1> DEFINE G == Sendable \cup {Garbage}
           T == {s \in Seq(Sent) : Reading[s].done \in Seq(G) /\ Reading[s].rest \in Seq(Sent)}
<1>1. <<>> \in T
  <2>1. Reading[<<>>].done = <<>> /\ Reading[<<>>].rest = <<>>
    BY ReadingFolds DEF Nothing
  <2>2. <<>> \in Seq(G) /\ <<>> \in Seq(Sent)
    BY EmptySeq
  <2> HIDE DEF G
  <2> QED
    BY <2>1, <2>2
<1>2. ASSUME NEW s \in T, NEW b \in Sent PROVE Append(s, b) \in T
  <2> DEFINE d == Reading[s].done
             r == Reading[s].rest
             f == Append(r, b)
  <2>1. s \in Seq(Sent) /\ s \in Seq(Byte) /\ b \in Byte /\ Append(s, b) \in Seq(Sent)
    BY SentBytes, SeqMonotonic, AppendProperties
  <2>2. Reading[Append(s, b)] = ReadOn(Reading[s], b)
    BY <2>1, ReadingFolds
  <2>3. d \in Seq(G) /\ r \in Seq(Sent)
    OBVIOUS
  <2> HIDE DEF d, r
  <2>4. f \in Seq(Sent) /\ 1 \in 1 .. Len(f)
    BY <2>3, AppendProperties, LenProperties
  <2>5. Meaning(f) \in G
    <3>1. f[1] \in Sent
      BY <2>4, ElementOfSeq
    <3>2. f[1].msg \in Sendable
      BY <3>1 DEF Sent
    <3> QED
      BY <3>2 DEF Meaning
  <2> HIDE DEF f
  <2>6. Append(d, Meaning(f)) \in Seq(G) /\ <<>> \in Seq(Sent)
    BY <2>3, <2>5, AppendProperties, EmptySeq
  <2>7. \/ /\ Reading[Append(s, b)].done = Append(d, Meaning(f))
           /\ Reading[Append(s, b)].rest = <<>>
        \/ /\ Reading[Append(s, b)].done = d
           /\ Reading[Append(s, b)].rest = f
    BY <2>2 DEF ReadOn, d, r, f
  <2> HIDE DEF G
  <2> QED
    BY <2>1, <2>3, <2>4, <2>6, <2>7
<1>3. Seq(Sent) \subseteq T
  <2> HIDE DEF T
  <2>1. T \in SUBSET Seq(Sent)
    BY DEF T
  <2> QED
    BY <1>1, <1>2, <2>1, SequenceInduction
<1> QED
  BY <1>3

\* What follows a complete frame is spelled as if nothing came before it.
LEMMA ReadingAfterEnd ==
    ASSUME NEW x \in Seq(Byte), NEW y \in Seq(Byte), Reading[x].rest = <<>>
    PROVE  /\ Reading[x \o y].done = Reading[x].done \o Reading[y].done
           /\ Reading[x \o y].rest = Reading[y].rest
<1> DEFINE xd == Reading[x].done
           yd == Reading[y].done
<1>1. xd \in Seq(Judged) /\ yd \in Seq(Judged)
  BY ReadingFolds DEF Readable
<1>2. Continues(x, y)
  BY ReadingContinues
<1>3. CASE yd = <<>>
  <2>1. Reading[x \o y].done = xd /\ Reading[x \o y].rest = <<>> \o y /\ Reading[y].rest = y
    BY <1>2, <1>3 DEF Continues
  <2>2. <<>> \o y = y
    BY ConcatEmptySeq
  <2> HIDE DEF xd
  <2>3. xd \o <<>> = xd
    BY <1>1, ConcatEmptySeq
  <2> QED
    BY <1>3, <2>1, <2>2, <2>3 DEF xd
<1>4. CASE yd # <<>>
  <2>1. PICK g \in Seq(Byte) \ {<<>>} :
            /\ Head(yd) = Meaning(g)
            /\ Reading[x \o y].done = Append(xd, Meaning(<<>> \o g)) \o Tail(yd)
    BY <1>2, <1>4 DEF Continues
  <2>2. <<>> \o g = g
    BY ConcatEmptySeq
  <2>3. Reading[x \o y].rest = Reading[y].rest
    BY <1>2, <1>4 DEF Continues
  <2> HIDE DEF xd, yd
  <2>4. Append(xd, Head(yd)) \o Tail(yd) = xd \o yd
    BY <1>1, <1>4, AppendConcat
  <2> QED
    BY <2>1, <2>2, <2>3, <2>4 DEF xd, yd
<1> QED
  BY <1>3, <1>4

LEMMA ReadingOfFrame ==
    ASSUME NEW f \in Seq(Byte), NEW b \in Byte, IsTerminator(b),
           \A i \in 1 .. Len(f) : ~IsTerminator(f[i])
    PROVE  /\ Reading[Append(f, b)].done = <<Meaning(Append(f, b))>>
           /\ Reading[Append(f, b)].rest = <<>>
<1>1. Reading[f].done = <<>> /\ Reading[f].rest = f
  BY NoEnd
<1>2. Reading[Append(f, b)] = ReadOn(Reading[f], b)
  BY ReadingFolds
<1>3. Reading[Append(f, b)].done = Append(<<>>, Meaning(Append(f, b)))
      /\ Reading[Append(f, b)].rest = <<>>
  BY <1>1, <1>2 DEF ReadOn
<1>4. Meaning(Append(f, b)) \in Judged
  BY MeaningTypes, AppendProperties
<1> QED
  BY <1>3, <1>4

LEMMA ReadingOfCommand ==
    ASSUME NEW c \in Sendable
    PROVE  Reading[encode_host(c)].done = <<c>> /\ Reading[encode_host(c)].rest = <<>>
<1> DEFINE e == encode_host(c)
           f == SubSeq(e, 1, Len(e) - 1)
           b == e[Len(e)]
<1>1. /\ e \in Seq(Sent) /\ Len(e) = FrameBytes
      /\ \A i \in 1 .. FrameBytes :
             e[i] = [msg |-> c, at |-> i] /\ (IsTerminator(e[i]) <=> i = FrameBytes)
  BY EncodedCommand
<1>2. e \in Seq(Byte) /\ FrameBytes \in Nat \ {0, 1}
  BY <1>1, SentBytes, SeqMonotonic, WireAssumption
<1>3. e # <<>>
  BY <1>1, <1>2, EmptySeq
<1> HIDE DEF e
<1>4. f \in Seq(Byte) /\ b \in Byte /\ e = Append(f, b)
  BY <1>2, <1>3, FrontAndLast
<1>5. Len(f) = FrameBytes - 1 /\ \A i \in 1 .. Len(f) : f[i] = e[i]
  <2>1. Len(e) - 1 \in Nat /\ \A i \in 1 .. Len(e) - 1 : e[i] \in Byte
    BY <1>1, <1>2, ElementOfSeq
  <2> QED
    BY <1>1, <1>2, <2>1, SubSeqProperties
<1>6. IsTerminator(b) /\ \A i \in 1 .. Len(f) : ~IsTerminator(f[i])
  <2>1. IsTerminator(b)
    BY <1>1, <1>2
  <2> HIDE DEF f, b
  <2>2. ASSUME NEW i \in 1 .. Len(f) PROVE ~IsTerminator(f[i])
    <3>1. i \in 1 .. FrameBytes /\ i # FrameBytes /\ f[i] = e[i]
      BY <1>2, <1>5
    <3> QED
      BY <1>1, <3>1
  <2> QED
    BY <2>1, <2>2
<1> HIDE DEF f, b
<1>7. Reading[e].done = <<Meaning(e)>> /\ Reading[e].rest = <<>>
  BY <1>4, <1>6, ReadingOfFrame
<1>8. Meaning(e) = c
  <2>1. e[1].msg = c
    BY <1>1, <1>2
  <2> QED
    BY <2>1 DEF Meaning, IsWhole, e
<1> QED
  BY <1>7, <1>8 DEF e

-----------------------------------------------------------------------------
(* The abstract service under the mapping.                                 *)

Unanswered == Answers[Append(to_host, out)]
serviceVars == <<Spelled, Unended, cmds, Unanswered, upsets>>

LEMMA PartsRemain ==
    ASSUME NEW S, NEW s \in Seq(S), NEW t \in Seq(S)
    PROVE  s \in Service!Remains(s \o t) /\ t \in Service!Remains(s \o t)
<1> DEFINE c == s \o t
<1>1. /\ Len(c) = Len(s) + Len(t) /\ Len(s) \in Nat /\ Len(t) \in Nat
      /\ SubSeq(c, 1, Len(s)) = s /\ SubSeq(c, Len(s) + 1, Len(c)) = t
  BY ConcatProperties, ConcatParts, LenProperties
<1> HIDE DEF c
<1>2. /\ 1 \in 1 .. Len(c) + 1 /\ Len(s) \in 0 .. Len(c)
      /\ Len(s) + 1 \in 1 .. Len(c) + 1 /\ Len(c) \in 0 .. Len(c)
  BY <1>1
<1>3. \A i \in 1 .. Len(c) + 1, j \in 0 .. Len(c) : SubSeq(c, i, j) \in Service!Remains(c)
  BY DEF Service!Remains
<1>4. s \in Service!Remains(c) /\ t \in Service!Remains(c)
  BY <1>1, <1>2, <1>3
<1> QED
  BY <1>4 DEF c

LEMMA AllRemains ==
    ASSUME NEW S, NEW s \in Seq(S)
    PROVE  s \in Service!Remains(s)
<1>1. s \o <<>> = s /\ <<>> \in Seq(S)
  BY ConcatEmptySeq, EmptySeq
<1> QED
  BY <1>1, PartsRemain

LEMMA RereadCases ==
    ASSUME NEW S, NEW s \in S
    PROVE  /\ s \in Service!HeadReread(S)
           /\ s # <<>> => <<Garbage>> \o Tail(s) \in Service!HeadReread(S)
           /\ s # <<>> /\ Head(s) = Garbage =>
                  \A c \in Sendable : <<c>> \o Tail(s) \in Service!HeadReread(S)
<1>1. s \in Service!HeadReread(S)
  BY DEF Service!HeadReread
<1>2. s # <<>> => <<Garbage>> \o Tail(s) \in Service!HeadReread(S)
  BY DEF Service!HeadReread
<1>3. ASSUME s # <<>>, Head(s) = Garbage, NEW c \in Sendable
      PROVE  <<c>> \o Tail(s) \in Service!HeadReread(S)
  <2>1. s \in {t \in S \ {<<>>} : Head(t) = Garbage} /\ c \in Sendable \cup Accidents
    BY <1>3
  <2> QED
    BY <2>1 DEF Service!HeadReread
<1> QED
  BY <1>1, <1>2, <1>3

\* What is still spelled when the bytes before y are gone.
LEMMA SuffixReread ==
    ASSUME NEW x \in Seq(Sent), NEW y \in Seq(Sent)
    PROVE  Reading[y].done
               \in Service!HeadReread(Service!Remains(Reading[x \o y].done))
<1> DEFINE p == Reading[x \o y].done
           q == Reading[y].done
           xd == Reading[x].done
           xr == Reading[x].rest
           C == Sendable \cup Accidents
<1>1. x \in Seq(Byte) /\ y \in Seq(Byte) /\ x \o y \in Seq(Byte)
  BY SentBytes, SeqMonotonic, ConcatProperties
<1>2. /\ p \in Seq(Judged) /\ q \in Seq(Judged) /\ xd \in Seq(Judged) /\ xr \in Seq(Byte)
      /\ q \in Seq(Sendable \cup {Garbage})
  BY <1>1, ReadingFolds, SpelledTypes DEF Readable
<1>3. Continues(x, y)
  BY <1>1, ReadingContinues
<1>4. CASE q = <<>>
  <2>1. <<>> \o p = p /\ <<>> \in Seq(Judged)
    BY <1>2, ConcatEmptySeq, EmptySeq
  <2>2. <<>> \in Service!Remains(p)
    <3> HIDE DEF p
    <3>1. <<>> \in Service!Remains(<<>> \o p)
      BY <1>2, <2>1, PartsRemain
    <3> QED
      BY <2>1, <3>1
  <2> QED
    BY <1>4, <2>2 DEF Service!HeadReread
<1>5. CASE q # <<>>
  <2>1. PICK g \in Seq(Byte) \ {<<>>} :
            /\ Head(q) = Meaning(g)
            /\ p = Append(xd, Meaning(xr \o g)) \o Tail(q)
    BY <1>3, <1>5 DEF Continues
  <2> DEFINE n == Meaning(xr \o g)
             u == <<n>> \o Tail(q)
  <2>2. xr \o g \in Seq(Byte) /\ xr \o g # <<>>
    <3> HIDE DEF xr
    <3> QED
      BY <1>2, ConcatProperties, ConcatEqualIffEmpty
  <2>3. n \in Judged /\ Head(q) \in Sendable \cup {Garbage} /\ Tail(q) \in Seq(Judged)
    <3> HIDE DEF xr, q
    <3>1. n \in Judged
      BY <2>2, MeaningTypes
    <3> QED
      BY <1>2, <1>5, <3>1, HeadTailProperties
  <2>4. xr = <<>> => n = Head(q)
    <3>1. <<>> \o g = g
      BY ConcatEmptySeq
    <3> QED
      BY <2>1, <3>1
  <2>5. xr # <<>> => n = Garbage \/ Head(q) = Garbage
    <3> HIDE DEF xr
    <3> QED
      BY <1>2, <2>1, MeaningOfLonger
  <2> SUFFICES q \in Service!HeadReread(Service!Remains(p))
    OBVIOUS
  <2> HIDE DEF p, q, xd, n
  <2>6. p = xd \o u
    <3>1. /\ Append(xd, n) = xd \o <<n>> /\ <<n>> \in Seq(Judged)
      BY <1>2, <2>3, AppendIsConcat
    <3> QED
      BY <1>2, <2>1, <2>3, <3>1, ConcatAssociative DEF n
  <2>7. u \in Seq(Judged) /\ u # <<>> /\ Head(u) = n /\ Tail(u) = Tail(q)
    BY <2>3
  <2>8. q = <<Head(q)>> \o Tail(q)
    BY <1>2, <1>5
  <2> HIDE DEF u
  <2>9. u \in Service!Remains(p)
    BY <1>2, <2>6, <2>7, PartsRemain
  <2>10. CASE Head(q) = n
    <3>1. q = u
      BY <2>8, <2>10 DEF u
    <3> QED
      BY <2>9, <3>1, RereadCases
  <2>11. CASE Head(q) = Garbage
    <3>1. q = <<Garbage>> \o Tail(u)
      BY <2>7, <2>8, <2>11
    <3> QED
      BY <2>7, <2>9, <3>1, RereadCases
  <2>12. CASE n = Garbage /\ Head(q) \in Sendable
    <3>1. q = <<Head(q)>> \o Tail(u) /\ Head(u) = Garbage
      BY <2>7, <2>8, <2>12
    <3> QED
      BY <2>7, <2>9, <2>12, <3>1, RereadCases
  <2> QED
    BY <2>3, <2>4, <2>5, <2>10, <2>11, <2>12
<1> QED
  BY <1>4, <1>5

\* Bytes that are gone from the end of the line.
LEMMA PrefixRemains ==
    ASSUME NEW x \in Seq(Byte), NEW y \in Seq(Byte)
    PROVE  Reading[x].done \in Service!Remains(Reading[x \o y].done)
<1> DEFINE xd == Reading[x].done
           yd == Reading[y].done
           p == Reading[x \o y].done
<1>1. xd \in Seq(Judged) /\ yd \in Seq(Judged) /\ Reading[x].rest \in Seq(Byte)
  BY ReadingFolds DEF Readable
<1>2. Continues(x, y)
  BY ReadingContinues
<1>3. CASE yd = <<>>
  <2>1. p = xd
    BY <1>2, <1>3 DEF Continues
  <2> HIDE DEF xd, p
  <2> QED
    BY <1>1, <2>1, AllRemains DEF xd, p
<1>4. CASE yd # <<>>
  <2>1. PICK g \in Seq(Byte) \ {<<>>} : p = Append(xd, Meaning(Reading[x].rest \o g)) \o Tail(yd)
    BY <1>2, <1>4 DEF Continues
  <2> DEFINE n == Meaning(Reading[x].rest \o g)
             r == Reading[x].rest
  <2>2. n \in Judged
    <3> HIDE DEF r
    <3>1. r \o g \in Seq(Byte) /\ r \o g # <<>>
      BY <1>1, ConcatProperties, ConcatEqualIffEmpty DEF r
    <3> QED
      BY <3>1, MeaningTypes DEF r
  <2> HIDE DEF xd, yd, p, n
  <2>3. Tail(yd) \in Seq(Judged)
    BY <1>1, <1>4, HeadTailProperties
  <2>4. Append(xd, n) = xd \o <<n>> /\ <<n>> \in Seq(Judged) /\ <<n>> \o Tail(yd) \in Seq(Judged)
    BY <1>1, <2>2, <2>3, AppendIsConcat, ConcatProperties
  <2>5. p = xd \o (<<n>> \o Tail(yd))
    BY <1>1, <2>1, <2>3, <2>4, ConcatAssociative DEF n
  <2> DEFINE u == <<n>> \o Tail(yd)
  <2> HIDE DEF u
  <2>6. xd \in Service!Remains(xd \o u)
    BY <1>1, <2>4, PartsRemain DEF u
  <2> QED
    BY <2>5, <2>6 DEF u, xd, p
<1> QED
  BY <1>3, <1>4

\* Messages that are gone from the front of the line to the host, or from its
\* end.
LEMMA AnswersWith ==
    ASSUME NEW q \in Seq(Message), NEW m \in Message
    PROVE  /\ Answers[Append(q, m)] = IF m \in Reply THEN Append(Answers[q], m) ELSE Answers[q]
           /\ Answers[q] \in Seq(Reply)
           /\ Answers[Append(q, m)] \in Seq(Reply)
BY AnswersFold, AppendProperties DEF Heard

LEMMA AnswersOfSuffix ==
    ASSUME NEW x \in Seq(Message), NEW y \in Seq(Message), NEW m \in Message
    PROVE  /\ Answers[Append(x \o y, m)] = Answers[x] \o Answers[Append(y, m)]
           /\ Answers[x] \in Seq(Reply) /\ Answers[Append(y, m)] \in Seq(Reply)
<1>1. Append(y, m) \in Seq(Message) /\ x \o y \in Seq(Message)
  BY AppendProperties, ConcatProperties
<1>2. x \o Append(y, m) = Append(x \o y, m)
  BY <1>1, ConcatAppend
<1> QED
  BY <1>1, <1>2, AnswersConcat, AnswersFold

LEMMA MessageFacts ==
    ASSUME SessionInv
    PROVE  /\ to_host \in Seq(Message) /\ out \in Message
           /\ None \in Message /\ None \notin Reply
           /\ Fragment \in Message /\ Fragment \notin Reply
<1>1. Own \cup {Fragment} \subseteq Message
  BY DEF Own, Message
<1> QED
  BY <1>1, SeqMonotonic, UsbLinkAssumption, WireAssumption DEF SessionInv, MessageInv, Message

LEMMA StreamFacts ==
    ASSUME SessionInv
    PROVE  /\ rx_frame \in Seq(Sent) /\ chunk \in Seq(Sent) /\ from_host \in Seq(Sent)
           /\ rx_frame \in Seq(Byte) /\ chunk \in Seq(Byte) /\ from_host \in Seq(Byte)
           /\ Stream \in Seq(Sent) /\ Stream \in Seq(Byte)
           /\ Stream = rx_frame \o (chunk \o from_host)
           /\ chunk \o from_host \in Seq(Sent) /\ rx_frame \o chunk \in Seq(Sent)
<1>1. rx_frame \in Seq(Sent) /\ chunk \in Seq(Sent) /\ from_host \in Seq(Sent)
  BY DEF SessionInv, TaskInv, LineInv
<1>2. chunk \o from_host \in Seq(Sent) /\ rx_frame \o chunk \in Seq(Sent) /\ Stream \in Seq(Sent)
  BY <1>1, ConcatProperties DEF Stream
<1>3. Stream = rx_frame \o (chunk \o from_host)
  BY <1>1, ConcatAssociative DEF Stream
<1> QED
  BY <1>1, <1>2, <1>3, SentBytes, SeqMonotonic

-----------------------------------------------------------------------------
(* Every step of the session is one of the service, or none.               *)

\* Only the answers in the line may have become fewer.
LEMMA ReaderReads ==
    ASSUME SessionInv, NEW x \in Seq(Message), NEW y \in Seq(Message),
           to_host = x \o y, to_host' = y,
           UNCHANGED <<rx_frame, chunk, from_host, out, cmds, upsets>>
    PROVE  Service!Read \/ UNCHANGED serviceVars
<1> DEFINE a == Answers[x]
           b == Answers[Append(y, out)]
           n == Len(a)
<1>1. /\ Unanswered = a \o b /\ a \in Seq(Reply) /\ b \in Seq(Reply)
  BY MessageFacts, AnswersOfSuffix DEF Unanswered
<1>2. Unanswered' = b
  BY DEF Unanswered
<1>3. UNCHANGED <<Spelled, Unended, cmds, upsets>>
  BY DEF Spelled, Unended, Stream
<1> HIDE DEF a, b
<1>4. CASE a = <<>>
  <2>1. <<>> \o b = b
    BY <1>1, ConcatEmptySeq
  <2> QED
    BY <1>1, <1>2, <1>3, <1>4, <2>1 DEF serviceVars
<1>5. CASE a # <<>>
  <2>1. /\ n \in Nat \ {0} /\ Len(b) \in Nat /\ Len(a \o b) = n + Len(b) /\ a \o b \in Seq(Reply)
        /\ SubSeq(a \o b, n + 1, Len(a \o b)) = b
    BY <1>1, <1>5, EmptySeq, LenProperties, ConcatProperties, ConcatParts
  <2>2. n \in DOMAIN Unanswered
    <3>1. DOMAIN (a \o b) = 1 .. Len(a \o b)
      BY <2>1, LenProperties
    <3> QED
      BY <1>1, <2>1, <3>1
  <2>3. Unanswered' = SubSeq(Unanswered, n + 1, Len(Unanswered))
    BY <1>1, <1>2, <2>1
  <2>4. Service!Read
    BY <1>3, <2>2, <2>3 DEF Service!Read, Unanswered
  <2> QED
    BY <2>4
<1> QED
  BY <1>4, <1>5

LEMMA QuietTaskSteps ==
    ASSUME SessionInv, TakeEvent \/ ReadChunk \/ WriteOut, UNCHANGED upsets
    PROVE  UNCHANGED serviceVars
<1> USE DEF wires
<1>0. /\ to_host \in Seq(Message) /\ out \in Message /\ None \in Message /\ None \notin Reply
  BY MessageFacts
<1>1. CASE TakeEvent
  <2>1. events # <<>> /\ out' = Head(events) /\ out = None
        /\ UNCHANGED <<rx_frame, chunk, from_host, to_host, cmds>>
    BY <1>1 DEF TakeEvent, SessionInv, TaskInv
  <2>2. out' \in BoardToHost
    BY <2>1, NoBytesLeft DEF SessionInv, TaskInv
  <2>3. out' \in Message /\ out' \notin Reply
    BY <2>2, TelemetryIsOwn DEF Message
  <2>4. Unanswered = Answers[to_host] /\ Unanswered' = Answers[to_host]
    BY <1>0, <2>1, <2>3, AnswersWith DEF Unanswered
  <2>5. Spelled' = Spelled /\ Unended' = Unended
    BY <2>1 DEF Spelled, Unended, Stream
  <2> QED
    BY <2>1, <2>4, <2>5 DEF serviceVars
<1>2. CASE ReadChunk
  <2>1. PICK n \in 1 .. ChunkBytes :
            /\ n <= Len(from_host)
            /\ chunk' = SubSeq(from_host, 1, n)
            /\ from_host' = SubSeq(from_host, n + 1, Len(from_host))
    BY <1>2 DEF ReadChunk
  <2>2. from_host \in Seq(Byte) /\ rx_frame \in Seq(Byte)
    BY StreamFacts
  <2>3. n \in 0 .. Len(from_host)
    BY <2>1, <2>2, UsbLinkAssumption, LenProperties
  <2>4. chunk' \in Seq(Byte) /\ from_host' \in Seq(Byte) /\ chunk' \o from_host' = from_host
    BY <2>1, <2>2, <2>3, CutInTwo
  <2>5. chunk = <<>> /\ UNCHANGED <<rx_frame, out, cmds, to_host>>
    BY <1>2 DEF ReadChunk, SessionInv, TaskInv
  <2>6. Stream' = rx_frame \o from_host
    <3>0. \A a, b, c \in Seq(Byte) : (a \o b) \o c = a \o (b \o c)
      BY ConcatAssociative
    <3>1. (rx_frame \o chunk') \o from_host' = rx_frame \o (chunk' \o from_host')
      BY <2>2, <2>4, <3>0
    <3> QED
      BY <2>4, <2>5, <3>1 DEF Stream
  <2>7. Stream = rx_frame \o from_host
    BY <2>2, <2>5, ConcatEmptySeq DEF Stream
  <2> QED
    BY <2>5, <2>6, <2>7 DEF serviceVars, Spelled, Unended, Unanswered
<1>3. CASE WriteOut
  <2>1. /\ out' = None /\ to_host' = Append(to_host, out)
        /\ UNCHANGED <<rx_frame, chunk, from_host, cmds>>
    BY <1>3 DEF WriteOut
  <2>2. to_host' \in Seq(Message)
    BY <1>0, <2>1, AppendProperties
  <2>3. Unanswered' = Unanswered
    BY <1>0, <2>1, <2>2, AnswersWith DEF Unanswered
  <2> QED
    BY <2>1, <2>3 DEF serviceVars, Spelled, Unended, Stream
<1> QED
  BY <1>1, <1>2, <1>3

\* The byte at the head of the chunk, and what follows it.
LEMMA NextByte ==
    ASSUME SessionInv, chunk # <<>>
    PROVE  /\ Head(chunk) \in Byte /\ Tail(chunk) \in Seq(Byte) /\ Tail(chunk) \o from_host \in Seq(Sent)
           /\ Tail(chunk) \o from_host \in Seq(Byte)
           /\ Append(rx_frame, Head(chunk)) \in Seq(Byte)
           /\ Append(rx_frame, Head(chunk)) # <<>>
           /\ Len(Append(rx_frame, Head(chunk))) = Len(rx_frame) + 1
           /\ Stream = Append(rx_frame, Head(chunk)) \o (Tail(chunk) \o from_host)
<1>1. rx_frame \in Seq(Byte) /\ chunk \in Seq(Byte) /\ from_host \in Seq(Byte)
      /\ chunk \in Seq(Sent) /\ from_host \in Seq(Sent)
  BY StreamFacts
<1>2. Head(chunk) \in Byte /\ Tail(chunk) \in Seq(Byte) /\ Tail(chunk) \in Seq(Sent)
  BY <1>1, HeadTailProperties
<1> DEFINE f == Append(rx_frame, Head(chunk))
<1>3. f \in Seq(Byte) /\ f # <<>> /\ Len(f) = Len(rx_frame) + 1
  BY <1>1, <1>2, AppendProperties
<1>4. f \o Tail(chunk) = rx_frame \o chunk
  BY <1>1, AppendConcat
<1>5. Tail(chunk) \o from_host \in Seq(Sent) /\ Tail(chunk) \o from_host \in Seq(Byte)
  BY <1>1, <1>2, ConcatProperties
<1> HIDE DEF f
<1>6. (f \o Tail(chunk)) \o from_host = f \o (Tail(chunk) \o from_host)
  <2>1. f \in Seq(Byte) /\ Tail(chunk) \in Seq(Byte) /\ from_host \in Seq(Byte)
    BY <1>1, <1>2, <1>3
  <2>2. \A a, b, c \in Seq(Byte) : (a \o b) \o c = a \o (b \o c)
    BY ConcatAssociative
  <2> QED
    BY <2>1, <2>2
<1>7. Stream = f \o (Tail(chunk) \o from_host)
  BY <1>4, <1>6 DEF Stream
<1> QED
  BY <1>2, <1>3, <1>5, <1>7 DEF f

\* A byte that is stored stays in the stream; one that finds the frame full
\* ends a frame that outgrew the buffer, damaged as it is.
LEMMA StoringBytes ==
    ASSUME SessionInv, StoreByte, UNCHANGED upsets
    PROVE  Service!Outgrown \/ UNCHANGED serviceVars
<1> DEFINE b == Head(chunk)
           f == Append(rx_frame, b)
           y == Tail(chunk) \o from_host
<1>1. /\ rx_frame' = Stored(b) /\ chunk' = Tail(chunk) /\ ~EndsFrame(b)
      /\ UNCHANGED <<from_host, to_host, out, cmds>>
  BY DEF StoreByte, wires
<1>2. chunk # <<>>
  BY DEF StoreByte, SessionInv, TaskInv
<1>3. /\ b \in Byte /\ Tail(chunk) \in Seq(Byte) /\ y \in Seq(Sent) /\ y \in Seq(Byte)
      /\ f \in Seq(Byte) /\ f # <<>> /\ Len(f) = Len(rx_frame) + 1
      /\ Stream = f \o y
  BY <1>2, NextByte
<1>4. /\ rx_frame \in Seq(Byte) /\ from_host \in Seq(Byte)
      /\ \A i \in 1 .. Len(rx_frame) : ~IsTerminator(rx_frame[i])
  BY StreamFacts DEF SessionInv, TaskInv
<1>5. Unanswered' = Unanswered
  BY <1>1 DEF Unanswered
<1>6. CASE Len(rx_frame) < MaxFrame
  <2>1. Stream' = (f \o Tail(chunk)) \o from_host
    BY <1>1, <1>6 DEF Stored, Stream
  <2> HIDE DEF f
  <2>2. (f \o Tail(chunk)) \o from_host = f \o y
    <3>1. f \in Seq(Byte) /\ Tail(chunk) \in Seq(Byte) /\ from_host \in Seq(Byte)
      BY <1>3, <1>4
    <3>2. \A p, q, r \in Seq(Byte) : (p \o q) \o r = p \o (q \o r)
      BY ConcatAssociative
    <3> QED
      BY <3>1, <3>2
  <2>3. Stream' = Stream
    BY <1>3, <2>1, <2>2
  <2> QED
    BY <1>1, <1>5, <2>3 DEF serviceVars, Spelled, Unended
<1>7. CASE ~(Len(rx_frame) < MaxFrame)
  <2>1. Stream' = y
    <3>1. Stream' = (<<>> \o Tail(chunk)) \o from_host
      BY <1>1, <1>7 DEF Stored, Stream
    <3>2. <<>> \o Tail(chunk) = Tail(chunk)
      BY <1>3, ConcatEmptySeq
    <3> QED
      BY <3>1, <3>2
  <2>2. Len(f) > FrameBytes /\ Len(f) \in Nat
    BY <1>3, <1>4, <1>7, UsbLinkAssumption, WireAssumption, LenProperties
  <2>3. \A g \in Seq(Byte) : Meaning(f \o g) = Garbage
    <3> TAKE g \in Seq(Byte)
    <3> HIDE DEF f
    <3>0. f \in Seq(Byte) /\ f # <<>>
      BY <1>3
    <3>1. f \o g \in Seq(Byte) /\ f \o g # <<>> /\ Len(f \o g) = Len(f) + Len(g) /\ Len(g) \in Nat
      BY <3>0, ConcatProperties, ConcatEqualIffEmpty, LenProperties
    <3>2. Len(f \o g) # FrameBytes
      BY <2>2, <3>1, WireAssumption
    <3> QED
      BY <3>1, <3>2, WholeLength
  <2>4. Meaning(f) = Garbage
    <3>1. Len(f) # FrameBytes
      BY <2>2, WireAssumption
    <3> QED
      BY <1>3, <3>1, WholeLength
  <2> DEFINE q == Reading[y].done
  <2>5. q \in Seq(Sendable \cup {Garbage}) /\ q \in Seq(Judged)
    BY <1>3, SpelledTypes, ReadingFolds DEF Readable
  <2>6. Spelled' = q /\ Unended' = (Reading[y].rest # <<>>)
    BY <2>1 DEF Spelled, Unended
  <2>7. CASE IsTerminator(b)
    <3>1. Reading[f].done = <<Garbage>> /\ Reading[f].rest = <<>>
      BY <1>3, <1>4, <2>4, <2>7, ReadingOfFrame
    <3>2. Spelled = <<Garbage>> \o q /\ Reading[Stream].rest = Reading[y].rest
      BY <1>3, <3>1, ReadingAfterEnd DEF Spelled
    <3>3. Unended' = Unended
      BY <2>6, <3>2 DEF Unended
    <3> HIDE DEF q
    <3>4. Spelled # <<>> /\ Head(Spelled) = Garbage /\ Tail(Spelled) = q
      BY <2>5, <3>2
    <3>5. Service!Outgrown
      BY <1>1, <1>5, <2>6, <3>3, <3>4 DEF Service!Outgrown, Unanswered
    <3> QED
      BY <3>5
  <2>8. CASE ~IsTerminator(b)
    <3>1. Reading[f].done = <<>> /\ Reading[f].rest = f
      <4>1. Reading[f] = ReadOn(Reading[rx_frame], b)
        BY <1>3, <1>4, ReadingFolds
      <4>2. Reading[rx_frame].done = <<>> /\ Reading[rx_frame].rest = rx_frame
        BY <1>4, NoEnd
      <4> QED
        BY <2>8, <4>1, <4>2 DEF ReadOn
    <3>2. Continues(f, y)
      BY <1>3, ReadingContinues
    <3>3. CASE q = <<>>
      <4>1. Spelled = <<>> /\ Reading[Stream].rest = f \o y /\ Reading[y].rest = y
        BY <1>3, <3>1, <3>2, <3>3 DEF Continues, Spelled
      <4>2. Unended
        <5>1. f \o y # <<>>
          <6> HIDE DEF f, y
          <6> QED
            BY <1>3, ConcatEqualIffEmpty
        <5> QED
          BY <4>1, <5>1 DEF Unended
      <4>3. Spelled' = Spelled
        BY <2>6, <3>3, <4>1
      <4>4. CASE Unended'
        <5>1. Unended' = Unended
          BY <2>6, <4>2, <4>4 DEF Unended
        <5> QED
          BY <1>1, <1>5, <4>3, <5>1 DEF serviceVars
      <4>5. CASE ~Unended'
        <5>1. Service!Outgrown
          BY <1>1, <1>5, <4>2, <4>3, <4>5 DEF Service!Outgrown, Unanswered
        <5> QED
          BY <5>1
      <4> QED
        BY <4>4, <4>5
    <3>4. CASE q # <<>>
      <4>1. PICK g \in Seq(Byte) \ {<<>>} :
                Spelled = Append(<<>>, Meaning(f \o g)) \o Tail(q)
        BY <1>3, <3>1, <3>2, <3>4 DEF Continues, Spelled
      <4>2. Reading[Stream].rest = Reading[y].rest
        BY <1>3, <3>2, <3>4 DEF Continues
      <4>3. Unended' = Unended
        BY <2>6, <4>2 DEF Unended
      <4>4. Meaning(f \o g) = Garbage
        BY <2>3
      <4> HIDE DEF q, f
      <4>5. Head(q) \in Sendable \cup {Garbage} /\ Tail(q) \in Seq(Judged) /\ q = <<Head(q)>> \o Tail(q)
        BY <2>5, <3>4, HeadTailProperties
      <4>6. Spelled = <<Garbage>> \o Tail(q)
        BY <4>1, <4>4
      <4>7. Spelled # <<>> /\ Head(Spelled) = Garbage /\ Tail(Spelled) = Tail(q)
        BY <4>5, <4>6
      <4>8. CASE Head(q) = Garbage
        <5>1. Spelled' = Spelled
          BY <2>6, <4>5, <4>6, <4>8
        <5> QED
          BY <1>1, <1>5, <4>3, <5>1 DEF serviceVars
      <4>9. CASE Head(q) \in Sendable
        <5>1. Spelled' = <<Head(q)>> \o Tail(Spelled) /\ Head(q) \in Sendable \cup Accidents
          BY <2>6, <4>5, <4>7, <4>9
        <5>2. Service!Outgrown
          BY <1>1, <1>5, <4>3, <4>7, <5>1 DEF Service!Outgrown, Unanswered
        <5> QED
          BY <5>2
      <4> QED
        BY <4>5, <4>8, <4>9
    <3> QED
      BY <3>3, <3>4
  <2> QED
    BY <2>7, <2>8
<1> QED
  BY <1>6, <1>7

LEMMA JudgingFrames ==
    ASSUME SessionInv, EndFrame, UNCHANGED upsets
    PROVE  Service!Judge
<1> DEFINE b == Head(chunk)
           f == Append(rx_frame, b)
           y == Tail(chunk) \o from_host
           q == Reading[y].done
<1>1. /\ rx_frame' = <<>> /\ chunk' = Tail(chunk) /\ IsTerminator(b) /\ Stored(b) # <<>>
      /\ UNCHANGED <<from_host, to_host>>
  BY DEF EndFrame, EndsFrame, NextFrame, wires
<1>2. chunk # <<>> /\ out = None
  BY DEF EndFrame, SessionInv, TaskInv
<1>3. /\ b \in Byte /\ Tail(chunk) \in Seq(Byte) /\ y \in Seq(Sent) /\ y \in Seq(Byte)
      /\ f \in Seq(Byte) /\ f # <<>> /\ Stream = f \o y
  BY <1>2, NextByte
<1>4. /\ rx_frame \in Seq(Byte) /\ \A i \in 1 .. Len(rx_frame) : ~IsTerminator(rx_frame[i])
  BY StreamFacts DEF SessionInv, TaskInv
<1>5. Stored(b) = f
  BY <1>1 DEF Stored
<1>6. Reading[f].done = <<Meaning(f)>> /\ Reading[f].rest = <<>>
  BY <1>1, <1>3, <1>4, ReadingOfFrame
<1>7. Spelled = <<Meaning(f)>> \o q /\ Reading[Stream].rest = Reading[y].rest
  BY <1>3, <1>6, ReadingAfterEnd DEF Spelled
<1>8. q \in Seq(Judged) /\ Meaning(f) \in Judged
  BY <1>3, ReadingFolds, MeaningTypes DEF Readable
<1>9. Stream' = y
  <2>1. Stream' = (<<>> \o Tail(chunk)) \o from_host
    BY <1>1 DEF Stream
  <2>2. <<>> \o Tail(chunk) = Tail(chunk)
    BY <1>3, ConcatEmptySeq
  <2> QED
    BY <2>1, <2>2
<1>10. Spelled' = q /\ Unended' = Unended
  BY <1>7, <1>9 DEF Spelled, Unended
<1>11. PICK c : c \in decode_host(f) /\ handle_cmd(c)
  BY <1>5 DEF EndFrame
<1>12. c \in Service!Readings(Meaning(f))
  <2>1. CASE IsWhole(f)
    BY <1>11, <2>1 DEF decode_host, Meaning, Service!Readings
  <2>2. CASE ~IsWhole(f)
    BY <1>11, <2>2 DEF decode_host, Meaning, Service!Readings
  <2> QED
    BY <2>1, <2>2
<1> HIDE DEF q, f
<1>13. Spelled # <<>> /\ Head(Spelled) = Meaning(f) /\ Tail(Spelled) = q
  BY <1>7, <1>8
<1> DEFINE A == Answers[to_host]
<1>14. /\ to_host \in Seq(Message) /\ None \in Message /\ None \notin Reply
  BY MessageFacts
<1>15. Unanswered = A
  BY <1>2, <1>14, AnswersWith DEF Unanswered
<1>16. CASE Forward(c)
  <2>1. c \in Forwarded /\ Len(cmds) < CmdsDepth /\ cmds' = Append(cmds, c) /\ out' = out
    BY <1>16 DEF Forward
  <2>2. UNCHANGED Unanswered
    BY <1>1, <2>1 DEF Unanswered
  <2> QED
    BY <1>10, <1>12, <1>13, <2>1, <2>2 DEF Service!Judge, Unanswered
<1>17. CASE Refuse(c)
  <2>1. (c \in Forwarded => Len(cmds) = CmdsDepth) /\ out' = ReplyTo(c) /\ cmds' = cmds
    BY <1>17 DEF Refuse
  <2>2. out' \in Reply /\ out' \in Message
    <3>1. Pong(Board) \in Reply
      BY UsbLinkAssumption DEF Pong, Reply
    <3>2. \A k \in HostError : Error(k) \in Reply
      BY DEF Error, Reply
    <3>3. ReplyTo(c) \in Reply
      BY <3>1, <3>2 DEF ReplyTo, HostError
    <3> QED
      BY <2>1, <3>3 DEF Message
  <2>3. Unanswered' = Append(Unanswered, ReplyTo(c))
    <3>1. Unanswered' = Answers[Append(to_host, out')]
      BY <1>1 DEF Unanswered
    <3>2. Answers[Append(to_host, out')] = Append(A, out')
      BY <1>14, <2>2, AnswersWith
    <3> QED
      BY <1>15, <2>1, <3>1, <3>2
  <2>4. CASE c \in Forwarded
    <3>1. c # Ping /\ c # Garbage
      BY <2>4, UsbLinkAssumption, WireAssumption
    <3>2. ReplyTo(c) = Error("Busy")
      BY <2>4, <3>1 DEF ReplyTo
    <3> QED
      BY <1>10, <1>12, <1>13, <2>1, <2>3, <2>4, <3>2 DEF Service!Judge, Unanswered
  <2>5. CASE c \notin Forwarded
    BY <1>10, <1>12, <1>13, <2>1, <2>3, <2>5 DEF Service!Judge, Unanswered
  <2> QED
    BY <2>4, <2>5
<1> QED
  BY <1>11, <1>16, <1>17 DEF handle_cmd

\* A whole command enters the line; it merges with a cut one before it.
LEMMA SendingCommands ==
    ASSUME SessionInv, send_host_msg, UNCHANGED <<usbVars, upsets>>
    PROVE  Service!Send \/ UNCHANGED serviceVars
<1>0. UNCHANGED <<rx_frame, chunk, out, cmds, to_host, upsets, Unanswered>>
  BY DEF send_host_msg, usbVars, Unanswered
<1>1. CASE from_host' = from_host
  BY <1>0, <1>1 DEF serviceVars, Spelled, Unended, Stream
<1>2. CASE from_host' = from_host \o encode_host(sending)
  <2> DEFINE e == encode_host(sending)
             r == Reading[Stream].rest
  <2>1. sending \in Sendable
    BY DEF send_host_msg, SessionInv, LineInv
  <2>2. e \in Seq(Byte)
    BY <2>1, EncodedCommand, SentBytes, SeqMonotonic
  <2>3. Reading[e].done = <<sending>> /\ Reading[e].rest = <<>>
    BY <2>1, ReadingOfCommand
  <2>4. /\ Stream \in Seq(Byte) /\ rx_frame \o chunk \in Seq(Byte) /\ from_host \in Seq(Byte)
        /\ Spelled \in Seq(Judged) /\ r \in Seq(Byte)
    BY StreamFacts, ReadingFolds, ConcatProperties DEF Readable, Spelled
  <2>5. Stream' = Stream \o e
    <3>1. Stream' = (rx_frame \o chunk) \o (from_host \o e)
      BY <1>0, <1>2 DEF Stream
    <3> HIDE DEF e
    <3>2. \A a, b, c \in Seq(Byte) : (a \o b) \o c = a \o (b \o c)
      BY ConcatAssociative
    <3>3. ((rx_frame \o chunk) \o from_host) \o e = (rx_frame \o chunk) \o (from_host \o e)
      BY <2>2, <2>4, <3>2
    <3> QED
      BY <3>1, <3>3 DEF Stream
  <2>6. Continues(Stream, e)
    BY <2>2, <2>4, ReadingContinues
  <2>7. /\ Reading[Stream \o e].rest = <<>>
        /\ \E g \in Seq(Byte) \ {<<>>} :
               /\ sending = Meaning(g)
               /\ Reading[Stream \o e].done = Append(Spelled, Meaning(r \o g))
    <3>1. /\ <<sending>> # <<>> /\ Head(<<sending>>) = sending /\ Tail(<<sending>>) = <<>>
      OBVIOUS
    <3>2. PICK g \in Seq(Byte) \ {<<>>} :
              /\ sending = Meaning(g)
              /\ Reading[Stream \o e].done = Append(Spelled, Meaning(r \o g)) \o <<>>
      BY <2>3, <2>6, <3>1 DEF Continues, Spelled
    <3>3. Reading[Stream \o e].rest = <<>>
      BY <2>3, <2>6, <3>1 DEF Continues
    <3>4. Meaning(r \o g) \in Judged
      <4> HIDE DEF r
      <4>1. r \o g \in Seq(Byte) /\ r \o g # <<>>
        BY <2>4, ConcatProperties, ConcatEqualIffEmpty
      <4> QED
        BY <4>1, MeaningTypes
    <3>5. Append(Spelled, Meaning(r \o g)) \o <<>> = Append(Spelled, Meaning(r \o g))
      BY <2>4, <3>4, AppendProperties, ConcatEmptySeq
    <3> QED
      BY <3>2, <3>3, <3>5
  <2>8. PICK g \in Seq(Byte) \ {<<>>} :
            /\ sending = Meaning(g)
            /\ Reading[Stream \o e].done = Append(Spelled, Meaning(r \o g))
    BY <2>7
  <2> DEFINE n == Meaning(r \o g)
  <2>9. n \in IF Unended THEN {Garbage} ELSE Sendable \cup Accidents
    <3>1. sending # Garbage
      BY <2>1, SendableCommands, WireAssumption
    <3>2. CASE r = <<>>
      <4>1. <<>> \o g = g
        BY ConcatEmptySeq
      <4> QED
        BY <2>1, <2>8, <3>2, <4>1 DEF Unended
    <3>3. CASE r # <<>>
      <4>1. Unended
        BY <3>3 DEF Unended
      <4> HIDE DEF r
      <4>2. n = Garbage
        BY <2>4, <2>8, <3>1, <3>3, MeaningOfLonger
      <4> QED
        BY <4>1, <4>2
    <3> QED
      BY <3>2, <3>3
  <2>10. n \in Judged
    BY <2>9, SendableCommands, UsbLinkAssumption DEF Judged
  <2> HIDE DEF n, r, e
  <2>11. Spelled' = Append(Spelled, n) /\ Unended' = FALSE
    BY <2>5, <2>7, <2>8 DEF Spelled, Unended, n
  <2>12. LET t == Append(Spelled, n)
         IN  t # <<>> /\ SubSeq(t, 1, Len(t) - 1) = Spelled /\ t[Len(t)] = n
    BY <2>4, <2>10, FrontOfAppend
  <2>13. /\ Spelled' # <<>> /\ Service!Front(Spelled') = Spelled
         /\ Service!Last(Spelled') = n
    BY <2>11, <2>12 DEF Service!Front, Service!Last
  <2>14. Service!Send
    BY <1>0, <2>9, <2>11, <2>13 DEF Service!Send, Unanswered
  <2> QED
    BY <2>14
<1> QED
  BY <1>1, <1>2 DEF send_host_msg

\* Whatever befalls the line, the board or the program is one mishap.
LEMMA MishapsAre ==
    ASSUME SessionInv, upsets < MaxUpsets, upsets' = upsets + 1,
           Spelled' \in Service!HeadReread(Service!Remains(Spelled)),
           cmds' \in {cmds, <<>>},
           Unanswered' \in Service!Remains(Unanswered)
    PROVE  Service!Mishap
<1>1. Unended' \in BOOLEAN
  BY DEF Unended
<1> QED
  BY <1>1 DEF Service!Mishap, Unanswered

LEMMA UpsetsAreMishaps ==
    ASSUME SessionInv, Upset
    PROVE  Service!Mishap
<1> DEFINE A == Answers[to_host]
<1>0. /\ to_host \in Seq(Message) /\ out \in Message /\ None \in Message /\ None \notin Reply
      /\ Fragment \in Message /\ Fragment \notin Reply
      /\ <<>> \in Seq(Message) /\ <<>> \in Seq(Byte)
  BY MessageFacts, EmptySeq
<1>1. /\ rx_frame \in Seq(Sent) /\ chunk \in Seq(Sent) /\ from_host \in Seq(Sent)
      /\ rx_frame \in Seq(Byte) /\ chunk \in Seq(Byte) /\ from_host \in Seq(Byte)
      /\ Stream \in Seq(Byte) /\ Stream = rx_frame \o (chunk \o from_host)
      /\ chunk \o from_host \in Seq(Sent) /\ rx_frame \o chunk \in Seq(Sent)
      /\ rx_frame \o chunk \in Seq(Byte)
  BY StreamFacts, ConcatProperties
<1>2. upsets < MaxUpsets /\ upsets' = upsets + 1
  BY DEF Upset
<1>3. Unanswered = (IF out \in Reply THEN Append(A, out) ELSE A) /\ A \in Seq(Reply)
      /\ Unanswered \in Seq(Reply)
  BY <1>0, AnswersWith DEF Unanswered
<1>4. Spelled \in Seq(Judged)
  BY <1>1, ReadingFolds DEF Readable, Spelled
<1>5. \A S : S \subseteq Service!HeadReread(S)
  BY RereadCases
<1>6. \A a, b, c \in Seq(Byte) : (a \o b) \o c = a \o (b \o c)
  BY ConcatAssociative
<1>7. Unanswered \in Service!Remains(Unanswered)
  BY <1>3, AllRemains
<1>8. CASE BoardReset /\ UNCHANGED hostVars
  <2>1. PICK n \in 0 .. Len(from_host) : from_host' = SubSeq(from_host, n + 1, Len(from_host))
    BY <1>8 DEF BoardReset
  <2> DEFINE p == SubSeq(from_host, 1, n)
             x == (rx_frame \o chunk) \o p
  <2>2. p \in Seq(Sent) /\ from_host' \in Seq(Sent) /\ p \o from_host' = from_host
    BY <1>1, <2>1, CutInTwo
  <2>3. p \in Seq(Byte) /\ from_host' \in Seq(Byte) /\ x \in Seq(Sent)
    <3> HIDE DEF p
    <3> QED
      BY <1>1, <2>2, SentBytes, SeqMonotonic, ConcatProperties
  <2>4. Stream = x \o from_host'
    <3> DEFINE head == rx_frame \o chunk
               tail == from_host'
    <3>1. head \in Seq(Byte) /\ p \in Seq(Byte) /\ tail \in Seq(Byte)
      BY <1>1, <2>3
    <3>2. (head \o p) \o tail = head \o (p \o tail)
      <4> HIDE DEF p, head, tail
      <4> QED
        BY <1>6, <3>1
    <3> HIDE DEF p
    <3> QED
      BY <2>2, <3>2 DEF Stream
  <2>5. Stream' = from_host'
    <3>1. Stream' = (<<>> \o <<>>) \o from_host'
      BY <1>8 DEF BoardReset, Stream
    <3>2. <<>> \o <<>> = <<>> /\ <<>> \o from_host' = from_host'
      BY <1>0, <2>3, ConcatEmptySeq
    <3> QED
      BY <3>1, <3>2
  <2> HIDE DEF x
  <2>6. Spelled' \in Service!HeadReread(Service!Remains(Spelled))
    BY <2>2, <2>3, <2>4, <2>5, SuffixReread DEF Spelled
  <2>7. out' = None /\ cmds' = <<>> /\ to_host' \in {to_host, Append(to_host, Fragment)}
    BY <1>8 DEF BoardReset
  <2>8. Unanswered' = A
    <3>1. Unanswered' = Answers[Append(to_host', None)]
      BY <2>7 DEF Unanswered
    <3>2. to_host' \in Seq(Message) /\ Answers[to_host'] = A
      <4>1. Append(to_host, Fragment) \in Seq(Message)
        BY <1>0, AppendProperties
      <4>2. Answers[Append(to_host, Fragment)] = Answers[to_host]
        BY <1>0, AnswersWith
      <4>3. CASE to_host' = to_host
        BY <1>0, <4>3
      <4>4. CASE to_host' = Append(to_host, Fragment)
        BY <4>1, <4>2, <4>4
      <4> QED
        BY <2>7, <4>3, <4>4
    <3> QED
      BY <1>0, <3>1, <3>2, AnswersWith
  <2>9. A \in Service!Remains(Unanswered)
    <3>1. CASE out \in Reply
      <4> HIDE DEF A
      <4>1. Unanswered = A \o <<out>> /\ <<out>> \in Seq(Reply)
        BY <1>3, <3>1, AppendIsConcat
      <4>2. A \in Service!Remains(A \o <<out>>)
        BY <1>3, <4>1, PartsRemain
      <4> QED
        BY <4>1, <4>2
    <3>2. CASE out \notin Reply
      BY <1>3, <1>7, <3>2
    <3> QED
      BY <3>1, <3>2
  <2> QED
    BY <1>2, <2>6, <2>7, <2>8, <2>9, MishapsAre
<1>9. CASE ReadFails /\ UNCHANGED hostVars
  <2>1. rx_frame' = <<>> /\ UNCHANGED <<chunk, from_host, to_host, out, cmds>>
    BY <1>9 DEF ReadFails, wires
  <2>2. Stream' = chunk \o from_host
    <3>1. Stream' = (<<>> \o chunk) \o from_host
      BY <2>1 DEF Stream
    <3>2. <<>> \o chunk = chunk
      BY <1>1, ConcatEmptySeq
    <3> QED
      BY <3>1, <3>2
  <2>3. Spelled' \in Service!HeadReread(Service!Remains(Spelled))
    BY <1>1, <2>2, SuffixReread DEF Spelled
  <2>4. Unanswered' = Unanswered
    BY <2>1 DEF Unanswered
  <2> QED
    BY <1>2, <1>7, <2>1, <2>3, <2>4, MishapsAre
<1>10. CASE Unplug /\ UNCHANGED usbVars
  <2>1. from_host' = <<>> /\ to_host' = <<>> /\ UNCHANGED <<rx_frame, chunk, out, cmds>>
    BY <1>10 DEF Unplug, usbVars
  <2> DEFINE x == rx_frame \o chunk
  <2>2. Stream' = x /\ Stream = x \o from_host
    <3>1. Stream' = x \o <<>>
      BY <2>1 DEF Stream
    <3> HIDE DEF x
    <3>2. x \o <<>> = x
      BY <1>1, ConcatEmptySeq DEF x
    <3> QED
      BY <3>1, <3>2 DEF Stream, x
  <2>3. Spelled' \in Service!Remains(Spelled)
    <3> HIDE DEF x
    <3>1. Reading[x].done \in Service!Remains(Reading[x \o from_host].done)
      BY <1>1, PrefixRemains DEF x
    <3> QED
      BY <2>2, <3>1 DEF Spelled
  <2>4. Unanswered' \in Service!Remains(Unanswered)
    <3> DEFINE r == Answers[Append(<<>>, out)]
    <3>1. to_host \o <<>> = to_host
      BY <1>0, ConcatEmptySeq
    <3>2. Answers[Append(to_host \o <<>>, out)] = A \o r /\ A \in Seq(Reply) /\ r \in Seq(Reply)
      BY <1>0, AnswersOfSuffix
    <3>3. Unanswered = A \o r /\ Unanswered' = r
      BY <2>1, <3>1, <3>2 DEF Unanswered
    <3> HIDE DEF A, r
    <3>4. r \in Service!Remains(A \o r)
      BY <3>2, PartsRemain
    <3> QED
      BY <3>3, <3>4
  <2> QED
    BY <1>2, <1>5, <2>1, <2>3, <2>4, MishapsAre
<1>11. CASE Interrupted /\ UNCHANGED usbVars
  <2>1. PICK n \in 0 .. FrameBytes - 1 :
            from_host' = from_host \o SubSeq(encode_host(sending), 1, n)
    BY <1>11 DEF Interrupted
  <2> DEFINE e == encode_host(sending)
             t == SubSeq(e, 1, n)
  <2>2. UNCHANGED <<rx_frame, chunk, out, cmds, to_host>>
    BY <1>11 DEF Interrupted, usbVars
  <2>3. /\ e \in Seq(Sent) /\ Len(e) = FrameBytes
        /\ \A i \in 1 .. FrameBytes : (IsTerminator(e[i]) <=> i = FrameBytes)
    BY <1>11, EncodedCommand DEF Interrupted, SessionInv, LineInv
  <2>4. n \in 0 .. Len(e) /\ n < FrameBytes /\ n \in Nat /\ FrameBytes \in Nat
    BY <2>1, <2>3, WireAssumption
  <2> HIDE DEF e
  <2>5. /\ t \in Seq(Sent) /\ Len(t) = n /\ \A i \in 1 .. n : t[i] = e[i]
    <3>1. \A i \in 1 .. n : e[i] \in Sent
      BY <2>3, <2>4, ElementOfSeq
    <3> QED
      BY <2>4, <3>1, SubSeqProperties
  <2>6. t \in Seq(Byte)
    BY <2>5, SentBytes, SeqMonotonic
  <2>7. \A i \in 1 .. Len(t) : ~IsTerminator(t[i])
    <3> HIDE DEF t
    <3> TAKE i \in 1 .. Len(t)
    <3>1. i \in 1 .. FrameBytes /\ i # FrameBytes /\ t[i] = e[i]
      BY <2>4, <2>5
    <3> QED
      BY <2>3, <3>1
  <2>8. Reading[t].done = <<>>
    <3> HIDE DEF t
    <3> QED
      BY <2>6, <2>7, NoEnd
  <2>9. Stream' = Stream \o t
    <3>1. Stream' = (rx_frame \o chunk) \o (from_host \o t)
      BY <2>1, <2>2 DEF Stream, e
    <3> HIDE DEF t
    <3>2. ((rx_frame \o chunk) \o from_host) \o t = (rx_frame \o chunk) \o (from_host \o t)
      BY <1>1, <1>6, <2>6
    <3> QED
      BY <3>1, <3>2 DEF Stream
  <2> HIDE DEF t
  <2>10. Continues(Stream, t)
    BY <1>1, <2>6, ReadingContinues
  <2>11. Spelled' = Spelled
    BY <2>8, <2>9, <2>10 DEF Continues, Spelled
  <2>12. Spelled' \in Service!Remains(Spelled)
    BY <1>4, <2>11, AllRemains
  <2>13. Unanswered' = Unanswered
    BY <2>2 DEF Unanswered
  <2> QED
    BY <1>2, <1>5, <1>7, <2>2, <2>12, <2>13, MishapsAre
<1> QED
  BY <1>8, <1>9, <1>10, <1>11 DEF Upset

LEMMA ServiceStep ==
    ASSUME SessionInv, [Next]_vars
    PROVE  Service!Next \/ UNCHANGED serviceVars
<1>1. CASE BoardTask
  <2>1. UNCHANGED upsets
    BY <1>1 DEF BoardTask
  <2>2. CASE TakeEvent \/ ReadChunk \/ WriteOut
    BY <2>1, <2>2, QuietTaskSteps
  <2>3. CASE StoreByte
    BY <2>1, <2>3, StoringBytes DEF Service!Next
  <2>4. CASE EndFrame
    BY <2>1, <2>4, JudgingFrames DEF Service!Next
  <2> QED
    BY <1>1, <2>2, <2>3, <2>4 DEF BoardTask, UsbStep
<1>2. CASE BoardLoop
  <2>1. cmds' = <<>> /\ UNCHANGED <<Spelled, Unended, Unanswered, upsets>>
    BY <1>2 DEF BoardLoop, LoopTurn, wires, Spelled, Unended, Stream, Unanswered
  <2>2. CASE cmds = <<>>
    BY <2>1, <2>2 DEF serviceVars
  <2>3. CASE cmds # <<>>
    BY <2>1, <2>3 DEF Service!Next, Service!Apply, Unanswered
  <2> QED
    BY <2>2, <2>3
<1>3. CASE HostReader
  <2>1. CASE ReaderTakes
    <3>1. /\ to_host # <<>> /\ to_host' = Tail(to_host)
          /\ UNCHANGED <<rx_frame, chunk, from_host, out, cmds, upsets>>
      BY <1>3, <2>1 DEF HostReader, ReaderTakes, usbVars
    <3>2. to_host \in Seq(Message)
      BY MessageFacts
    <3>3. /\ <<Head(to_host)>> \in Seq(Message) /\ Tail(to_host) \in Seq(Message)
          /\ to_host = <<Head(to_host)>> \o Tail(to_host)
      BY <3>1, <3>2
    <3> QED
      BY <3>1, <3>3, ReaderReads DEF Service!Next
  <2>2. CASE ReaderStops
    BY <1>3, <2>2 DEF HostReader, ReaderStops, usbVars, wires, serviceVars, Spelled, Unended,
                      Stream, Unanswered
  <2> QED
    BY <1>3, <2>1, <2>2 DEF HostReader, ReaderStep
<1>4. CASE HostMain
  <2>1. UNCHANGED <<usbVars, upsets>>
    BY <1>4 DEF HostMain
  <2>2. CASE send_host_msg
    BY <2>1, <2>2, SendingCommands DEF Service!Next
  <2>3. CASE ~send_host_msg
    <3>1. UNCHANGED wires
      BY <1>4, <2>3 DEF HostMain, UiStep, DialLost, GiveUp, HearPong, HearOther, SendPing,
                        Ingest, CheckExit, NoCommand, Submit, Quit, KeyTurn
    <3> QED
      BY <2>1, <3>1 DEF usbVars, wires, serviceVars, Spelled, Unended, Stream, Unanswered
  <2> QED
    BY <2>2, <2>3
<1>5. CASE Restart
  <2>1. PICK n \in 0 .. Len(to_host) : to_host' = SubSeq(to_host, n + 1, Len(to_host))
    BY <1>5 DEF Restart, Start
  <2>2. UNCHANGED <<rx_frame, chunk, from_host, out, cmds, upsets>>
    BY <1>5 DEF Restart, Start, usbVars
  <2>3. to_host \in Seq(Message)
    BY MessageFacts
  <2> DEFINE x == SubSeq(to_host, 1, n)
             y == SubSeq(to_host, n + 1, Len(to_host))
  <2>4. x \in Seq(Message) /\ y \in Seq(Message) /\ x \o y = to_host
    BY <2>3, CutInTwo
  <2>5. to_host' = y
    BY <2>1
  <2> HIDE DEF x, y
  <2> QED
    BY <2>2, <2>4, <2>5, ReaderReads DEF Service!Next
<1>6. CASE Upset
  BY <1>6, UpsetsAreMishaps DEF Service!Next
<1>7. CASE UNCHANGED vars
  BY <1>7 DEF vars, usbVars, wires, serviceVars, Spelled, Unended, Stream, Unanswered
<1> QED
  BY <1>1, <1>2, <1>3, <1>4, <1>5, <1>6, <1>7 DEF Next

LEMMA ServiceStart == Init => Service!Init
<1> SUFFICES ASSUME Init PROVE Service!Init
  OBVIOUS
<1>1. /\ rx_frame = <<>> /\ chunk = <<>> /\ from_host = <<>> /\ to_host = <<>>
      /\ out = None /\ cmds = <<>> /\ upsets = 0
  BY DEF Init, UsbInit
<1>2. <<>> \o <<>> = <<>>
  BY EmptySeq, ConcatEmptySeq
<1>3. Stream = <<>>
  BY <1>1, <1>2 DEF Stream
<1>4. Spelled = <<>> /\ Unended = FALSE
  BY <1>3, ReadingFolds DEF Nothing, Spelled, Unended
<1>5. None \in Message /\ None \notin Reply /\ <<>> \in Seq(Message)
  BY UsbLinkAssumption, EmptySeq DEF Message
<1>6. Answers[Append(to_host, out)] = <<>>
  BY <1>1, <1>5, AnswersWith, AnswersFold
<1> QED
  BY <1>1, <1>4, <1>6 DEF Service!Init

\* The USB task, the line and pitwall implement CommandService for every
\* frame length, buffer size, queue depth, set of lines and number of upsets:
\* commands are judged once and in order, Busy is answered only when the
\* channel is full, answers keep their order, and a cut command damages at
\* most its successor.
THEOREM SessionImplementsService == Spec => ImplementsService
<1>1. SessionInv /\ [Next]_vars => [Service!Next]_<<Spelled, Unended, cmds, Unanswered, upsets>>
  BY ServiceStep DEF serviceVars
<1>2. Spec => [][Service!Next]_<<Spelled, Unended, cmds, Unanswered, upsets>>
  BY <1>1, StartTypes, SessionStep, PTL DEF Spec
<1>3. Spec => Service!Init
  BY ServiceStart DEF Spec
<1> QED
  BY <1>2, <1>3 DEF ImplementsService, Service!Spec, Unanswered
=============================================================================
