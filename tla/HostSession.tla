---------------------------- MODULE HostSession ----------------------------
(***************************************************************************)
(* A board on the USB port of a host that runs pitwall: UsbLink and        *)
(* Pitwall over one line, with the mishaps that may befall them.  At most  *)
(* MaxUpsets of those happen; the program may end and be started again any *)
(* number of times.                                                        *)
(***************************************************************************)
EXTENDS UsbLink, Pitwall

CONSTANT MaxUpsets

ASSUME UpsetsAssumption == MaxUpsets \in Nat

VARIABLE upsets

vars == <<usbVars, hostVars, wires, upsets>>

Init ==
    /\ UsbInit
    /\ HostInit
    /\ from_host = <<>> /\ to_host = <<>>
    /\ upsets = 0

BoardTask == UsbStep /\ UNCHANGED <<hostVars, upsets>>
BoardLoop == LoopTurn /\ UNCHANGED <<hostVars, upsets>>
HostReader == ReaderStep /\ UNCHANGED <<usbVars, upsets>>
HostMain == UiStep /\ UNCHANGED <<usbVars, upsets>>
Restart == Start /\ UNCHANGED <<usbVars, upsets>>

Upset ==
    /\ upsets < MaxUpsets
    /\ upsets' = upsets + 1
    /\ \/ (BoardReset \/ ReadFails) /\ UNCHANGED hostVars
       \/ (Unplug \/ Interrupted) /\ UNCHANGED usbVars

Next == BoardTask \/ BoardLoop \/ HostReader \/ HostMain \/ Restart \/ Upset

Spec == Init /\ [][Next]_vars

\* The executor polls both tasks of the board and the host schedules both
\* threads; the line is looked at whenever the select finds no event often
\* enough, the backlog is drained at times, and a ping becomes due again and
\* again.
FairSpec ==
    /\ Spec
    /\ WF_vars(BoardTask) /\ SF_vars(BoardLoop)
    /\ WF_vars(HostReader) /\ WF_vars(HostMain)
    /\ SF_vars(ReadChunk /\ UNCHANGED <<hostVars, upsets>>)
    /\ SF_vars(SendPing /\ UNCHANGED <<usbVars, upsets>>)
-----------------------------------------------------------------------------
(* Properties.                                                             *)

TypeOK ==
    /\ from_host \in Seq(Byte) /\ Len(from_host) <= WireBytes
    /\ to_host \in Seq(Telemetry \cup BoardToHost \cup Reply \cup {Fragment})
    /\ Len(to_host) <= WireMsgs
    /\ usb_pc \in {"select", "bytes", "write"}
    /\ (usb_pc = "write") <=> (out # None)
    /\ usb_pc = "bytes" <=> chunk # <<>> /\ out = None
    /\ rx_frame \in Seq(Byte) /\ Len(rx_frame) <= MaxFrame
    /\ \A i \in DOMAIN rx_frame : ~IsTerminator(rx_frame[i])
    /\ Len(events) <= EventsDepth /\ Len(cmds) <= CmdsDepth
    /\ cmds \in Seq(Forwarded)
    /\ rx_msg \in Seq(BoardToHost \cup Reply \cup Misreads)
    /\ gateway \in BoardKind \cup {None}
    /\ ui_pc \in {"drain", "keys"} => gateway # None

\* The telemetry that the board on the port may send about a board: its own, or
\* that of its peer.
Offers == UNION {Range(burst) : burst \in Bursts}
Relayed(k) == {m \in Offers : m.ev = "FromPeer" /\ m.source = k}
Direct(k) == {m \in Offers : m.ev # "FromPeer" /\ k = Board}
Produced(k) == {Telemetered(m) : m \in Relayed(k) \cup Direct(k)}

\* Unless a damaged frame was taken for a message, pitwall (main.rs, app.rs) has
\* the right gateway or none, and whatever a panel shows was produced by the
\* board it is about: relayed telemetry shows on the panel of its source, the
\* rest on that of the board on the port, also after restarts and resets.
GatewayIsBoard == gateway \in {None, Board}
IsAbout(k, field) ==
    \/ panels[k][field] = None
    \/ \E e \in Produced(k) : panels[k][field] = apply_telemetry(NoTelemetry, e)[field]
PanelsOwnBoard ==
    misled \/ /\ GatewayIsBoard
              /\ \A k \in BoardKind : \A field \in {"link", "stick", "duty"} : IsAbout(k, field)

\* What a run of bytes spells: the commands whose end is there, a frame that is
\* no command as Garbage, and the bytes after the last end.
Meaning(frame) == IF IsWhole(frame) THEN frame[1].msg ELSE Garbage
Nothing == [done |-> <<>>, rest |-> <<>>]
ReadOn(r, b) ==
    IF IsTerminator(b)
    THEN [done |-> Append(r.done, Meaning(Append(r.rest, b))), rest |-> <<>>]
    ELSE [done |-> r.done, rest |-> Append(r.rest, b)]
Reading[s \in Seq(Byte)] ==
    IF s = <<>> THEN Nothing
    ELSE ReadOn(Reading[SubSeq(s, 1, Len(s) - 1)], s[Len(s)])

\* The commands that are on their way, and whether the last lacks its end.
Stream == rx_frame \o chunk \o from_host
Spelled == Reading[Stream].done
Unended == Reading[Stream].rest # <<>>

Sendable == {Ping} \cup ({parse_command(l) : l \in Lines} \ {None})

\* The answers among the messages on their way to the host.
Message == BoardToHost \cup Reply \cup {Fragment, None}
Heard(q, m) == IF m \in Reply THEN Append(q, m) ELSE q
Answers[s \in Seq(Message)] ==
    IF s = <<>> THEN <<>>
    ELSE Heard(Answers[SubSeq(s, 1, Len(s) - 1)], s[Len(s)])

Service == INSTANCE CommandService WITH
    Commands <- Sendable \cup Accidents, Depth <- CmdsDepth, MaxMishaps <- MaxUpsets,
    Damaged <- Garbage, Busy <- Error("Busy"), Answer <- ReplyTo,
    pending <- Spelled, cut <- Unended,
    queue <- cmds, answers <- Answers[Append(to_host, out)],
    mishaps <- upsets

\* The USB task and pitwall, bytes, buffers, damaged frames, resets and
\* restarts included, keep the promise of CommandService.
ImplementsService == Service!Spec

\* A board that is not always busy with its own events answers the ping of
\* every program that is started: whatever an interrupted predecessor, a cut
\* message or a reset left on the line or in the board's buffer, the handshake
\* (pitwall/src/main.rs) finds the gateway, unless the program gives up.
CatchesUp == []<>(usb_pc = "select" /\ events = <<>>) \/ <>[](usb_pc = "write")
HandshakeEnds == CatchesUp => []<>(gateway # None \/ ui_pc = "ended")
=============================================================================
