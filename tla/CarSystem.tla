----------------------------- MODULE CarSystem -----------------------------
(***************************************************************************)
(* The whole car: a Controller and a Vehicle that hear each other over the *)
(* radio (docs/espnow-shared-protocol.md, "Pairing and unicast").          *)
(*                                                                         *)
(* Both boards are the modules of that name, step by step.  What one of    *)
(* them hands to the radio in a step is lost, or is put into the other's   *)
(* receive queue in that step; it is looked at when the other board next   *)
(* drains its queue.  The boards' clocks are independent.                  *)
(*                                                                         *)
(* Resets of either board and re-pairings at the controller are upsets; at *)
(* most MaxUpsets of them happen.                                          *)
(***************************************************************************)
EXTENDS EspNowLink, PairingStore

CONSTANTS
    PadMac, CarMac,    \* the two boards
    Strangers,         \* control frames of other controllers
    MaxUpsets,         \* bound on the resets and re-pairings
    PadPresses,        \* states of the BOOT button at a reset
    CarPresses,
    CmdsDepth, MaxRxDrain,
    Sticks, ReadTimes, ReadTimeoutMs, TickMs, TxIntervalMs, NeutralFailures,
    LinkTimeoutMs, LoopIntervalMs, SensePeriod, BlinkMs

ASSUME CarSystemAssumption ==
    /\ PadMac \in Macs /\ CarMac \in Macs
    /\ \A f \in Strangers : f \in Frame /\ f.kind = "Control"
    /\ MaxUpsets \in Nat
    /\ PadPresses \subseteq BOOLEAN /\ CarPresses \subseteq BOOLEAN
    /\ \A s \in Sticks : s \in [x : Bytes, y : Bytes, buttons : SUBSET Buttons]
    /\ CmdsDepth \in Nat \ {0} /\ MaxRxDrain \in Nat \ {0}
    /\ ReadTimeoutMs \in Nat /\ ReadTimes \subseteq 0 .. ReadTimeoutMs
    /\ TickMs \in Nat \ {0} /\ TxIntervalMs \in Nat /\ NeutralFailures \in Nat \ {0}
    /\ TxIntervalMs > (NeutralFailures - 1) * TickMs
    /\ LinkTimeoutMs \in Nat \ {0} /\ LoopIntervalMs \in Nat \ {0}
    /\ SensePeriod \in Nat \ {0} /\ BlinkMs \in Nat

VARIABLES
    c_pc, c_drained, c_rx, c_link, c_flash, c_last_sampled, c_change, c_failures,
    c_ticks, c_tx_seq, c_stream, c_cmds, c_sent, c_emitted, c_gap_ms,
    v_pc, v_drained, v_rx, v_link, v_flash, v_watchdog, v_last_state, v_tick, v_motor,
    v_manual_pwm, v_last_duty, v_stream, v_cmds, v_sent, v_emitted, v_quiet_ms,
    upsets

padOwn == <<c_pc, c_drained, c_link, c_flash, c_last_sampled, c_change, c_failures,
            c_ticks, c_tx_seq, c_stream, c_cmds, c_sent, c_emitted, c_gap_ms>>
carOwn == <<v_pc, v_drained, v_link, v_flash, v_watchdog, v_last_state, v_tick, v_motor,
            v_manual_pwm, v_last_duty, v_stream, v_cmds, v_sent, v_emitted, v_quiet_ms>>
vars == <<padOwn, c_rx, carOwn, v_rx, upsets>>

\* The frames that a board sends.
FramesOf(mac) == {f \in Frame : f.src = mac}

Pad == INSTANCE Controller WITH
    Self <- PadMac, Arrivals <- FramesOf(CarMac), UsbCommands <- {Repair}, BootPresses <- PadPresses,
    pc <- c_pc, drained <- c_drained, rx <- c_rx, link <- c_link, flash <- c_flash,
    last_sampled <- c_last_sampled, change <- c_change, failures <- c_failures,
    ticks_since_tx <- c_ticks, tx_seq <- c_tx_seq, stream_to_peer <- c_stream,
    cmds <- c_cmds, sent <- c_sent, emitted <- c_emitted, gap_ms <- c_gap_ms

Car == INSTANCE Vehicle WITH
    Self <- CarMac, Arrivals <- FramesOf(PadMac) \cup Strangers, UsbCommands <- {}, BootPresses <- CarPresses,
    pc <- v_pc, drained <- v_drained, rx <- v_rx, link <- v_link, flash <- v_flash,
    watchdog <- v_watchdog, last_state <- v_last_state, tick <- v_tick,
    motor <- v_motor, manual_pwm <- v_manual_pwm, last_duty <- v_last_duty,
    stream_to_peer <- v_stream, cmds <- v_cmds, sent <- v_sent,
    emitted <- v_emitted, quiet_ms <- v_quiet_ms

-----------------------------------------------------------------------------
Init ==
    /\ Pad!Init
    /\ Car!Init
    /\ c_flash = None /\ v_flash = None
    /\ upsets = 0

\* The frames that the board with address mac can hear.
InRange(frames, mac) ==
    {frames[i] : i \in {k \in DOMAIN frames : frames[k].dst \in {mac, Broadcast}}}

\* Of the frames a step hands to the radio one gets through, or none: without
\* telemetry streaming it is at most one frame.
PadStep ==
    /\ Pad!Step
    /\ \/ UNCHANGED <<carOwn, v_rx>>
       \/ \E f \in InRange(c_sent', CarMac) : Car!FrameArrives(f)
    /\ UNCHANGED upsets

CarStep ==
    /\ Car!Step
    /\ \/ UNCHANGED <<padOwn, c_rx>>
       \/ \E f \in InRange(v_sent', PadMac) : Pad!FrameArrives(f)
    /\ UNCHANGED upsets

PadUpset ==
    /\ upsets < MaxUpsets
    /\ upsets' = upsets + 1
    /\ \/ \E held \in PadPresses : Pad!Reboot(held)
       \/ Pad!UsbCommandArrives(Repair)
    /\ UNCHANGED <<carOwn, v_rx>>

CarUpset ==
    /\ upsets < MaxUpsets
    /\ upsets' = upsets + 1
    /\ \E held \in CarPresses : Car!Reboot(held)
    /\ UNCHANGED <<padOwn, c_rx>>

StrangerSends ==
    /\ \E f \in Strangers : Car!FrameArrives(f)
    /\ UNCHANGED <<padOwn, c_rx, upsets>>

Next == PadStep \/ CarStep \/ PadUpset \/ CarUpset \/ StrangerSends

Spec == Init /\ [][Next]_vars

\* Both loops keep running, and of the frames a board goes on transmitting
\* some get through.
FairSpec ==
    /\ Spec
    /\ WF_vars(PadStep) /\ WF_vars(CarStep)
    /\ SF_vars(PadStep /\ v_rx' # v_rx)
    /\ SF_vars(CarStep /\ Len(c_rx') > Len(c_rx))
-----------------------------------------------------------------------------
\* docs/espnow-shared-protocol.md:72-87: a controller is paired only with a
\* vehicle that is paired with it, and stays so through lost acks, resets and
\* re-pairings of the controller, and the frames of strangers.  (The pairing
\* of the vehicle itself is not cleared here.)
PairingAgrees == c_link.paired_peer = CarMac => v_link.paired_peer = PadMac

\* However many control frames and acks are lost, the two boards end up paired
\* with each other once the upsets are over.
PairingCompletes ==
    <>[](c_link.paired_peer = CarMac /\ v_link.paired_peer = PadMac)

\* Whatever a reset does to the controller's count, the vehicle hears it again
\* and again.
HeardAgain == []<>(v_watchdog.heard /\ v_watchdog.silent_ms = 0 /\ v_pc = "state")
=============================================================================
