---------------------------- MODULE LinkWatchdog ----------------------------
(***************************************************************************)
(* common_comms/src/keepalive.rs: the link watchdog.                       *)
(*                                                                         *)
(* The code stores last_valid_rx_ms and is given the loop's clock now_ms.  *)
(* state() only looks at whether a packet was ever recorded (heard) and at *)
(* the difference of the two clocks, or at now_ms itself while nothing was *)
(* recorded: silent_ms is that number.  It saturates at SilentCap, beyond  *)
(* which every answer of state() is the same.                              *)
(***************************************************************************)
EXTENDS Integers

CONSTANTS
    LinkTimeoutMs,   \* LINK_TIMEOUT_MS, 500 in the code
    LoopIntervalMs   \* VEHICLE_LOOP_INTERVAL_MS, 50 in the code

ASSUME WatchdogAssumption ==
    LinkTimeoutMs \in Nat \ {0} /\ LoopIntervalMs \in Nat \ {0}

SilentCap == LinkTimeoutMs + LoopIntervalMs

Watchdog == [heard : BOOLEAN, silent_ms : 0 .. SilentCap]

AtMost(n, cap) == IF n > cap THEN cap ELSE n

NewWatchdog == [heard |-> FALSE, silent_ms |-> 0]

record_valid_packet(w) == [heard |-> TRUE, silent_ms |-> 0]

\* elapsed_ms advances by one loop interval.
Elapsed(w) == [w EXCEPT !.silent_ms = AtMost(@ + LoopIntervalMs, SilentCap)]

StateIgnoringSilence(w) == IF w.heard THEN "Alive" ELSE "AwaitingFirstPacket"

state(w) ==
    IF w.silent_ms > LinkTimeoutMs
    THEN "TimedOut"
    ELSE IF w.heard THEN "Alive" ELSE "AwaitingFirstPacket"
=============================================================================
