--------------------------- MODULE WatchdogClock ---------------------------
(***************************************************************************)
(* common_comms/src/keepalive.rs as it is written: the watchdog keeps the  *)
(* time of the last packet, None before the first one, and is asked with   *)
(* the loop's clock.  LinkWatchdog, which the vehicle's model is made of,  *)
(* keeps the silence between the two instead.                              *)
(*                                                                         *)
(* The clock counts the loop's intervals in 64 bits; that it saturates     *)
(* after half a billion years is left out.                                 *)
(***************************************************************************)
EXTENDS LinkWatchdog, CommonTypes

\* The timeout if it were taken as reached instead of exceeded.
StateOnceReached(last_valid_rx_ms, now_ms) ==
    IF last_valid_rx_ms = None
    THEN IF now_ms >= LinkTimeoutMs THEN "TimedOut" ELSE "AwaitingFirstPacket"
    ELSE IF now_ms - last_valid_rx_ms >= LinkTimeoutMs THEN "TimedOut" ELSE "Alive"

\* LinkWatchdog::state.
state_at(last_valid_rx_ms, now_ms) ==
    IF last_valid_rx_ms = None
    THEN IF now_ms > LinkTimeoutMs THEN "TimedOut" ELSE "AwaitingFirstPacket"
    ELSE IF now_ms - last_valid_rx_ms > LinkTimeoutMs THEN "TimedOut" ELSE "Alive"

\* What LinkWatchdog makes of the two clocks.
Silence(last_valid_rx_ms, now_ms) ==
    [heard |-> last_valid_rx_ms # None,
     silent_ms |-> AtMost(IF last_valid_rx_ms = None THEN now_ms
                          ELSE now_ms - last_valid_rx_ms, SilentCap)]

\* The silence is all that the code needs its clocks for: asked, told of a
\* packet or after one more interval, LinkWatchdog is still what it makes of
\* the clocks.
SilenceSuffices(last_valid_rx_ms, now_ms) ==
    LET w == Silence(last_valid_rx_ms, now_ms)
    IN  /\ state(w) = state_at(last_valid_rx_ms, now_ms)
        /\ record_valid_packet(w) = Silence(now_ms, now_ms)
        /\ Elapsed(w) = Silence(last_valid_rx_ms, now_ms + LoopIntervalMs)
=============================================================================
