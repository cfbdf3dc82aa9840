------------------------------ MODULE FailSafe ------------------------------
(***************************************************************************)
(* What the vehicle promises about its motor, with the link, the loop and  *)
(* the USB task abstracted away (docs/espnow-shared-protocol.md, section   *)
(* "Vehicle fail-safe behavior"; common_comms/src/keepalive.rs):           *)
(*   - it turns for an operator only after a control packet was heard,     *)
(*     never because time passed or a link came up;                        *)
(*   - it does not turn for an operator beyond Deadline of silence;        *)
(*   - it leaves a host's override only when an operator is heard or the   *)
(*     board restarts.                                                     *)
(***************************************************************************)
EXTENDS Integers

CONSTANTS
    Deadline,  \* the longest silence an operator's command may outlive, in Nat
    Delays     \* the amounts of time that may pass in one step, in Nat

VARIABLES mode, silence

Modes == {"stopped", "operator", "override"}

Init == mode = "stopped" /\ silence = 0

Hear == mode' \in Modes /\ silence' = 0

HostOverride == mode' = "override" /\ UNCHANGED silence

Halt == mode' = "stopped" /\ mode = "operator" /\ UNCHANGED silence

Passed(d) == IF silence + d > Deadline THEN Deadline + 1 ELSE silence + d

Elapse(d) ==
    /\ silence' = Passed(d)
    /\ mode = "operator" => silence' <= Deadline
    /\ UNCHANGED mode

Restart == mode' = "stopped" /\ silence' = 0

Next ==
    \/ Hear
    \/ HostOverride
    \/ Halt
    \/ \E d \in Delays : Elapse(d)
    \/ Restart

Spec == Init /\ [][Next]_<<mode, silence>>
=============================================================================
