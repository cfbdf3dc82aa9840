------------------------------- MODULE Drive -------------------------------
(***************************************************************************)
(* vehicle/src/drive.rs: joystick position to signed motor duty.           *)
(***************************************************************************)
EXTENDS Integers

DEAD_ZONE == 10
CENTER == 127

AtMost100(n) == IF n > 100 THEN 100 ELSE n

\* The mapping with one range for both directions.
OneRange(y) ==
    LET offset == y - CENTER
    IN  IF offset > DEAD_ZONE \/ offset < -DEAD_ZONE
        THEN (offset * 100) \div (255 - CENTER)
        ELSE 0

y_to_duty(y) ==
    LET offset == y - CENTER
    IN  IF offset > DEAD_ZONE
        THEN AtMost100((offset * 100) \div (255 - CENTER))
        ELSE IF offset < -DEAD_ZONE
             THEN -AtMost100(((-offset) * 100) \div CENTER)
             ELSE 0
=============================================================================
