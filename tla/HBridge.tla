------------------------------ MODULE HBridge ------------------------------
(***************************************************************************)
(* vehicle/src/ibt2.rs, the motor half: two PWM channels and two enable    *)
(* pins of the IBT-2 module.                                               *)
(***************************************************************************)
EXTENDS Integers

Motor == [rpwm : 0 .. 100, lpwm : 0 .. 100, r_en : BOOLEAN, l_en : BOOLEAN]

\* main() configures both channels at duty 0 and drives both pins high, and
\* calibrate_offset keeps the duty at 0.
BootMotor == [rpwm |-> 0, lpwm |-> 0, r_en |-> TRUE, l_en |-> TRUE]

PercentUncapped(duty) == IF duty < 0 THEN -duty ELSE duty

\* min(|duty|, 100)
Percent(duty) ==
    LET magnitude == IF duty < 0 THEN -duty ELSE duty
    IN  IF magnitude > 100 THEN 100 ELSE magnitude

SetOneSide(m, duty) ==
    [m EXCEPT !.rpwm = IF duty > 0 THEN Percent(duty) ELSE @,
              !.lpwm = IF duty < 0 THEN Percent(duty) ELSE @]

set_pwm(m, duty) ==
    [m EXCEPT !.rpwm = IF duty > 0 THEN Percent(duty) ELSE 0,
              !.lpwm = IF duty < 0 THEN Percent(duty) ELSE 0]

EnableOnly(m) == [m EXCEPT !.r_en = TRUE, !.l_en = TRUE]

brake(m) == [rpwm |-> 0, lpwm |-> 0, r_en |-> TRUE, l_en |-> TRUE]

enable(m) == [m EXCEPT !.r_en = TRUE, !.l_en = TRUE]

set_enables(m, r, l) == [m EXCEPT !.r_en = r, !.l_en = l]

\* The signed duty the bridge applies, and the one a commanded duty asks for.
Output(m) == m.rpwm - m.lpwm
Clamped(duty) == IF duty > 100 THEN 100 ELSE IF duty < -100 THEN -100 ELSE duty
=============================================================================
