----------------------------- MODULE MCSession -----------------------------
(***************************************************************************)
(* A small instance of HostSession: pitwall on the controller's USB port.  *)
(***************************************************************************)
EXTENDS HostSession

CONSTANTS car, pad

Led == [word |-> "led", arg |-> SetLed]
Pwm(n) == [word |-> "motor_pwm", arg |-> n]

\* A command the board forwards, and a number that is no i8.
MCLines == {Led, Pwm(300)}
MCForwarded == {SetLed, Repair, EnableRemoteTelemetry(TRUE)}
MCPayloads == {}

\* What the vehicle's motor does, relayed by the controller.
MCBursts == {<<>>, <<FromPeer("Vehicle", MotorState(30))>>}

\* A command only the vehicle knows.
MCAccidents == {SetMotorPwm(100)}

\* The first byte of a Pong of the controller, 01, joined to a whole one,
\* 01 02 01 01 00, reads as a Pong of the vehicle.
MCMisreads == {Pong("Vehicle")}
=============================================================================
