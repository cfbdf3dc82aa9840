------------------------------- MODULE MCCar -------------------------------
(***************************************************************************)
(* Small instances of CarSystem.                                           *)
(***************************************************************************)
EXTENDS CarSystem

CONSTANTS pad, car, other

\* Without samples the joystick never answers: the controller then sends a
\* neutral keepalive in every turn, which is all that pairing depends on.
NoSamples == {}
ReadQuick == {0}
NoPayloads == {}
PlainReset == {FALSE}
BothPresses == BOOLEAN
NoStrangers == {}
OneStranger ==
    {ControlFrame(other, Broadcast, [sequence |-> 1, x |-> 128, y |-> 255, buttons |-> {}])}
=============================================================================
