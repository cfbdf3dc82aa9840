---------------------------- MODULE MCOperators ----------------------------
(***************************************************************************)
(* A small instance of Operators.                                          *)
(***************************************************************************)
EXTENDS Operators

\* The candidates, and one address below and one above them.
MCPresent == {16, 18, 36, 72, 90, 119}
=============================================================================
