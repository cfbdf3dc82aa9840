---------------------------- MODULE CommonTypes ----------------------------
(***************************************************************************)
(* Names shared by every module: board addresses and the absent value of   *)
(* the program's Option types.                                             *)
(***************************************************************************)
EXTENDS Integers, Sequences

CONSTANTS
    Macs,       \* addresses of the boards that may be in radio range
    Broadcast,  \* BROADCAST_ADDRESS, ff:ff:ff:ff:ff:ff
    None        \* Option::None

ASSUME NamesAssumption ==
    /\ None \notin Macs
    /\ Broadcast \notin Macs
    /\ None # Broadcast
    /\ None \notin Int

Option(S) == S \cup {None}
=============================================================================
