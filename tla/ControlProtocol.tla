-------------------------- MODULE ControlProtocol --------------------------
(***************************************************************************)
(* common_comms/src/protocol.rs: the control packet and the freshness test *)
(* on its wrapping sequence number.                                        *)
(*                                                                         *)
(* The buttons bitfield is the set of buttons that are pressed.            *)
(***************************************************************************)
EXTENDS CommonTypes

CONSTANT SeqMod  \* number of sequence values: 2^16 in the code

ASSUME SeqModAssumption == SeqMod \in Nat /\ SeqMod >= 2 /\ SeqMod % 2 = 0

Sequences16 == 0 .. SeqMod - 1
Bytes == 0 .. 255
Buttons == {"JOY", "C", "A", "B", "D"}

ControlPacket ==
    [sequence : Sequences16, x : Bytes, y : Bytes, buttons : SUBSET Buttons]

wrapping_sub(a, b) == (a - b) % SeqMod

\* The test with half a cycle counted in.
NewerUpToHalf(last, candidate) ==
    LET delta == wrapping_sub(candidate, last)
    IN  delta # 0 /\ delta <= SeqMod \div 2

\* The candidate is less than half a cycle ahead of the last accepted number.
is_newer_sequence(last, candidate) ==
    LET delta == wrapping_sub(candidate, last)
    IN  delta # 0 /\ delta < SeqMod \div 2
=============================================================================
