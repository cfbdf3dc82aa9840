---------------------------- MODULE PairingStore ----------------------------
(***************************************************************************)
(* vehicle/src/pairing.rs, controller/src/pairing.rs and                   *)
(* common_comms/src/pairing.rs: the paired address kept in flash.          *)
(*                                                                         *)
(* The flash content is what load() makes of it: an address, or None for   *)
(* an erased, cleared or damaged record.  The boards ignore the result of  *)
(* save and clear.  With FlashFaults a write may leave the old record, or  *)
(* a damaged one that no longer passes the magic and CRC tests.            *)
(***************************************************************************)
EXTENDS CommonTypes

CONSTANT FlashFaults

ASSUME FlashAssumption == FlashFaults \in BOOLEAN

WriteIsLost(flash, record) == {flash}

FlashWrite(flash, record) ==
    {record} \cup (IF FlashFaults THEN {flash, None} ELSE {})
=============================================================================
