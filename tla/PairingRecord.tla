--------------------------- MODULE PairingRecord ---------------------------
(***************************************************************************)
(* common_comms/src/pairing.rs and the flash it is kept in: twelve bytes,  *)
(* the magic number, the peer's address and a CRC over both.               *)
(*                                                                         *)
(* A byte, and the 16 bits of a checksum, is the set of its bits that are  *)
(* one: exclusive or is then the symmetric difference.                     *)
(*                                                                         *)
(* save and clear rewrite the whole sector; a sector is erased to ff       *)
(* before it is written, so a reset on the way leaves the beginning of the *)
(* record and erased bytes.                                                *)
(***************************************************************************)
EXTENDS Integers, Sequences, FiniteSetsExt

CONSTANT Unpaired  \* what deserialize returns for no valid record

Octet == SUBSET (0 .. 7)
Register == SUBSET (0 .. 15)
Weights == <<1, 2, 4, 8, 16, 32, 64, 128>>
OctetOf(n) == {k \in 0 .. 7 : (n \div Weights[k + 1]) % 2 = 1}
LowOctet(r) == r \cap 0 .. 7
HighOctet(r) == {k \in 0 .. 7 : k + 8 \in r}
Raised(b) == {k + 8 : k \in b}

PAIRING_RECORD_LEN == 12
MAGIC == <<OctetOf(82), OctetOf(73), OctetOf(65), OctetOf(80)>>

\* The polynomial 1021.
Poly == {0, 5, 12}
Doubled(r) == {k + 1 : k \in r \ {15}}
Shift(r) == IF 15 \in r THEN SymDiff(Doubled(r), Poly) ELSE Doubled(r)
FourShifts(r) == Shift(Shift(Shift(Shift(r))))
Update(r, b) == FourShifts(FourShifts(SymDiff(r, Raised(b))))

Erased == 0 .. 7
crc16_ccitt[data \in Seq(Octet)] ==
    IF data = <<>> THEN 0 .. 15
    ELSE Update(crc16_ccitt[SubSeq(data, 1, Len(data) - 1)], data[Len(data)])

serialize(mac) ==
    LET body == MAGIC \o mac
        crc == crc16_ccitt[body]
    IN  body \o <<LowOctet(crc), HighOctet(crc)>>

MagicOnly(rec) == SubSeq(rec, 1, 4) = MAGIC
Valid(rec) ==
    /\ SubSeq(rec, 1, 4) = MAGIC
    /\ crc16_ccitt[SubSeq(rec, 1, 10)] = rec[11] \cup Raised(rec[12])

deserialize(rec) == IF Valid(rec) THEN SubSeq(rec, 5, 10) ELSE Unpaired

\* What flash holds when a reset interrupts the write after n bytes.
Torn(rec, n) == [i \in 1 .. PAIRING_RECORD_LEN |-> IF i <= n THEN rec[i] ELSE Erased]
-----------------------------------------------------------------------------
(* What a record is worth.                                                 *)

\* A record is read back as what was written; one of which a byte has changed
\* is read as no pairing.
ReadsBack(mac) == deserialize(serialize(mac)) = mac
ChangeIsSeen(mac, i, octet) ==
    octet # serialize(mac)[i]
        => deserialize([serialize(mac) EXCEPT ![i] = octet]) = Unpaired

\* A write that a reset cut short is read as what was written or as no
\* pairing.  Only when the cut is in the address, may a stranger be loaded:
\* its address ends in erased bytes and happens to have the checksum of an
\* erased one.
CutIsSeen(mac, n) ==
    LET torn == Torn(serialize(mac), n)
    IN  \/ deserialize(torn) \in {mac, Unpaired}
        \/ n \in 4 .. 9 /\ crc16_ccitt[SubSeq(torn, 1, 10)] = 0 .. 15
=============================================================================
