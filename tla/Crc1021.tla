------------------------------ MODULE Crc1021 ------------------------------
(***************************************************************************)
(* The checksum of the TCP packages (common/cmmobj/comm/CalcCrc.h).        *)
(***************************************************************************)
EXTENDS Integers, Sequences, SequencesExt, Bitwise

\* pu16CRC1021Table: the remainders of the polynomial 0x1021.
Crc1021Table ==
    LET shift[c \in 0..(2^16 - 1), n \in 0..8] ==
          IF n = 0 THEN c
          ELSE shift[IF c >= 2^15 THEN ((2 * c) % 2^16) ^^ 4129 ELSE 2 * c, n - 1]
    IN  [i \in 1..256 |-> shift[(i - 1) * 2^8, 8]] \o <<>>

\* CalcCRC1021: what the next byte makes of the sum, and all of them.
Checksum(s) ==
    LET next[c \in 0..(2^16 - 1), b \in 0..255] ==
          ((c * 2^8) % 2^16) ^^ Crc1021Table[((c \div 2^8) ^^ b) + 1]
        sum[i \in 0..Len(s)] == IF i = 0 THEN 0 ELSE next[sum[i - 1], s[i]]
    IN  sum[Len(s)]
=============================================================================
