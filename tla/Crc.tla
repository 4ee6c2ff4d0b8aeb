-------------------------------- MODULE Crc --------------------------------
(* The checksum of CoreMark (core_util.c) and the integer conversions that   *)
(* its algorithms rely on.                                                   *)
EXTENDS Integers, Sequences, Bitwise

U16(x) == x % 65536                        \* conversion to ee_u16
S16(x) == ((x + 32768) % 65536) - 32768    \* conversion to ee_s16

\* One round of the loop: crc ^= 0x4002, crc >>= 1, crc |= 0x8000.
CrcBit(bit, crc) ==
  IF bit # crc % 2 THEN ((crc ^^ 16386) \div 2) | 32768 ELSE crc \div 2

RECURSIVE CrcBits(_, _, _)
CrcBits(n, data, crc) ==
  IF n = 0 THEN crc ELSE CrcBits(n - 1, data \div 2, CrcBit(data % 2, crc))

crcu8[data \in 0 .. 255, crc \in 0 .. 65535] == CrcBits(8, data, crc)

\* Mutant: the bytes in the other order.
crcu16_Swapped(newval, crc) == crcu8[newval % 256, crcu8[newval \div 256, crc]]

crcu16(newval, crc) == crcu8[newval \div 256, crcu8[newval % 256, crc]]
crc16(newval, crc) == crcu16(U16(newval), crc)
crcu32(newval, crc) == crc16(newval \div 65536, crc16(newval, crc))
=============================================================================
