-------------------------------- MODULE Crc16 --------------------------------
(* crc16.h: the CCITT polynomial, least significant bit first. *)
EXTENDS Integers, Sequences

\* The values of a uint8_t and of a uint16_t.
Octet == 0..255
UINT16_MAX == 65535
Registers == 0..UINT16_MAX

\* n ^ mask, for a mask of one bit.
FlipBit(n, mask) == IF (n \div mask) % 2 = 1 THEN n - mask ELSE n + mask

\* crc ^ POLY, POLY = 0x8408 having the bits 15, 10 and 3.
XorPoly(n) == FlipBit(FlipBit(FlipBit(n, 32768), 1024), 8)

\* One bit of the data against the lowest bit of the register.
CrcBit(crc, bit) ==
  IF crc % 2 # bit THEN XorPoly(crc \div 2) ELSE crc \div 2

\* One turn of the inner loop, which shifts the byte too; a byte takes eight.
CrcTurn(s) == [crc |-> CrcBit(s.crc, s.data % 2), data |-> s.data \div 2]
FourTurns(s) == CrcTurn(CrcTurn(CrcTurn(CrcTurn(s))))
CrcByte(crc, byte) == FourTurns(FourTurns([crc |-> crc, data |-> byte])).crc

\* The register after so many bytes.
CrcAfter(data) ==
  LET after[k \in 0..Len(data)] ==
        IF k = 0 THEN 65535
        ELSE LET Byte[crc \in Registers] == CrcByte(crc, data[k]) IN Byte[after[k - 1]]
  IN  after

\* Mutant: the bytes of the result stay in the order of the register.
CrcResult_NoSwap(crc) == 65535 - crc

\* 1's complement, then the bytes swapped.
CrcResult(crc) ==
  LET inverted == 65535 - crc
  IN  (inverted % 256) * 256 + inverted \div 256

Crc(data) == CrcResult(CrcAfter(data)[Len(data)])
=============================================================================
