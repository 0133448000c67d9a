------------------------- MODULE MCFastSerialTxLink -------------------------
(* FastSerialTxLink on the bytes the example program uses, '0' and '5' of   *)
(* the test bench, written bit by bit.                                      *)
EXTENDS FastSerialTxLink

ByteOf(n) == [i \in 0..7 |-> (n \div 2^i) % 2]

ASSUME PayloadIsBytes == {ByteOf(n) : n \in 0..255} = Byte
MCPayload == {ByteOf(48), ByteOf(53)}
=============================================================================
