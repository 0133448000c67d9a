------------------------- MODULE MCFastSerialRxLink -------------------------
(* FastSerialRxLink on bytes that differ in every pair of neighbouring bits *)
(* somewhere: '0' and '5' of the test bench, and the all-ones byte.         *)
EXTENDS FastSerialRxLink

ByteOf(n) == [i \in 0..7 |-> (n \div 2^i) % 2]

MCPayload == {ByteOf(48), ByteOf(53), ByteOf(255)}
BothPeers == {"datasheet", "testbench"}
EachByte == {<<b>> : b \in MCPayload}
=============================================================================
