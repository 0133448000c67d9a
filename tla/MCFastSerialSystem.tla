------------------------- MODULE MCFastSerialSystem -------------------------
(* FastSerialSystem with short FIFOs and one or two bytes in each direction. *)
EXTENDS FastSerialSystem

ByteOf(n) == [i \in 0..7 |-> (n \div 2^i) % 2]

MCPowerOn == {OnesByte}
ByteZero == {ByteOf(48)}
ByteFive == {ByteOf(53)}
TwoBytes == {ByteOf(48), ByteOf(53)}
Datasheet == {"datasheet"}
TestBench == {"testbench"}
TalkingHost == {<<b>> : b \in Payload}
Writes == {[addr |-> TX_REG, we |-> 1, dat |-> b] : b \in TxPayload}
Reads == {[addr |-> a, we |-> 0, dat |-> ZeroByte] : a \in {RX_REG, TX_REG}}
WritesAndReads == Writes \cup Reads
=============================================================================
