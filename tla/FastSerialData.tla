--------------------------- MODULE FastSerialData ---------------------------
(***************************************************************************)
(* Bits, bytes and the two idioms every fast serial module is built from:  *)
(* the shift register and the two-flip-flop synchroniser.  A byte is the   *)
(* function from bit number to bit, bit 0 first on the wire.               *)
(***************************************************************************)
EXTENDS Naturals

Bit == {0, 1}
Byte == [0..7 -> Bit]
ZeroByte == [i \in 0..7 |-> 0]
OnesByte == [i \in 0..7 |-> 1]      \* 8'hff

\* Mutant of ShiftIn: the other direction.
ShiftIn_Left(bit, byte) == [i \in 0..7 |-> IF i = 0 THEN bit ELSE byte[i - 1]]

\* { bit, byte[7:1] }: shift right, bit enters at the top.
ShiftIn(bit, byte) == [i \in 0..7 |-> IF i = 7 THEN bit ELSE byte[i + 1]]

\* q <= { q[0], in }: two flip-flops in a row, the value to use is q[1].
Synchronise(q, in) == [i \in 0..1 |-> IF i = 0 THEN in ELSE q[0]]

\* reg [1:0] q = 1
PowerOnSync == [i \in 0..1 |-> IF i = 0 THEN 1 ELSE 0]
=============================================================================
