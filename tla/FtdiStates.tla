----------------------------- MODULE FtdiStates -----------------------------
(* enum ftdiFastSerialState_t of tb/quadsoc_tb.cpp, used by the chip's two  *)
(* state machines.  StartBit (1) is declared there and never used.          *)
EXTENDS Naturals

Idle == 0
D0 == 2
D7 == 9
SRC == 10
FDONE == 11    \* DONE; the transmitter of the FPGA has a DONE of its own
FtdiState == {Idle} \cup (D0..FDONE)
=============================================================================
