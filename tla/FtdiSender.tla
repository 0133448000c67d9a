----------------------------- MODULE FtdiSender -----------------------------
(***************************************************************************)
(* The FTDI chip sending to the FPGA on FSDO.  There are two of them:      *)
(*                                                                         *)
(*  "datasheet"  a chip that puts each bit of the frame, the start bit     *)
(*     included, on the line for one FSCLK period, changing it on the      *)
(*     falling edge.  The host may leave any gap between two bytes.        *)
(*  "testbench"  tb/quadsoc_tb.cpp (fastSerial::txToFPGA), which pulls the *)
(*     line low in the middle of the high phase, so that its start bit     *)
(*     lasts half a period, drops the stop bit half an i_clk after it set  *)
(*     it, and sends its next byte at once.                                *)
(***************************************************************************)
EXTENDS FastSerialData, FtdiStates, Sequences

CONSTANTS
  Payload,      \* the bytes the host sends
  Peers,        \* which chips there may be
  HostQueue     \* what m_txData may hold at the start

ASSUME SenderAssumption ==
  /\ Payload \subseteq Byte
  /\ Peers \subseteq {"datasheet", "testbench"}
  /\ HostQueue \subseteq Seq(Payload)

VARIABLES
  peer,         \* the chip there is
  ftdiTx,       \* m_txState
  ftdiTxByte,   \* m_txByte: what is left of the byte being sent
  txData,       \* m_txData: the host's bytes, next one first
  fsdo          \* i_fsdo: the line to the FPGA

ftdiTxVars == <<peer, ftdiTx, ftdiTxByte, txData, fsdo>>

FtdiTxTypeOK ==
  /\ peer \in Peers
  /\ ftdiTx \in {Idle} \cup (D0..SRC)
  /\ ftdiTxByte \in Byte
  /\ txData \in Seq(Payload)
  /\ fsdo \in Bit

FtdiTxInit ==
  /\ peer \in Peers
  /\ ftdiTx = Idle
  /\ ftdiTxByte = ZeroByte
  /\ txData \in HostQueue
  /\ fsdo = 1

Starting == ftdiTx = Idle /\ ftdiTx' = D0

\* A host may go on sending; the push_back that would make the test bench do
\* so is commented out.
FtdiPop ==
  \/ peer = "datasheet" /\ \E b \in Payload : txData' = Append(Tail(txData), b)
  \/ peer = "testbench" /\ txData' = Tail(txData)

FtdiStartBit ==
  /\ ftdiTx = Idle /\ txData # << >>
  /\ ftdiTx' = D0
  /\ fsdo' = 0
  /\ ftdiTxByte' = Head(txData)
  /\ FtdiPop

FtdiBit ==
  /\ ftdiTx \in D0..D7
  /\ fsdo' = ftdiTxByte[0]
  /\ ftdiTxByte' = ShiftIn(0, ftdiTxByte)
  /\ ftdiTx' = ftdiTx + 1
  /\ UNCHANGED txData

FtdiTxQuiet == UNCHANGED ftdiTxVars

(* The test bench looks at the line twice per i_clk.  On a rising edge of   *)
(* FSCLK it is in RisingEdge and then High, where a byte starts.  On a      *)
(* falling edge it is in FallingEdge, where SRC pulls the line low and goes *)
(* to DONE, and then in Low, where DONE lets the line go: of the two, the   *)
(* FPGA sees the second.                                                    *)
TestBenchSrc ==
  /\ ftdiTx = SRC
  /\ ftdiTx' = Idle
  /\ fsdo' = 1
  /\ UNCHANGED <<ftdiTxByte, txData>>

TestBenchTick(rising, falling) ==
  \/ rising /\ FtdiStartBit
  \/ falling /\ (FtdiBit \/ TestBenchSrc)
  \/ rising /\ ~(ftdiTx = Idle /\ txData # << >>) /\ FtdiTxQuiet
  \/ falling /\ ftdiTx = Idle /\ FtdiTxQuiet
  \/ ~rising /\ ~falling /\ FtdiTxQuiet

\* The source bit tells which channel of the chip the byte comes from.
DatasheetSrc ==
  /\ ftdiTx = SRC
  /\ fsdo' \in Bit
  /\ ftdiTx' = Idle
  /\ UNCHANGED <<ftdiTxByte, txData>>

DatasheetGap ==
  /\ ftdiTx = Idle
  /\ fsdo' = 1
  /\ UNCHANGED <<ftdiTx, ftdiTxByte, txData>>

DatasheetTick(falling) ==
  \/ falling /\ (FtdiStartBit \/ FtdiBit \/ DatasheetSrc \/ DatasheetGap)
  \/ ~falling /\ FtdiTxQuiet

FtdiTxTick(rising, falling) ==
  /\ UNCHANGED peer
  /\ \/ peer = "testbench" /\ TestBenchTick(rising, falling)
     \/ peer = "datasheet" /\ DatasheetTick(falling)
=============================================================================
