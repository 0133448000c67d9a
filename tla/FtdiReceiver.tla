---------------------------- MODULE FtdiReceiver ----------------------------
(***************************************************************************)
(* The FTDI chip receiving from the FPGA, as tb/quadsoc_tb.cpp plays it    *)
(* (fastSerial::rxFromFPGA).  It samples FSDI on each rising edge of       *)
(* FSCLK, after the FPGA's registers have settled, and drives FSCTS.       *)
(*                                                                         *)
(* The test bench always takes a byte at once.  The datasheet note quoted  *)
(* in tx_fastserial.v says that CTS "stays low until the chip can accept   *)
(* more data"; FtdiMayStall lets the chip do so for any number of periods. *)
(***************************************************************************)
EXTENDS FastSerialData, FtdiStates

CONSTANT FtdiMayStall
ASSUME StallAssumption == FtdiMayStall \in BOOLEAN

VARIABLES
  ftdiRx,     \* m_rxState
  ftdiByte,   \* m_rxByte
  fscts,      \* i_fscts, 1 = the FPGA may send
  received    \* what the host has been given: the byte, and a parity that
              \* flips with each byte

ftdiRxVars == <<ftdiRx, ftdiByte, fscts, received>>

FtdiRxTypeOK ==
  /\ ftdiRx \in FtdiState
  /\ ftdiByte \in Byte
  /\ fscts \in Bit
  /\ received \in [data : Byte, parity : Bit]

FtdiRxInit ==
  /\ ftdiRx = Idle
  /\ ftdiByte = ZeroByte
  /\ fscts = 1
  /\ received = [data |-> ZeroByte, parity |-> 0]

FtdiQuiet == UNCHANGED ftdiRxVars

FtdiStart(line) ==
  /\ ftdiRx = Idle /\ line = 0
  /\ ftdiRx' = D0
  /\ ftdiByte' = ZeroByte
  /\ UNCHANGED <<fscts, received>>

\* m_rxByte |= o_fsdi << shift
FtdiData(line) ==
  /\ ftdiRx \in D0..D7
  /\ ftdiByte' = [ftdiByte EXCEPT ![ftdiRx - D0] = IF line = 1 THEN 1 ELSE @]
  /\ fscts' = 0
  /\ ftdiRx' = ftdiRx + 1
  /\ UNCHANGED received

FtdiSrc ==
  /\ ftdiRx = SRC
  /\ ftdiRx' = ftdiRx + 1
  /\ UNCHANGED <<ftdiByte, fscts, received>>

\* The byte goes to the host and the chip is clear to be sent the next one.
FtdiDone ==
  /\ ftdiRx = FDONE
  /\ ftdiRx' = Idle
  /\ fscts' = 1
  /\ received' = [data |-> ftdiByte, parity |-> 1 - received.parity]
  /\ UNCHANGED ftdiByte

FtdiStall == FtdiMayStall /\ ftdiRx = FDONE /\ FtdiQuiet

FtdiIdle(line) == ftdiRx = Idle /\ line = 1 /\ FtdiQuiet

\* What the chip does on a rising edge of FSCLK, the data line being at line.
FtdiEdge(line) ==
  FtdiIdle(line) \/ FtdiStart(line) \/ FtdiData(line) \/ FtdiSrc \/ FtdiStall \/ FtdiDone

FtdiRxTick(rising, line) ==
  \/ rising /\ FtdiEdge(line)
  \/ ~rising /\ FtdiQuiet
=============================================================================
