-------------------------- MODULE FastSerialRxLink --------------------------
(***************************************************************************)
(* Host to FPGA: clock_fastserial, rx_fastserial and the FTDI chip on the  *)
(* FSDO wire.  One step is one posedge i_clk, followed by what the chip    *)
(* does if FSCLK changed.  The consumer is fastserial_wb's receive FIFO,   *)
(* which takes rx_data in every cycle that rx_ready is high.  There is no  *)
(* flow control in this direction.                                         *)
(***************************************************************************)
EXTENDS ClockFastSerial, RxFastSerial, FtdiSender

VARIABLES
  sent,        \* history: bytes started on the line, not yet seen by the consumer
  received     \* history: the last byte the consumer took, and a parity that
               \* flips with each byte

vars == <<counter, rxVars, ftdiTxVars, sent, received>>

Init ==
  /\ ClockInit
  /\ RxInit
  /\ FtdiTxInit
  /\ sent = << >>
  /\ received = [data |-> ZeroByte, parity |-> 0]

\* wr_en of the receive FIFO
Consume ==
  received' = IF rxReady = 1
              THEN [data |-> rxData, parity |-> 1 - received.parity]
              ELSE received

Record ==
  LET left == IF rxReady = 1 /\ sent # << >> THEN Tail(sent) ELSE sent
  IN  sent' = IF Starting THEN Append(left, Head(txData)) ELSE left

Next ==
  /\ ClockTick
  /\ RxTick(Fsclk, fsdo)
  /\ FtdiTxTick(RisingEdge, FallingEdge)
  /\ Consume
  /\ Record

(* i_clk runs forever. *)
Spec == Init /\ [][Next]_vars /\ WF_vars(Next)

-----------------------------------------------------------------------------
(* The type invariant. *)
TypeOK ==
  /\ counter \in 0..(FastSerialDivider - 1)
  /\ RxTypeOK
  /\ FtdiTxTypeOK
  /\ sent \in Seq(Byte)
  /\ received \in [data : Byte, parity : Bit]

(* Whenever the receiver takes a data bit from the line, what comes out of  *)
(* the synchroniser is what the chip is driving now, not the bit before:    *)
(* the two cycles of delay fit into the low phase of FSCLK.                 *)
LineSettled ==
  (rxState \in RX_BIT_ZERO..RX_BIT_SEVEN /\ RxStrobe(Fsclk)) => qFsdo[1] = fsdo

(* The receiver is on the bit the chip is sending: from the start bit to    *)
(* the last data bit, at every strobe, the two machines are one apart, and  *)
(* the receiver waits for a start bit only while none is on the line.       *)
Aligned ==
  RxStrobe(Fsclk) =>
    /\ rxState \in RX_BIT_ZERO..RX_BIT_SEVEN => ftdiTx = rxState + 2
    /\ rxState = RX_BIT_DEST => ftdiTx = Idle
    /\ rxState = WAIT_FOR_START_BIT => ftdiTx \in {Idle, D0}

HalfPulse == peer = "testbench" /\ ftdiTx = D0

(* The flip-flops hold the line as it is, one and two cycles after the      *)
(* chip changes it, on a falling edge; the test bench's start bit, set on a *)
(* rising edge, comes through in the high phase.                            *)
Synchronised ==
  /\ ~HalfPulse => /\ counter >= 1 => qFsdo[0] = fsdo
                   /\ counter >= 2 => qFsdo[1] = fsdo
  /\ HalfPulse => /\ counter >= Half
                  /\ qFsdo[0] = IF counter = Half THEN 1 ELSE 0
                  /\ qFsdo[1] = IF counter <= Half + 1 THEN 1 ELSE 0

(* One strobe per period: wait_clk is clear again when FSCLK rises, and     *)
(* set for the rest of the high phase once a state has advanced.            *)
OneStrobe ==
  /\ counter \in 1..Half => rxWaitClk = 0
  /\ (counter = 0 \/ counter > Half) /\ rxState # WAIT_FOR_START_BIT => rxWaitClk = 1

(* Where the receiver is follows from where the chip is and from the phase. *)
InStep ==
  /\ ftdiTx \in D0 + 1..SRC => rxState = ftdiTx - (IF counter <= Half THEN 2 ELSE 1)
  /\ (ftdiTx = D0 /\ ~HalfPulse) =>
       IF counter > Half THEN rxState = RX_BIT_ZERO
       ELSE rxState = WAIT_FOR_START_BIT \/ (rxState = CLEAN_UP /\ counter = 0)
  /\ HalfPulse =>
       IF counter > Half + 2 THEN rxState = RX_BIT_ZERO
       ELSE rxState = WAIT_FOR_START_BIT /\ rxWaitClk = 0
  /\ ftdiTx = Idle =>
       \/ rxState = WAIT_FOR_START_BIT
       \/ rxState = RX_BIT_DEST /\ counter <= Half
       \/ rxState = RX_DONE /\ counter = Half + 1
       \/ rxState = CLEAN_UP /\ counter \in {0, Half + 2}

(* The line is low during a start bit; between two frames none is seen: the *)
(* line is high, or a source bit that is low is gone before the receiver    *)
(* looks again.                                                             *)
StartBits ==
  /\ ftdiTx = D0 => fsdo = 0
  /\ ftdiTx = Idle =>
       \/ fsdo = 1
       \/ /\ peer = "datasheet"
          /\ IF counter <= Half THEN rxState = RX_BIT_DEST ELSE rxWaitClk = 1

(* The test bench sends its one byte to a receiver that has seen none.      *)
OneByte ==
  peer = "testbench" =>
    /\ Len(txData) <= 1
    /\ ftdiTx # Idle => txData = << >>
    /\ txData # << >> => rxState = WAIT_FOR_START_BIT /\ rxWaitClk = 0 /\ fsdo = 1

(* The two machines are in step, whatever bytes they exchange.              *)
Lockstep == Synchronised /\ OneStrobe /\ InStep /\ StartBits /\ OneByte

Frame == ftdiTx # Idle \/ rxState \in RX_BIT_ZERO..RX_BIT_DEST

(* Every bit of a byte on its way is in exactly one place: the receiver has *)
(* the first of them at the top of rx_data, one is on the line, the rest    *)
(* are in the chip.                                                         *)
Carries(byte) ==
  /\ ftdiTx # Idle =>
       /\ ftdiTx # D0 => fsdo = byte[ftdiTx - 3]
       /\ \A i \in 0..7 : i + (ftdiTx - 2) <= 7 =>
            ftdiTxByte[i] = byte[i + (ftdiTx - 2)]
  /\ rxState \in RX_BIT_ZERO..RX_BIT_DEST =>
       \A i \in 0..7 : i >= 9 - rxState => rxData[i] = byte[i - (9 - rxState)]

(* rx_data holds a whole byte that the FIFO has not taken yet.              *)
Complete ==
  \/ ftdiTx = Idle /\ rxState = RX_BIT_DEST
  \/ rxState \in {RX_DONE, CLEAN_UP}

Ready == rxReady = IF rxState = CLEAN_UP THEN 1 ELSE 0

(* What was sent and not yet taken: a whole byte in rx_data, and the byte   *)
(* in the frame.                                                            *)
BytesAccountedFor ==
  /\ Len(sent) = (IF ftdiTx = Idle THEN 0 ELSE 1) + (IF Complete THEN 1 ELSE 0)
  /\ Frame => Carries(sent[Len(sent)])
  /\ rxState \in {RX_DONE, CLEAN_UP} => rxData = sent[1]

(* The inductive invariant: what a step relies on and re-establishes. *)
IInv == TypeOK /\ Lockstep /\ Ready /\ BytesAccountedFor

-----------------------------------------------------------------------------
Channel == INSTANCE ByteChannel WITH inFlight <- sent, Capacity <- 2

(* The link is a first-in first-out channel: every byte the chip puts on    *)
(* the line reaches the FIFO once, unaltered and in order.                  *)
ImplementsByteChannel == Channel!Spec

(* Every byte started on the line reaches the FIFO. *)
EveryByteArrives == Channel!Live
=============================================================================
