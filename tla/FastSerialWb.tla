---------------------------- MODULE FastSerialWb ----------------------------
(***************************************************************************)
(* rtl/fastserial/fastserial_wb.v: the fast serial peripheral on the       *)
(* Wishbone bus.  It holds the clock divider, receiver and transmitter, a  *)
(* FIFO for each direction, the small machine that feeds the transmitter,  *)
(* and the bus registers.  WbTick is one posedge i_clk of all of it.       *)
(***************************************************************************)
EXTENDS ClockFastSerial, TxFastSerial, RxFastSerial, Fifo

VARIABLES
  status,      \* reg [23:0] status, by the names of the four bits in use
  txState,     \* reg [1:0] txState: the feeder
  wbAck,       \* o_wb_ack
  wbDat,       \* o_wb_dat: {status, data}
  rxFifo, rxFifoOut,    \* rx_fifo and rx_data_fifo
  txFifo, txFifoOut     \* tx_fifo and tx_fifo_data

busVars == <<status, wbAck, wbDat>>
fifoVars == <<rxFifo, rxFifoOut, txFifo, txFifoOut>>
wbVars == <<counter, txVars, rxVars, txState, busVars, fifoVars>>

RX_REG == 0
TX_REG == 4

IDLE_txFIFO == 0
READ_FIFO_txFIFO == 1
WAIT_FIFO_txFIFO == 2
DONE_txFIFO == 3

Status == [rxReady : Bit, rxFull : Bit, txBusy : Bit, txFull : Bit]
AsBit(b) == IF b THEN 1 ELSE 0

WbTypeOK ==
  /\ counter \in 0..(FastSerialDivider - 1)
  /\ TxTypeOK
  /\ RxTypeOK
  /\ status \in Status
  /\ txState \in IDLE_txFIFO..DONE_txFIFO
  /\ wbAck \in Bit
  /\ wbDat \in [status : Status, data : Byte]
  /\ rxFifo \in Seq(Byte) /\ Len(rxFifo) <= FifoDepth
  /\ txFifo \in Seq(Byte) /\ Len(txFifo) <= FifoDepth
  /\ rxFifoOut \in Byte
  /\ txFifoOut \in Byte

StatusZero == [rxReady |-> 0, rxFull |-> 0, txBusy |-> 0, txFull |-> 0]

\* o_wb_ack, o_wb_dat and the FIFOs' outputs have no initial value.
WbInit ==
  /\ ClockInit
  /\ TxInit
  /\ RxInit
  /\ status = StatusZero
  /\ txState = IDLE_txFIFO
  /\ wbAck \in Bit
  /\ \E b \in PowerOnByte :
       /\ wbDat = [status |-> StatusZero, data |-> b]
       /\ rxFifoOut = b
       /\ txFifoOut = b
  /\ rxFifo = << >>
  /\ txFifo = << >>

-----------------------------------------------------------------------------
\* The wires.

\* Mutant of RxDataEnable: the address is not looked at.
RxDataEnable_AnyAddress(cyc, addr) ==
  ~FifoEmpty(rxFifo) /\ cyc = 1 /\ wbAck = 0 /\ addr \in {RX_REG, TX_REG}

\* rx_data_enable_fifo: pop the receive FIFO.  i_wb_we is not looked at.
RxDataEnable(cyc, addr) ==
  ~FifoEmpty(rxFifo) /\ cyc = 1 /\ wbAck = 0 /\ addr = RX_REG

\* Mutant of TxWriteFifo: no wait for the acknowledgement.
TxWriteFifo_EveryCycle(cyc, addr, we) ==
  ~FifoFull(txFifo) /\ cyc = 1 /\ we = 1 /\ addr = TX_REG

\* tx_write_fifo: push what is on the bus, if there is room.
TxWriteFifo(cyc, addr, we) ==
  ~FifoFull(txFifo) /\ cyc = 1 /\ wbAck = 1 /\ we = 1 /\ addr = TX_REG

\* Mutant of TxWriteFs: one cycle before the FIFO's output is valid.
TxWriteFs_Early == txState = READ_FIFO_txFIFO

\* Mutant of RxWriteFifo: no check for room.
RxWriteFifo_Unchecked == rxReady = 1

TxFifoRead == txState = READ_FIFO_txFIFO
TxWriteFs == txState = WAIT_FIFO_txFIFO
RxWriteFifo == rxReady = 1 /\ ~FifoFull(rxFifo)

-----------------------------------------------------------------------------
\* The registers.

\* Mutant of AckTick: the acknowledgement waits for as long as RX_REG is read.
AckTick_Withheld(cyc, addr) ==
  wbAck' = IF cyc = 1 /\ addr = RX_REG THEN wbAck ELSE AsBit(cyc = 1 /\ wbAck = 0)

\* While the receive FIFO is being popped, the acknowledgement waits.
AckTick(cyc, addr) ==
  wbAck' = IF RxDataEnable(cyc, addr) THEN wbAck ELSE AsBit(cyc = 1 /\ wbAck = 0)

StatusTick ==
  status' = [rxReady |-> AsBit(~FifoEmpty(rxFifo)),
             rxFull  |-> AsBit(FifoFull(rxFifo)),
             txBusy  |-> busy,
             txFull  |-> AsBit(FifoFull(txFifo))]

ReadTick(cyc, addr, we) ==
  wbDat' = IF cyc = 1 /\ wbAck = 0 /\ we = 0
           THEN [status |-> status,
                 data |-> IF addr = RX_REG THEN rxFifoOut ELSE ZeroByte]
           ELSE wbDat

\* Mutants of FeederTick: it does not ask whether the transmitter is busy; it
\* does not come back from DONE.
FeederTick_IgnoresBusy ==
  txState' = IF txState = IDLE_txFIFO /\ FifoEmpty(txFifo)
             THEN IDLE_txFIFO
             ELSE (txState + 1) % 4

FeederTick_Stops ==
  txState' = IF \/ txState = IDLE_txFIFO /\ ~(busy = 0 /\ ~FifoEmpty(txFifo))
                \/ txState = DONE_txFIFO
             THEN txState
             ELSE txState + 1

\* The feeder waits for an idle transmitter and a byte, reads the byte out of
\* the FIFO, writes it to the transmitter, and goes back.
FeederTick ==
  txState' = IF txState = IDLE_txFIFO /\ ~(busy = 0 /\ ~FifoEmpty(txFifo))
             THEN IDLE_txFIFO
             ELSE (txState + 1) % 4

FifoTick(cyc, addr, we, dat) ==
  /\ rxFifo' = FifoNext(rxFifo, RxWriteFifo, rxData, RxDataEnable(cyc, addr))
  /\ rxFifoOut' = FifoOut(rxFifo, rxFifoOut, RxDataEnable(cyc, addr))
  /\ txFifo' = FifoNext(txFifo, TxWriteFifo(cyc, addr, we), dat, TxFifoRead)
  /\ txFifoOut' = FifoOut(txFifo, txFifoOut, TxFifoRead)

\* One posedge i_clk, the bus and the serial inputs being as given.
WbTick(cyc, addr, we, dat, fsdoIn, fsctsIn) ==
  /\ ClockTick
  /\ RxTick(Fsclk, fsdoIn)
  /\ TxTick(Fsclk, fsctsIn, txFifoOut, AsBit(TxWriteFs))
  /\ AckTick(cyc, addr)
  /\ StatusTick
  /\ ReadTick(cyc, addr, we)
  /\ FeederTick
  /\ FifoTick(cyc, addr, we, dat)
=============================================================================
