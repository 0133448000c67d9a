-------------------------- MODULE FastSerialSystem --------------------------
(***************************************************************************)
(* The fast serial peripheral between the two parties that use it: the     *)
(* processor's data bus on one side, the FTDI chip on the other.  One step *)
(* is one posedge i_clk, the processor and the chip reacting to it.        *)
(*                                                                         *)
(* The processor (serv_rf_top behind wb_intercon, both external) holds     *)
(* cyc, the address and the data until it sees the acknowledgement, then   *)
(* lets go for at least one cycle.                                         *)
(***************************************************************************)
EXTENDS FastSerialWb, FtdiReceiver, FtdiSender, WishboneMaster

CONSTANTS
  TxPayload,      \* the bytes the program writes
  Accesses        \* the accesses the program makes: [addr, we, dat]

ASSUME SystemAssumption ==
  /\ TxPayload \subseteq Byte
  /\ Accesses \subseteq [addr : {RX_REG, TX_REG}, we : Bit, dat : Byte]
  /\ \A a \in Accesses : a.we = 1 => a.dat \in TxPayload

VARIABLES
  cur,            \* history: the byte tx_fastserial accepted last
  popping,        \* history: this access has popped the receive FIFO
  readBytes       \* history: the last byte read with RX_READY set, and a
                  \* parity that flips with each

historyVars == <<cur, popping, readBytes>>
vars == <<wbVars, ftdiRxVars, ftdiTxVars, masterVars, historyVars>>

AtRest == [addr |-> RX_REG, we |-> 0, dat |-> ZeroByte]

MasterTick ==
  \/ MasterRest
  \/ \E access \in Accesses : MasterStart(access)
  \/ MasterHold(wbAck)
  \/ MasterFinish(wbAck, AtRest)

\* What  if ((val = FASTSERIAL_RX_REG) & FASTSERIAL_STATUS_RX_READY)  lets by.
ReadsByte ==
  Finishing(wbAck) /\ we = 0 /\ addr = RX_REG /\ wbDat.status.rxReady = 1

Record ==
  /\ cur' = IF state = IDLE /\ busy = 0 /\ TxWriteFs THEN txFifoOut ELSE cur
  /\ popping' = (RxDataEnable(cyc, addr) \/ (popping /\ ~Finishing(wbAck)))
  /\ readBytes' = IF ReadsByte
                  THEN [data |-> wbDat.data, parity |-> 1 - readBytes.parity]
                  ELSE readBytes

Init ==
  /\ WbInit
  /\ FtdiRxInit
  /\ FtdiTxInit
  /\ MasterInit(AtRest)
  /\ cur = OnesByte
  /\ popping = FALSE
  /\ readBytes = [data |-> ZeroByte, parity |-> 0]

Next ==
  /\ WbTick(cyc, addr, we, dat, fsdo, fscts)
  /\ FtdiRxTick(RisingEdge, fsdi')
  /\ FtdiTxTick(RisingEdge, FallingEdge)
  /\ MasterTick
  /\ Record

FtdiAccepts == Next /\ ftdiRx = FDONE /\ ftdiRx' = Idle

(* i_clk runs forever; the chip does not hold FSCTS low forever.  Nothing is *)
(* asked of the processor.                                                   *)
Spec == Init /\ [][Next]_vars /\ WF_vars(Next) /\ SF_vars(FtdiAccepts)

-----------------------------------------------------------------------------
(* The type invariant. *)
TypeOK ==
  /\ WbTypeOK
  /\ FtdiRxTypeOK
  /\ FtdiTxTypeOK
  /\ cyc \in Bit /\ addr \in {RX_REG, TX_REG} /\ we \in Bit /\ dat \in Byte
  /\ cur \in Byte
  /\ popping \in BOOLEAN
  /\ readBytes \in [data : Byte, parity : Bit]

(* What the feeder saw still holds when it acts on it.  It finds the FIFO   *)
(* non-empty in one cycle and reads it in the next; it offers the byte for  *)
(* one cycle, two after it asked for busy, and never looks back: from the   *)
(* read to the offer the transmitter is free.  fastserial_wb.v:125,130,132. *)
FeederInStep ==
  /\ TxFifoRead => ~FifoEmpty(txFifo)
  /\ (TxFifoRead \/ TxWriteFs) => (state = IDLE /\ busy = 0)

\* What the transmitter, the clock and the chip hold, named as in the link on
\* its own, of which they are the parts.
TxLink == INSTANCE FastSerialTxLink WITH Payload <- Byte

TxInFlight ==
  TxLink!InFlight \o (IF TxWriteFs THEN <<txFifoOut>> ELSE << >>) \o txFifo

TxChannel == INSTANCE ByteChannel
  WITH inFlight <- TxInFlight, Payload <- TxPayload, Capacity <- FifoDepth + 2

(* Every byte that goes into the transmit FIFO reaches the host once, in    *)
(* order and unaltered, however the writes fall on the phases of FSCLK, of  *)
(* the feeder and of the frame on the wire.                                 *)
WritesReachHostInOrder == TxChannel!Spec

(* Every byte in the transmit FIFO reaches the host in the end. *)
EveryWriteReachesHost == TxChannel!Live

(* A write to TX_REG puts its byte into the FIFO once, in the cycle the     *)
(* access ends, unless the FIFO is full; nothing else puts a byte there.    *)
EachWriteOnce ==
  [][ LET pushed == Len(txFifo') + AsBit(TxFifoRead) - Len(txFifo)
      IN  pushed = AsBit(/\ cyc = 1 /\ cyc' = 0 /\ we = 1 /\ addr = TX_REG
                         /\ ~FifoFull(txFifo)) ]_vars

(* Every access is acknowledged, although a read of RX_REG is held until    *)
(* the receive FIFO is empty and bytes keep arriving.                       *)
EveryAccessEnds == (cyc = 1) ~> (cyc = 0)

RxWaiting == (IF popping THEN <<rxFifoOut>> ELSE << >>) \o rxFifo

RxRegister == INSTANCE OvertakingChannel
  WITH inFlight <- RxWaiting, received <- readBytes, Capacity <- FifoDepth + 1

(* A read of RX_REG with RX_READY set returns the newest byte received, one *)
(* without it has taken no byte: a byte is never read twice, out of order,  *)
(* altered, or lost unless a newer one was waiting.                         *)
ReadsReturnNewest == RxRegister!Spec

RxChannel == INSTANCE ByteChannel
  WITH inFlight <- RxWaiting, received <- readBytes, Capacity <- FifoDepth + 1

(* What a program that reads RX_REG once per byte relies on                 *)
(* (sw/exampleFastSerial/main.cpp:24,34): each read with RX_READY set       *)
(* returns the next byte of the stream, and none is skipped.                *)
ReadsReturnEveryByte == RxChannel!Spec

-----------------------------------------------------------------------------
(* The inductive invariants.                                                *)

\* An access on the bus is one the program makes.
AccessHeld == cyc = 1 => [addr |-> addr, we |-> we, dat |-> dat] \in Accesses

(* What a step of the writing side relies on and re-establishes. *)
WriteInv == TypeOK /\ TxLink!IInv /\ AccessHeld /\ FeederInStep

(* The receiver, the clock and the chip are the receive link on its own,    *)
(* which keeps a history of what was sent that nothing here needs.          *)
RxLink == INSTANCE FastSerialRxLink WITH sent <- << >>, received <- readBytes

\* A byte on the line, and one the FIFO is about to take, is one the host sent.
PayloadArrives ==
  /\ RxLink!Frame => \E byte \in Payload : RxLink!Carries(byte)
  /\ rxState \in {RX_DONE, CLEAN_UP} => rxData \in Payload

\* By the time a read of RX_REG is acknowledged, RX_READY tells whether this
\* access has popped a byte, and the data is that byte.
ReadyTellsPopped ==
  /\ popping => cyc = 1 /\ addr = RX_REG
  /\ (cyc = 1 /\ addr = RX_REG /\ wbAck = 0 /\ FifoEmpty(rxFifo)) =>
       (popping <=> status.rxReady = 1)
  /\ (cyc = 1 /\ addr = RX_REG /\ wbAck = 1) =>
       /\ popping <=> wbDat.status.rxReady = 1
       /\ popping => wbDat.data = rxFifoOut

(* What a step of the reading side relies on and re-establishes. *)
ReadInv ==
  /\ TypeOK /\ AccessHeld
  /\ RxLink!Lockstep /\ RxLink!Ready /\ PayloadArrives
  /\ ReadyTellsPopped
=============================================================================
