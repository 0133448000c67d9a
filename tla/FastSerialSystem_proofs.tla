---------------------- MODULE FastSerialSystem_proofs ----------------------
(***************************************************************************)
(* Theorems about FastSerialSystem, for every divider, FIFO depth, chip    *)
(* and set of accesses.  The two links are used through what is proved of  *)
(* them on their own: Tx and Rx below.                                     *)
(***************************************************************************)
EXTENDS FastSerialSystem, SequenceTheorems, TLAPS

Tx == INSTANCE FastSerialTxLink_proofs WITH Payload <- Byte
Rx == INSTANCE FastSerialRxLink_proofs WITH sent <- << >>, received <- readBytes

-----------------------------------------------------------------------------
(* The links' definitions are those used here, under other names.           *)

LEMMA SameBytes ==
  /\ Bit = Tx!Bit /\ Byte = Tx!Byte /\ ZeroByte = Tx!ZeroByte /\ OnesByte = Tx!OnesByte
  /\ Bit = Rx!Bit /\ Byte = Rx!Byte /\ ZeroByte = Rx!ZeroByte
  BY DEF Bit, Byte, ZeroByte, OnesByte, Tx!Bit, Tx!Byte, Tx!ZeroByte, Tx!OnesByte,
         Rx!Bit, Rx!Byte, Rx!ZeroByte

LEMMA SameClock ==
  /\ Half = Tx!Half /\ (ClockInit <=> Tx!ClockInit) /\ (ClockTick <=> Tx!ClockTick)
  /\ Fsclk = Tx!Fsclk /\ Fsclk' = Tx!Fsclk' /\ (RisingEdge <=> Tx!RisingEdge)
  BY DEF Half, Fsclk, ClockInit, ClockTick, RisingEdge,
         Tx!Half, Tx!Fsclk, Tx!ClockInit, Tx!ClockTick, Tx!RisingEdge

LEMMA SameTransmitter ==
  ASSUME NEW fsclk, NEW cts, NEW data, NEW write
  PROVE  TxTick(fsclk, cts, data, write) <=> Tx!TxTick(fsclk, cts, data, write)
  <1> USE DEF START, BIT_ZERO, BIT_SEVEN, BIT_DEST, DONE, IDLE, DEST_PORT,
              WaitCleared, Strobe, CtsAllows, ShiftIn, Synchronise, OnesByte,
              Tx!START, Tx!BIT_ZERO, Tx!BIT_SEVEN, Tx!BIT_DEST, Tx!DONE, Tx!IDLE,
              Tx!DEST_PORT, Tx!WaitCleared, Tx!Strobe, Tx!CtsAllows, Tx!ShiftIn,
              Tx!Synchronise, Tx!OnesByte
  <1>1. /\ TxAccept(data, write) <=> Tx!TxAccept(data, write)
        /\ TxIdle(fsclk, write) <=> Tx!TxIdle(fsclk, write)
    BY DEF TxAccept, TxIdle, Tx!TxAccept, Tx!TxIdle
  <1>2. /\ TxStart(fsclk) <=> Tx!TxStart(fsclk)
        /\ TxBit(fsclk) <=> Tx!TxBit(fsclk)
    BY DEF TxStart, TxBit, Tx!TxStart, Tx!TxBit
  <1>3. /\ TxDest(fsclk) <=> Tx!TxDest(fsclk)
        /\ TxDone(fsclk) <=> Tx!TxDone(fsclk)
        /\ TxHold(fsclk) <=> Tx!TxHold(fsclk)
    BY DEF TxDest, TxDone, TxHold, Tx!TxDest, Tx!TxDone, Tx!TxHold
  <1> QED
    BY <1>1, <1>2, <1>3 DEF TxTick, Tx!TxTick

LEMMA SameChip ==
  ASSUME NEW rising, NEW line
  PROVE  FtdiRxTick(rising, line) <=> Tx!FtdiRxTick(rising, line)
  BY DEF Idle, D0, D7, SRC, FDONE, ftdiRxVars, ZeroByte, FtdiRxTick, FtdiEdge, FtdiIdle,
         FtdiStart, FtdiData, FtdiSrc, FtdiStall, FtdiDone, FtdiQuiet,
         Tx!Idle, Tx!D0, Tx!D7, Tx!SRC, Tx!FDONE, Tx!ftdiRxVars, Tx!ZeroByte,
         Tx!FtdiRxTick, Tx!FtdiEdge, Tx!FtdiIdle, Tx!FtdiStart, Tx!FtdiData, Tx!FtdiSrc,
         Tx!FtdiStall, Tx!FtdiDone, Tx!FtdiQuiet

LEMMA SameInvariant == TxLink!IInv <=> Tx!IInv
  <1> USE DEF TxLink!START, TxLink!BIT_ZERO, TxLink!BIT_DEST, TxLink!DONE, TxLink!IDLE,
              TxLink!Idle, TxLink!D0, TxLink!FDONE, TxLink!Bit, TxLink!Byte, TxLink!Half,
              TxLink!Fsclk, TxLink!InFrame, TxLink!Sampled,
              Tx!START, Tx!BIT_ZERO, Tx!BIT_DEST, Tx!DONE, Tx!IDLE,
              Tx!Idle, Tx!D0, Tx!FDONE, Tx!Bit, Tx!Byte, Tx!Half,
              Tx!Fsclk, Tx!InFrame, Tx!Sampled
  <1>1. TxLink!TypeOK <=> Tx!TypeOK
    BY DEF TxLink!TypeOK, TxLink!TxTypeOK, TxLink!TxState, TxLink!FtdiRxTypeOK,
           TxLink!FtdiState, Tx!TypeOK, Tx!TxTypeOK, Tx!TxState, Tx!FtdiRxTypeOK, Tx!FtdiState
  <1>2. TxLink!LockStep <=> Tx!LockStep
    BY DEF TxLink!LockStep, Tx!LockStep
  <1>3. TxLink!CtsFollows <=> Tx!CtsFollows
    BY DEF TxLink!CtsFollows, Tx!CtsFollows
  <1>4. TxLink!RestsHigh <=> Tx!RestsHigh
    BY DEF TxLink!RestsHigh, Tx!RestsHigh
  <1>5. TxLink!BitsAccountedFor <=> Tx!BitsAccountedFor
    BY DEF TxLink!BitsAccountedFor, Tx!BitsAccountedFor
  <1> QED
    BY <1>1, <1>2, <1>3, <1>4, <1>5 DEF TxLink!IInv, Tx!IInv

LEMMA SameInFlight == TxLink!InFlight = Tx!InFlight
  BY DEF TxLink!InFlight, TxLink!InFrame, TxLink!SRC, TxLink!FDONE, TxLink!START,
         TxLink!BIT_ZERO, TxLink!DONE,
         Tx!InFlight, Tx!InFrame, Tx!SRC, Tx!FDONE, Tx!START, Tx!BIT_ZERO, Tx!DONE

LEMMA SameInFlightNext == TxLink!InFlight' = Tx!InFlight'
  BY DEF TxLink!InFlight, TxLink!InFrame, TxLink!SRC, TxLink!FDONE, TxLink!START,
         TxLink!BIT_ZERO, TxLink!DONE,
         Tx!InFlight, Tx!InFrame, Tx!SRC, Tx!FDONE, Tx!START, Tx!BIT_ZERO, Tx!DONE

-----------------------------------------------------------------------------
(* What a step of the system is to the transmit link.                       *)

LEMMA InitIsLinkInit == Init => Tx!Init
  BY SameClock
  DEF Init, WbInit, TxInit, FtdiRxInit, IDLE, Idle, PowerOnSync, OnesByte, ZeroByte,
      Tx!Init, Tx!TxInit, Tx!FtdiRxInit, Tx!IDLE, Tx!Idle, Tx!PowerOnSync,
      Tx!OnesByte, Tx!ZeroByte

(* fastserial_wb.v:86-96: the transmitter is offered the FIFO's output. *)
LEMMA NextIsLinkTick ==
  ASSUME Next
  PROVE  /\ AsBit(TxWriteFs) \in Bit
         /\ Tx!Tick(txFifoOut, AsBit(TxWriteFs))
  <1>1. AsBit(TxWriteFs) \in Bit /\ (AsBit(TxWriteFs) = 1 <=> TxWriteFs)
    BY DEF AsBit, Bit
  <1>2. /\ ClockTick
        /\ TxTick(Fsclk, fscts, txFifoOut, AsBit(TxWriteFs))
        /\ FtdiRxTick(RisingEdge, fsdi')
    BY DEF Next, WbTick
  <1>3. cur' = IF state = IDLE /\ AsBit(TxWriteFs) = 1 /\ busy = 0 THEN txFifoOut ELSE cur
    BY <1>1 DEF Next, Record
  <1>4. Tx!ClockTick /\ Fsclk = Tx!Fsclk
    BY <1>2, SameClock
  <1>5. Tx!TxTick(Fsclk, fscts, txFifoOut, AsBit(TxWriteFs))
    BY <1>2, SameTransmitter
  <1>6. Tx!FtdiRxTick(RisingEdge, fsdi')
    BY <1>2, SameChip
  <1>7. RisingEdge = Tx!RisingEdge
    BY DEF RisingEdge, Fsclk, Half, Tx!RisingEdge, Tx!Fsclk, Tx!Half
  <1> QED
    BY <1>1, <1>3, <1>4, <1>5, <1>6, <1>7 DEF Tx!Tick, Tx!Accepting, Tx!IDLE, IDLE

-----------------------------------------------------------------------------
(* What a step of the system is to the receive link.                        *)

LEMMA SameReceiver ==
  ASSUME NEW fsclk, NEW line
  PROVE  RxTick(fsclk, line) <=> Rx!RxTick(fsclk, line)
  <1> USE DEF WAIT_FOR_START_BIT, RX_BIT_ZERO, RX_BIT_SEVEN, RX_BIT_DEST, RX_DONE, CLEAN_UP,
              RxWaitCleared, RxStrobe, ShiftIn, Synchronise, ZeroByte,
              Rx!WAIT_FOR_START_BIT, Rx!RX_BIT_ZERO, Rx!RX_BIT_SEVEN, Rx!RX_BIT_DEST,
              Rx!RX_DONE, Rx!CLEAN_UP, Rx!RxWaitCleared, Rx!RxStrobe, Rx!ShiftIn,
              Rx!Synchronise, Rx!ZeroByte
  <1>1. /\ RxStartBit(fsclk) <=> Rx!RxStartBit(fsclk)
        /\ RxBit(fsclk) <=> Rx!RxBit(fsclk)
    BY DEF RxStartBit, RxBit, Rx!RxStartBit, Rx!RxBit
  <1>2. /\ RxDest(fsclk) <=> Rx!RxDest(fsclk)
        /\ RxDone(fsclk) <=> Rx!RxDone(fsclk)
    BY DEF RxDest, RxDone, Rx!RxDest, Rx!RxDone
  <1>3. /\ RxCleanUp(fsclk) <=> Rx!RxCleanUp(fsclk)
        /\ RxHold(fsclk) <=> Rx!RxHold(fsclk)
    BY DEF RxCleanUp, RxHold, Rx!RxCleanUp, Rx!RxHold
  <1> QED
    BY <1>1, <1>2, <1>3 DEF RxTick, Rx!RxTick

LEMMA SameSender ==
  ASSUME NEW rising, NEW falling
  PROVE  FtdiTxTick(rising, falling) <=> Rx!FtdiTxTick(rising, falling)
  <1> USE DEF Idle, D0, D7, SRC, Bit, ShiftIn, ftdiTxVars, FtdiPop,
              Rx!Idle, Rx!D0, Rx!D7, Rx!SRC, Rx!Bit, Rx!ShiftIn, Rx!ftdiTxVars, Rx!FtdiPop
  <1>1. /\ FtdiStartBit <=> Rx!FtdiStartBit
        /\ FtdiBit <=> Rx!FtdiBit
        /\ FtdiTxQuiet <=> Rx!FtdiTxQuiet
    BY DEF FtdiStartBit, FtdiBit, FtdiTxQuiet, Rx!FtdiStartBit, Rx!FtdiBit, Rx!FtdiTxQuiet
  <1>2. /\ TestBenchSrc <=> Rx!TestBenchSrc
        /\ DatasheetSrc <=> Rx!DatasheetSrc
        /\ DatasheetGap <=> Rx!DatasheetGap
    BY DEF TestBenchSrc, DatasheetSrc, DatasheetGap,
           Rx!TestBenchSrc, Rx!DatasheetSrc, Rx!DatasheetGap
  <1> QED
    BY <1>1, <1>2 DEF FtdiTxTick, TestBenchTick, DatasheetTick,
                      Rx!FtdiTxTick, Rx!TestBenchTick, Rx!DatasheetTick

LEMMA NextIsLines == Next => Rx!Lines
  <1> SUFFICES ASSUME Next PROVE Rx!Lines
    OBVIOUS
  <1> USE DEF Half, Fsclk, RisingEdge, FallingEdge, Rx!Half, Rx!Fsclk, Rx!RisingEdge,
              Rx!FallingEdge
  <1>1. Rx!ClockTick /\ Fsclk = Rx!Fsclk
    BY DEF Next, WbTick, ClockTick, Rx!ClockTick
  <1>2. Rx!RxTick(Fsclk, fsdo)
    BY SameReceiver DEF Next, WbTick
  <1>3. Rx!FtdiTxTick(RisingEdge, FallingEdge)
    BY SameSender DEF Next
  <1>4. RisingEdge = Rx!RisingEdge /\ FallingEdge = Rx!FallingEdge
    OBVIOUS
  <1> QED
    BY <1>1, <1>2, <1>3, <1>4 DEF Rx!Lines

-----------------------------------------------------------------------------
(* Types.                                                                   *)

LEMMA SameTypes ==
  /\ Tx!TypeOK <=> /\ counter \in 0..(FastSerialDivider - 1)
                   /\ TxTypeOK /\ FtdiRxTypeOK /\ cur \in Byte
  /\ Rx!LineTypes <=> /\ counter \in 0..(FastSerialDivider - 1)
                      /\ RxTypeOK /\ FtdiTxTypeOK
  <1> USE DEF Bit, Byte, Tx!Bit, Tx!Byte, Rx!Bit, Rx!Byte
  <1>1. TxTypeOK <=> Tx!TxTypeOK
    BY DEF TxTypeOK, TxState, START, BIT_ZERO, DONE, IDLE,
           Tx!TxTypeOK, Tx!TxState, Tx!START, Tx!BIT_ZERO, Tx!DONE, Tx!IDLE
  <1>2. FtdiRxTypeOK <=> Tx!FtdiRxTypeOK
    BY DEF FtdiRxTypeOK, FtdiState, Idle, D0, FDONE,
           Tx!FtdiRxTypeOK, Tx!FtdiState, Tx!Idle, Tx!D0, Tx!FDONE
  <1>3. RxTypeOK <=> Rx!RxTypeOK
    BY DEF RxTypeOK, WAIT_FOR_START_BIT, CLEAN_UP,
           Rx!RxTypeOK, Rx!WAIT_FOR_START_BIT, Rx!CLEAN_UP
  <1>4. FtdiTxTypeOK <=> Rx!FtdiTxTypeOK
    BY DEF FtdiTxTypeOK, Idle, D0, SRC, Rx!FtdiTxTypeOK, Rx!Idle, Rx!D0, Rx!SRC
  <1> QED
    BY <1>1, <1>2, <1>3, <1>4 DEF Tx!TypeOK, Rx!LineTypes

(* A FIFO that is written only when it has room and read only when it has a *)
(* byte never overflows, and its output is a byte it held.                  *)
LEMMA FifoStep ==
  ASSUME NEW queue \in Seq(Byte), Len(queue) <= FifoDepth, NEW out \in Byte,
         NEW wr \in BOOLEAN, NEW rd \in BOOLEAN, NEW data,
         wr => data \in Byte /\ ~FifoFull(queue),
         rd => ~FifoEmpty(queue)
  PROVE  /\ FifoNext(queue, wr, data, rd) \in Seq(Byte)
         /\ Len(FifoNext(queue, wr, data, rd)) = Len(queue) + AsBit(wr) - AsBit(rd)
         /\ Len(FifoNext(queue, wr, data, rd)) <= FifoDepth
         /\ FifoOut(queue, out, rd) \in Byte
  <1> DEFINE kept == IF rd THEN Tail(queue) ELSE queue
             pushed == IF wr THEN <<data>> ELSE << >>
  <1>1. kept \in Seq(Byte) /\ Len(kept) = Len(queue) - AsBit(rd)
    BY DEF FifoEmpty, AsBit
  <1>2. pushed \in Seq(Byte) /\ Len(pushed) = AsBit(wr)
    BY DEF AsBit
  <1>3. FifoNext(queue, wr, data, rd) = kept \o pushed
    BY DEF FifoNext
  <1> HIDE DEF kept, pushed
  <1>4. kept \o pushed \in Seq(Byte) /\ Len(kept \o pushed) = Len(kept) + Len(pushed)
    BY <1>1, <1>2
  <1>5. /\ FifoDepth \in Nat /\ Len(queue) \in Nat
        /\ wr => Len(queue) < FifoDepth
    BY DepthAssumption DEF FifoFull
  <1>6. Len(queue) + AsBit(wr) - AsBit(rd) <= FifoDepth
    BY <1>5 DEF AsBit
  <1>7. FifoOut(queue, out, rd) \in Byte
    BY DEF FifoOut, FifoEmpty
  <1>8. Len(kept) + Len(pushed) = Len(queue) + AsBit(wr) - AsBit(rd)
    BY <1>1, <1>2, <1>5 DEF AsBit
  <1> QED
    BY <1>3, <1>4, <1>6, <1>7, <1>8


LEMMA TypesPreserved ==
  ASSUME TypeOK, FeederInStep, Next
  PROVE  TypeOK'
  <1> USE DEF TypeOK, WbTypeOK
  <1>1. /\ counter' \in 0..(FastSerialDivider - 1)
        /\ TxTypeOK' /\ FtdiRxTypeOK' /\ cur' \in Byte
    <2>1. Tx!TypeOK
      BY SameTypes
    <2>2. Tx!Next
      BY NextIsLinkTick, SameBytes DEF Tx!Next
    <2>3. Tx!TypeOK'
      BY <2>1, <2>2, Tx!TypesPreserved, DividerAssumption, StallAssumption, SameBytes
    <2>4. (Tx!TypeOK <=> /\ counter \in 0..(FastSerialDivider - 1)
                         /\ TxTypeOK /\ FtdiRxTypeOK /\ cur \in Byte)'
      BY SameTypes, PTL
    <2> QED
      BY <2>3, <2>4
  <1>2. RxTypeOK' /\ FtdiTxTypeOK'
    <2>1. Rx!LineTypes /\ Rx!Lines
      BY SameTypes, NextIsLines
    <2>2. Rx!LineTypes'
      BY <2>1, Rx!LineTypesPreserved, DividerAssumption, PowerOnAssumption, SenderAssumption,
         SameBytes
    <2>3. (Rx!LineTypes <=> /\ counter \in 0..(FastSerialDivider - 1)
                            /\ RxTypeOK /\ FtdiTxTypeOK)'
      BY SameTypes, PTL
    <2> QED
      BY <2>2, <2>3
  <1>3. /\ rxFifo' \in Seq(Byte) /\ Len(rxFifo') <= FifoDepth /\ rxFifoOut' \in Byte
    <2>1. /\ rxFifo' = FifoNext(rxFifo, RxWriteFifo, rxData, RxDataEnable(cyc, addr))
          /\ rxFifoOut' = FifoOut(rxFifo, rxFifoOut, RxDataEnable(cyc, addr))
      BY DEF Next, WbTick, FifoTick
    <2>2. /\ RxWriteFifo \in BOOLEAN /\ RxDataEnable(cyc, addr) \in BOOLEAN
          /\ RxWriteFifo => rxData \in Byte /\ ~FifoFull(rxFifo)
          /\ RxDataEnable(cyc, addr) => ~FifoEmpty(rxFifo)
      BY DEF RxWriteFifo, RxDataEnable, RxTypeOK
    <2> QED
      BY <2>1, <2>2, FifoStep
  <1>4. /\ txFifo' \in Seq(Byte) /\ Len(txFifo') <= FifoDepth /\ txFifoOut' \in Byte
    <2>1. /\ txFifo' = FifoNext(txFifo, TxWriteFifo(cyc, addr, we), dat, TxFifoRead)
          /\ txFifoOut' = FifoOut(txFifo, txFifoOut, TxFifoRead)
      BY DEF Next, WbTick, FifoTick
    <2>2. /\ TxWriteFifo(cyc, addr, we) \in BOOLEAN /\ TxFifoRead \in BOOLEAN
          /\ TxWriteFifo(cyc, addr, we) => dat \in Byte /\ ~FifoFull(txFifo)
          /\ TxFifoRead => ~FifoEmpty(txFifo)
      BY DEF TxWriteFifo, TxFifoRead, FeederInStep
    <2> QED
      BY <2>1, <2>2, FifoStep
  <1>5. status' \in Status /\ wbAck' \in Bit /\ wbDat' \in [status : Status, data : Byte]
    <2>1. status' \in Status
      BY DEF Next, WbTick, StatusTick, Status, AsBit, Bit, TxTypeOK
    <2>2. wbAck' \in Bit
      BY DEF Next, WbTick, AckTick, AsBit, Bit
    <2>3. ZeroByte \in Byte
      BY DEF ZeroByte, Byte, Bit
    <2>4. wbDat' \in [status : Status, data : Byte]
      BY <2>3 DEF Next, WbTick, ReadTick
    <2> QED
      BY <2>1, <2>2, <2>4
  <1>6. txState' \in IDLE_txFIFO..DONE_txFIFO
    BY DEF Next, WbTick, FeederTick, IDLE_txFIFO, DONE_txFIFO
  <1>7. cyc' \in Bit /\ addr' \in {RX_REG, TX_REG} /\ we' \in Bit /\ dat' \in Byte
    <2> USE DEF MasterRest, MasterStart, MasterHold, MasterFinish, Drive, masterVars
    <2>1. CASE \E access \in Accesses : MasterStart(access)
      <3>1. PICK access \in Accesses : MasterStart(access)
        BY <2>1
      <3>2. access \in [addr : {RX_REG, TX_REG}, we : Bit, dat : Byte]
        BY SystemAssumption
      <3> QED
        BY <3>1, <3>2 DEF Bit
    <2>2. CASE MasterFinish(wbAck, AtRest)
      BY <2>2 DEF AtRest, Bit, Byte, ZeroByte
    <2>3. CASE MasterRest \/ MasterHold(wbAck)
      BY <2>3
    <2> QED
      BY <2>1, <2>2, <2>3 DEF Next, MasterTick
  <1>8. popping' \in BOOLEAN /\ readBytes' \in [data : Byte, parity : Bit]
    BY DEF Next, Record, RxDataEnable, Bit
  <1> QED
    BY <1>1, <1>2, <1>3, <1>4, <1>5, <1>6, <1>7, <1>8

-----------------------------------------------------------------------------
(* The writing side.                                                        *)

LEMMA AccessHeldPreserved == AccessHeld /\ Next => AccessHeld'
  <1> SUFFICES ASSUME AccessHeld, Next, cyc' = 1
               PROVE  [addr |-> addr', we |-> we', dat |-> dat'] \in Accesses
    BY DEF AccessHeld
  <1> USE DEF MasterRest, MasterStart, MasterHold, MasterFinish, Drive, masterVars
  <1>1. CASE \E access \in Accesses : MasterStart(access)
    <2>1. PICK access \in Accesses : MasterStart(access)
      BY <1>1
    <2>2. access = [addr |-> access.addr, we |-> access.we, dat |-> access.dat]
      BY SystemAssumption
    <2> QED
      BY <2>1, <2>2
  <1>2. CASE MasterRest \/ MasterHold(wbAck)
    BY <1>2 DEF AccessHeld
  <1> QED
    BY <1>1, <1>2 DEF Next, MasterTick

(* Nothing but the feeder makes the transmitter busy, and it does so when   *)
(* it offers the byte.                                                      *)
LEMMA FeederPreserved ==
  ASSUME TypeOK, TxLink!IInv, FeederInStep, Next
  PROVE  FeederInStep'
  <1> USE DEF FeederInStep, TxFifoRead, TxWriteFs, IDLE_txFIFO, READ_FIFO_txFIFO,
              WAIT_FIFO_txFIFO, DONE_txFIFO, FifoEmpty
  <1>1. txState \in 0..3 /\ txFifo \in Seq(Byte)
    BY DEF TypeOK, WbTypeOK
  <1>2. busy = IF state = IDLE THEN 0 ELSE 1
    BY DEF TxLink!IInv, TxLink!RestsHigh, TxLink!IDLE, IDLE
  <1>3. txState' = IF txState = 0 /\ ~(busy = 0 /\ txFifo # << >>) THEN 0 ELSE (txState + 1) % 4
    BY DEF Next, WbTick, FeederTick
  <1>4. (state = IDLE /\ ~TxWriteFs) => state' = IDLE /\ busy' = busy
    BY DEF Next, WbTick, TxTick, TxAccept, TxIdle, TxStart, TxBit, TxDest, TxDone, TxHold,
           IDLE, START, BIT_ZERO, BIT_SEVEN, BIT_DEST, DONE, AsBit
  <1>5. txState' = 1 => txState = 0 /\ busy = 0 /\ txFifo # << >>
    BY <1>1, <1>3
  <1>6. txState' = 2 => txState = 1
    BY <1>1, <1>3
  <1>7. (txFifo # << >> /\ ~TxFifoRead) => txFifo' # << >>
    <2>1. dat \in Byte
      BY DEF TypeOK
    <2>2. \/ txFifo' = (IF TxFifoRead THEN Tail(txFifo) ELSE txFifo) \o <<dat>>
          \/ txFifo' = (IF TxFifoRead THEN Tail(txFifo) ELSE txFifo) \o << >>
      BY DEF Next, WbTick, FifoTick, FifoNext
    <2>3. \A p, q \in Seq(Byte) : p # << >> => p \o q # << >>
      OBVIOUS
    <2>4. <<dat>> \in Seq(Byte) /\ << >> \in Seq(Byte)
      BY <2>1
    <2> QED
      BY <1>1, <2>2, <2>3, <2>4
  <1>8. TxFifoRead' => ~FifoEmpty(txFifo)'
    BY <1>5, <1>7
  <1>9. (TxFifoRead \/ TxWriteFs)' => state' = IDLE /\ busy' = 0
    BY <1>2, <1>4, <1>5, <1>6
  <1> QED
    BY <1>8, <1>9

LEMMA LinkPreserved ==
  ASSUME TypeOK, TxLink!IInv, Next
  PROVE  TxLink!IInv'
  <1>1. Tx!IInv
    BY SameInvariant
  <1>2. Tx!Next
    BY NextIsLinkTick, SameBytes DEF Tx!Next, TypeOK, WbTypeOK
  <1>3. Tx!IInv'
    BY <1>1, <1>2, Tx!StepPreservesIInv, DividerAssumption, StallAssumption, SameBytes
  <1>4. (TxLink!IInv <=> Tx!IInv)'
    BY SameInvariant, PTL
  <1> QED
    BY <1>3, <1>4

LEMMA InitialWriteInv == Init => WriteInv
  <1> SUFFICES ASSUME Init PROVE WriteInv
    OBVIOUS
  <1>1. TxLink!IInv
    <2>1. Tx!IInv
      BY InitIsLinkInit, Tx!InitialState, DividerAssumption, StallAssumption, SameBytes
    <2> QED
      BY <2>1, SameInvariant
  <1>2. TypeOK
    <2>1. counter \in 0..(FastSerialDivider - 1) /\ TxTypeOK /\ FtdiRxTypeOK /\ cur \in Byte
      <3>1. Tx!TypeOK
        BY <1>1, SameInvariant DEF Tx!IInv
      <3> QED
        BY <3>1, SameTypes
    <2>2. ZeroByte \in Byte
      BY DEF ZeroByte, Byte, Bit
    <2>3. RxTypeOK /\ FtdiTxTypeOK
      BY <2>2, PowerOnAssumption, SenderAssumption
      DEF Init, WbInit, RxInit, FtdiTxInit, RxTypeOK, FtdiTxTypeOK, PowerOnSync, Bit, Idle,
          WAIT_FOR_START_BIT, CLEAN_UP
    <2>4. /\ status \in Status /\ txState \in IDLE_txFIFO..DONE_txFIFO /\ wbAck \in Bit
          /\ wbDat \in [status : Status, data : Byte]
          /\ rxFifo = << >> /\ txFifo = << >> /\ rxFifoOut \in Byte /\ txFifoOut \in Byte
      BY PowerOnAssumption
      DEF Init, WbInit, Status, StatusZero, IDLE_txFIFO, DONE_txFIFO, Bit
    <2>5. /\ rxFifo \in Seq(Byte) /\ Len(rxFifo) <= FifoDepth
          /\ txFifo \in Seq(Byte) /\ Len(txFifo) <= FifoDepth
      BY <2>4, DepthAssumption
    <2>6. /\ cyc \in Bit /\ addr \in {RX_REG, TX_REG} /\ we \in Bit /\ dat \in Byte
          /\ popping \in BOOLEAN /\ readBytes \in [data : Byte, parity : Bit]
      BY <2>2 DEF Init, MasterInit, AtRest, Bit
    <2> QED
      BY <2>1, <2>3, <2>4, <2>5, <2>6 DEF TypeOK, WbTypeOK
  <1>3. AccessHeld
    BY DEF Init, MasterInit, AccessHeld
  <1>4. FeederInStep
    BY DEF Init, WbInit, FeederInStep, TxFifoRead, TxWriteFs, IDLE_txFIFO, READ_FIFO_txFIFO,
           WAIT_FIFO_txFIFO
  <1> QED
    BY <1>1, <1>2, <1>3, <1>4 DEF WriteInv

LEMMA WriteInvPreserved == WriteInv /\ [Next]_vars => WriteInv'
  <1> SUFFICES ASSUME WriteInv, [Next]_vars PROVE WriteInv'
    OBVIOUS
  <1>1. CASE Next
    BY <1>1, TypesPreserved, LinkPreserved, AccessHeldPreserved, FeederPreserved DEF WriteInv
  <1>2. CASE UNCHANGED vars
    <2> USE <1>2 DEF vars, wbVars, txVars, rxVars, busVars, fifoVars, ftdiRxVars, ftdiTxVars,
                     masterVars, historyVars
    <2>1. TypeOK'
      BY DEF WriteInv, TypeOK, WbTypeOK, TxTypeOK, RxTypeOK, FtdiRxTypeOK, FtdiTxTypeOK
    <2>2. TxLink!IInv'
      <3>1. UNCHANGED Tx!vars
        BY DEF Tx!vars, Tx!txVars, Tx!ftdiRxVars
      <3>2. Tx!IInv
        BY SameInvariant DEF WriteInv
      <3>3. Tx!IInv'
        BY <3>1, <3>2, Tx!StepPreservesIInv, DividerAssumption, StallAssumption, SameBytes
      <3>4. (TxLink!IInv <=> Tx!IInv)'
        BY SameInvariant, PTL
      <3> QED
        BY <3>3, <3>4
    <2>3. AccessHeld' /\ FeederInStep'
      BY DEF WriteInv, AccessHeld, FeederInStep, TxFifoRead, TxWriteFs, FifoEmpty
    <2> QED
      BY <2>1, <2>2, <2>3 DEF WriteInv
  <1> QED
    BY <1>1, <1>2

(* The transmit link's own invariant, the feeder's and the processor's part  *)
(* of the bus, together, in every state of the peripheral.                   *)
THEOREM WriteInvariance == Spec => []WriteInv
  BY InitialWriteInv, WriteInvPreserved, PTL DEF Spec

(* Every register keeps its width and neither FIFO ever holds more than its  *)
(* depth, though the core guards against nothing (fastserial_wb.v:88-137).   *)
THEOREM TypeCorrect == Spec => []TypeOK
  <1>1. WriteInv => TypeOK
    BY DEF WriteInv
  <1> QED
    BY <1>1, WriteInvariance, PTL

(* fastserial_wb.v:125,130,132: the feeder never reads an empty FIFO and     *)
(* never offers a byte to a transmitter that would not take it.              *)
THEOREM FeederStaysInStep == Spec => []FeederInStep
  <1>1. WriteInv => FeederInStep
    BY DEF WriteInv
  <1> QED
    BY <1>1, WriteInvariance, PTL

-----------------------------------------------------------------------------
(* The transmit FIFO and the bytes under way to the host.                   *)

Pushed == IF TxWriteFifo(cyc, addr, we) THEN <<dat>> ELSE << >>
Offered == IF TxWriteFs THEN <<txFifoOut>> ELSE << >>

(* A byte is written in the last cycle of its access: the acknowledgement   *)
(* that TxWriteFifo waits for is what ends it.                              *)
LEMMA PushAtTheEnd ==
  ASSUME TypeOK, Next
  PROVE  TxWriteFifo(cyc, addr, we) <=>
           cyc = 1 /\ cyc' = 0 /\ we = 1 /\ addr = TX_REG /\ ~FifoFull(txFifo)
  <1>1. wbAck \in Bit
    BY DEF TypeOK, WbTypeOK
  <1>2. cyc = 1 => (cyc' = 0 <=> wbAck = 1)
    BY <1>1, SystemAssumption
    DEF Bit, Next, MasterTick, MasterRest, MasterStart, MasterHold, MasterFinish, Finishing,
        masterVars
  <1> QED
    BY <1>2 DEF TxWriteFifo

LEMMA PushLength ==
  ASSUME TypeOK, FeederInStep, Next
  PROVE  Len(txFifo') =
           Len(txFifo) + AsBit(TxWriteFifo(cyc, addr, we)) - AsBit(TxFifoRead)
  <1>1. /\ txFifo' = FifoNext(txFifo, TxWriteFifo(cyc, addr, we), dat, TxFifoRead)
        /\ TxWriteFifo(cyc, addr, we) \in BOOLEAN /\ TxFifoRead \in BOOLEAN
        /\ TxWriteFifo(cyc, addr, we) => dat \in Byte /\ ~FifoFull(txFifo)
        /\ TxFifoRead => ~FifoEmpty(txFifo)
    BY DEF Next, WbTick, FifoTick, TxWriteFifo, TxFifoRead, FeederInStep, TypeOK
  <1>2. txFifo \in Seq(Byte) /\ Len(txFifo) <= FifoDepth /\ txFifoOut \in Byte
    BY DEF TypeOK, WbTypeOK
  <1> QED
    BY <1>1, <1>2, FifoStep

(* fastserial_wb.v:92 (tx_write_fifo): one write access, one byte in the    *)
(* FIFO, and no byte in it from anything else.                              *)
THEOREM WritesPushOnce == Spec => EachWriteOnce
  <1> DEFINE length == Len(txFifo') + AsBit(TxFifoRead) - Len(txFifo)
             writes == /\ cyc = 1 /\ cyc' = 0 /\ we = 1 /\ addr = TX_REG
                       /\ ~FifoFull(txFifo)
  <1>1. WriteInv /\ [Next]_vars => [length = AsBit(writes)]_vars
    <2> SUFFICES ASSUME WriteInv, Next PROVE length = AsBit(writes)
      OBVIOUS
    <2>1. TxWriteFifo(cyc, addr, we) <=> writes
      BY PushAtTheEnd DEF WriteInv
    <2>2. Len(txFifo') =
            Len(txFifo) + AsBit(TxWriteFifo(cyc, addr, we)) - AsBit(TxFifoRead)
      BY PushLength DEF WriteInv
    <2>3. Len(txFifo) \in Nat
      BY DEF WriteInv, TypeOK, WbTypeOK
    <2> QED
      BY <2>1, <2>2, <2>3 DEF AsBit
  <1> QED
    BY <1>1, WriteInvariance, PTL DEF Spec, EachWriteOnce

(* Taking the head of a queue and putting it back in front changes nothing. *)
LEMMA HeadFirst ==
  ASSUME NEW queue \in Seq(Byte), queue # << >>, NEW pushed \in Seq(Byte)
  PROVE  <<Head(queue)>> \o (Tail(queue) \o pushed) = queue \o pushed
  <1>1. Head(queue) \in Byte /\ Tail(queue) \in Seq(Byte) /\ <<Head(queue)>> \in Seq(Byte)
    BY HeadTailProperties
  <1>2. <<Head(queue)>> \o Tail(queue) = queue
    <2>1. /\ <<Head(queue)>> \o Tail(queue) \in Seq(Byte)
          /\ Len(<<Head(queue)>> \o Tail(queue)) = Len(queue)
      BY <1>1, ConcatProperties, HeadTailProperties, LenProperties
    <2>2. \A i \in 1..Len(queue) : (<<Head(queue)>> \o Tail(queue))[i] = queue[i]
      BY <1>1, HeadTailProperties, LenProperties
    <2> QED
      BY <2>1, <2>2, SeqEqual
  <1> QED
    BY <1>1, <1>2, ConcatAssociative

LEMMA ConcatTail ==
  ASSUME NEW p \in Seq(Byte), NEW q \in Seq(Byte), p # << >>
  PROVE  /\ p \o q # << >> /\ Head(p \o q) = Head(p)
         /\ Tail(p \o q) = Tail(p) \o q
  <1>1. /\ p \o q \in Seq(Byte) /\ Len(p \o q) = Len(p) + Len(q)
        /\ Len(p) \in Nat /\ Len(p) >= 1 /\ Len(q) \in Nat
    BY ConcatProperties, EmptySeq, LenProperties
  <1>2. p \o q # << >> /\ Head(p \o q) = Head(p)
    BY <1>1
  <1>3. /\ Tail(p) \in Seq(Byte) /\ Len(Tail(p)) = Len(p) - 1
        /\ Tail(p \o q) \in Seq(Byte) /\ Len(Tail(p \o q)) = Len(p) + Len(q) - 1
    BY <1>1, <1>2, HeadTailProperties
  <1>4. Tail(p) \o q \in Seq(Byte) /\ Len(Tail(p) \o q) = Len(p) + Len(q) - 1
    BY <1>1, <1>3, ConcatProperties
  <1>5. \A i \in 1..(Len(p) + Len(q) - 1) : Tail(p \o q)[i] = (Tail(p) \o q)[i]
    BY <1>1, <1>2, <1>3
  <1> QED
    BY <1>2, <1>3, <1>4, <1>5, SeqEqual

(* From the FIFO's output to the offer to the transmitter, and the byte     *)
(* written at the other end: nothing is lost between the two.               *)
LEMMA FeederMoves ==
  ASSUME TypeOK, FeederInStep, Next
  PROVE  /\ Pushed \in Seq(Byte) /\ Offered \in Seq(Byte) /\ txFifo' \in Seq(Byte)
         /\ Offered' \in Seq(Byte)
         /\ Offered' \o txFifo' = txFifo \o Pushed
  <1>1. /\ dat \in Byte /\ txFifoOut \in Byte /\ txFifo \in Seq(Byte)
        /\ Pushed \in Seq(Byte) /\ Offered \in Seq(Byte)
    BY DEF TypeOK, WbTypeOK, Pushed, Offered
  <1>2. /\ txFifo' = (IF TxFifoRead THEN Tail(txFifo) ELSE txFifo) \o Pushed
        /\ txFifoOut' = IF TxFifoRead THEN Head(txFifo) ELSE txFifoOut
    BY DEF Next, WbTick, FifoTick, FifoNext, FifoOut, Pushed
  <1>3. TxWriteFs' <=> TxFifoRead
    BY DEF Next, WbTick, FeederTick, TxWriteFs, TxFifoRead, IDLE_txFIFO, READ_FIFO_txFIFO,
           WAIT_FIFO_txFIFO, DONE_txFIFO, TypeOK, WbTypeOK
  <1>4. CASE TxFifoRead
    <2>1. txFifo # << >>
      BY <1>4 DEF FeederInStep, FifoEmpty
    <2>2. Head(txFifo) \in Byte /\ Tail(txFifo) \o Pushed \in Seq(Byte)
      BY <1>1, <2>1, HeadTailProperties, ConcatProperties
    <2>3. /\ Offered' = <<Head(txFifo)>>
          /\ txFifo' = Tail(txFifo) \o Pushed
      BY <1>2, <1>3, <1>4 DEF Offered
    <2> QED
      BY <1>1, <2>1, <2>2, <2>3, HeadFirst
  <1>5. CASE ~TxFifoRead
    <2>1. Offered' = << >> /\ txFifo' = txFifo \o Pushed
      BY <1>2, <1>3, <1>5 DEF Offered
    <2>2. txFifo \o Pushed \in Seq(Byte) /\ << >> \in Seq(Byte)
      BY <1>1, ConcatProperties, EmptySeq
    <2> QED
      BY <1>1, <2>1, <2>2, ConcatEmptySeq
  <1> QED
    BY <1>4, <1>5

(* The transmitter takes every byte it is offered, and the link under it    *)
(* hands its oldest byte over or not.                                       *)
LEMMA LinkMoves ==
  ASSUME WriteInv, Next
  PROVE  /\ TxLink!InFlight \in Seq(Byte)
         /\ Len(TxLink!InFlight) + Len(Offered) <= 2
         /\ \/ /\ received' = received
               /\ TxLink!InFlight' = TxLink!InFlight \o Offered
            \/ /\ TxLink!InFlight # << >>
               /\ received' = [data |-> Head(TxLink!InFlight),
                               parity |-> 1 - received.parity]
               /\ TxLink!InFlight' = Tail(TxLink!InFlight) \o Offered
  <1> DEFINE write == AsBit(TxWriteFs)
  <1>1. /\ Tx!IInv /\ write \in Tx!Bit /\ txFifoOut \in Byte
        /\ Tx!Tick(txFifoOut, write)
    BY SameInvariant, SameBytes, NextIsLinkTick DEF WriteInv, TypeOK, WbTypeOK
  <1>2. Tx!Effect(txFifoOut, write)
    BY <1>1, Tx!StepEffect, DividerAssumption, StallAssumption, SameBytes
  <1>3. Tx!InFlight \in Seq(Tx!Byte) /\ Len(Tx!InFlight) <= 2
    BY <1>1, Tx!InFlightType, DividerAssumption, StallAssumption, SameBytes
  <1>4. Tx!Accepting(write) <=> TxWriteFs
    BY DEF Tx!Accepting, Tx!IDLE, IDLE, WriteInv, FeederInStep, AsBit
  <1>5. Tx!Taken(txFifoOut, write) = Offered
    BY <1>4 DEF Tx!Taken, Offered
  <1>6. TxLink!InFlight = Tx!InFlight /\ TxLink!InFlight' = Tx!InFlight'
    BY SameInFlight, SameInFlightNext
  <1>7. Len(TxLink!InFlight) + Len(Offered) <= 2
    <2>1. Len(TxLink!InFlight) \in Nat
      BY <1>3, <1>6
    <2>2. Len(Offered) = AsBit(TxWriteFs)
      BY DEF Offered, AsBit
    <2>3. TxWriteFs => Len(TxLink!InFlight) <= 1
      BY <1>2, <1>4, <1>6 DEF Tx!Effect
    <2> QED
      BY <1>3, <1>6, <2>1, <2>2, <2>3 DEF AsBit
  <1> QED
    BY <1>2, <1>3, <1>5, <1>6, <1>7, SameBytes DEF Tx!Effect

LEMMA Associative ==
  ASSUME NEW p \in Seq(Byte), NEW q \in Seq(Byte), NEW r \in Seq(Byte)
  PROVE  /\ p \o q \in Seq(Byte) /\ Len(p \o q) = Len(p) + Len(q)
         /\ (p \o q) \o r \in Seq(Byte)
         /\ (p \o q) \o r = p \o (q \o r)
  BY ConcatAssociative, ConcatProperties

LEMMA WayMoves ==
  ASSUME WriteInv, Next
  PROVE  /\ TxInFlight \in Seq(Byte)
         /\ Len(TxInFlight) <= 2 + Len(txFifo)
         /\ \/ received' = received /\ TxInFlight' = TxInFlight \o Pushed
            \/ /\ TxInFlight # << >>
               /\ received' = [data |-> Head(TxInFlight), parity |-> 1 - received.parity]
               /\ TxInFlight' = Tail(TxInFlight) \o Pushed
  <1> DEFINE link == TxLink!InFlight
  <1>1. /\ Pushed \in Seq(Byte) /\ Offered \in Seq(Byte) /\ txFifo' \in Seq(Byte)
        /\ Offered' \in Seq(Byte)
        /\ Offered' \o txFifo' = txFifo \o Pushed
        /\ txFifo \in Seq(Byte) /\ link \in Seq(Byte)
    BY FeederMoves, LinkMoves DEF WriteInv, TypeOK, WbTypeOK
  <1>2. /\ Len(link) + Len(Offered) <= 2
        /\ \/ received' = received /\ link' = link \o Offered
           \/ /\ link # << >> /\ link' = Tail(link) \o Offered
              /\ received' = [data |-> Head(link), parity |-> 1 - received.parity]
    BY LinkMoves
  <1>3. link' \in Seq(Byte)
    <2>1. link \o Offered \in Seq(Byte)
      BY <1>1, ConcatProperties
    <2>2. link # << >> => Tail(link) \o Offered \in Seq(Byte)
      BY <1>1, ConcatProperties, HeadTailProperties
    <2> QED
      BY <1>2, <2>1, <2>2
  <1>4. /\ TxInFlight = (link \o Offered) \o txFifo
        /\ TxInFlight' = (link' \o Offered') \o txFifo'
    BY DEF TxInFlight, Offered
  <1> HIDE DEF link
  <1>5. TxInFlight' = link' \o (txFifo \o Pushed)
    <2>1. (link' \o Offered') \o txFifo' = link' \o (Offered' \o txFifo')
      BY <1>1, <1>3, Associative
    <2> QED
      BY <1>1, <1>4, <2>1
  <1>6. /\ TxInFlight \in Seq(Byte) /\ Len(TxInFlight) <= 2 + Len(txFifo)
        /\ link \o Offered \in Seq(Byte)
    <2>1. /\ (link \o Offered) \o txFifo \in Seq(Byte)
          /\ link \o Offered \in Seq(Byte)
          /\ Len(link \o Offered) = Len(link) + Len(Offered)
      BY <1>1, Associative
    <2>2. Len((link \o Offered) \o txFifo) = Len(link \o Offered) + Len(txFifo)
      BY <1>1, <2>1, Associative
    <2>3. Len(link) \in Nat /\ Len(Offered) \in Nat /\ Len(txFifo) \in Nat
      BY <1>1, LenProperties
    <2> QED
      BY <1>2, <1>4, <2>1, <2>2, <2>3
  <1>7. CASE received' = received /\ link' = link \o Offered
    <2>1. link' \o (txFifo \o Pushed) = (link' \o txFifo) \o Pushed
      BY <1>1, <1>3, Associative
    <2>2. TxInFlight = link' \o txFifo
      BY <1>4, <1>7
    <2> QED
      BY <1>5, <1>6, <1>7, <2>1, <2>2
  <1>8. CASE /\ link # << >> /\ link' = Tail(link) \o Offered
             /\ received' = [data |-> Head(link), parity |-> 1 - received.parity]
    <2>1. /\ link \o Offered # << >> /\ Head(link \o Offered) = Head(link)
          /\ Tail(link \o Offered) = Tail(link) \o Offered
      BY <1>1, <1>8, ConcatTail
    <2>2. /\ (link \o Offered) \o txFifo # << >>
          /\ Head((link \o Offered) \o txFifo) = Head(link \o Offered)
          /\ Tail((link \o Offered) \o txFifo) = Tail(link \o Offered) \o txFifo
      BY <1>1, <1>6, <2>1, ConcatTail
    <2>3. link' \o (txFifo \o Pushed) = (link' \o txFifo) \o Pushed
      BY <1>1, <1>3, Associative
    <2>4. TxInFlight # << >> /\ Head(TxInFlight) = Head(link)
      BY <1>4, <2>1, <2>2
    <2>5. TxInFlight' = Tail(TxInFlight) \o Pushed
      BY <1>4, <1>5, <1>8, <2>1, <2>2, <2>3
    <2> QED
      BY <1>6, <1>8, <2>4, <2>5
  <1> QED
    BY <1>2, <1>6, <1>7, <1>8

(* From a write to TX_REG to the host: a step of the FIFO, the feeder, the  *)
(* transmitter and the chip is a step of a first-in first-out channel that  *)
(* holds as much as the FIFO and two bytes more (fastserial_wb.v:86-137).   *)
THEOREM WritesReachHost == Spec => WritesReachHostInOrder
  <1> USE DEF TxChannel!Next, TxChannel!Accept, TxChannel!Deliver, TxChannel!Exchange,
              TxChannel!HandOver, TxChannel!vars
  <1>1. Init => TxChannel!Init
    BY DEF Init, WbInit, TxInit, FtdiRxInit, TxChannel!Init, TxInFlight, TxLink!InFlight,
           TxLink!InFrame, TxLink!SRC, TxLink!FDONE, TxLink!START, TxLink!BIT_ZERO,
           TxLink!DONE, IDLE, Idle, TxWriteFs, IDLE_txFIFO, WAIT_FIFO_txFIFO
  <1>2. WriteInv /\ [Next]_vars => [TxChannel!Next]_(TxChannel!vars)
    <2> SUFFICES ASSUME WriteInv, [Next]_vars PROVE [TxChannel!Next]_(TxChannel!vars)
      OBVIOUS
    <2>1. CASE UNCHANGED vars
      BY <2>1 DEF vars, wbVars, txVars, fifoVars, ftdiRxVars, historyVars, TxInFlight,
                  TxLink!InFlight, TxLink!InFrame, TxWriteFs
    <2>2. CASE Next /\ ~TxWriteFifo(cyc, addr, we)
      <3>1. Pushed = << >>
        BY <2>2 DEF Pushed
      <3>2. /\ TxInFlight \o << >> = TxInFlight
            /\ TxInFlight # << >> => Tail(TxInFlight) \o << >> = Tail(TxInFlight)
        BY <2>2, WayMoves, ConcatEmptySeq, HeadTailProperties
      <3> QED
        BY <2>2, <3>1, <3>2, WayMoves
    <2>3. CASE Next /\ TxWriteFifo(cyc, addr, we)
      <3>1. Pushed = <<dat>> /\ dat \in TxPayload /\ dat \in Byte
        BY <2>3, SystemAssumption DEF Pushed, TxWriteFifo, WriteInv, AccessHeld
      <3>2. /\ TxInFlight \o <<dat>> = Append(TxInFlight, dat)
            /\ TxInFlight # << >> => Tail(TxInFlight) \o <<dat>> = Append(Tail(TxInFlight), dat)
        BY <2>3, <3>1, WayMoves, AppendIsConcat, HeadTailProperties
      <3>3. Len(TxInFlight) < FifoDepth + 2
        <4>1. Len(txFifo) < FifoDepth /\ Len(txFifo) \in Nat /\ FifoDepth \in Nat
          BY <2>3, DepthAssumption DEF TxWriteFifo, FifoFull, WriteInv, TypeOK, WbTypeOK
        <4>2. Len(TxInFlight) <= 2 + Len(txFifo) /\ Len(TxInFlight) \in Nat
          BY <2>3, WayMoves, LenProperties
        <4> QED
          BY <4>1, <4>2
      <3> QED
        BY <2>3, <3>1, <3>2, <3>3, WayMoves
    <2> QED
      BY <2>1, <2>2, <2>3
  <1> QED
    BY <1>1, <1>2, WriteInvariance, PTL DEF Spec, WritesReachHostInOrder, TxChannel!Spec

-----------------------------------------------------------------------------
(* The reading side.                                                        *)

(* rx_data_enable_fifo does not look at i_wb_we: a write to RX_REG pops a   *)
(* byte that nobody gets.  No program of the repository writes there.       *)
OnlyReadsRxReg == \A access \in Accesses : access.addr = RX_REG => access.we = 0

LEMMA SameReceiving ==
  /\ RxLink!Lockstep <=> Rx!Lockstep
  /\ RxLink!Ready <=> Rx!Ready
  /\ RxLink!Frame <=> Rx!Frame
  /\ \A byte : RxLink!Carries(byte) <=> Rx!Carries(byte)
  <1> USE DEF RxLink!Idle, RxLink!D0, RxLink!SRC, RxLink!Half, RxLink!Fsclk,
              RxLink!WAIT_FOR_START_BIT, RxLink!RX_BIT_ZERO, RxLink!RX_BIT_DEST,
              RxLink!RX_DONE, RxLink!CLEAN_UP, RxLink!HalfPulse,
              Rx!Idle, Rx!D0, Rx!SRC, Rx!Half, Rx!Fsclk,
              Rx!WAIT_FOR_START_BIT, Rx!RX_BIT_ZERO, Rx!RX_BIT_DEST,
              Rx!RX_DONE, Rx!CLEAN_UP, Rx!HalfPulse
  <1>1. RxLink!Synchronised <=> Rx!Synchronised
    BY DEF RxLink!Synchronised, Rx!Synchronised
  <1>2. RxLink!OneStrobe <=> Rx!OneStrobe
    BY DEF RxLink!OneStrobe, Rx!OneStrobe
  <1>3. RxLink!InStep <=> Rx!InStep
    BY DEF RxLink!InStep, Rx!InStep
  <1>4. RxLink!StartBits <=> Rx!StartBits
    BY DEF RxLink!StartBits, Rx!StartBits
  <1>5. RxLink!OneByte <=> Rx!OneByte
    BY DEF RxLink!OneByte, Rx!OneByte
  <1>6. RxLink!Ready <=> Rx!Ready
    BY DEF RxLink!Ready, Rx!Ready
  <1>7. RxLink!Frame <=> Rx!Frame
    BY DEF RxLink!Frame, Rx!Frame
  <1>8. \A byte : RxLink!Carries(byte) <=> Rx!Carries(byte)
    BY DEF RxLink!Carries, Rx!Carries
  <1> QED
    BY <1>1, <1>2, <1>3, <1>4, <1>5, <1>6, <1>7, <1>8 DEF RxLink!Lockstep, Rx!Lockstep

LEMMA SameReceivingNext ==
  /\ RxLink!Lockstep' <=> Rx!Lockstep'
  /\ RxLink!Ready' <=> Rx!Ready'
  /\ RxLink!Frame' <=> Rx!Frame'
  /\ \A byte : RxLink!Carries(byte)' <=> Rx!Carries(byte)'
  <1>1. (/\ RxLink!Lockstep <=> Rx!Lockstep
         /\ RxLink!Ready <=> Rx!Ready
         /\ RxLink!Frame <=> Rx!Frame)'
    BY SameReceiving, PTL
  <1>2. \A byte : RxLink!Carries(byte)' <=> Rx!Carries(byte)'
    BY DEF RxLink!Carries, RxLink!Idle, RxLink!D0, RxLink!RX_BIT_ZERO, RxLink!RX_BIT_DEST,
           Rx!Carries, Rx!Idle, Rx!D0, Rx!RX_BIT_ZERO, Rx!RX_BIT_DEST
  <1> QED
    BY <1>1, <1>2

(* rx_fastserial.v inside the peripheral: the receive link's invariant, and *)
(* only bytes the host sent.                                                *)
LEMMA ReceivingPreserved ==
  ASSUME Rx!Settles, TypeOK, RxLink!Lockstep, RxLink!Ready, PayloadArrives, Next
  PROVE  RxLink!Lockstep' /\ RxLink!Ready' /\ PayloadArrives'
  <1>1. Rx!LineTypes /\ Rx!Lines /\ Rx!Lockstep /\ Rx!Ready
    BY SameTypes, NextIsLines, SameReceiving DEF TypeOK, WbTypeOK
  <1>2. Rx!Lockstep' /\ Rx!Ready'
    BY <1>1, Rx!LockstepPreserved, Rx!ReadyPreserved, DividerAssumption, PowerOnAssumption,
       SenderAssumption, SameBytes
  <1>3. Rx!Frame' => \E byte \in Payload : Rx!Carries(byte)'
    <2>1. CASE Rx!ChipStarts
      <3>1. /\ Head(txData) \in Payload
            /\ \A byte : byte = Head(txData) => Rx!Carries(byte)'
        BY <1>1, <2>1, Rx!FrameStarts, DividerAssumption, PowerOnAssumption,
           SenderAssumption, SameBytes
      <3> QED
        BY <3>1
    <2>2. CASE ~Rx!ChipStarts /\ Rx!Frame'
      <3>1. Rx!Frame /\ \A byte \in Rx!Byte : Rx!Carries(byte) => Rx!Carries(byte)'
        BY <1>1, <2>2, Rx!FrameGoesOn, DividerAssumption, PowerOnAssumption,
           SenderAssumption, SameBytes
      <3>2. PICK byte \in Payload : Rx!Carries(byte)
        BY <3>1, SameReceiving DEF PayloadArrives
      <3>3. byte \in Rx!Byte
        BY SenderAssumption, SameBytes
      <3> QED
        BY <3>1, <3>2, <3>3
    <2> QED
      BY <2>1, <2>2
  <1>4. rxState' \in {RX_DONE, CLEAN_UP} => rxData' \in Payload
    <2> SUFFICES ASSUME rxState' \in {RX_DONE, CLEAN_UP} PROVE rxData' \in Payload
      OBVIOUS
    <2>1. rxState' \in {Rx!RX_DONE, Rx!CLEAN_UP}
      BY DEF RX_DONE, CLEAN_UP, Rx!RX_DONE, Rx!CLEAN_UP
    <2>2. \/ rxState = Rx!RX_DONE /\ rxData' = rxData
          \/ /\ rxState = Rx!RX_BIT_DEST /\ ftdiTx = Rx!Idle
             /\ \A byte \in Rx!Byte : Rx!Carries(byte) => rxData' = byte
      BY <1>1, <2>1, Rx!FrameEnds, DividerAssumption, PowerOnAssumption, SenderAssumption,
         SameBytes
    <2>3. CASE rxState = Rx!RX_DONE /\ rxData' = rxData
      BY <2>3 DEF PayloadArrives, RX_DONE, Rx!RX_DONE
    <2>4. CASE /\ rxState = Rx!RX_BIT_DEST
               /\ \A byte \in Rx!Byte : Rx!Carries(byte) => rxData' = byte
      <3>1. RxLink!Frame
        BY <2>4 DEF RxLink!Frame, RxLink!RX_BIT_ZERO, RxLink!RX_BIT_DEST, Rx!RX_BIT_DEST
      <3>2. PICK byte \in Payload : Rx!Carries(byte)
        BY <3>1, SameReceiving DEF PayloadArrives
      <3>3. byte \in Rx!Byte
        BY SenderAssumption, SameBytes
      <3> QED
        BY <2>4, <3>2, <3>3
    <2> QED
      BY <2>2, <2>3, <2>4
  <1>5. PayloadArrives'
    BY <1>3, <1>4, SameReceivingNext DEF PayloadArrives
  <1> QED
    BY <1>2, <1>5, SameReceivingNext

(* One clock of an access to RX_REG, of the acknowledgement and of the      *)
(* receive FIFO (fastserial_wb.v:88,90,139-190).                            *)
LEMMA BusMoves ==
  ASSUME OnlyReadsRxReg, TypeOK, AccessHeld, Next
  PROVE  LET pop == RxDataEnable(cyc, addr) IN
         /\ cyc = 1 /\ addr = RX_REG => we = 0
         /\ cyc = 0 => wbAck' = 0 /\ ~pop
         /\ cyc = 1 /\ wbAck = 0 =>
              /\ cyc' = 1 /\ addr' = addr
              /\ wbAck' = IF pop THEN 0 ELSE 1
         /\ cyc = 1 /\ wbAck = 1 => cyc' = 0 /\ ~pop
         /\ pop => rxFifo # << >> /\ cyc = 1 /\ wbAck = 0 /\ addr = RX_REG
         /\ cyc = 1 /\ wbAck = 0 /\ addr = RX_REG /\ rxFifo # << >> => pop
         /\ cyc = 1 /\ addr = RX_REG /\ wbAck = 0 =>
              wbDat' = [status |-> status, data |-> rxFifoOut]
         /\ status'.rxReady = IF rxFifo = << >> THEN 0 ELSE 1
         /\ popping' <=> (pop \/ (popping /\ ~(cyc = 1 /\ wbAck = 1)))
         /\ readBytes' = IF /\ cyc = 1 /\ wbAck = 1 /\ addr = RX_REG
                            /\ wbDat.status.rxReady = 1
                         THEN [data |-> wbDat.data, parity |-> 1 - readBytes.parity]
                         ELSE readBytes
         /\ rxFifoOut' = IF pop THEN Head(rxFifo) ELSE rxFifoOut
  <1>1. cyc = 1 /\ addr = RX_REG => we = 0
    BY DEF AccessHeld, OnlyReadsRxReg
  <1>2. cyc \in {0, 1} /\ wbAck \in {0, 1}
    BY DEF TypeOK, WbTypeOK, Bit
  <1>3. /\ cyc = 1 /\ wbAck = 0 => cyc' = 1 /\ addr' = addr
        /\ cyc = 1 /\ wbAck = 1 => cyc' = 0
    BY DEF Next, MasterTick, MasterRest, MasterStart, MasterHold, MasterFinish, Finishing,
           masterVars
  <1>4. wbAck' = IF RxDataEnable(cyc, addr) THEN wbAck
                 ELSE IF cyc = 1 /\ wbAck = 0 THEN 1 ELSE 0
    BY DEF Next, WbTick, AckTick, AsBit
  <1>5. RxDataEnable(cyc, addr) <=> rxFifo # << >> /\ cyc = 1 /\ wbAck = 0 /\ addr = RX_REG
    BY DEF RxDataEnable, FifoEmpty
  <1>6. /\ cyc = 1 /\ addr = RX_REG /\ wbAck = 0 =>
             wbDat' = [status |-> status, data |-> rxFifoOut]
        /\ rxFifoOut' = IF RxDataEnable(cyc, addr) THEN Head(rxFifo) ELSE rxFifoOut
        /\ status'.rxReady = IF rxFifo = << >> THEN 0 ELSE 1
    BY <1>1 DEF Next, WbTick, ReadTick, FifoTick, FifoOut, StatusTick, AsBit, FifoEmpty
  <1>7. /\ popping' <=> (RxDataEnable(cyc, addr) \/ (popping /\ ~(cyc = 1 /\ wbAck = 1)))
        /\ readBytes' = IF /\ cyc = 1 /\ wbAck = 1 /\ addr = RX_REG
                           /\ wbDat.status.rxReady = 1
                        THEN [data |-> wbDat.data, parity |-> 1 - readBytes.parity]
                        ELSE readBytes
    BY <1>1 DEF Next, Record, ReadsByte, Finishing
  <1> QED
    BY <1>1, <1>2, <1>3, <1>4, <1>5, <1>6, <1>7

RxPushed == IF RxWriteFifo THEN <<rxData>> ELSE << >>

LEMMA RxFifoMoves ==
  ASSUME TypeOK, Next
  PROVE  /\ rxFifo \in Seq(Byte) /\ RxPushed \in Seq(Byte)
         /\ rxFifo' = (IF RxDataEnable(cyc, addr) THEN Tail(rxFifo) ELSE rxFifo) \o RxPushed
         /\ rxFifo' = << >> /\ ~RxDataEnable(cyc, addr) => rxFifo = << >>
  <1>1. rxFifo \in Seq(Byte) /\ RxPushed \in Seq(Byte)
    BY DEF TypeOK, WbTypeOK, RxTypeOK, RxPushed
  <1>2. rxFifo' = (IF RxDataEnable(cyc, addr) THEN Tail(rxFifo) ELSE rxFifo) \o RxPushed
    BY DEF Next, WbTick, FifoTick, FifoNext, RxPushed
  <1>3. rxFifo # << >> => rxFifo \o RxPushed # << >>
    BY <1>1, ConcatTail
  <1> QED
    BY <1>1, <1>2, <1>3

(* The acknowledgement is withheld while a byte is popped, and the status   *)
(* is a cycle old: both are counted on by the program that reads RX_READY.  *)
LEMMA ReadyPreserved ==
  ASSUME OnlyReadsRxReg, TypeOK, AccessHeld, ReadyTellsPopped, Next
  PROVE  ReadyTellsPopped'
  <1> DEFINE pop == RxDataEnable(cyc, addr)
  <1>1. /\ cyc \in {0, 1} /\ wbAck \in {0, 1} /\ popping \in BOOLEAN
        /\ wbAck' \in {0, 1} /\ cyc' \in {0, 1} /\ pop \in BOOLEAN
    <2>1. wbAck' \in {0, 1}
      BY DEF Next, WbTick, AckTick, AsBit, TypeOK, WbTypeOK, Bit
    <2>2. cyc' \in {0, 1}
      BY DEF Next, MasterTick, MasterRest, MasterStart, MasterHold, MasterFinish, masterVars,
             TypeOK, Bit
    <2> QED
      BY <2>1, <2>2 DEF TypeOK, WbTypeOK, Bit, RxDataEnable
  <1>2. popping' => cyc' = 1 /\ addr' = RX_REG
    BY <1>1, BusMoves DEF ReadyTellsPopped
  <1>3. (cyc' = 1 /\ addr' = RX_REG /\ wbAck' = 0 /\ rxFifo' = << >>) =>
          (popping' <=> status'.rxReady = 1)
    <2> SUFFICES ASSUME cyc' = 1, addr' = RX_REG, wbAck' = 0, rxFifo' = << >>
                 PROVE  popping' <=> status'.rxReady = 1
      OBVIOUS
    <2>1. CASE pop
      BY <2>1, BusMoves
    <2>2. CASE ~pop
      <3>1. cyc = 0
        <4>1. cyc = 1 /\ wbAck = 0 => wbAck' = 1
          BY <2>2, BusMoves
        <4>2. cyc = 1 /\ wbAck = 1 => cyc' = 0
          BY BusMoves
        <4> QED
          BY <1>1, <4>1, <4>2
      <3>2. ~popping' /\ rxFifo = << >>
        <4>1. ~popping
          BY <3>1 DEF ReadyTellsPopped
        <4> QED
          BY <2>2, <4>1, BusMoves, RxFifoMoves
      <3> QED
        BY <3>2, BusMoves
    <2> QED
      BY <2>1, <2>2
  <1>4. (cyc' = 1 /\ addr' = RX_REG /\ wbAck' = 1) =>
          /\ popping' <=> wbDat'.status.rxReady = 1
          /\ popping' => wbDat'.data = rxFifoOut'
    <2> SUFFICES ASSUME cyc' = 1, addr' = RX_REG, wbAck' = 1
                 PROVE  /\ popping' <=> wbDat'.status.rxReady = 1
                        /\ popping' => wbDat'.data = rxFifoOut'
      OBVIOUS
    <2>1. cyc = 1 /\ wbAck = 0 /\ addr = RX_REG /\ ~pop
      <3>1. cyc = 1
        BY <1>1, BusMoves
      <3>2. wbAck = 0
        BY <1>1, <3>1, BusMoves
      <3> QED
        BY <3>1, <3>2, BusMoves
    <2>2. rxFifo = << >>
      BY <2>1, BusMoves
    <2>3. popping <=> status.rxReady = 1
      BY <2>1, <2>2 DEF ReadyTellsPopped, FifoEmpty
    <2>4. /\ popping' <=> popping
          /\ wbDat' = [status |-> status, data |-> rxFifoOut] /\ rxFifoOut' = rxFifoOut
      BY <2>1, BusMoves
    <2> QED
      BY <2>3, <2>4
  <1> QED
    BY <1>2, <1>3, <1>4 DEF ReadyTellsPopped, FifoEmpty

LEMMA InitialReadInv ==
  ASSUME Rx!Settles, Init
  PROVE  ReadInv
  <1>1. TypeOK /\ AccessHeld
    BY InitialWriteInv DEF WriteInv
  <1>2. counter = 0 /\ FastSerialDivider \in Nat /\ FastSerialDivider >= 4
    BY DividerAssumption DEF Init, WbInit, ClockInit, Rx!Settles
  <1>3. /\ ftdiTx = 0 /\ fsdo = 1 /\ txData \in HostQueue /\ peer \in Peers
        /\ rxState = 0 /\ rxReady = 0 /\ rxWaitClk = 0
    BY DEF Init, WbInit, RxInit, FtdiTxInit, Idle, WAIT_FOR_START_BIT
  <1>4. RxLink!Lockstep
    <2>1. peer = "testbench" => Len(txData) <= 1
      BY <1>3 DEF Rx!Settles
    <2> QED
      BY <1>2, <1>3, <2>1
      DEF RxLink!Lockstep, RxLink!Synchronised, RxLink!OneStrobe, RxLink!InStep,
          RxLink!StartBits, RxLink!OneByte, RxLink!HalfPulse, RxLink!Half, RxLink!Idle,
          RxLink!D0, RxLink!SRC, RxLink!WAIT_FOR_START_BIT, RxLink!RX_BIT_DEST, RxLink!CLEAN_UP
  <1>5. RxLink!Ready
    BY <1>3 DEF RxLink!Ready, RxLink!CLEAN_UP
  <1>6. PayloadArrives
    BY <1>3 DEF PayloadArrives, RxLink!Frame, RxLink!Idle, RxLink!RX_BIT_ZERO,
                RxLink!RX_BIT_DEST, RX_DONE, CLEAN_UP
  <1>7. ReadyTellsPopped
    BY DEF Init, MasterInit, ReadyTellsPopped
  <1> QED
    BY <1>1, <1>4, <1>5, <1>6, <1>7 DEF ReadInv

LEMMA ReadInvPreserved ==
  ASSUME Rx!Settles, OnlyReadsRxReg, WriteInv, ReadInv, [Next]_vars
  PROVE  ReadInv'
  <1>1. TypeOK' /\ AccessHeld'
    BY WriteInvPreserved DEF WriteInv
  <1>2. CASE Next
    BY <1>1, <1>2, ReceivingPreserved, ReadyPreserved DEF ReadInv
  <1>3. CASE UNCHANGED vars
    <2> USE <1>3 DEF vars, wbVars, rxVars, busVars, fifoVars, ftdiTxVars, masterVars,
                     historyVars
    <2>1. RxLink!Lockstep' /\ RxLink!Ready'
      BY DEF ReadInv, RxLink!Lockstep, RxLink!Synchronised, RxLink!OneStrobe, RxLink!InStep,
             RxLink!StartBits, RxLink!OneByte, RxLink!HalfPulse, RxLink!Ready
    <2>2. PayloadArrives'
      BY DEF ReadInv, PayloadArrives, RxLink!Frame, RxLink!Carries
    <2>3. ReadyTellsPopped'
      BY DEF ReadInv, ReadyTellsPopped, FifoEmpty
    <2> QED
      BY <1>1, <2>1, <2>2, <2>3 DEF ReadInv
  <1> QED
    BY <1>2, <1>3

(* The receiver stays in step with the chip, only what the host sent goes   *)
(* into the FIFO, and RX_READY in the answer to a read of RX_REG says       *)
(* whether that read took a byte (fastserial_wb.v:88,90,139-190).           *)
THEOREM ReadInvariance == Rx!Settles /\ OnlyReadsRxReg /\ Spec => []ReadInv
  <1>1. Rx!Settles /\ Init => ReadInv
    BY InitialReadInv
  <1>2. Rx!Settles /\ OnlyReadsRxReg /\ WriteInv /\ ReadInv /\ [Next]_vars => ReadInv'
    BY ReadInvPreserved
  <1>3. (Rx!Settles => []Rx!Settles) /\ (OnlyReadsRxReg => []OnlyReadsRxReg)
    OBVIOUS
  <1> QED
    BY <1>1, <1>2, <1>3, WriteInvariance, PTL DEF Spec

(* The byte popped for the access on the bus, then the FIFO: one clock.     *)
LEMMA WaitingMoves ==
  ASSUME OnlyReadsRxReg, ReadInv, Next
  PROVE  /\ RxWaiting \in Seq(Byte)
         /\ Len(RxWaiting) = Len(rxFifo) + (IF popping THEN 1 ELSE 0)
         /\ \/ readBytes' = readBytes /\ RxWaiting' = RxWaiting \o RxPushed
            \/ /\ Len(RxWaiting) >= 2
               /\ readBytes' = readBytes /\ RxWaiting' = Tail(RxWaiting) \o RxPushed
            \/ /\ RxWaiting # << >>
               /\ readBytes' = [data |-> Head(RxWaiting), parity |-> 1 - readBytes.parity]
               /\ RxWaiting' = Tail(RxWaiting) \o RxPushed
  <1> DEFINE pop == RxDataEnable(cyc, addr)
             head == IF popping THEN <<rxFifoOut>> ELSE << >>
  <1>1. /\ rxFifo \in Seq(Byte) /\ RxPushed \in Seq(Byte) /\ rxFifoOut \in Byte
        /\ popping \in BOOLEAN /\ cyc \in {0, 1} /\ wbAck \in {0, 1} /\ pop \in BOOLEAN
    BY RxFifoMoves DEF ReadInv, TypeOK, WbTypeOK, Bit, RxDataEnable
  <1>2. head \in Seq(Byte) /\ Len(head) = IF popping THEN 1 ELSE 0
    BY <1>1
  <1>3. /\ RxWaiting \in Seq(Byte)
        /\ Len(RxWaiting) = Len(rxFifo) + (IF popping THEN 1 ELSE 0)
    <2>1. /\ head \o rxFifo \in Seq(Byte) /\ Len(head \o rxFifo) = Len(head) + Len(rxFifo)
          /\ Len(rxFifo) \in Nat
      BY <1>1, <1>2, ConcatProperties, LenProperties
    <2> QED
      BY <1>2, <2>1 DEF RxWaiting
  <1>4. popping => /\ RxWaiting = <<rxFifoOut>> \o rxFifo /\ RxWaiting # << >>
                   /\ Head(RxWaiting) = rxFifoOut /\ Tail(RxWaiting) = rxFifo
    <2>1. /\ <<rxFifoOut>> \in Seq(Byte) /\ <<rxFifoOut>> # << >>
          /\ Head(<<rxFifoOut>>) = rxFifoOut /\ Tail(<<rxFifoOut>>) = << >>
      BY <1>1
    <2>2. /\ <<rxFifoOut>> \o rxFifo # << >> /\ Head(<<rxFifoOut>> \o rxFifo) = rxFifoOut
          /\ Tail(<<rxFifoOut>> \o rxFifo) = << >> \o rxFifo
      BY <1>1, <2>1, ConcatTail
    <2>3. << >> \o rxFifo = rxFifo
      BY <1>1, ConcatEmptySeq
    <2> QED
      BY <2>2, <2>3 DEF RxWaiting
  <1>5. ~popping => RxWaiting = rxFifo
    BY <1>1, ConcatEmptySeq DEF RxWaiting
  <1>6. CASE pop
    <2>1. rxFifo # << >> /\ popping' /\ rxFifoOut' = Head(rxFifo)
      BY <1>6, BusMoves DEF ReadInv
    <2>2. rxFifo' = Tail(rxFifo) \o RxPushed
      BY <1>6, RxFifoMoves DEF ReadInv
    <2>3. RxWaiting' = rxFifo \o RxPushed
      <3>1. RxWaiting' = <<Head(rxFifo)>> \o (Tail(rxFifo) \o RxPushed)
        BY <2>1, <2>2 DEF RxWaiting
      <3> QED
        BY <1>1, <2>1, <3>1, HeadFirst
    <2>4. readBytes' = readBytes
      <3>1. cyc = 1 /\ wbAck = 0
        BY <1>6, BusMoves DEF ReadInv
      <3> QED
        BY <3>1, BusMoves DEF ReadInv
    <2>5. popping => Len(RxWaiting) >= 2
      <3>1. Len(rxFifo) \in Nat \ {0}
        BY <1>1, <2>1, EmptySeq
      <3> QED
        BY <1>3, <3>1
    <2> QED
      BY <1>1, <1>3, <1>4, <1>5, <2>3, <2>4, <2>5
  <1>7. CASE ~pop /\ cyc = 1 /\ wbAck = 1
    <2>1. /\ ~popping' /\ rxFifo' = rxFifo \o RxPushed
          /\ readBytes' = IF addr = RX_REG /\ wbDat.status.rxReady = 1
                          THEN [data |-> wbDat.data, parity |-> 1 - readBytes.parity]
                          ELSE readBytes
      BY <1>7, BusMoves, RxFifoMoves DEF ReadInv
    <2>2. RxWaiting' = rxFifo \o RxPushed
      <3>1. RxWaiting' = << >> \o (rxFifo \o RxPushed)
        BY <2>1 DEF RxWaiting
      <3>2. rxFifo \o RxPushed \in Seq(Byte)
        BY <1>1, ConcatProperties
      <3> QED
        BY <3>1, <3>2, ConcatEmptySeq
    <2>3. popping <=> addr = RX_REG /\ wbDat.status.rxReady = 1
      BY <1>7 DEF ReadInv, ReadyTellsPopped
    <2>4. popping => wbDat.data = rxFifoOut
      BY <1>7, <2>3 DEF ReadInv, ReadyTellsPopped
    <2>5. CASE popping
      BY <1>3, <1>4, <2>1, <2>2, <2>3, <2>4, <2>5
    <2>6. CASE ~popping
      BY <1>3, <1>5, <2>1, <2>2, <2>3, <2>6
    <2> QED
      BY <1>1, <2>5, <2>6
  <1>8. CASE ~pop /\ ~(cyc = 1 /\ wbAck = 1)
    <2>1. /\ popping' <=> popping
          /\ rxFifo' = rxFifo \o RxPushed /\ rxFifoOut' = rxFifoOut
          /\ readBytes' = readBytes
      BY <1>8, BusMoves, RxFifoMoves DEF ReadInv
    <2>2. head' = head
      BY <1>1, <2>1
    <2>3. RxWaiting' = head \o (rxFifo \o RxPushed)
      BY <2>1, <2>2 DEF RxWaiting
    <2>4. (head \o rxFifo) \o RxPushed = head \o (rxFifo \o RxPushed)
      <3>1. ASSUME NEW h \in Seq(Byte)
            PROVE  (h \o rxFifo) \o RxPushed = h \o (rxFifo \o RxPushed)
        BY <1>1, Associative
      <3> HIDE DEF head
      <3> QED
        BY <1>2, <3>1
    <2> QED
      BY <1>3, <2>1, <2>3, <2>4 DEF RxWaiting
  <1> QED
    BY <1>1, <1>6, <1>7, <1>8

(* fastserial_wb.v:88,90,139-190: the receive register is a channel that    *)
(* may lose an old byte to a newer one and nothing else, for every depth    *)
(* of the FIFO, every chip and every timing of the accesses.                *)
THEOREM ReadsKeepOrder == Rx!Settles /\ OnlyReadsRxReg /\ Spec => ReadsReturnNewest
  <1> USE DEF RxRegister!Next, RxRegister!Accept, RxRegister!Deliver, RxRegister!Exchange,
              RxRegister!Overtake, RxRegister!OvertakeAndAccept, RxRegister!HandOver,
              RxRegister!vars
  <1>1. Init => RxRegister!Init
    BY DEF Init, WbInit, RxRegister!Init, RxWaiting
  <1>2. OnlyReadsRxReg /\ ReadInv /\ [Next]_vars => [RxRegister!Next]_(RxRegister!vars)
    <2> SUFFICES ASSUME OnlyReadsRxReg, ReadInv, [Next]_vars
                 PROVE  [RxRegister!Next]_(RxRegister!vars)
      OBVIOUS
    <2>1. CASE UNCHANGED vars
      BY <2>1 DEF vars, wbVars, fifoVars, historyVars, RxWaiting
    <2>2. CASE Next /\ ~RxWriteFifo
      <3>1. RxPushed = << >>
        BY <2>2 DEF RxPushed
      <3>2. /\ RxWaiting \o << >> = RxWaiting
            /\ RxWaiting # << >> => Tail(RxWaiting) \o << >> = Tail(RxWaiting)
        BY <2>2, WaitingMoves, ConcatEmptySeq, HeadTailProperties
      <3>3. Len(RxWaiting) >= 2 => RxWaiting # << >>
        OBVIOUS
      <3> QED
        BY <2>2, <3>1, <3>2, <3>3, WaitingMoves
    <2>3. CASE Next /\ RxWriteFifo
      <3>1. RxPushed = <<rxData>> /\ rxData \in Payload /\ rxData \in Byte
        <4>1. rxState = CLEAN_UP
          BY <2>3 DEF RxWriteFifo, ReadInv, RxLink!Ready, RxLink!CLEAN_UP, CLEAN_UP
        <4> QED
          BY <2>3, <4>1, SenderAssumption DEF RxPushed, ReadInv, PayloadArrives
      <3>2. /\ RxWaiting \o <<rxData>> = Append(RxWaiting, rxData)
            /\ RxWaiting # << >> =>
                 Tail(RxWaiting) \o <<rxData>> = Append(Tail(RxWaiting), rxData)
        BY <2>3, <3>1, WaitingMoves, AppendIsConcat, HeadTailProperties
      <3>3. Len(RxWaiting) < FifoDepth + 1
        <4>1. Len(rxFifo) < FifoDepth /\ Len(rxFifo) \in Nat /\ FifoDepth \in Nat
          BY <2>3, DepthAssumption DEF RxWriteFifo, FifoFull, ReadInv, TypeOK, WbTypeOK
        <4>2. Len(RxWaiting) = Len(rxFifo) + (IF popping THEN 1 ELSE 0)
          BY <2>3, WaitingMoves
        <4> QED
          BY <4>1, <4>2
      <3>4. Len(RxWaiting) >= 2 => RxWaiting # << >>
        OBVIOUS
      <3> QED
        BY <2>3, <3>1, <3>2, <3>3, <3>4, WaitingMoves
    <2> QED
      BY <2>1, <2>2, <2>3
  <1>3. OnlyReadsRxReg => []OnlyReadsRxReg
    OBVIOUS
  <1> QED
    BY <1>1, <1>2, <1>3, ReadInvariance, PTL DEF Spec, ReadsReturnNewest, RxRegister!Spec
=============================================================================
