---------------------- MODULE FastSerialRxLink_proofs ----------------------
(***************************************************************************)
(* Theorems about FastSerialRxLink, for every set of bytes the host may    *)
(* send and every divider large enough for the two-flip-flop synchroniser. *)
(***************************************************************************)
EXTENDS FastSerialRxLink, SequenceTheorems, TLAPS

(* What the receiver needs.  The two cycles of the synchroniser must fit    *)
(* into the low phase of FSCLK, hence 4, the default of                     *)
(* clock_fastserial.v:5; the start bit of the test bench lasts only the     *)
(* high phase and must be seen in it, hence 5 (quadsoc.v:20 has 8).  The    *)
(* test bench starts with one byte and sends no other                       *)
(* (tb/quadsoc_tb.cpp:77-79).                                               *)
Settles ==
  /\ FastSerialDivider >= 4
  /\ "testbench" \in Peers =>
       FastSerialDivider >= 5 /\ \A q \in HostQueue : Len(q) <= 1

-----------------------------------------------------------------------------
(* Lemmas about the operators.                                              *)

(* One step of the divider: a falling edge, a rising edge, or neither.      *)
LEMMA ClockPhases ==
  ASSUME FastSerialDivider >= 4, counter \in 0..(FastSerialDivider - 1), ClockTick
  PROVE  /\ Half \in Nat /\ 2 <= Half /\ Half + 2 <= FastSerialDivider
         /\ counter' \in 0..(FastSerialDivider - 1)
         /\ Fsclk = (IF counter < Half THEN 0 ELSE 1)
         /\ \/ /\ counter = FastSerialDivider - 1 /\ counter' = 0
               /\ FallingEdge /\ ~RisingEdge
            \/ /\ counter = Half - 1 /\ counter' = Half
               /\ RisingEdge /\ ~FallingEdge
            \/ /\ counter # Half - 1 /\ counter # FastSerialDivider - 1
               /\ counter' = counter + 1
               /\ ~RisingEdge /\ ~FallingEdge
  <1>1. /\ counter \in Nat /\ Half \in Nat /\ FastSerialDivider \in Nat
        /\ counter < FastSerialDivider
        /\ 2 <= Half /\ Half + 2 <= FastSerialDivider
    BY DividerAssumption DEF Half
  <1>2. CASE counter = FastSerialDivider - 1
    <2>1. counter' = 0
      BY <1>1, <1>2 DEF ClockTick
    <2> QED
      BY <1>1, <1>2, <2>1 DEF Fsclk, RisingEdge, FallingEdge
  <1>3. CASE counter # FastSerialDivider - 1
    <2>1. counter' = counter + 1 /\ counter + 1 < FastSerialDivider
      BY <1>1, <1>3 DEF ClockTick
    <2> QED
      BY <1>1, <1>3, <2>1 DEF Fsclk, RisingEdge, FallingEdge
  <1> QED
    BY <1>2, <1>3

LEMMA ZeroIsByte == ZeroByte \in Byte
  BY DEF ZeroByte, Byte, Bit

LEMMA ShiftInByte ==
  ASSUME NEW byte \in Byte, NEW bit \in Bit
  PROVE  /\ ShiftIn(bit, byte) \in Byte
         /\ byte[0] \in Bit
         /\ \A i \in 0..6 : ShiftIn(bit, byte)[i] = byte[i + 1]
         /\ ShiftIn(bit, byte)[7] = bit
  <1>1. byte[0] \in Bit
    BY DEF Byte
  <1>2. \A i \in 0..7 : (IF i = 7 THEN bit ELSE byte[i + 1]) \in Bit
    BY DEF Byte
  <1> QED
    BY <1>1, <1>2 DEF ShiftIn, Byte

-----------------------------------------------------------------------------
(* What a step does to the control of the two machines, the data left out.  *)

High == counter >= Half

(* The receiver's moves, by the phase of the clock. *)
RxStarts == /\ rxState = 0 /\ qFsdo[1] = 0 /\ High /\ rxWaitClk = 0
            /\ rxState' = 1 /\ rxWaitClk' = 1
            /\ UNCHANGED <<rxData, rxReady>>
RxAdvances == /\ rxState \in 1..9 /\ High /\ rxWaitClk = 0
              /\ rxState' = rxState + 1 /\ rxWaitClk' = 1
              /\ rxData' = (IF rxState = 9 THEN rxData ELSE ShiftIn(qFsdo[1], rxData))
              /\ UNCHANGED rxReady
RxEnds == /\ \/ rxState = 10 /\ rxState' = 11 /\ rxReady' = 1 /\ rxData' = rxData
             \/ rxState = 11 /\ rxState' = 0 /\ rxReady' = 0 /\ rxData' = ZeroByte
          /\ rxWaitClk' = IF High THEN rxWaitClk ELSE 0
RxStays == /\ rxState \in 0..9 /\ rxState' = rxState
           /\ ~(High /\ rxWaitClk = 0) \/ (rxState = 0 /\ qFsdo[1] # 0)
           /\ rxWaitClk' = IF High THEN rxWaitClk ELSE 0
           /\ UNCHANGED <<rxData, rxReady>>
RxMoves == RxStarts \/ RxAdvances \/ RxEnds \/ RxStays

LEMMA RxSteps ==
  ASSUME NEW line, NEW fsclk, fsclk = (IF High THEN 1 ELSE 0), RxTick(fsclk, line)
  PROVE  qFsdo'[0] = line /\ qFsdo'[1] = qFsdo[0] /\ RxMoves
  <1> USE DEF WAIT_FOR_START_BIT, RX_BIT_ZERO, RX_BIT_SEVEN, RX_BIT_DEST, RX_DONE,
              CLEAN_UP, RxStrobe, RxWaitCleared, RxMoves
  <1>1. qFsdo'[0] = line /\ qFsdo'[1] = qFsdo[0]
    BY DEF RxTick, Synchronise
  <1>a. CASE RxStartBit(fsclk)
    BY <1>1, <1>a DEF RxStartBit, RxStarts
  <1>b. CASE RxBit(fsclk)
    BY <1>1, <1>b DEF RxBit, RxAdvances
  <1>c. CASE RxDest(fsclk)
    BY <1>1, <1>c DEF RxDest, RxAdvances
  <1>d. CASE RxDone(fsclk)
    BY <1>1, <1>d DEF RxDone, RxEnds
  <1>e. CASE RxCleanUp(fsclk)
    BY <1>1, <1>e DEF RxCleanUp, RxEnds
  <1>f. CASE RxHold(fsclk)
    BY <1>1, <1>f DEF RxHold, RxStays
  <1> QED
    BY <1>a, <1>b, <1>c, <1>d, <1>e, <1>f DEF RxTick

(* The chip's moves. *)
ChipStays == UNCHANGED <<ftdiTx, ftdiTxByte, txData, fsdo>>
ChipStarts == /\ ftdiTx = 0 /\ txData # << >>
              /\ ftdiTx' = 2 /\ fsdo' = 0 /\ ftdiTxByte' = Head(txData)
              /\ FtdiPop
ChipShifts == /\ ftdiTx \in 2..9 /\ ftdiTx' = ftdiTx + 1
              /\ fsdo' = ftdiTxByte[0] /\ ftdiTxByte' = ShiftIn(0, ftdiTxByte)
              /\ txData' = txData
ChipEnds == /\ ftdiTx = 10 /\ ftdiTx' = 0
            /\ fsdo' \in Bit /\ (peer = "testbench" => fsdo' = 1)
            /\ UNCHANGED <<ftdiTxByte, txData>>
ChipRests == /\ peer = "datasheet"
             /\ ftdiTx = 0 /\ ftdiTx' = 0 /\ fsdo' = 1
             /\ UNCHANGED <<ftdiTxByte, txData>>

ChipOnRise == ChipStays \/ (peer = "testbench" /\ ChipStarts)
ChipOnFall ==
  \/ peer = "testbench" /\ ftdiTx = 0 /\ ChipStays
  \/ peer = "datasheet" /\ ChipStarts
  \/ ChipShifts \/ ChipEnds \/ ChipRests

(* The chip moves on an edge; which one it starts on tells the two apart.   *)
LEMMA ChipSteps ==
  ASSUME NEW rising, NEW falling, FtdiTxTick(rising, falling)
  PROVE  /\ peer' = peer
         /\ (~rising /\ ~falling) => ChipStays
         /\ (rising /\ ~falling) => ChipOnRise
         /\ (falling /\ ~rising) => ChipOnFall
  <1> USE DEF Idle, D0, D7, SRC, Bit, ChipStays, ChipStarts, ChipShifts, ChipEnds,
              ChipRests, ChipOnRise, ChipOnFall, ftdiTxVars
  <1>0. peer' = peer
    BY DEF FtdiTxTick
  <1>1. CASE peer = "testbench" /\ TestBenchTick(rising, falling)
    BY <1>0, <1>1 DEF TestBenchTick, FtdiStartBit, FtdiBit, TestBenchSrc, FtdiTxQuiet
  <1>2. CASE peer = "datasheet" /\ DatasheetTick(falling)
    BY <1>0, <1>2 DEF DatasheetTick, FtdiStartBit, FtdiBit, DatasheetSrc, DatasheetGap,
                      FtdiTxQuiet
  <1> QED
    BY <1>1, <1>2 DEF FtdiTxTick

-----------------------------------------------------------------------------
(* Types.                                                                   *)

LEMMA RxTypes ==
  ASSUME NEW fsclk, NEW line \in Bit, fsclk = (IF High THEN 1 ELSE 0),
         RxTypeOK, RxTick(fsclk, line)
  PROVE  RxTypeOK'
  <1> USE DEF RxTypeOK, Bit, WAIT_FOR_START_BIT, CLEAN_UP
  <1>1. qFsdo' \in [0..1 -> Bit]
    BY DEF RxTick, Synchronise
  <1>2. ZeroByte \in Byte /\ ShiftIn(qFsdo[1], rxData) \in Byte
    BY ZeroIsByte, ShiftInByte
  <1>3. RxMoves
    BY RxSteps
  <1>4. rxData' \in Byte
    BY <1>2, <1>3 DEF RxMoves, RxStarts, RxAdvances, RxEnds, RxStays
  <1>5. rxState' \in 0..11 /\ rxReady' \in Bit /\ rxWaitClk' \in Bit
    BY <1>3 DEF RxMoves, RxStarts, RxAdvances, RxEnds, RxStays
  <1> QED
    BY <1>1, <1>4, <1>5

LEMMA ChipTypes ==
  ASSUME FtdiTxTypeOK, peer' = peer, ChipStays \/ ChipOnRise \/ ChipOnFall
  PROVE  FtdiTxTypeOK' /\ (Starting => txData # << >>)
  <1> USE DEF FtdiTxTypeOK, Idle, D0, SRC
  <1>1. txData # << >> => Head(txData) \in Byte /\ Tail(txData) \in Seq(Payload)
    BY SenderAssumption
  <1>2. FtdiPop /\ txData # << >> => txData' \in Seq(Payload)
    BY <1>1 DEF FtdiPop
  <1>3. ShiftIn(0, ftdiTxByte) \in Byte /\ ftdiTxByte[0] \in Bit
    BY ShiftInByte DEF Bit
  <1>4. CASE ChipStays
    BY <1>4 DEF ChipStays, Starting
  <1>5. CASE ChipStarts
    BY <1>1, <1>2, <1>5 DEF ChipStarts, Bit
  <1>6. CASE ChipShifts
    BY <1>3, <1>6 DEF ChipShifts, Starting
  <1>7. CASE ChipEnds
    BY <1>7 DEF ChipEnds, Starting
  <1>8. CASE ChipRests
    BY <1>8 DEF ChipRests, Starting, Bit
  <1> QED
    BY <1>4, <1>5, <1>6, <1>7, <1>8 DEF ChipOnRise, ChipOnFall

(* The two machines and the wire between them, without the history of what  *)
(* was sent.                                                                *)
LineTypes ==
  /\ counter \in 0..(FastSerialDivider - 1)
  /\ RxTypeOK
  /\ FtdiTxTypeOK

Lines ==
  /\ ClockTick
  /\ RxTick(Fsclk, fsdo)
  /\ FtdiTxTick(RisingEdge, FallingEdge)

LEMMA LineTypesPreserved ==
  ASSUME LineTypes, Lines
  PROVE  LineTypes' /\ (Starting => txData # << >>)
  <1> USE DEF LineTypes, Lines
  <1>1. counter' \in 0..(FastSerialDivider - 1)
    BY DividerAssumption DEF ClockTick
  <1>2. RxTypeOK'
    <2>1. Fsclk = (IF High THEN 1 ELSE 0)
      BY DividerAssumption DEF Fsclk, High, Half
    <2>2. fsdo \in Bit /\ RxTick(Fsclk, fsdo)
      BY DEF FtdiTxTypeOK
    <2> QED
      BY <2>1, <2>2, RxTypes
  <1>3. FtdiTxTypeOK' /\ (Starting => txData # << >>)
    <2>1. ~(RisingEdge /\ FallingEdge)
      BY DEF RisingEdge, FallingEdge
    <2>2. FtdiTxTick(RisingEdge, FallingEdge)
      OBVIOUS
    <2>3. peer' = peer /\ (ChipStays \/ ChipOnRise \/ ChipOnFall)
      BY <2>1, <2>2, ChipSteps
    <2> QED
      BY <2>3, ChipTypes
  <1> QED
    BY <1>1, <1>2, <1>3

LEMMA TypesPreserved == TypeOK /\ Next => TypeOK'
  <1> SUFFICES ASSUME TypeOK, Next PROVE TypeOK'
    OBVIOUS
  <1> USE DEF TypeOK
  <1>1. LineTypes /\ Lines
    BY DEF LineTypes, Lines, Next
  <1>2. LineTypes' /\ (Starting => txData # << >>)
    BY <1>1, LineTypesPreserved
  <1>3. sent' \in Seq(Byte)
    <2>1. (IF rxReady = 1 /\ sent # << >> THEN Tail(sent) ELSE sent) \in Seq(Byte)
      OBVIOUS
    <2>2. Starting => Head(txData) \in Byte
      BY <1>2, SenderAssumption DEF FtdiTxTypeOK
    <2> QED
      BY <2>1, <2>2 DEF Next, Record
  <1>4. received' \in [data : Byte, parity : Bit]
    <2>1. rxData \in Byte
      BY DEF RxTypeOK
    <2>2. 1 - received.parity \in Bit
      BY DEF Bit
    <2> QED
      BY <2>1, <2>2 DEF Next, Consume
  <1> QED
    BY <1>2, <1>3, <1>4 DEF LineTypes

-----------------------------------------------------------------------------
(* The two machines stay in step, one clock at a time.                      *)

(* What a step does, in the numbers the control parts are about.            *)
Control ==
  /\ FastSerialDivider \in Nat /\ Half \in Nat
  /\ 2 <= Half /\ Half + 2 <= FastSerialDivider
  /\ peer \in {"datasheet", "testbench"} /\ peer' = peer
  /\ peer = "testbench" => Half + 3 <= FastSerialDivider
  /\ counter \in 0..(FastSerialDivider - 1)
  /\ ftdiTx \in {0} \cup (2..10)
  /\ rxState \in 0..11
  /\ fsdo \in {0, 1} /\ qFsdo[0] \in {0, 1} /\ qFsdo[1] \in {0, 1}
  /\ rxWaitClk \in {0, 1}
  /\ qFsdo'[0] = fsdo /\ qFsdo'[1] = qFsdo[0]

Fell == counter = FastSerialDivider - 1 /\ counter' = 0
Rose == counter = Half - 1 /\ counter' = Half
Neither ==
  /\ counter # Half - 1 /\ counter # FastSerialDivider - 1
  /\ counter' = counter + 1

LEMMA StepFacts ==
  ASSUME Settles, LineTypes, Lines
  PROVE  /\ Control
         /\ RxMoves
         /\ \/ Fell /\ ChipOnFall
            \/ Rose /\ ChipOnRise
            \/ Neither /\ ChipStays
  <1>1. FastSerialDivider \in Nat /\ FastSerialDivider >= 4
    BY DividerAssumption DEF Settles
  <1>2. ClockTick /\ counter \in 0..(FastSerialDivider - 1)
    BY DEF Lines, LineTypes
  <1>3. peer \in {"datasheet", "testbench"} /\ peer' = peer
    BY SenderAssumption DEF LineTypes, FtdiTxTypeOK, Lines, FtdiTxTick
  <1>4. peer = "testbench" => Half + 3 <= FastSerialDivider
    BY <1>1 DEF Settles, Half, LineTypes, FtdiTxTypeOK
  <1>5. /\ ftdiTx \in {0} \cup (2..10)
        /\ rxState \in 0..11
        /\ fsdo \in {0, 1} /\ qFsdo[0] \in {0, 1} /\ qFsdo[1] \in {0, 1}
        /\ rxWaitClk \in {0, 1}
    BY DEF LineTypes, FtdiTxTypeOK, RxTypeOK, Idle, D0, SRC, WAIT_FOR_START_BIT, CLEAN_UP, Bit
  <1>6. Fsclk = IF High THEN 1 ELSE 0
    BY <1>1, <1>2, ClockPhases DEF High
  <1>7. RxTick(Fsclk, fsdo)
    BY DEF Lines
  <1>8. qFsdo'[0] = fsdo /\ qFsdo'[1] = qFsdo[0] /\ RxMoves
    BY <1>6, <1>7, RxSteps
  <1>9. \/ Fell /\ ChipOnFall
        \/ Rose /\ ChipOnRise
        \/ Neither /\ ChipStays
    <2>1. FtdiTxTick(RisingEdge, FallingEdge)
      BY DEF Lines
    <2>2. /\ (~RisingEdge /\ ~FallingEdge) => ChipStays
          /\ (RisingEdge /\ ~FallingEdge) => ChipOnRise
          /\ (FallingEdge /\ ~RisingEdge) => ChipOnFall
      BY <2>1, ChipSteps
    <2>3. \/ Fell /\ FallingEdge /\ ~RisingEdge
          \/ Rose /\ RisingEdge /\ ~FallingEdge
          \/ Neither /\ ~RisingEdge /\ ~FallingEdge
      BY <1>1, <1>2, ClockPhases DEF Fell, Rose, Neither
    <2> QED
      BY <2>2, <2>3
  <1> QED
    BY <1>1, <1>2, <1>3, <1>4, <1>5, <1>8, <1>9, ClockPhases DEF Control

(* No edge: the chip is quiet. *)
LEMMA ControlNoEdge ==
  ASSUME Settles, LineTypes, Lockstep, Lines, Neither
  PROVE  Synchronised' /\ OneStrobe' /\ InStep' /\ StartBits'
  <1> USE DEF Neither, WAIT_FOR_START_BIT, RX_BIT_ZERO, RX_BIT_DEST, RX_DONE, CLEAN_UP,
              Idle, D0, SRC
  <1>1. /\ Control
        /\ RxMoves
        /\ ChipStays
    BY StepFacts DEF Fell, Rose, Control
  <1>3. ftdiTx' = ftdiTx /\ fsdo' = fsdo /\ (HalfPulse' <=> HalfPulse)
    BY <1>1 DEF ChipStays, Control, HalfPulse
  <1>s. ftdiTx = D0 => fsdo = 0
    BY DEF Lockstep, StartBits
  <1>4. Synchronised'
    BY <1>1, <1>3, <1>s DEF Lockstep, Synchronised, Control, HalfPulse
  <1>5. OneStrobe' /\ InStep' /\ StartBits'
    <2>0. Synchronised /\ OneStrobe /\ InStep /\ StartBits
      BY DEF Lockstep
    <2> USE DEF Control, High
    <2>1. CASE RxStarts
      BY <1>1, <1>3, <1>s, <2>0, <2>1 DEF RxStarts, OneStrobe, InStep, Synchronised, StartBits, HalfPulse
    <2>2. CASE RxAdvances
      BY <1>1, <1>3, <1>s, <2>0, <2>2 DEF RxAdvances, OneStrobe, InStep, Synchronised, StartBits, HalfPulse
    <2>3. CASE RxEnds
      BY <1>1, <1>3, <1>s, <2>0, <2>3 DEF RxEnds, OneStrobe, InStep, Synchronised, StartBits, HalfPulse
    <2>4. CASE RxStays
      BY <1>1, <1>3, <1>s, <2>0, <2>4 DEF RxStays, OneStrobe, InStep, Synchronised, StartBits, HalfPulse
    <2> QED
      BY <1>1, <2>1, <2>2, <2>3, <2>4 DEF RxMoves
  <1> QED
    BY <1>4, <1>5

(* A rising edge: the test bench may start its byte. *)
LEMMA ControlRising ==
  ASSUME Settles, LineTypes, Lockstep, Lines, Rose
  PROVE  Synchronised' /\ OneStrobe' /\ InStep' /\ StartBits'
  <1> USE DEF Rose, WAIT_FOR_START_BIT, RX_BIT_ZERO, RX_BIT_DEST, RX_DONE, CLEAN_UP,
              Idle, D0, SRC
  <1>1. /\ Control
        /\ RxMoves
        /\ ChipOnRise
    BY StepFacts DEF Fell, Neither, Control
  <1>2. \/ ftdiTx' = ftdiTx /\ fsdo' = fsdo
        \/ peer = "testbench" /\ ftdiTx = 0 /\ txData # << >> /\ ftdiTx' = 2 /\ fsdo' = 0
    BY <1>1 DEF ChipOnRise, ChipStays, ChipStarts
  <1>3. txData # << >> /\ peer = "testbench" =>
          rxState = WAIT_FOR_START_BIT /\ rxWaitClk = 0 /\ fsdo = 1
    BY DEF Lockstep, OneByte
  <1>4. Synchronised /\ OneStrobe /\ InStep /\ StartBits
    BY DEF Lockstep
  <1>5. ~HalfPulse /\ rxWaitClk = 0 /\ rxState \in 0..9
    BY <1>1, <1>4 DEF Control, Synchronised, OneStrobe, InStep, HalfPulse
  <1>6. rxState' = rxState /\ rxWaitClk' = 0
    BY <1>1, <1>5 DEF Control, High, RxMoves, RxStarts, RxAdvances, RxEnds, RxStays
  <1>7. Synchronised'
    BY <1>1, <1>2, <1>3, <1>4, <1>5 DEF Control, Synchronised, HalfPulse
  <1>8. OneStrobe'
    BY <1>1, <1>6 DEF Control, OneStrobe
  <1>9. InStep'
    BY <1>1, <1>2, <1>3, <1>4, <1>5, <1>6 DEF Control, InStep, HalfPulse
  <1>10. StartBits'
    BY <1>1, <1>2, <1>4, <1>6 DEF Control, StartBits
  <1> QED
    BY <1>7, <1>8, <1>9, <1>10

(* A falling edge: the chip puts the next bit on the line, and both         *)
(* machines have one period to act on it.                                   *)
LEMMA ControlFalling ==
  ASSUME Settles, LineTypes, Lockstep, Lines, Fell
  PROVE  Synchronised' /\ OneStrobe' /\ InStep' /\ StartBits'
  <1> USE DEF Fell, WAIT_FOR_START_BIT, RX_BIT_ZERO, RX_BIT_DEST, RX_DONE, CLEAN_UP,
              Idle, D0, SRC
  <1>1. /\ Control
        /\ RxMoves
        /\ ChipOnFall
    BY StepFacts DEF Rose, Neither, Control
  <1>2. \/ peer = "testbench" /\ ftdiTx = 0 /\ ftdiTx' = 0 /\ fsdo' = fsdo
        \/ peer = "datasheet" /\ ftdiTx = 0 /\ ftdiTx' = 2 /\ fsdo' = 0
        \/ ftdiTx \in 2..9 /\ ftdiTx' = ftdiTx + 1
        \/ /\ ftdiTx = 10 /\ ftdiTx' = 0
           /\ fsdo' \in {0, 1} /\ (peer = "testbench" => fsdo' = 1)
        \/ ftdiTx = 0 /\ ftdiTx' = 0 /\ fsdo' = 1
    BY <1>1 DEF ChipOnFall, ChipStays, ChipStarts, ChipShifts, ChipEnds, ChipRests, Bit
  <1>3. Synchronised /\ OneStrobe /\ InStep /\ StartBits
    BY DEF Lockstep
  <1>4. HalfPulse' => FALSE
    BY <1>1, <1>2 DEF Control, HalfPulse
  <1>5. Synchronised'
    BY <1>1, <1>4 DEF Synchronised
  <1>6. ftdiTx # Idle => rxState' = ftdiTx - 1 /\ rxWaitClk' = 1
    <2>1. CASE HalfPulse /\ counter = Half + 2
      <3>1. rxState = 0 /\ rxWaitClk = 0 /\ qFsdo[1] = 0
        BY <1>1, <1>3, <2>1 DEF Control, Synchronised, InStep
      <3> QED
        BY <1>1, <2>1, <3>1 DEF Control, High, HalfPulse, RxMoves, RxStarts, RxAdvances, RxEnds, RxStays
    <2>2. CASE ~(HalfPulse /\ counter = Half + 2)
      <3>1. ftdiTx # Idle => rxState = ftdiTx - 1 /\ rxWaitClk = 1
        BY <1>1, <1>3, <2>2 DEF Control, OneStrobe, InStep, HalfPulse
      <3> QED
        BY <1>1, <3>1 DEF Control, High, RxMoves, RxStarts, RxAdvances, RxEnds, RxStays
    <2> QED
      BY <2>1, <2>2
  <1>7. ftdiTx = Idle =>
          \/ rxState' = WAIT_FOR_START_BIT
          \/ rxState' = CLEAN_UP /\ rxWaitClk' = 1
    <2>1. ftdiTx = Idle /\ rxState = WAIT_FOR_START_BIT => rxWaitClk = 1 \/ qFsdo[1] = 1
      BY <1>1, <1>3 DEF Control, StartBits, Synchronised, HalfPulse
    <2> QED
      BY <1>1, <1>3, <2>1
      DEF Control, High, OneStrobe, InStep, RxMoves, RxStarts, RxAdvances, RxEnds, RxStays
  <1>8. OneStrobe'
    BY <1>1, <1>6, <1>7 DEF Control, OneStrobe
  <1>9. InStep'
    BY <1>1, <1>2, <1>4, <1>6, <1>7 DEF Control, InStep, HalfPulse
  <1>10. StartBits'
    BY <1>1, <1>2, <1>3, <1>6 DEF Control, StartBits
  <1> QED
    BY <1>5, <1>8, <1>9, <1>10

LEMMA OneBytePreserved ==
  ASSUME Settles, LineTypes, Lockstep, Lines
  PROVE  OneByte'
  <1> SUFFICES ASSUME peer' = "testbench"
               PROVE  /\ Len(txData') <= 1
                      /\ ftdiTx' # Idle => txData' = << >>
                      /\ txData' # << >> =>
                           rxState' = WAIT_FOR_START_BIT /\ rxWaitClk' = 0 /\ fsdo' = 1
    BY DEF OneByte
  <1> USE DEF Idle, WAIT_FOR_START_BIT
  <1>1. /\ Control /\ RxMoves
        /\ ChipOnFall \/ ChipOnRise \/ ChipStays
    BY StepFacts
  <1>2. /\ peer = "testbench"
        /\ Len(txData) <= 1
        /\ ftdiTx # Idle => txData = << >>
        /\ txData # << >> => rxState = WAIT_FOR_START_BIT /\ rxWaitClk = 0 /\ fsdo = 1
    BY <1>1 DEF Lockstep, OneByte, Control
  <1>3. Synchronised /\ txData \in Seq(Payload)
    BY DEF Lockstep, LineTypes, FtdiTxTypeOK
  <1>4. CASE ChipStarts
    <2>1. txData' = Tail(txData) /\ ftdiTx' = 2 /\ txData # << >>
      BY <1>2, <1>4 DEF ChipStarts, FtdiPop
    <2>2. txData' = << >> /\ Len(txData') <= 1
      BY <1>2, <1>3, <2>1
    <2> QED
      BY <2>2
  <1>5. CASE ftdiTx # Idle /\ (ChipShifts \/ ChipEnds)
    BY <1>2, <1>5 DEF ChipShifts, ChipEnds
  <1>6. CASE ChipStays
    <2>1. txData' = txData /\ ftdiTx' = ftdiTx /\ fsdo' = fsdo
      BY <1>6 DEF ChipStays
    <2>2. txData # << >> => rxState' = 0 /\ rxWaitClk' = 0
      BY <1>1, <1>2, <1>3
      DEF Control, Synchronised, HalfPulse, D0, High, RxMoves, RxStarts, RxAdvances, RxEnds,
          RxStays
    <2> QED
      BY <1>2, <2>1, <2>2
  <1> QED
    BY <1>1, <1>2, <1>4, <1>5, <1>6
    DEF ChipOnFall, ChipOnRise, ChipShifts, ChipEnds, ChipRests

LEMMA LockstepPreserved ==
  ASSUME Settles, LineTypes, Lockstep, Lines
  PROVE  Lockstep'
  BY StepFacts, ControlNoEdge, ControlRising, ControlFalling, OneBytePreserved DEF Lockstep

-----------------------------------------------------------------------------
(* The bytes.                                                               *)

LEMMA ReadyPreserved ==
  ASSUME Settles, LineTypes, Lines, Ready
  PROVE  Ready'
  BY StepFacts DEF Ready, CLEAN_UP, RxMoves, RxStarts, RxAdvances, RxEnds, RxStays, Control

(* Two bytes with the same bits are the same byte. *)
LEMMA ByteExtensional ==
  ASSUME NEW a \in Byte, NEW b \in Byte, \A i \in 0..7 : a[i] = b[i]
  PROVE  a = b
  BY DEF Byte

(* A frame starts: the whole byte is in the chip, and the receiver has      *)
(* nothing of it.                                                           *)
LEMMA FrameStarts ==
  ASSUME Settles, LineTypes, Lockstep, Lines, ChipStarts
  PROVE  /\ Head(txData) \in Payload
         /\ \A byte : byte = Head(txData) => Carries(byte)'
  <1> USE DEF Idle, D0, SRC, WAIT_FOR_START_BIT, RX_BIT_ZERO, RX_BIT_DEST, RX_DONE, CLEAN_UP
  <1>1. Control /\ InStep'
    BY StepFacts, LockstepPreserved DEF Lockstep
  <1>2. Head(txData) \in Payload
    BY DEF ChipStarts, LineTypes, FtdiTxTypeOK
  <1>3. rxState' \notin RX_BIT_ZERO..RX_BIT_DEST
    BY <1>1, StepFacts
    DEF InStep, HalfPulse, ChipStarts, ChipOnFall, ChipOnRise, ChipStays, ChipShifts, ChipEnds,
        ChipRests, Control, Fell, Rose, Neither
  <1>4. ftdiTx' = 2 /\ ftdiTxByte' = Head(txData)
    BY DEF ChipStarts
  <1> QED
    BY <1>2, <1>3, <1>4 DEF Carries

(* A frame goes on: each bit moves at most one place further. *)
LEMMA FrameGoesOn ==
  ASSUME Settles, LineTypes, Lockstep, Lines, ~ChipStarts, Frame'
  PROVE  Frame /\ \A byte \in Byte : Carries(byte) => Carries(byte)'
  <1> USE DEF Idle, D0, SRC, WAIT_FOR_START_BIT, RX_BIT_ZERO, RX_BIT_DEST, RX_DONE, CLEAN_UP
  <1>1. /\ Control /\ RxMoves
        /\ (Fell /\ ChipOnFall) \/ (Rose /\ ChipOnRise) \/ (Neither /\ ChipStays)
    BY StepFacts
  <1>2. InStep /\ OneStrobe /\ Synchronised /\ InStep'
    BY LockstepPreserved DEF Lockstep
  <1>3. rxData \in Byte /\ ftdiTxByte \in Byte
    BY DEF LineTypes, RxTypeOK, FtdiTxTypeOK
  <1>4. Frame
    <2>1. ftdiTx' # Idle => ftdiTx # Idle
      BY <1>1 DEF ChipOnFall, ChipOnRise, ChipStays, ChipShifts, ChipEnds, ChipRests
    <2>2. RxStarts => ftdiTx # Idle
      BY <1>1, <1>2 DEF RxStarts, Lockstep, StartBits, Synchronised, HalfPulse, Control, High
    <2>3. rxState' \in RX_BIT_ZERO..RX_BIT_DEST => RxStarts \/ rxState \in RX_BIT_ZERO..RX_BIT_DEST
      BY <1>1 DEF Control, RxMoves, RxAdvances, RxEnds, RxStays
    <2> QED
      BY <2>1, <2>2, <2>3 DEF Frame
  <1>5. SUFFICES ASSUME NEW byte \in Byte, Carries(byte)
                 PROVE  Carries(byte)'
    BY <1>4
  <1>6. ASSUME ftdiTx' # Idle
        PROVE  /\ ftdiTx' # D0 => fsdo' = byte[ftdiTx' - 3]
               /\ \A i \in 0..7 : i + (ftdiTx' - 2) <= 7 =>
                    ftdiTxByte'[i] = byte[i + (ftdiTx' - 2)]
    <2>1. CASE ChipStays
      BY <1>5, <1>6, <2>1 DEF ChipStays, Carries
    <2>2. CASE ChipShifts
      <3>1. /\ ftdiTx \in 2..9 /\ ftdiTx' = ftdiTx + 1
            /\ fsdo' = ftdiTxByte[0] /\ ftdiTxByte' = ShiftIn(0, ftdiTxByte)
        BY <2>2 DEF ChipShifts
      <3>2. \A i \in 0..7 : i + (ftdiTx - 2) <= 7 => ftdiTxByte[i] = byte[i + (ftdiTx - 2)]
        <4>1. ftdiTx # Idle
          BY <3>1
        <4> QED
          BY <1>5, <4>1, Zenon DEF Carries
      <3>3. \A i \in 0..6 : ftdiTxByte'[i] = ftdiTxByte[i + 1]
        BY <1>3, <3>1, ShiftInByte DEF Bit
      <3>4. fsdo' = byte[ftdiTx' - 3]
        <4>1. ftdiTxByte[0] = byte[0 + (ftdiTx - 2)]
          BY <3>1, <3>2
        <4> QED
          BY <3>1, <4>1
      <3>5. ASSUME NEW i \in 0..7, i + (ftdiTx' - 2) <= 7
            PROVE  ftdiTxByte'[i] = byte[i + (ftdiTx' - 2)]
        <4>1. i \in 0..6 /\ i + 1 \in 0..7 /\ (i + 1) + (ftdiTx - 2) <= 7
          BY <3>1, <3>5
        <4>2. ftdiTxByte'[i] = byte[(i + 1) + (ftdiTx - 2)]
          BY <3>2, <3>3, <4>1
        <4>3. (i + 1) + (ftdiTx - 2) = i + (ftdiTx' - 2)
          BY <3>1
        <4> QED
          BY <4>2, <4>3
      <3> QED
        BY <3>4, <3>5
    <2> QED
      BY <1>1, <1>6, <2>1, <2>2 DEF ChipOnFall, ChipOnRise, ChipEnds, ChipRests
  <1>7. ASSUME rxState' \in RX_BIT_ZERO..RX_BIT_DEST
        PROVE  \A i \in 0..7 : i >= 9 - rxState' => rxData'[i] = byte[i - (9 - rxState')]
    <2>1. CASE RxStarts
      BY <2>1 DEF RxStarts
    <2>2. CASE RxAdvances
      <3>1. rxState \in 1..8 /\ rxState' = rxState + 1 /\ High /\ rxWaitClk = 0
            /\ rxData' = ShiftIn(qFsdo[1], rxData)
        BY <1>7, <2>2 DEF RxAdvances
      <3>2. counter = Half
        BY <1>1, <1>2, <3>1 DEF Control, High, OneStrobe
      <3>3. ftdiTx = rxState + 2
        BY <1>1, <1>2, <3>1, <3>2 DEF Control, InStep, HalfPulse
      <3>4. qFsdo[1] = byte[rxState - 1]
        <4>1. fsdo = byte[ftdiTx - 3] /\ qFsdo[1] = fsdo
          BY <1>1, <1>2, <1>5, <3>1, <3>2, <3>3
          DEF Control, Carries, Synchronised, HalfPulse
        <4> QED
          BY <3>1, <3>3, <4>1
      <3>5. \A i \in 0..7 : i >= 9 - rxState => rxData[i] = byte[i - (9 - rxState)]
        <4>1. rxState \in RX_BIT_ZERO..RX_BIT_DEST
          BY <3>1
        <4> QED
          BY <1>5, <4>1, Zenon DEF Carries
      <3>6. rxData'[7] = qFsdo[1] /\ \A i \in 0..6 : rxData'[i] = rxData[i + 1]
        BY <1>1, <1>3, <3>1, ShiftInByte DEF Control, Bit
      <3>7. ASSUME NEW i \in 0..7, i >= 9 - rxState'
            PROVE  rxData'[i] = byte[i - (9 - rxState')]
        <4>1. CASE i = 7
          <5>1. 7 - (9 - rxState') = rxState - 1
            BY <3>1
          <5> QED
            BY <3>4, <3>6, <4>1, <5>1
        <4>2. CASE i # 7
          <5>1. i \in 0..6 /\ i + 1 \in 0..7 /\ i + 1 >= 9 - rxState
            BY <3>1, <3>7, <4>2
          <5>2. rxData'[i] = byte[(i + 1) - (9 - rxState)]
            BY <3>5, <3>6, <5>1
          <5>3. (i + 1) - (9 - rxState) = i - (9 - rxState')
            BY <3>1
          <5> QED
            BY <5>2, <5>3
        <4> QED
          BY <4>1, <4>2
      <3> QED
        BY <3>7
    <2>3. CASE RxStays
      BY <1>5, <1>7, <2>3 DEF RxStays, Carries
    <2> QED
      <3>1. ~RxEnds
        BY <1>7 DEF RxEnds
      <3> QED
        BY <1>1, <2>1, <2>2, <2>3, <3>1, Zenon DEF RxMoves
  <1> QED
    BY <1>6, <1>7 DEF Carries

(* A frame is over: the receiver has all of the byte, and keeps it. *)
LEMMA FrameEnds ==
  ASSUME Settles, LineTypes, Lockstep, Lines, rxState' \in {RX_DONE, CLEAN_UP}
  PROVE  \/ rxState = RX_DONE /\ rxData' = rxData
         \/ /\ rxState = RX_BIT_DEST /\ ftdiTx = Idle
            /\ \A byte \in Byte : Carries(byte) => rxData' = byte
  <1> USE DEF Idle, D0, SRC, WAIT_FOR_START_BIT, RX_BIT_ZERO, RX_BIT_DEST, RX_DONE, CLEAN_UP
  <1>1. Control /\ RxMoves /\ InStep /\ OneStrobe /\ rxData \in Byte
    BY StepFacts DEF Lockstep, LineTypes, RxTypeOK
  <1>2. CASE RxAdvances
    <2>1. rxState = 9 /\ rxData' = rxData /\ High /\ rxWaitClk = 0
      BY <1>2 DEF RxAdvances
    <2>2. ftdiTx = Idle
      BY <1>1, <2>1 DEF Control, High, OneStrobe, InStep, HalfPulse
    <2>3. ASSUME NEW byte \in Byte, Carries(byte)
          PROVE  rxData' = byte
      <3>1. \A i \in 0..7 : rxData[i] = byte[i]
        <4>1. \A i \in 0..7 : i >= 9 - rxState => rxData[i] = byte[i - (9 - rxState)]
          BY <2>1, <2>3 DEF Carries
        <4> QED
          BY <2>1, <4>1
      <3> QED
        BY <1>1, <2>1, <3>1, ByteExtensional
    <2> QED
      BY <2>1, <2>2, <2>3
  <1>3. CASE RxEnds
    BY <1>3 DEF RxEnds
  <1> QED
    BY <1>1, <1>2, <1>3 DEF RxMoves, RxStarts, RxStays

-----------------------------------------------------------------------------
(* The history of what was sent.                                            *)

LEMMA LinesOfStep == IInv /\ Next => LineTypes /\ Lockstep /\ Lines /\ Ready
  BY DEF IInv, TypeOK, LineTypes, Next, Lines

(* The history of bytes under way, one clock later. *)
LEMMA SentNext ==
  ASSUME Settles, IInv, Next
  PROVE  /\ rxState = CLEAN_UP => sent # << >>
         /\ LET left == IF rxState = CLEAN_UP THEN Tail(sent) ELSE sent
            IN  sent' = IF ChipStarts THEN Append(left, Head(txData)) ELSE left
         /\ Len(sent') = Len(sent) - (IF rxState = CLEAN_UP THEN 1 ELSE 0)
                                   + (IF ChipStarts THEN 1 ELSE 0)
  <1>1. rxReady = (IF rxState = CLEAN_UP THEN 1 ELSE 0)
    BY DEF IInv, Ready
  <1>2. sent \in Seq(Byte) /\ (rxState = CLEAN_UP => sent # << >>)
    BY DEF IInv, TypeOK, BytesAccountedFor, Complete
  <1>3. Starting <=> ChipStarts
    BY LinesOfStep, StepFacts
    DEF ChipOnFall, ChipOnRise, ChipStays, ChipStarts, ChipShifts, ChipEnds, ChipRests,
        Starting, Idle, D0
  <1>4. txData # << >> /\ ChipStarts => Head(txData) \in Byte
    BY SenderAssumption DEF IInv, TypeOK, FtdiTxTypeOK
  <1>5. ChipStarts => Head(txData) \in Byte
    BY <1>4 DEF ChipStarts
  <1> DEFINE left == IF rxState = CLEAN_UP THEN Tail(sent) ELSE sent
  <1>6. sent' = IF ChipStarts THEN Append(left, Head(txData)) ELSE left
    BY <1>1, <1>2, <1>3 DEF Next, Record
  <1>7. left \in Seq(Byte) /\ Len(left) = Len(sent) - (IF rxState = CLEAN_UP THEN 1 ELSE 0)
    BY <1>2
  <1>8. Len(sent') = Len(left) + (IF ChipStarts THEN 1 ELSE 0)
    <2> HIDE DEF left
    <2>1. \A q \in Seq(Byte) : \A b \in Byte : Len(Append(q, b)) = Len(q) + 1
      OBVIOUS
    <2>2. CASE ChipStarts
      <3>1. Len(Append(left, Head(txData))) = Len(left) + 1
        BY <1>5, <1>7, <2>1, <2>2
      <3> QED
        BY <1>6, <2>2, <3>1
    <2>3. CASE ~ChipStarts
      <3>1. Len(sent') = Len(left) /\ Len(left) \in Nat
        BY <1>6, <1>7, <2>3
      <3> QED
        BY <2>3, <3>1
    <2> QED
      BY <2>2, <2>3
  <1> QED
    BY <1>2, <1>6, <1>7, <1>8

LEMMA CountPreserved ==
  ASSUME Settles, IInv, Next
  PROVE  Len(sent') = (IF ftdiTx' = Idle THEN 0 ELSE 1) + (IF Complete' THEN 1 ELSE 0)
  <1> USE DEF Idle, D0, SRC, WAIT_FOR_START_BIT, RX_BIT_ZERO, RX_BIT_DEST, RX_DONE, CLEAN_UP
  <1>1. /\ Control /\ RxMoves
        /\ (Fell /\ ChipOnFall) \/ (Rose /\ ChipOnRise) \/ (Neither /\ ChipStays)
    BY LinesOfStep, StepFacts
  <1>2. InStep /\ OneStrobe /\ OneByte /\ InStep'
    BY LinesOfStep, LockstepPreserved DEF Lockstep
  <1>3. Len(sent) = (IF ftdiTx = Idle THEN 0 ELSE 1) + (IF Complete THEN 1 ELSE 0)
    BY DEF IInv, BytesAccountedFor
  <1>4. Len(sent') = Len(sent) - (IF rxState = CLEAN_UP THEN 1 ELSE 0)
                               + (IF ChipStarts THEN 1 ELSE 0)
    BY SentNext
  <1>5. (IF ftdiTx' = Idle THEN 0 ELSE 1) + (IF Complete' THEN 1 ELSE 0)
          = (IF ftdiTx = Idle THEN 0 ELSE 1) + (IF Complete THEN 1 ELSE 0)
            - (IF rxState = CLEAN_UP THEN 1 ELSE 0) + (IF ChipStarts THEN 1 ELSE 0)
    <2> USE DEF Control, High, Complete, Fell, Rose, Neither
    <2>1. ftdiTx' \in {0} \cup (2..10)
      BY LinesOfStep, LineTypesPreserved DEF LineTypes, FtdiTxTypeOK
    <2>2. \/ Fell /\ ChipEnds /\ ~ChipStarts
          \/ ftdiTx' = ftdiTx /\ ~ChipStarts
          \/ ftdiTx' = ftdiTx + 1 /\ ftdiTx \in 2..9 /\ ~ChipStarts
          \/ ChipStarts /\ ftdiTx = 0 /\ ftdiTx' = 2 /\ (Fell \/ (Rose /\ rxState = 0))
      BY <1>1, <1>2, <2>1 DEF OneByte, ChipOnFall, ChipOnRise, ChipStays, ChipStarts,
         ChipShifts, ChipEnds, ChipRests
    <2>3. CASE rxState = 11
      BY <1>1, <1>2, <2>2, <2>3 DEF InStep, HalfPulse, RxMoves, RxStarts, RxAdvances, RxEnds,
         RxStays, ChipEnds
    <2>4. CASE rxState = 10
      BY <1>1, <1>2, <2>2, <2>4 DEF InStep, HalfPulse, RxMoves, RxStarts, RxAdvances, RxEnds,
         RxStays, ChipEnds
    <2>5. CASE rxState = 9
      BY <1>1, <1>2, <2>2, <2>5 DEF InStep, OneStrobe, HalfPulse, RxMoves, RxStarts,
         RxAdvances, RxEnds, RxStays, ChipEnds
    <2>6. CASE rxState \in 0..8
      BY <1>1, <1>2, <2>2, <2>6 DEF InStep, OneStrobe, HalfPulse, RxMoves, RxStarts,
         RxAdvances, RxEnds, RxStays, ChipEnds
    <2> QED
      BY <1>1, <2>3, <2>4, <2>5, <2>6
  <1> QED
    BY <1>3, <1>4, <1>5

LEMMA ShortSequences ==
  ASSUME NEW q \in Seq(Byte)
  PROVE  /\ Len(q) >= 1 => q[1] \in Byte /\ q[Len(q)] \in Byte
         /\ Len(q) = 2 => Tail(q)[Len(Tail(q))] = q[Len(q)]
         /\ \A b \in Byte : /\ Append(q, b)[Len(Append(q, b))] = b
                            /\ Len(q) >= 1 => Append(q, b)[1] = q[1]
  <1>1. Len(q) >= 1 => q[1] \in Byte /\ q[Len(q)] \in Byte
    <2>1. Len(q) \in Nat /\ \A i \in 1..Len(q) : q[i] \in Byte
      OBVIOUS
    <2> QED
      BY <2>1
  <1>2. Len(q) = 2 => Tail(q)[Len(Tail(q))] = q[Len(q)]
    <2>1. Len(q) = 2 => Len(Tail(q)) = 1
      OBVIOUS
    <2>2. Len(q) = 2 => Tail(q)[1] = q[2]
      <3>1. Len(q) = 2 => q # << >>
        OBVIOUS
      <3>2. q # << >> => \A i \in 1..Len(Tail(q)) : Tail(q)[i] = q[i + 1]
        BY HeadTailProperties
      <3>3. 1 + 1 = 2 /\ 1 \in 1..1
        OBVIOUS
      <3> QED
        BY <2>1, <3>1, <3>2, <3>3
    <2> QED
      BY <2>1, <2>2
  <1>3. ASSUME NEW b \in Byte
        PROVE  /\ Append(q, b)[Len(Append(q, b))] = b
               /\ Len(q) >= 1 => Append(q, b)[1] = q[1]
    OBVIOUS
  <1> QED
    BY <1>1, <1>2, <1>3

LEMMA BytesPreserved ==
  ASSUME Settles, IInv, Next
  PROVE  /\ Frame' => Carries(sent[Len(sent)])'
         /\ rxState' \in {RX_DONE, CLEAN_UP} => rxData' = sent'[1]
  <1> USE DEF Idle, RX_BIT_ZERO, RX_BIT_DEST, RX_DONE, CLEAN_UP
  <1>1. LineTypes /\ Lockstep /\ Lines
    BY LinesOfStep
  <1>2. /\ Len(sent) = (IF ftdiTx = Idle THEN 0 ELSE 1) + (IF Complete THEN 1 ELSE 0)
        /\ Frame => Carries(sent[Len(sent)])
        /\ rxState \in {RX_DONE, CLEAN_UP} => rxData = sent[1]
        /\ sent \in Seq(Byte)
    BY DEF IInv, BytesAccountedFor, TypeOK
  <1> DEFINE left == IF rxState = CLEAN_UP THEN Tail(sent) ELSE sent
  <1>3. /\ sent' = IF ChipStarts THEN Append(left, Head(txData)) ELSE left
        /\ rxState = CLEAN_UP => sent # << >>
    BY SentNext
  <1>4. left \in Seq(Byte)
    BY <1>2, <1>3
  <1>5. rxState # CLEAN_UP => left = sent
    OBVIOUS
  <1>6. rxState = CLEAN_UP /\ Len(sent) = 2 => left[Len(left)] = sent[Len(sent)]
    BY <1>2, ShortSequences
  <1>7. ChipStarts => Head(txData) \in Byte
    BY <1>1, FrameStarts, SenderAssumption
  <1> HIDE DEF left
  <1>8. ASSUME Frame' PROVE Carries(sent[Len(sent)])'
    <2>1. CASE ChipStarts
      <3>1. sent'[Len(sent')] = Head(txData)
        BY <1>3, <1>4, <1>7, <2>1, ShortSequences
      <3>2. PICK byte : byte = Head(txData)
        OBVIOUS
      <3>3. Carries(byte)'
        BY <1>1, <2>1, <3>2, FrameStarts
      <3> QED
        BY <3>1, <3>2, <3>3 DEF Carries
    <2>2. CASE ~ChipStarts
      <3>1. Frame /\ \A byte \in Byte : Carries(byte) => Carries(byte)'
        BY <1>1, <1>8, <2>2, FrameGoesOn
      <3>2. Len(sent) >= 1
        BY <1>1, <1>2, <3>1, StepFacts
        DEF Frame, Complete, Lockstep, InStep, Control, HalfPulse, D0, SRC, WAIT_FOR_START_BIT
      <3>3. PICK byte \in Byte : byte = sent[Len(sent)]
        BY <1>2, <3>2, ShortSequences
      <3>4. Carries(byte)'
        BY <1>2, <3>1, <3>3
      <3>5. sent'[Len(sent')] = byte
        <4>1. CASE rxState # CLEAN_UP
          BY <1>3, <1>5, <2>2, <3>3, <4>1
        <4>2. CASE rxState = CLEAN_UP
          <5>1. Len(sent) = 2
            BY <1>2, <3>1, <4>2 DEF Frame, Complete
          <5> QED
            BY <1>3, <1>6, <2>2, <3>3, <4>2, <5>1
        <4> QED
          BY <4>1, <4>2
      <3> QED
        BY <3>4, <3>5 DEF Carries
    <2> QED
      BY <2>1, <2>2
  <1>9. ASSUME rxState' \in {RX_DONE, CLEAN_UP} PROVE rxData' = sent'[1]
    <2>1. \/ rxState = RX_DONE /\ rxData' = rxData
          \/ /\ rxState = RX_BIT_DEST /\ ftdiTx = Idle
             /\ \A byte \in Byte : Carries(byte) => rxData' = byte
      BY <1>1, <1>9, FrameEnds
    <2>2. left = sent /\ Len(sent) >= 1
      BY <1>2, <1>5, <2>1 DEF Complete
    <2>3. sent'[1] = sent[1] /\ sent[1] \in Byte
      BY <1>2, <1>3, <1>7, <2>2, ShortSequences
    <2>4. rxData' = sent[1]
      <3>1. CASE rxState = RX_DONE /\ rxData' = rxData
        BY <1>2, <3>1
      <3>2. CASE /\ rxState = RX_BIT_DEST /\ ftdiTx = Idle
                 /\ \A byte \in Byte : Carries(byte) => rxData' = byte
        <4>1. Carries(sent[Len(sent)]) /\ Len(sent) = 1
          BY <1>2, <3>2 DEF Frame, Complete
        <4> QED
          BY <2>3, <3>2, <4>1
      <3> QED
        BY <2>1, <3>1, <3>2
    <2> QED
      BY <2>3, <2>4
  <1> QED
    BY <1>8, <1>9

-----------------------------------------------------------------------------
(* The theorems.                                                            *)

LEMMA InitialState == Settles /\ Init => IInv
  <1> SUFFICES ASSUME Settles, Init PROVE IInv
    OBVIOUS
  <1> USE DEF Init, ClockInit, RxInit, FtdiTxInit, Idle, WAIT_FOR_START_BIT
  <1>1. TypeOK
    <2>1. counter \in 0..(FastSerialDivider - 1)
      BY DividerAssumption
    <2>2. RxTypeOK
      BY PowerOnAssumption DEF RxTypeOK, PowerOnSync, Bit, CLEAN_UP
    <2>3. FtdiTxTypeOK
      BY ZeroIsByte, SenderAssumption DEF FtdiTxTypeOK, Bit
    <2>4. sent \in Seq(Byte) /\ received \in [data : Byte, parity : Bit]
      BY ZeroIsByte DEF Bit
    <2> QED
      BY <2>1, <2>2, <2>3, <2>4 DEF TypeOK
  <1>2. Half \in Nat /\ 2 <= Half
    BY DividerAssumption DEF Settles, Half
  <1>3. Synchronised
    BY <1>2 DEF Synchronised, HalfPulse, D0
  <1>4. OneStrobe /\ InStep /\ StartBits
    BY <1>2 DEF OneStrobe, InStep, StartBits, HalfPulse, D0, SRC
  <1>5. OneByte
    BY SenderAssumption DEF OneByte, Settles
  <1>6. Ready /\ BytesAccountedFor
    BY DEF Ready, BytesAccountedFor, Complete, Frame, RX_BIT_ZERO, RX_BIT_DEST, RX_DONE, CLEAN_UP
  <1> QED
    BY <1>1, <1>3, <1>4, <1>5, <1>6 DEF IInv, Lockstep

LEMMA StepPreserves == Settles /\ IInv /\ [Next]_vars => IInv'
  <1> SUFFICES ASSUME Settles, IInv, [Next]_vars PROVE IInv'
    OBVIOUS
  <1>1. CASE Next
    BY <1>1, LinesOfStep, TypesPreserved, LockstepPreserved, ReadyPreserved, CountPreserved,
       BytesPreserved
    DEF IInv, BytesAccountedFor
  <1>2. CASE UNCHANGED vars
    <2> USE <1>2 DEF vars, rxVars, ftdiTxVars
    <2>1. TypeOK'
      BY DEF IInv, TypeOK, RxTypeOK, FtdiTxTypeOK
    <2>2. HalfPulse' <=> HalfPulse
      BY DEF HalfPulse
    <2>3. Lockstep'
      BY <2>2 DEF IInv, Lockstep, Synchronised, OneStrobe, InStep, StartBits, OneByte
    <2>4. Ready' /\ BytesAccountedFor'
      BY DEF IInv, Ready, BytesAccountedFor, Complete, Frame, Carries
    <2> QED
      BY <2>1, <2>3, <2>4 DEF IInv
  <1> QED
    BY <1>1, <1>2

(* The receiver and the chip stay in step, no start bit is mistaken, and    *)
(* every bit of the byte under way is in exactly one place.                 *)
THEOREM Invariance == Settles /\ Spec => []IInv
  <1> SUFFICES ASSUME Settles PROVE Spec => []IInv
    OBVIOUS
  <1>1. Init => IInv
    BY InitialState
  <1>2. IInv /\ [Next]_vars => IInv'
    BY StepPreserves
  <1> QED
    BY <1>1, <1>2, PTL DEF Spec

(* Types. *)
THEOREM TypeCorrect == Settles /\ Spec => []TypeOK
  <1>1. IInv => TypeOK
    BY DEF IInv
  <1> QED
    BY <1>1, Invariance, PTL

(* At a strobe, FSCLK has just risen. *)
LEMMA StrobeAtRise ==
  ASSUME Settles, IInv, RxStrobe(Fsclk)
  PROVE  counter >= Half /\ rxWaitClk = 0 /\ 2 <= Half /\ Half \in Nat /\ counter \in Nat
         /\ (rxState # WAIT_FOR_START_BIT => counter = Half)
  <1>1. Half \in Nat /\ 2 <= Half /\ counter \in Nat
    BY DividerAssumption DEF Settles, Half, IInv, TypeOK
  <1>2. counter >= Half /\ rxWaitClk = 0
    BY <1>1 DEF RxStrobe, Fsclk
  <1> QED
    BY <1>1, <1>2 DEF IInv, Lockstep, OneStrobe

(* LineSettled: the receiver never takes a bit that is still on its way     *)
(* through the synchroniser (rx_fastserial.v:83).                           *)
THEOREM BitsTakenSettled == Settles /\ Spec => []LineSettled
  <1> SUFFICES ASSUME Settles PROVE Spec => []LineSettled
    OBVIOUS
  <1>1. IInv => LineSettled
    <2> SUFFICES ASSUME IInv, rxState \in RX_BIT_ZERO..RX_BIT_SEVEN, RxStrobe(Fsclk)
                 PROVE  qFsdo[1] = fsdo
      BY DEF LineSettled
    <2>1. counter = Half /\ 2 <= Half /\ Half \in Nat
      BY StrobeAtRise DEF RX_BIT_ZERO, RX_BIT_SEVEN, WAIT_FOR_START_BIT
    <2>2. ~HalfPulse
      BY <2>1 DEF IInv, Lockstep, InStep, RX_BIT_ZERO, RX_BIT_SEVEN, WAIT_FOR_START_BIT
    <2> QED
      BY <2>1, <2>2 DEF IInv, Lockstep, Synchronised
  <1> QED
    BY <1>1, Invariance, PTL

(* Aligned: at every strobe the receiver is on the bit the chip is sending, *)
(* and it waits for a start bit only while no frame is on the line.         *)
THEOREM StatesAligned == Settles /\ Spec => []Aligned
  <1> SUFFICES ASSUME Settles PROVE Spec => []Aligned
    OBVIOUS
  <1>1. IInv => Aligned
    <2> SUFFICES ASSUME IInv, RxStrobe(Fsclk)
                 PROVE  /\ rxState \in RX_BIT_ZERO..RX_BIT_SEVEN => ftdiTx = rxState + 2
                        /\ rxState = RX_BIT_DEST => ftdiTx = Idle
                        /\ rxState = WAIT_FOR_START_BIT => ftdiTx \in {Idle, D0}
      BY DEF Aligned
    <2> USE DEF RX_BIT_ZERO, RX_BIT_SEVEN, RX_BIT_DEST, WAIT_FOR_START_BIT, CLEAN_UP, Idle,
                D0, SRC, RX_DONE
    <2>1. /\ counter >= Half /\ 2 <= Half /\ Half \in Nat /\ counter \in Nat
          /\ rxState # WAIT_FOR_START_BIT => counter = Half
      BY StrobeAtRise
    <2>2. InStep /\ ftdiTx \in {Idle} \cup (D0..SRC)
      BY DEF IInv, Lockstep, TypeOK, FtdiTxTypeOK
    <2> QED
      BY <2>1, <2>2 DEF InStep, HalfPulse
  <1> QED
    BY <1>1, Invariance, PTL

-----------------------------------------------------------------------------
(* The refinement.                                                          *)

LEMMA StepImplementsChannel ==
  ASSUME Settles, IInv, [Next]_vars
  PROVE  [Channel!Next]_(Channel!vars)
  <1>1. CASE UNCHANGED vars
    BY <1>1 DEF vars, Channel!vars
  <1>2. CASE Next
    <2> DEFINE left == IF rxState = CLEAN_UP THEN Tail(sent) ELSE sent
    <2>1. sent' = IF ChipStarts THEN Append(left, Head(txData)) ELSE left
      BY <1>2, SentNext
    <2>2. /\ rxReady = IF rxState = CLEAN_UP THEN 1 ELSE 0
          /\ sent \in Seq(Byte)
          /\ Len(sent) = (IF ftdiTx = Idle THEN 0 ELSE 1) + (IF Complete THEN 1 ELSE 0)
      BY DEF IInv, Ready, BytesAccountedFor, TypeOK
    <2>3. received' = IF rxState = CLEAN_UP
                      THEN [data |-> rxData, parity |-> 1 - received.parity]
                      ELSE received
      BY <1>2, <2>2 DEF Next, Consume
    <2>4. rxState = CLEAN_UP => sent # << >> /\ rxData = Head(sent)
      BY <2>2 DEF IInv, BytesAccountedFor, Complete
    <2>5. ChipStarts => Head(txData) \in Payload /\ ftdiTx = Idle
      BY DEF ChipStarts, Idle, IInv, TypeOK, FtdiTxTypeOK
    <2>6. CASE rxState = CLEAN_UP /\ ChipStarts
      <3>1. Channel!Exchange(Head(txData))
        BY <2>1, <2>3, <2>4, <2>6 DEF Channel!Exchange, Channel!HandOver
      <3> QED
        BY <2>5, <2>6, <3>1 DEF Channel!Next
    <2>7. CASE rxState = CLEAN_UP /\ ~ChipStarts
      BY <2>1, <2>3, <2>4, <2>7 DEF Channel!Next, Channel!Deliver, Channel!HandOver
    <2>8. CASE rxState # CLEAN_UP /\ ChipStarts
      <3>1. Len(sent) < 2
        BY <2>2, <2>5, <2>8
      <3>2. Channel!Accept(Head(txData))
        BY <2>1, <2>3, <2>8, <3>1 DEF Channel!Accept
      <3> QED
        BY <2>5, <2>8, <3>2 DEF Channel!Next
    <2>9. CASE rxState # CLEAN_UP /\ ~ChipStarts
      BY <2>1, <2>3, <2>9 DEF Channel!vars
    <2> QED
      BY <2>6, <2>7, <2>8, <2>9
  <1> QED
    BY <1>1, <1>2

(* Every byte the chip puts on the line reaches the receive FIFO once,      *)
(* unaltered and in order.                                                  *)
THEOREM LinkImplementsChannel == Settles /\ Spec => ImplementsByteChannel
  <1> SUFFICES ASSUME Settles PROVE Spec => ImplementsByteChannel
    OBVIOUS
  <1>1. Init => Channel!Init
    BY DEF Init, Channel!Init
  <1>2. IInv /\ [Next]_vars => [Channel!Next]_(Channel!vars)
    BY StepImplementsChannel
  <1>3. Spec => []IInv
    BY Invariance
  <1> QED
    BY <1>1, <1>2, <1>3, PTL DEF Spec, ImplementsByteChannel, Channel!Spec
=============================================================================
