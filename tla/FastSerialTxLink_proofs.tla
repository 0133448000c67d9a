---------------------- MODULE FastSerialTxLink_proofs ----------------------
(***************************************************************************)
(* Theorems about FastSerialTxLink, for every divider of at least 2 and    *)
(* every set of bytes, whether or not the chip may stall.                  *)
(***************************************************************************)
EXTENDS FastSerialTxLink, TLAPS

LEMMA HalfBounds == Half \in Nat /\ 1 <= Half /\ Half < FastSerialDivider
  BY DividerAssumption DEF Half

(* All the later proofs need to know of the clock: a rising edge leads to   *)
(* the sampled cycle, which is high and lasts one cycle, and FSCLK is high  *)
(* only after a rising edge.                                                *)
LEMMA ClockPhases ==
  ASSUME counter \in 0..(FastSerialDivider - 1), ClockTick
  PROVE  /\ counter' \in 0..(FastSerialDivider - 1)
         /\ Fsclk \in {0, 1} /\ Fsclk' \in {0, 1}
         /\ RisingEdge <=> Sampled'
         /\ RisingEdge => Fsclk = 0
         /\ Sampled => Fsclk = 1 /\ ~Sampled'
         /\ (Fsclk = 0 /\ ~Sampled') => Fsclk' = 0
  <1>1. /\ counter \in Nat /\ Half \in Nat /\ FastSerialDivider \in Nat
        /\ counter < FastSerialDivider
        /\ 1 <= Half /\ Half < FastSerialDivider
    BY HalfBounds, DividerAssumption
  <1>2. CASE counter = FastSerialDivider - 1
    <2>1. counter' = 0
      BY <1>1, <1>2 DEF ClockTick
    <2> QED
      BY <1>1, <1>2, <2>1 DEF Fsclk, RisingEdge, Sampled
  <1>3. CASE counter # FastSerialDivider - 1
    <2>1. counter' = counter + 1 /\ counter + 1 < FastSerialDivider
      BY <1>1, <1>3 DEF ClockTick
    <2> QED
      BY <1>1, <2>1 DEF Fsclk, RisingEdge, Sampled
  <1> QED
    BY <1>2, <1>3

LEMMA ConstantBytes ==
  OnesByte \in Byte /\ ZeroByte \in Byte /\ PowerOnSync \in [0..1 -> Bit]
  <1>1. OnesByte \in Byte
    BY DEF OnesByte, Byte, Bit
  <1>2. ZeroByte \in Byte
    BY DEF ZeroByte, Byte, Bit
  <1>3. PowerOnSync \in [0..1 -> Bit]
    BY DEF PowerOnSync, Bit
  <1> QED
    BY <1>1, <1>2, <1>3

LEMMA ShiftInByte ==
  ASSUME NEW byte \in Byte, NEW bit \in Bit
  PROVE  ShiftIn(bit, byte) \in Byte /\ byte[0] \in Bit
  <1>1. byte[0] \in Bit
    BY DEF Byte
  <1>2. \A i \in 0..7 : (IF i = 7 THEN bit ELSE byte[i + 1]) \in Bit
    BY DEF Byte
  <1> QED
    BY <1>1, <1>2 DEF ShiftIn, Byte

LEMMA InitialState == Init => IInv
  <1> SUFFICES ASSUME Init PROVE IInv
    OBVIOUS
  <1> USE DEF Init, ClockInit, TxInit, FtdiRxInit
  <1>1. TypeOK
    <2>1. OnesByte \in Byte /\ ZeroByte \in Byte /\ PowerOnSync \in [0..1 -> Bit]
      BY ConstantBytes
    <2>2. counter \in 0..(FastSerialDivider - 1)
      BY DividerAssumption
    <2>3. TxTypeOK
      BY <2>1 DEF TxTypeOK, TxState, IDLE, Bit
    <2>4. FtdiRxTypeOK
      BY <2>1 DEF FtdiRxTypeOK, FtdiState, Idle, Bit
    <2> QED
      BY <2>1, <2>2, <2>3, <2>4 DEF TypeOK
  <1>2. LockStep
    BY DEF LockStep, InFrame, IDLE, BIT_ZERO, DONE
  <1>3. CtsFollows
    BY DEF CtsFollows, Idle, D0, FDONE
  <1>4. RestsHigh
    BY DEF RestsHigh, IDLE, START, DONE, BIT_ZERO
  <1>5. BitsAccountedFor
    BY DEF BitsAccountedFor, InFrame, START, IDLE, BIT_ZERO, BIT_DEST, DONE
  <1> QED
    BY <1>1, <1>2, <1>3, <1>4, <1>5 DEF IInv

-----------------------------------------------------------------------------
(* Types.  The two machines are independent here. *)
LEMMA TxTypes ==
  ASSUME NEW data \in Byte, NEW write, NEW fsclk \in Bit, NEW cts \in Bit,
         TxTypeOK, TxTick(fsclk, cts, data, write)
  PROVE  TxTypeOK'
  <1> USE DEF TxTypeOK, Bit, TxState, START, BIT_ZERO, BIT_SEVEN, BIT_DEST, DONE, IDLE
  <1>1. qFscts' \in [0..1 -> Bit]
    BY DEF TxTick, Synchronise
  <1>2. OnesByte \in Byte /\ ShiftIn(1, lclData) \in Byte /\ lclData[0] \in Bit
    BY ConstantBytes, ShiftInByte
  <1>3. WaitCleared(fsclk) \in Bit
    BY DEF WaitCleared
  <1>a. CASE TxAccept(data, write)
    BY <1>1, <1>2, <1>a DEF TxAccept
  <1>b. CASE TxIdle(fsclk, write)
    BY <1>1, <1>3, <1>b DEF TxIdle
  <1>c. CASE TxStart(fsclk)
    BY <1>1, <1>c DEF TxStart
  <1>d. CASE TxBit(fsclk)
    BY <1>1, <1>2, <1>d DEF TxBit
  <1>e. CASE TxDest(fsclk)
    BY <1>1, <1>e DEF TxDest, DEST_PORT
  <1>f. CASE TxDone(fsclk)
    BY <1>1, <1>2, <1>f DEF TxDone
  <1>g. CASE TxHold(fsclk)
    BY <1>1, <1>3, <1>g DEF TxHold
  <1> QED
    BY <1>a, <1>b, <1>c, <1>d, <1>e, <1>f, <1>g DEF TxTick

LEMMA FtdiTypes ==
  ASSUME NEW rising, NEW line, FtdiRxTypeOK, FtdiRxTick(rising, line)
  PROVE  FtdiRxTypeOK'
  <1> USE DEF FtdiRxTypeOK, FtdiState, Idle, D0, D7, SRC, FDONE, Bit
  <1>1. CASE FtdiQuiet
    BY <1>1 DEF FtdiQuiet, ftdiRxVars
  <1>2. CASE FtdiStart(line)
    BY <1>2 DEF FtdiStart, ZeroByte, Byte
  <1>3. CASE FtdiData(line)
    <2>1. ftdiByte' \in Byte
      BY <1>3 DEF FtdiData, Byte
    <2> QED
      BY <1>3, <2>1 DEF FtdiData
  <1>4. CASE FtdiSrc
    BY <1>4 DEF FtdiSrc
  <1>5. CASE FtdiDone
    BY <1>5 DEF FtdiDone
  <1> QED
    BY <1>1, <1>2, <1>3, <1>4, <1>5 DEF FtdiRxTick, FtdiEdge, FtdiIdle, FtdiStall

LEMMA TypesPreserved == TypeOK /\ [Next]_vars => TypeOK'
  <1> SUFFICES ASSUME TypeOK, [Next]_vars PROVE TypeOK'
    OBVIOUS
  <1>1. CASE UNCHANGED vars
    BY <1>1 DEF vars, txVars, ftdiRxVars, TypeOK, TxTypeOK, FtdiRxTypeOK
  <1>2. CASE Next
    <2>1. PICK data \in Payload, write \in Bit : Tick(data, write)
      BY <1>2 DEF Next
    <2>2. counter' \in 0..(FastSerialDivider - 1) /\ Fsclk \in Bit
      BY <2>1, ClockPhases DEF TypeOK, Tick, Bit
    <2>3. data \in Byte
      BY PayloadAssumption
    <2>4. TxTypeOK'
      BY <2>1, <2>2, <2>3, TxTypes DEF TypeOK, FtdiRxTypeOK, Tick
    <2>5. FtdiRxTypeOK'
      BY <2>1, FtdiTypes DEF TypeOK, Tick
    <2> QED
      BY <2>1, <2>2, <2>3, <2>4, <2>5 DEF TypeOK, Tick
  <1> QED
    BY <1>1, <1>2

(* Every variable keeps the type the registers it models have. *)
THEOREM TypeCorrect == Spec => []TypeOK
  <1>1. Init => TypeOK
    BY InitialState DEF IInv
  <1> QED
    BY <1>1, TypesPreserved, PTL DEF Spec

-----------------------------------------------------------------------------
(* The inductive invariant. *)

(* Between two rising edges the transmitter moves at most once, and the     *)
(* chip moves only at the edge.                                             *)
LEMMA WhoMoves ==
  ASSUME IInv, NEW data \in Payload, NEW write \in Bit, Tick(data, write)
  PROVE  /\ InFrame /\ Sampled => TxBit(Fsclk) \/ TxDest(Fsclk) \/ TxDone(Fsclk)
         /\ InFrame /\ ~Sampled => TxHold(Fsclk)
         /\ ~InFrame => \/ TxAccept(data, write)
                        \/ TxIdle(Fsclk, write)
                        \/ TxStart(Fsclk)
                        \/ TxHold(Fsclk)
         /\ ~Sampled' => FtdiQuiet
         /\ Sampled' => FtdiEdge(fsdi')
  <1> USE DEF IInv, TypeOK, Tick, TxTick, START, BIT_ZERO, BIT_SEVEN, BIT_DEST, DONE, IDLE
  <1>1. InFrame /\ Sampled => Strobe(Fsclk) /\ CtsAllows
    BY ClockPhases
    DEF InFrame, LockStep, Strobe, CtsAllows, CtsFollows, D0, FDONE
  <1>2. InFrame /\ ~Sampled => ~Strobe(Fsclk)
    BY ClockPhases DEF InFrame, LockStep, Strobe, TxTypeOK
  <1>3. /\ ~Sampled' => FtdiQuiet
        /\ Sampled' => FtdiEdge(fsdi')
    BY ClockPhases DEF FtdiRxTick
  <1>4. /\ InFrame <=> state \in 2..11
        /\ state \in Nat
    BY DEF InFrame, TxTypeOK, TxState
  <1>5. CASE TxAccept(data, write) \/ TxIdle(Fsclk, write)
    BY <1>3, <1>4, <1>5 DEF TxAccept, TxIdle
  <1>6. CASE TxStart(Fsclk)
    BY <1>3, <1>4, <1>6 DEF TxStart
  <1>7. CASE TxBit(Fsclk) \/ TxDest(Fsclk) \/ TxDone(Fsclk)
    BY <1>2, <1>3, <1>4, <1>7 DEF TxBit, TxDest, TxDone
  <1>8. CASE TxHold(Fsclk)
    BY <1>1, <1>3, <1>4, <1>8 DEF TxHold
  <1> QED
    BY <1>5, <1>6, <1>7, <1>8

LEMMA LockStepPreserved ==
  ASSUME IInv, NEW data \in Payload, NEW write \in Bit, Tick(data, write)
  PROVE  LockStep'
  <1> USE DEF IInv, TypeOK, Tick, START, BIT_ZERO, BIT_SEVEN, BIT_DEST, DONE, IDLE,
              Idle, D0, D7, SRC, FDONE, Bit, InFrame
  <1>1. /\ Fsclk \in {0, 1} /\ Fsclk' \in {0, 1}
        /\ Sampled => Fsclk = 1 /\ ~Sampled'
        /\ Sampled' => Fsclk = 0
        /\ (Fsclk = 0 /\ ~Sampled') => Fsclk' = 0
    BY ClockPhases
  <1>2. /\ state \in {0, 2, 3, 4, 5, 6, 7, 8, 9, 10, 11, 15}
        /\ ftdiRx \in {0, 2, 3, 4, 5, 6, 7, 8, 9, 10, 11}
        /\ waitClk \in {0, 1}
    BY DEF TxTypeOK, TxState, FtdiRxTypeOK, FtdiState
  <1>3. CASE InFrame /\ Sampled
    <2>1. FtdiQuiet
      BY <1>1, <1>3, WhoMoves
    <2>2. CASE TxBit(Fsclk) \/ TxDest(Fsclk)
      BY <1>1, <1>2, <1>3, <2>1, <2>2 DEF TxBit, TxDest, LockStep, FtdiQuiet, ftdiRxVars
    <2>3. CASE TxDone(Fsclk)
      BY <1>1, <1>2, <1>3, <2>1, <2>3 DEF TxDone, LockStep, FtdiQuiet, ftdiRxVars
    <2> QED
      BY <1>3, <2>2, <2>3, WhoMoves
  <1>4. CASE InFrame /\ ~Sampled
    <2>1. state' = state /\ waitClk' = WaitCleared(Fsclk)
      BY <1>4, WhoMoves DEF TxHold
    <2>2. CASE ~Sampled'
      BY <1>1, <1>2, <1>4, <2>1, <2>2, WhoMoves
      DEF LockStep, WaitCleared, FtdiQuiet, ftdiRxVars
    <2>3. CASE Sampled'
      <3>1. fsdi' = fsdi /\ (state = BIT_ZERO => fsdi = 0)
        BY <1>4, WhoMoves DEF TxHold, RestsHigh
      <3>2. ftdiRx' = state
        BY <1>2, <1>4, <2>3, <3>1, WhoMoves
        DEF LockStep, FtdiEdge, FtdiStart, FtdiData, FtdiSrc, FtdiDone, FtdiStall, FtdiIdle
      <3> QED
        BY <1>1, <1>2, <1>4, <2>1, <2>3, <3>2 DEF LockStep, WaitCleared
    <2> QED
      BY <2>2, <2>3
  <1>5. CASE ~InFrame
    <2>1. ftdiRx \in {Idle, FDONE}
      BY <1>5 DEF LockStep
    <2>2. CASE TxStart(Fsclk)
      <3>1. ftdiRx = Idle /\ Fsclk = 1
        BY <2>1, <2>2 DEF TxStart, Strobe, CtsAllows, CtsFollows
      <3>2. FtdiQuiet /\ ~Sampled'
        BY <1>1, <3>1, WhoMoves
      <3> QED
        BY <1>1, <2>2, <3>1, <3>2 DEF TxStart, LockStep, FtdiQuiet, ftdiRxVars
    <2>3. CASE ~TxStart(Fsclk)
      <3>1. ~InFrame' /\ fsdi' = 1
        BY <1>2, <1>5, <2>3, WhoMoves DEF TxAccept, TxIdle, TxHold, RestsHigh
      <3>2. ftdiRx' \in {Idle, FDONE}
        BY <2>1, <3>1, WhoMoves
        DEF FtdiQuiet, ftdiRxVars, FtdiEdge, FtdiStart, FtdiData, FtdiSrc, FtdiDone,
            FtdiStall, FtdiIdle
      <3> QED
        BY <3>1, <3>2 DEF LockStep
    <2> QED
      BY <2>2, <2>3
  <1> QED
    BY <1>3, <1>4, <1>5

LEMMA CtsFollowsPreserved ==
  ASSUME IInv, NEW data \in Payload, NEW write \in Bit, Tick(data, write)
  PROVE  CtsFollows'
  <1> USE DEF IInv, TypeOK, Tick, CtsFollows, Idle, D0, D7, SRC, FDONE
  <1>1. ftdiRx \in {0, 2, 3, 4, 5, 6, 7, 8, 9, 10, 11}
    BY DEF FtdiRxTypeOK, FtdiState
  <1>2. qFscts'[0] = fscts /\ qFscts'[1] = qFscts[0]
    BY DEF TxTick, Synchronise
  <1>3. Sampled => ~Sampled'
    BY ClockPhases
  <1>4. CASE FtdiQuiet
    BY <1>1, <1>2, <1>3, <1>4, WhoMoves DEF FtdiQuiet, ftdiRxVars, FtdiEdge, FtdiStart, FtdiData, FtdiSrc, FtdiDone
  <1>5. CASE Sampled' /\ FtdiEdge(fsdi')
    BY <1>1, <1>2, <1>3, <1>5
    DEF FtdiEdge, FtdiStart, FtdiData, FtdiSrc, FtdiDone, FtdiStall, FtdiIdle,
        FtdiQuiet, ftdiRxVars
  <1> QED
    BY <1>4, <1>5, WhoMoves

LEMMA RestsHighPreserved ==
  ASSUME IInv, NEW data \in Payload, NEW write \in Bit, Tick(data, write)
  PROVE  RestsHigh'
  <1> USE DEF IInv, TypeOK, Tick, RestsHigh, START, BIT_ZERO, BIT_SEVEN, BIT_DEST, DONE, IDLE
  <1>1. state \in {0, 2, 3, 4, 5, 6, 7, 8, 9, 10, 11, 15}
    BY DEF TxTypeOK, TxState
  <1>2. CASE TxAccept(data, write)
    BY <1>2 DEF TxAccept
  <1>3. CASE TxIdle(Fsclk, write)
    BY <1>3 DEF TxIdle
  <1>4. CASE TxStart(Fsclk)
    BY <1>4 DEF TxStart
  <1>5. CASE TxBit(Fsclk)
    BY <1>1, <1>5 DEF TxBit
  <1>6. CASE TxDest(Fsclk)
    BY <1>6 DEF TxDest, DEST_PORT
  <1>7. CASE TxDone(Fsclk)
    BY <1>7 DEF TxDone
  <1>8. CASE TxHold(Fsclk)
    BY <1>8 DEF TxHold
  <1> QED
    BY <1>2, <1>3, <1>4, <1>5, <1>6, <1>7, <1>8 DEF TxTick

(* The chip takes the bit on the line into its place in the byte. *)
LEMMA ChipTakesBit ==
  ASSUME IInv, NEW data \in Payload, NEW write \in Bit, Tick(data, write),
         InFrame, ~Sampled, Sampled'
  PROVE  \A i \in 0..7 : ftdiByte'[i] = IF i < ftdiRx' - D0 THEN cur[i] ELSE 0
  <1> USE DEF IInv, TypeOK, Idle, D0, D7, SRC, FDONE, BIT_ZERO, BIT_DEST, DONE, InFrame, Bit
  <1>1. /\ state \in {2, 3, 4, 5, 6, 7, 8, 9, 10, 11}
        /\ ftdiRx = IF state = 2 THEN 0 ELSE state - 1
    BY DEF LockStep, TxTypeOK, TxState
  <1>2. state' = state /\ fsdi' = fsdi /\ FtdiEdge(fsdi)
    BY WhoMoves DEF TxHold
  <1>3. \A i \in 0..7 : ftdiByte[i] \in Bit /\ cur[i] \in Bit
    BY DEF FtdiRxTypeOK, Byte
  <1>4. CASE state = 2
    <2>1. ftdiRx' = D0 /\ ftdiByte' = ZeroByte
      BY <1>1, <1>2, <1>4
      DEF FtdiEdge, FtdiStart, FtdiData, FtdiSrc, FtdiDone, FtdiStall, FtdiIdle, RestsHigh
    <2> QED
      BY <2>1 DEF ZeroByte
  <1>5. CASE state \in 3..10
    <2>1. FtdiData(fsdi)
      BY <1>1, <1>2, <1>5 DEF FtdiEdge, FtdiStart, FtdiSrc, FtdiDone, FtdiStall, FtdiIdle
    <2>2. fsdi = cur[ftdiRx - D0]
      BY <1>1, <1>5 DEF BitsAccountedFor
    <2>3. \A i \in 0..7 : ftdiByte[i] = IF i < ftdiRx - D0 THEN cur[i] ELSE 0
      BY <1>1, <1>5 DEF BitsAccountedFor
    <2>4. \A i \in 0..7 : i # ftdiRx - D0 => ftdiByte'[i] = ftdiByte[i]
      BY <2>1 DEF FtdiData, FtdiRxTypeOK, Byte
    <2>5. ftdiByte'[ftdiRx - D0] = cur[ftdiRx - D0]
      BY <1>1, <1>3, <1>5, <2>1, <2>2, <2>3 DEF FtdiData, FtdiRxTypeOK, Byte
    <2>6. ftdiRx' = ftdiRx + 1
      BY <2>1 DEF FtdiData
    <2> QED
      BY <1>1, <1>5, <2>3, <2>4, <2>5, <2>6
  <1>6. CASE state = 11
    <2>1. FtdiSrc
      BY <1>1, <1>2, <1>6 DEF FtdiEdge, FtdiStart, FtdiData, FtdiDone, FtdiStall, FtdiIdle
    <2> QED
      BY <1>1, <1>6, <2>1 DEF FtdiSrc, BitsAccountedFor
  <1> QED
    BY <1>1, <1>4, <1>5, <1>6

LEMMA BitsPreserved ==
  ASSUME IInv, NEW data \in Payload, NEW write \in Bit, Tick(data, write)
  PROVE  BitsAccountedFor'
  <1> USE DEF IInv, TypeOK, Tick, START, BIT_ZERO, BIT_SEVEN, BIT_DEST, DONE, IDLE, Idle, D0
  <1>1. /\ state \in {0, 2, 3, 4, 5, 6, 7, 8, 9, 10, 11, 15}
        /\ ftdiRx \in {0, 2, 3, 4, 5, 6, 7, 8, 9, 10, 11}
    BY DEF TxTypeOK, TxState, FtdiRxTypeOK, FtdiState, FDONE
  <1>2. InFrame <=> state \in 2..11
    BY DEF InFrame
  <1>3. CASE InFrame /\ Sampled
    <2>1. UNCHANGED <<cur, ftdiRx, ftdiByte>> /\ ftdiRx = state
      BY <1>1, <1>2, <1>3, ClockPhases, WhoMoves
      DEF Accepting, FtdiQuiet, ftdiRxVars, LockStep
    <2>2. \A i \in 0..7 : ftdiByte[i] = IF i < ftdiRx - D0 THEN cur[i] ELSE 0
      BY <1>1, <1>2, <1>3, <2>1 DEF BitsAccountedFor
    <2>3. CASE TxBit(Fsclk)
      <3>1. \A i \in 0..7 : i + (state - 2) <= 7 => lclData[i] = cur[i + (state - 2)]
        BY <1>1, <2>3 DEF TxBit, BitsAccountedFor
      <3>2. fsdi' = cur[state - 2]
        BY <1>1, <2>3, <3>1 DEF TxBit
      <3>3. \A i \in 0..7 : i # 7 => lclData'[i] = lclData[i + 1]
        BY <2>3 DEF TxBit, ShiftIn
      <3>4. \A i \in 0..7 : i + (state - 1) <= 7 => lclData'[i] = cur[i + (state - 1)]
        BY <1>1, <2>3, <3>1, <3>3 DEF TxBit
      <3> QED
        BY <1>1, <2>1, <2>2, <2>3, <3>2, <3>4 DEF TxBit, BitsAccountedFor, InFrame
    <2>4. CASE TxDest(Fsclk) \/ TxDone(Fsclk)
      BY <1>1, <2>1, <2>2, <2>4 DEF TxDest, TxDone, BitsAccountedFor, InFrame
    <2> QED
      BY <1>3, <2>3, <2>4, WhoMoves
  <1>4. CASE InFrame /\ ~Sampled
    <2>1. UNCHANGED <<state, lclData, fsdi, cur>>
      BY <1>2, <1>4, WhoMoves DEF TxHold, Accepting
    <2>2. CASE Sampled'
      BY <1>1, <1>2, <1>4, <2>1, <2>2, ChipTakesBit DEF BitsAccountedFor, InFrame
    <2>3. CASE ~Sampled'
      BY <1>1, <1>2, <1>4, <2>1, <2>3, WhoMoves
      DEF FtdiQuiet, ftdiRxVars, BitsAccountedFor, InFrame
    <2> QED
      BY <2>2, <2>3
  <1>5. CASE ~InFrame
    <2>1. CASE TxAccept(data, write)
      BY <2>1 DEF TxAccept, Accepting, BitsAccountedFor, InFrame
    <2>2. CASE TxIdle(Fsclk, write)
      BY <2>2 DEF TxIdle, BitsAccountedFor, InFrame
    <2>3. CASE TxStart(Fsclk)
      <3>1. ftdiRx = Idle /\ Fsclk = 1
        BY <1>5, <2>3 DEF TxStart, Strobe, CtsAllows, CtsFollows, LockStep, FDONE
      <3>2. ftdiRx' = Idle
        BY <3>1, ClockPhases, WhoMoves DEF FtdiQuiet, ftdiRxVars
      <3> QED
        BY <2>3, <3>2 DEF TxStart, Accepting, BitsAccountedFor, InFrame
    <2>4. CASE TxHold(Fsclk)
      BY <1>1, <1>2, <1>5, <2>4 DEF TxHold, Accepting, BitsAccountedFor, InFrame
    <2> QED
      BY <1>5, <2>1, <2>2, <2>3, <2>4, WhoMoves
  <1> QED
    BY <1>3, <1>4, <1>5

LEMMA StepPreservesIInv == IInv /\ [Next]_vars => IInv'
  <1> SUFFICES ASSUME IInv, [Next]_vars PROVE IInv'
    OBVIOUS
  <1>1. CASE UNCHANGED vars
    <2>1. UNCHANGED <<counter, state, lclData, qFscts, busy, fsdi, waitClk, ftdiRx,
                      ftdiByte, fscts, received, cur>>
      BY <1>1 DEF vars, txVars, ftdiRxVars
    <2> QED
      BY <2>1
      DEF IInv, TypeOK, TxTypeOK, FtdiRxTypeOK, LockStep, CtsFollows, RestsHigh,
          BitsAccountedFor, InFrame, Sampled, Fsclk
  <1>2. CASE Next
    <2>1. PICK data \in Payload, write \in Bit : Tick(data, write)
      BY <1>2 DEF Next
    <2>2. TypeOK'
      BY TypesPreserved DEF IInv
    <2> QED
      BY <2>1, <2>2, LockStepPreserved, CtsFollowsPreserved, RestsHighPreserved,
         BitsPreserved DEF IInv
  <1> QED
    BY <1>1, <1>2

(* The transmitter and the chip stay in step, and every bit of the byte is  *)
(* where it should be, whatever bytes are offered and however long the chip *)
(* keeps FSCTS low.                                                         *)
THEOREM Invariance == Spec => []IInv
  BY InitialState, StepPreservesIInv, PTL DEF Spec

(* At every strobe inside a frame the clear-to-send it needs has arrived:   *)
(* no bit is stretched over two FSCLK periods.                              *)
THEOREM NeverStretches == Spec => []FrameNeverStretches
  <1>1. IInv => FrameNeverStretches
    BY DEF IInv, LockStep, CtsFollows, FrameNeverStretches, Strobe, InFrame,
           BIT_ZERO, BIT_DEST, DONE, D0, FDONE
  <1> QED
    BY <1>1, Invariance, PTL

(* The start bit never meets a chip whose FSCTS is low. *)
THEOREM StartsClear == Spec => StartsOnlyWhenClear
  <1>1. IInv /\ [Next]_vars => [(state = START /\ state' = BIT_ZERO) => fscts = 1]_vars
    <2> SUFFICES ASSUME IInv, Next, state = START, state' = BIT_ZERO
                 PROVE  fscts = 1
      OBVIOUS
    <2>1. PICK data \in Payload, write \in Bit : Tick(data, write)
      BY DEF Next
    <2>2. ~InFrame
      BY DEF InFrame, START, BIT_ZERO, DONE
    <2>3. TxStart(Fsclk)
      BY <2>1, <2>2, WhoMoves DEF TxAccept, TxIdle, TxHold, START, BIT_ZERO, IDLE
    <2> QED
      BY <2>2, <2>3
      DEF TxStart, CtsAllows, IInv, LockStep, CtsFollows, Idle, D0, FDONE
  <1> QED
    BY <1>1, Invariance, PTL DEF Spec, StartsOnlyWhenClear

-----------------------------------------------------------------------------
(* What a step does to the bytes under way: the chip may hand the oldest    *)
(* over, and the byte accepted, if any, goes in behind the others.          *)

Taken(data, write) == IF Accepting(write) THEN <<data>> ELSE << >>

Effect(data, write) ==
  /\ Accepting(write) => Len(InFlight) <= 1
  /\ \/ /\ received' = received
        /\ InFlight' = InFlight \o Taken(data, write)
     \/ /\ InFlight # << >>
        /\ received' = [data |-> Head(InFlight), parity |-> 1 - received.parity]
        /\ InFlight' = Tail(InFlight) \o Taken(data, write)

LEMMA InFlightType ==
  ASSUME IInv
  PROVE  InFlight \in Seq(Byte) /\ Len(InFlight) <= 2
  <1>1. ftdiByte \in Byte /\ cur \in Byte
    BY DEF IInv, TypeOK, FtdiRxTypeOK
  <1> QED
    BY <1>1 DEF InFlight

(* The chip hands a byte over only between two frames. *)
LEMMA StepDelivering ==
  ASSUME IInv, NEW data \in Payload, NEW write \in Bit, Tick(data, write),
         Sampled', FtdiDone
  PROVE  Effect(data, write)
  <1> USE DEF IInv, TypeOK, Tick, START, BIT_ZERO, BIT_DEST, DONE, IDLE, Idle, D0, SRC, FDONE
  <1>1. /\ ~InFrame
        /\ state \in {START, IDLE}
        /\ ftdiRx = FDONE /\ ftdiRx' = Idle
    BY ClockPhases DEF FtdiDone, LockStep, InFrame, TxTypeOK, TxState
  <1>2. received' = [data |-> ftdiByte, parity |-> 1 - received.parity]
    BY DEF FtdiDone
  <1>3. InFlight = IF state = START THEN <<ftdiByte, cur>> ELSE <<ftdiByte>>
    BY <1>1 DEF InFlight
  <1>4. CASE TxAccept(data, write)
    <2>1. InFlight = <<ftdiByte>> /\ InFlight' = <<data>>
      BY <1>1, <1>3, <1>4 DEF TxAccept, Accepting, InFlight
    <2>2. Taken(data, write) = <<data>>
      BY <1>4 DEF TxAccept, Taken, Accepting
    <2> QED
      BY <1>2, <2>1, <2>2 DEF Effect
  <1>5. CASE TxIdle(Fsclk, write)
    <2>1. InFlight = <<ftdiByte>> /\ InFlight' = << >>
      BY <1>1, <1>3, <1>5 DEF TxIdle, InFlight, InFrame
    <2>2. Taken(data, write) = << >>
      BY <1>5 DEF TxIdle, Taken, Accepting
    <2> QED
      BY <1>2, <2>1, <2>2 DEF Effect
  <1>6. CASE TxHold(Fsclk)
    <2>1. InFlight = <<ftdiByte, cur>> /\ InFlight' = <<cur>>
      BY <1>1, <1>3, <1>6 DEF TxHold, Accepting, InFlight
    <2>2. ~Accepting(write)
      BY <1>6 DEF TxHold, Accepting
    <2> QED
      BY <1>2, <2>1, <2>2 DEF Effect, Taken
  <1>7. ~TxStart(Fsclk)
    BY <1>1 DEF TxStart, CtsAllows, CtsFollows
  <1> QED
    BY <1>1, <1>4, <1>5, <1>6, <1>7, WhoMoves

LEMMA StepInFrame ==
  ASSUME IInv, NEW data \in Payload, NEW write \in Bit, Tick(data, write), InFrame
  PROVE  UNCHANGED <<InFlight, received>>
  <1> USE DEF IInv, TypeOK, Tick, START, BIT_ZERO, BIT_SEVEN, BIT_DEST, DONE, IDLE,
              Idle, D0, D7, SRC, FDONE, InFrame
  <1>1. /\ state \in {2, 3, 4, 5, 6, 7, 8, 9, 10, 11}
        /\ cur' = cur
    BY DEF TxTypeOK, TxState, Accepting
  <1>2. CASE Sampled
    <2>1. UNCHANGED <<ftdiRx, ftdiByte, received>> /\ ftdiRx = state
      BY <1>2, ClockPhases, WhoMoves DEF LockStep, FtdiQuiet, ftdiRxVars
    <2>2. state' = state + 1 \/ (state = DONE /\ state' = IDLE)
      BY <1>2, WhoMoves DEF TxBit, TxDest, TxDone
    <2>3. InFlight' = InFlight
      BY <1>1, <2>1, <2>2 DEF InFlight
    <2> QED
      BY <2>1, <2>3
  <1>3. CASE ~Sampled /\ ~Sampled'
    <2>1. UNCHANGED <<ftdiRx, ftdiByte, received, state>>
      BY <1>3, WhoMoves DEF FtdiQuiet, ftdiRxVars, TxHold
    <2> QED
      BY <1>1, <2>1 DEF InFlight
  <1>4. CASE ~Sampled /\ Sampled'
    <2>1. /\ ftdiRx = IF state = 2 THEN 0 ELSE state - 1
          /\ state' = state
      BY <1>1, <1>4, WhoMoves DEF LockStep, TxHold
    <2>2. received' = received
      BY <1>1, <1>4, <2>1, WhoMoves
      DEF FtdiEdge, FtdiStart, FtdiData, FtdiSrc, FtdiDone, FtdiStall, FtdiIdle,
          FtdiQuiet, ftdiRxVars
    <2>3. ftdiRx' = state
      <3>1. LockStep'
        BY LockStepPreserved
      <3> QED
        BY <1>1, <1>4, <2>1, <3>1 DEF LockStep
    <2>4. CASE state = BIT_DEST
      <3>1. \A i \in 0..7 : ftdiByte'[i] = cur[i]
        BY <1>4, <2>3, <2>4, ChipTakesBit
      <3>2. ftdiByte' \in Byte /\ cur \in Byte
        BY TypesPreserved DEF FtdiRxTypeOK, Next
      <3>3. ftdiByte' = cur
        BY <3>1, <3>2 DEF Byte
      <3>4. InFlight = <<cur>> /\ InFlight' = <<ftdiByte'>>
        BY <1>1, <2>1, <2>3, <2>4 DEF InFlight
      <3> QED
        BY <2>2, <3>3, <3>4
    <2>5. CASE state = DONE
      <3>1. ftdiByte' = ftdiByte
        BY <1>4, <2>1, <2>5, WhoMoves
        DEF FtdiEdge, FtdiStart, FtdiData, FtdiSrc, FtdiDone, FtdiStall, FtdiIdle
      <3> QED
        BY <2>1, <2>2, <2>3, <2>5, <3>1 DEF InFlight
    <2>6. CASE state \notin {BIT_DEST, DONE}
      BY <1>1, <2>1, <2>2, <2>3, <2>6 DEF InFlight
    <2> QED
      BY <2>4, <2>5, <2>6
  <1> QED
    BY <1>2, <1>3, <1>4

LEMMA StepBetweenFrames ==
  ASSUME IInv, NEW data \in Payload, NEW write \in Bit, Tick(data, write), ~InFrame,
         ~(Sampled' /\ FtdiDone)
  PROVE  Effect(data, write)
  <1> USE DEF IInv, TypeOK, Tick, START, BIT_ZERO, BIT_DEST, DONE, IDLE, Idle, D0, D7, SRC, FDONE
  <1>1. state \in {START, IDLE} /\ ftdiRx \in {Idle, FDONE}
    BY DEF InFrame, LockStep, TxTypeOK, TxState
  <1>2. CASE TxStart(Fsclk)
    <2>1. ftdiRx = Idle /\ Fsclk = 1
      BY <1>1, <1>2 DEF TxStart, Strobe, CtsAllows, CtsFollows
    <2>2. FtdiQuiet
      BY <2>1, ClockPhases, WhoMoves
    <2> QED
      BY <1>2, <2>1, <2>2
      DEF TxStart, Accepting, FtdiQuiet, ftdiRxVars, Effect, Taken, InFlight, InFrame
  <1>3. CASE ~TxStart(Fsclk)
    <2>1. fsdi' = 1
      BY <1>1, <1>3, WhoMoves DEF TxAccept, TxIdle, TxHold, RestsHigh
    <2>2. UNCHANGED <<ftdiRx, ftdiByte, received>>
      BY <1>1, <2>1, WhoMoves
      DEF FtdiEdge, FtdiStart, FtdiData, FtdiSrc, FtdiStall, FtdiIdle, FtdiQuiet, ftdiRxVars
    <2>3. CASE TxAccept(data, write)
      <3>1. CASE ftdiRx = Idle
        <4>1. InFlight = << >> /\ InFlight' = <<data>>
          BY <2>2, <2>3, <3>1 DEF TxAccept, Accepting, InFlight, InFrame
        <4> QED
          BY <2>2, <2>3, <4>1 DEF TxAccept, Accepting, Effect, Taken
      <3>2. CASE ftdiRx = FDONE
        <4>1. InFlight = <<ftdiByte>> /\ InFlight' = <<ftdiByte, data>>
          BY <2>2, <2>3, <3>2 DEF TxAccept, Accepting, InFlight, InFrame
        <4> QED
          BY <2>2, <2>3, <4>1 DEF TxAccept, Accepting, Effect, Taken
      <3> QED
        BY <1>1, <3>1, <3>2
    <2>4. CASE TxIdle(Fsclk, write) \/ TxHold(Fsclk)
      <3>1. ~Accepting(write) /\ InFlight' = InFlight
        BY <1>1, <2>2, <2>4 DEF TxIdle, TxHold, Accepting, InFlight, InFrame
      <3> QED
        BY <2>2, <3>1, InFlightType DEF Effect, Taken
    <2> QED
      BY <1>3, <2>3, <2>4, WhoMoves
  <1> QED
    BY <1>2, <1>3

LEMMA StepEffect ==
  ASSUME IInv, NEW data \in Payload, NEW write \in Bit, Tick(data, write)
  PROVE  Effect(data, write)
  <1>1. CASE InFrame
    <2>1. ~Accepting(write)
      BY <1>1 DEF InFrame, Accepting, BIT_ZERO, DONE, IDLE
    <2>2. UNCHANGED <<InFlight, received>>
      BY <1>1, StepInFrame
    <2> QED
      BY <2>1, <2>2, InFlightType DEF Effect, Taken
  <1> QED
    BY <1>1, StepDelivering, StepBetweenFrames

LEMMA EffectImplementsChannel ==
  ASSUME IInv, NEW data \in Payload, NEW write \in Bit, Effect(data, write)
  PROVE  [Channel!Next]_(Channel!vars)
  <1> USE DEF Channel!Next, Channel!Accept, Channel!Deliver, Channel!Exchange,
              Channel!HandOver, Channel!vars
  <1>1. InFlight \in Seq(Byte) /\ data \in Byte
    BY InFlightType, PayloadAssumption
  <1>2. CASE Accepting(write)
    <2>1. /\ InFlight \o <<data>> = Append(InFlight, data)
          /\ InFlight # << >> => Tail(InFlight) \o <<data>> = Append(Tail(InFlight), data)
      BY <1>1
    <2> QED
      BY <1>2, <2>1 DEF Effect, Taken
  <1>3. CASE ~Accepting(write)
    <2>1. /\ InFlight \o << >> = InFlight
          /\ InFlight # << >> => Tail(InFlight) \o << >> = Tail(InFlight)
      BY <1>1
    <2> QED
      BY <1>3, <2>1 DEF Effect, Taken
  <1> QED
    BY <1>2, <1>3

(* Every step of the link is a step of the first-in first-out channel of    *)
(* capacity 2, or leaves it unchanged: nothing accepted by the transmitter  *)
(* is lost, repeated, reordered or altered, for every divider and every     *)
(* pattern of stalls.                                                       *)
THEOREM LinkImplementsChannel == Spec => ImplementsByteChannel
  <1>1. Init => Channel!Init
    BY DEF Init, TxInit, FtdiRxInit, Channel!Init, InFlight, InFrame, IDLE, START,
           BIT_ZERO, DONE, Idle, SRC, FDONE
  <1>2. IInv /\ [Next]_vars => [Channel!Next]_(Channel!vars)
    <2> SUFFICES ASSUME IInv, [Next]_vars PROVE [Channel!Next]_(Channel!vars)
      OBVIOUS
    <2>1. CASE UNCHANGED vars
      BY <2>1 DEF vars, txVars, ftdiRxVars, Channel!vars, InFlight, InFrame
    <2>2. CASE Next
      <3>1. PICK data \in Payload, write \in Bit : Tick(data, write)
        BY <2>2 DEF Next
      <3> QED
        BY <3>1, StepEffect, EffectImplementsChannel
    <2> QED
      BY <2>1, <2>2
  <1> QED
    BY <1>1, <1>2, Invariance, PTL DEF Spec, ImplementsByteChannel, Channel!Spec
=============================================================================
