---------------------------- MODULE RxFastSerial ----------------------------
(***************************************************************************)
(* rtl/fastserial/rx_fastserial.v: the receiver state machine.  Every      *)
(* action is one posedge i_clk; fsclk and fsdo are the input wires before  *)
(* the edge.  The names of the registers are prefixed with rx, as the      *)
(* transmitter has registers of the same names.  debug_data is not read    *)
(* anywhere and is left out.                                               *)
(***************************************************************************)
EXTENDS FastSerialData

\* What a register that the code gives no initial value may hold.
CONSTANT PowerOnByte
ASSUME PowerOnAssumption == PowerOnByte # {} /\ PowerOnByte \subseteq Byte

VARIABLES
  rxState,     \* reg [3:0] state
  rxData,      \* reg [7:0] rx_data
  rxReady,     \* reg rx_ready: rx_data holds a byte during this cycle
  qFsdo,       \* reg [1:0] q_fsdo: i_fsdo through two flip-flops
  rxWaitClk    \* reg wait_clk

rxVars == <<rxState, rxData, rxReady, qFsdo, rxWaitClk>>

WAIT_FOR_START_BIT == 0
RX_BIT_ZERO == 1
RX_BIT_SEVEN == 8
RX_BIT_DEST == 9
RX_DONE == 10
CLEAN_UP == 11

RxTypeOK ==
  /\ rxState \in WAIT_FOR_START_BIT..CLEAN_UP
  /\ rxData \in Byte
  /\ rxReady \in Bit
  /\ qFsdo \in [0..1 -> Bit]
  /\ rxWaitClk \in Bit

RxInit ==
  /\ rxState = WAIT_FOR_START_BIT
  /\ rxData \in PowerOnByte
  /\ rxReady = 0
  /\ qFsdo = PowerOnSync
  /\ rxWaitClk = 0

RxWaitCleared(fsclk) == IF fsclk = 0 THEN 0 ELSE rxWaitClk

\* Mutant of RxStrobe: the level of FSCLK is not looked at.
RxStrobe_AnyPhase(fsclk) == fsclk \in Bit /\ rxWaitClk = 0

RxStrobe(fsclk) == fsclk = 1 /\ rxWaitClk = 0

\* Mutant of RxStartBit: wait_clk is not set.
RxStartBit_NoWait(fsclk) ==
  /\ rxState = WAIT_FOR_START_BIT
  /\ qFsdo[1] = 0 /\ RxStrobe(fsclk)
  /\ rxState' = RX_BIT_ZERO
  /\ UNCHANGED <<rxData, rxReady, rxWaitClk>>

RxStartBit(fsclk) ==
  /\ rxState = WAIT_FOR_START_BIT
  /\ qFsdo[1] = 0 /\ RxStrobe(fsclk)
  /\ rxState' = RX_BIT_ZERO
  /\ rxWaitClk' = 1
  /\ UNCHANGED <<rxData, rxReady>>

RxBit(fsclk) ==
  /\ rxState \in RX_BIT_ZERO..RX_BIT_SEVEN
  /\ RxStrobe(fsclk)
  /\ rxState' = rxState + 1
  /\ rxData' = ShiftIn(qFsdo[1], rxData)
  /\ rxWaitClk' = 1
  /\ UNCHANGED rxReady

RxDest(fsclk) ==
  /\ rxState = RX_BIT_DEST
  /\ RxStrobe(fsclk)
  /\ rxState' = rxState + 1
  /\ rxWaitClk' = 1
  /\ UNCHANGED <<rxData, rxReady>>

\* Mutant of RxDone: rx_ready is not raised.
RxDone_Silent(fsclk) ==
  /\ rxState = RX_DONE
  /\ rxState' = rxState + 1
  /\ rxWaitClk' = RxWaitCleared(fsclk)
  /\ UNCHANGED <<rxData, rxReady>>

RxDone(fsclk) ==
  /\ rxState = RX_DONE
  /\ rxState' = rxState + 1
  /\ rxReady' = 1
  /\ rxWaitClk' = RxWaitCleared(fsclk)
  /\ UNCHANGED rxData

\* Mutants of RxCleanUp: it goes on counting; rx_ready stays up.
RxCleanUp_NoReturn(fsclk) ==
  /\ rxState = CLEAN_UP
  /\ rxState' = rxState + 1
  /\ rxReady' = 0
  /\ rxData' = ZeroByte
  /\ rxWaitClk' = RxWaitCleared(fsclk)

RxCleanUp_KeepsReady(fsclk) ==
  /\ rxState = CLEAN_UP
  /\ rxState' = WAIT_FOR_START_BIT
  /\ rxData' = ZeroByte
  /\ rxWaitClk' = RxWaitCleared(fsclk)
  /\ UNCHANGED rxReady

RxCleanUp(fsclk) ==
  /\ rxState = CLEAN_UP
  /\ rxState' = WAIT_FOR_START_BIT
  /\ rxReady' = 0
  /\ rxData' = ZeroByte
  /\ rxWaitClk' = RxWaitCleared(fsclk)

\* Not this state's moment, or no start bit.
RxHold(fsclk) ==
  /\ rxState \in WAIT_FOR_START_BIT..RX_BIT_DEST
  /\ ~RxStrobe(fsclk) \/ (rxState = WAIT_FOR_START_BIT /\ qFsdo[1] # 0)
  /\ rxWaitClk' = RxWaitCleared(fsclk)
  /\ UNCHANGED <<rxState, rxData, rxReady>>

\* One posedge i_clk of the whole module.
RxTick(fsclk, fsdo) ==
  /\ qFsdo' = Synchronise(qFsdo, fsdo)
  /\ \/ RxStartBit(fsclk)
     \/ RxBit(fsclk)
     \/ RxDest(fsclk)
     \/ RxDone(fsclk)
     \/ RxCleanUp(fsclk)
     \/ RxHold(fsclk)
=============================================================================
