---------------------------- MODULE TxFastSerial ----------------------------
(***************************************************************************)
(* rtl/fastserial/tx_fastserial.v: the transmitter state machine.  Every   *)
(* action is one posedge i_clk; its parameters are the values the input    *)
(* wires have before the edge.  The encoding of the states is the          *)
(* source's, because the code steps from one to the next with state + 1.   *)
(* WAIT_FOR_FCTS (4'h1) is never entered and has no action here.           *)
(***************************************************************************)
EXTENDS FastSerialData

VARIABLES
  state,     \* reg [3:0] state
  lclData,   \* reg [7:0] lcl_data
  qFscts,    \* reg [1:0] q_fscts: i_fscts through two flip-flops
  busy,      \* reg busy
  fsdi,      \* reg fsdi: the data line to the FTDI chip
  waitClk    \* reg wait_clk: this high phase of FSCLK is already used up

txVars == <<state, lclData, qFscts, busy, fsdi, waitClk>>

START == 0
BIT_ZERO == 2
BIT_SEVEN == 9
BIT_DEST == 10
DONE == 11
IDLE == 15
TxState == {START} \cup (BIT_ZERO..DONE) \cup {IDLE}

DEST_PORT == 1   \* parameter DEST_PORT

TxTypeOK ==
  /\ state \in TxState
  /\ lclData \in Byte
  /\ qFscts \in [0..1 -> Bit]
  /\ busy \in Bit
  /\ fsdi \in Bit
  /\ waitClk \in Bit

TxInit ==
  /\ state = IDLE
  /\ lclData = OnesByte
  /\ qFscts = PowerOnSync
  /\ busy = 0
  /\ fsdi = 1
  /\ waitClk = 0

\* if (~i_fsclk && wait_clk) wait_clk <= 0
WaitCleared(fsclk) == IF fsclk = 0 THEN 0 ELSE waitClk

\* i_fsclk & ~wait_clk: the moment, once in each high phase of FSCLK, at
\* which a state may advance.
Strobe(fsclk) == fsclk = 1 /\ waitClk = 0

\* Mutants of CtsAllows: the start bit does not wait for clear-to-send; it
\* waits for the wrong level.
CtsAllows_Unasked == state \in {BIT_DEST, DONE} => qFscts[1] = 0
CtsAllows_Inverted == state \in {START, BIT_DEST, DONE} => qFscts[1] = 0

\* What each state asks of the synchronised clear-to-send before it advances.
CtsAllows ==
  /\ state = START => qFscts[1] = 1
  /\ state \in {BIT_DEST, DONE} => qFscts[1] = 0

\* IDLE with a byte offered: keep it; the start bit waits for FSCLK.
TxAccept(data, write) ==
  /\ state = IDLE
  /\ write = 1 /\ busy = 0
  /\ busy' = 1
  /\ state' = START
  /\ lclData' = data
  /\ fsdi' = 1
  /\ waitClk' = 1

TxIdle(fsclk, write) ==
  /\ state = IDLE
  /\ ~(write = 1 /\ busy = 0)
  /\ fsdi' = 1
  /\ waitClk' = WaitCleared(fsclk)
  /\ UNCHANGED <<busy, state, lclData>>

TxStart(fsclk) ==
  /\ state = START
  /\ Strobe(fsclk) /\ CtsAllows
  /\ fsdi' = 0
  /\ state' = BIT_ZERO
  /\ waitClk' = 1
  /\ UNCHANGED <<busy, lclData>>

\* Mutant of TxBit: the most significant bit goes first.
TxBit_MsbFirst(fsclk) ==
  /\ state \in BIT_ZERO..BIT_SEVEN
  /\ Strobe(fsclk)
  /\ state' = state + 1
  /\ fsdi' = lclData[7]
  /\ lclData' = ShiftIn(1, lclData)
  /\ waitClk' = 1
  /\ UNCHANGED busy

TxBit(fsclk) ==
  /\ state \in BIT_ZERO..BIT_SEVEN
  /\ Strobe(fsclk)
  /\ state' = state + 1
  /\ fsdi' = lclData[0]
  /\ lclData' = ShiftIn(1, lclData)
  /\ waitClk' = 1
  /\ UNCHANGED busy

TxDest(fsclk) ==
  /\ state = BIT_DEST
  /\ Strobe(fsclk) /\ CtsAllows
  /\ fsdi' = DEST_PORT
  /\ state' = state + 1
  /\ waitClk' = 1
  /\ UNCHANGED <<busy, lclData>>

TxDone(fsclk) ==
  /\ state = DONE
  /\ Strobe(fsclk) /\ CtsAllows
  /\ lclData' = OnesByte
  /\ busy' = 0
  /\ state' = IDLE
  /\ waitClk' = 0
  /\ UNCHANGED fsdi

\* Not this state's moment yet.
TxHold(fsclk) ==
  /\ state # IDLE
  /\ ~(Strobe(fsclk) /\ CtsAllows)
  /\ waitClk' = WaitCleared(fsclk)
  /\ UNCHANGED <<state, lclData, busy, fsdi>>

\* One posedge i_clk of the whole module.
TxTick(fsclk, fscts, data, write) ==
  /\ qFscts' = Synchronise(qFscts, fscts)
  /\ \/ TxAccept(data, write)
     \/ TxIdle(fsclk, write)
     \/ TxStart(fsclk)
     \/ TxBit(fsclk)
     \/ TxDest(fsclk)
     \/ TxDone(fsclk)
     \/ TxHold(fsclk)
=============================================================================
