-------------------------- MODULE FastSerialTxLink --------------------------
(***************************************************************************)
(* FPGA to host: clock_fastserial, tx_fastserial and the FTDI chip on one  *)
(* wire each way (FSDI with the data, FSCTS back).  One step is one        *)
(* posedge i_clk, followed by what the chip does if FSCLK rose.  Whoever   *)
(* drives the transmitter may offer any byte on any cycle, busy or not.    *)
(***************************************************************************)
EXTENDS ClockFastSerial, TxFastSerial, FtdiReceiver, Sequences

CONSTANT Payload     \* the bytes offered to the transmitter
ASSUME PayloadAssumption == Payload \subseteq Byte

VARIABLE cur         \* history: the byte the transmitter accepted last

vars == <<counter, txVars, ftdiRxVars, cur>>

Init ==
  /\ ClockInit
  /\ TxInit
  /\ FtdiRxInit
  /\ cur = OnesByte

Accepting(write) == state = IDLE /\ write = 1 /\ busy = 0

Tick(data, write) ==
  /\ ClockTick
  /\ TxTick(Fsclk, fscts, data, write)
  /\ FtdiRxTick(RisingEdge, fsdi')
  /\ cur' = IF Accepting(write) THEN data ELSE cur

Next == \E data \in Payload, write \in Bit : Tick(data, write)

\* The chip frees itself for another byte.
FtdiAccepts == Next /\ ftdiRx = FDONE /\ ftdiRx' = Idle

(* i_clk runs forever (WF).  On infinitely many rising edges the chip could *)
(* take the byte it holds, and it does not refuse on all of them (SF).      *)
Spec == Init /\ [][Next]_vars /\ WF_vars(Next) /\ SF_vars(FtdiAccepts)

-----------------------------------------------------------------------------
(* The type invariant. *)
TypeOK ==
  /\ counter \in 0..(FastSerialDivider - 1)
  /\ TxTypeOK
  /\ FtdiRxTypeOK
  /\ cur \in Byte

InFrame == state \in BIT_ZERO..DONE

\* The cycle right after a rising edge: the chip has sampled the line and the
\* transmitter is about to put the next bit on it.
Sampled == counter = Half

(* No bit of a frame is ever stretched.  Once the start bit is out, the     *)
(* transmitter has no way to tell the chip to wait, so at every strobe the  *)
(* clear-to-send it needs (low at DEST and at DONE) must already have come  *)
(* through the synchroniser.  tx_fastserial.v:123,131.                      *)
FrameNeverStretches ==
  (state \in {BIT_DEST, DONE} /\ Strobe(Fsclk)) => qFscts[1] = 0

(* The two state machines run in lockstep, one bit per FSCLK period: which  *)
(* state the chip is in follows from the transmitter's state and from the   *)
(* phase of the clock.                                                      *)
LockStep ==
  /\ (InFrame /\ Sampled) => (ftdiRx = state /\ waitClk = 0)
  /\ (InFrame /\ ~Sampled) => ftdiRx = IF state = BIT_ZERO THEN Idle ELSE state - 1
  /\ (Fsclk = 1 /\ ~Sampled /\ InFrame) => waitClk = 1
  /\ ~InFrame => ftdiRx \in {Idle, FDONE}

(* Clear-to-send as the chip drives it, and as the transmitter sees it two  *)
(* cycles later.  The chip drops FSCTS with D0, so it is low in both        *)
(* flip-flops well before DEST asks for it.                                 *)
CtsFollows ==
  /\ fscts = IF ftdiRx \in {Idle, D0} THEN 1 ELSE 0
  /\ (ftdiRx = D0 + 1 /\ ~Sampled) => qFscts[0] = 0
  /\ ftdiRx \in D0 + 2..FDONE => (qFscts[0] = 0 /\ qFscts[1] = 0)

(* The line rests high between frames, and busy says exactly whether the    *)
(* transmitter holds a byte: no byte is taken while another is being sent.  *)
RestsHigh ==
  /\ state \in {START, DONE, IDLE} => fsdi = 1
  /\ state = BIT_ZERO => fsdi = 0
  /\ busy = IF state = IDLE THEN 0 ELSE 1

(* Every bit of the byte being sent is in exactly one place: bits already   *)
(* sampled are in the chip, one is on the line, the rest in lcl_data.       *)
BitsAccountedFor ==
  /\ state \in {START, BIT_ZERO} => lclData = cur
  /\ state \in 3..BIT_DEST =>
       /\ fsdi = cur[state - 3]
       /\ \A i \in 0..7 : i + (state - 2) <= 7 => lclData[i] = cur[i + (state - 2)]
  /\ (InFrame /\ ftdiRx # Idle) =>
       \A i \in 0..7 : ftdiByte[i] = IF i < ftdiRx - D0 THEN cur[i] ELSE 0

(* The inductive invariant: what a step relies on and re-establishes. *)
IInv == TypeOK /\ LockStep /\ CtsFollows /\ RestsHigh /\ BitsAccountedFor

(* The start bit goes out only while the chip's FSCTS is high on the wire,  *)
(* not just in the synchroniser's two-cycle-old copy: "the target device    *)
(* should ensure that CTS is high before it sends data".                    *)
StartsOnlyWhenClear ==
  [][(state = START /\ state' = BIT_ZERO) => fscts = 1]_vars

-----------------------------------------------------------------------------
(* What is under way: a byte the chip holds and has not handed over, then   *)
(* the byte in the transmitter.                                             *)
InFlight ==
  LET inChip == ftdiRx \in {SRC, FDONE} IN
  CASE inChip /\ state = START -> <<ftdiByte, cur>>
    [] inChip /\ state # START -> <<ftdiByte>>
    [] ~inChip /\ (state = START \/ InFrame) -> <<cur>>
    [] OTHER -> << >>

Channel == INSTANCE ByteChannel WITH inFlight <- InFlight, Capacity <- 2

(* The link is a first-in first-out channel: no byte the transmitter took   *)
(* is lost, repeated, reordered or altered on its way to the host.          *)
ImplementsByteChannel == Channel!Spec

(* Every byte taken reaches the host, and so the transmitter frees itself   *)
(* for the next, however long the chip holds FSCTS low.                     *)
EveryByteArrives == Channel!Live
=============================================================================
