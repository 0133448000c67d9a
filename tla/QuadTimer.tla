------------------------------ MODULE QuadTimer ------------------------------
(***************************************************************************)
(* rtl/quad_timer.v: a counter behind a prescaler, a compare register that *)
(* reloads it and raises the interrupt, and the bus registers.  The code   *)
(* is one if/else chain: in a clock cycle the timer either takes a write,  *)
(* or takes a read, or counts.                                             *)
(***************************************************************************)
EXTENDS Naturals

CONSTANTS
  TimerDivider,    \* parameter timer_divider, compared with a 16-bit counter
  Values           \* 2^32: how many values a register has

\* With a divider of 0 the reload would cost a tick.
ASSUME TimerAssumption ==
  /\ TimerDivider \in Nat /\ 1 <= TimerDivider /\ TimerDivider < 65536
  /\ Values \in Nat /\ 4 <= Values

VARIABLES
  value,           \* reg [31:0] value: TIME_REG
  compare,         \* reg [31:0] compare: CMP_REG
  timerStatus,     \* reg [31:0] status: bit 0 enables, bits 1 and 0 arm
  dividerCnt,      \* reg [15:0] divider_cnt
  irq,             \* o_irq
  timerAck,        \* o_wb_ack
  timerDat         \* o_wb_dat

timerVars == <<value, compare, timerStatus, dividerCnt, irq, timerAck, timerDat>>

TIME_REG == 0
CMP_REG == 4
STATUS_REG == 8

Word == 0..(Values - 1)

TimerTypeOK ==
  /\ value \in Word /\ compare \in Word /\ timerStatus \in Word
  /\ dividerCnt \in 0..TimerDivider
  /\ irq \in {0, 1} /\ timerAck \in {0, 1}
  /\ timerDat \in Word

\* o_wb_ack has no initial value.
TimerInit ==
  /\ value = 0 /\ compare = 0 /\ timerStatus = 0
  /\ dividerCnt = 0
  /\ irq = 0
  /\ timerAck \in {0, 1}
  /\ timerDat = 0

Enabled == timerStatus % 2 = 1
Armed == timerStatus % 4 = 3

\* i_wb_cyc & !o_wb_ack: the first cycle of an access.
TimerAccess(cyc) == cyc = 1 /\ timerAck = 0

TimerAckTick(cyc) == timerAck' = IF TimerAccess(cyc) THEN 1 ELSE 0

TimerWrite(cyc, addr, we, dat) ==
  /\ TimerAccess(cyc) /\ we = 1
  /\ value' = IF addr = TIME_REG THEN dat ELSE value
  /\ compare' = IF addr = CMP_REG THEN dat ELSE compare
  /\ timerStatus' = IF addr = STATUS_REG THEN dat ELSE timerStatus
  /\ UNCHANGED <<dividerCnt, irq, timerDat>>

TimerRead(cyc, addr, we) ==
  /\ TimerAccess(cyc) /\ we = 0
  /\ timerDat' = CASE addr = CMP_REG -> compare
                   [] addr = STATUS_REG -> timerStatus
                   [] OTHER -> value
  /\ UNCHANGED <<value, compare, timerStatus, dividerCnt, irq>>

\* Mutant of Ticks: one cycle early.
Ticks_Early == Enabled /\ dividerCnt = TimerDivider - 1

\* The prescaler runs out in this cycle.
Ticks == Enabled /\ dividerCnt = TimerDivider

\* Mutant of Matches: the counter has to pass compare.
Matches_Above == value > compare /\ Armed

Matches == value = compare /\ Armed

Plus1(word) == IF word = Values - 1 THEN 0 ELSE word + 1

\* Mutant of TimerCount: the prescaler is reset too when the counter is
\* reloaded.
TimerCount_ResetsPrescaler(cyc) ==
  /\ ~TimerAccess(cyc)
  /\ dividerCnt' = IF Ticks \/ Matches THEN 0
                   ELSE IF Enabled THEN dividerCnt + 1 ELSE dividerCnt
  /\ value' = IF Matches THEN 0 ELSE IF Ticks THEN Plus1(value) ELSE value
  /\ irq' = IF Matches THEN 1 ELSE 0
  /\ UNCHANGED <<compare, timerStatus, timerDat>>

\* The reload overrides the increment; the prescaler runs on.
TimerCount(cyc) ==
  /\ ~TimerAccess(cyc)
  /\ dividerCnt' = IF Ticks THEN 0
                   ELSE IF Enabled THEN dividerCnt + 1 ELSE dividerCnt
  /\ value' = IF Matches THEN 0 ELSE IF Ticks THEN Plus1(value) ELSE value
  /\ irq' = IF Matches THEN 1 ELSE 0
  /\ UNCHANGED <<compare, timerStatus, timerDat>>

\* One posedge i_clk.
TimerTick(cyc, addr, we, dat) ==
  /\ TimerAckTick(cyc)
  /\ \/ TimerWrite(cyc, addr, we, dat)
     \/ TimerRead(cyc, addr, we)
     \/ TimerCount(cyc)
=============================================================================
