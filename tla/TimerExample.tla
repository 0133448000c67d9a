---------------------------- MODULE TimerExample ----------------------------
(***************************************************************************)
(* sw/exampleTimer/main.cpp on the SoC: the program polls the timer until  *)
(* a second has passed and toggles a light; and sw/exampleLED/main.cpp,    *)
(* which toggles it after a loop that only counts.  One step is one        *)
(* posedge i_clk.  wb_intercon (external) gives cyc to the slave of the    *)
(* address.                                                                *)
(***************************************************************************)
EXTENDS QuadTimer, QuadGpio, WishboneMaster

CONSTANTS
  Delay,         \* ONE_SECOND_IN_US
  MaxGap         \* bound: cycles the program spends between two accesses

\* A delay is told from one that has passed by the sign of a 32-bit number.
\* A program so slow that the sign changes twice between two polls is left out.
Late == (MaxGap + 4) \div (TimerDivider + 1) + 1
ASSUME DelayAssumption ==
  /\ Pin \subseteq 0..7 /\ 0 \in Pin
  /\ MaxGap \in Nat
  /\ Delay \in Nat /\ Delay > 0
  /\ Values % 2 = 0 /\ Delay < Values \div 2 /\ Late < Values \div 2

VARIABLES
  program,       \* the main.cpp that is linked
  pc,            \* which access the program makes next, or is making
  expireValue,   \* expire_value
  gap,           \* cycles since the last access
  elapsed,       \* history: ticks since TIMER_VALUE_REG was read for expire_value
  toggles        \* history: parity of the toggles done

vars == <<timerVars, gpioVars, masterVars, program, pc, expireValue, gap, elapsed, toggles>>

LED_0 == 1          \* pin 0, as a mask
PinsOf(word) == {pin \in Pin : (word \div 2^pin) % 2 = 1}

AtRest == [addr |-> 0, we |-> 0, dat |-> 0]

\* Mutant of AccessOf: the light is set where it should be toggled.
AccessOf_Sets(step) ==
  CASE step = "enable" -> [addr |-> STATUS_REG, we |-> 1, dat |-> 1]
    [] step = "toggle" -> [addr |-> SET_REG, we |-> 1, dat |-> LED_0]
    [] OTHER           -> [addr |-> TIME_REG, we |-> 0, dat |-> 0]

\* TIMER_STATUS_REG = TIMER_STATUS_REG_ENABLE; the reads; the toggle.
AccessOf(step) ==
  CASE step = "enable" -> [addr |-> STATUS_REG, we |-> 1, dat |-> 1]
    [] step = "toggle" -> [addr |-> TOGGLE_REG, we |-> 1, dat |-> LED_0]
    [] OTHER           -> [addr |-> TIME_REG, we |-> 0, dat |-> 0]

CycGpio == IF pc = "toggle" THEN cyc ELSE 0
CycTimer == IF pc = "toggle" THEN 0 ELSE cyc

Ack == IF pc = "toggle" THEN gpioAck ELSE timerAck

\* Mutants of Expired: the comparison is unsigned; it is for equality.
Expired_Unsigned(now) == expireValue <= now
Expired_Equal(now) == expireValue = now

\* !((int32_t)(expire_value - now) > 0)
Expired(now) ==
  LET left == (expireValue + Values - now) % Values
  IN  left = 0 \/ left >= Values \div 2

\* exampleLED is a toggle, and a toggle at the end of each pass of a loop.
FirstAccess == IF program = "exampleTimer" THEN "enable" ELSE "toggle"
AfterToggle == IF program = "exampleTimer" THEN "start" ELSE "toggle"

\* What the program does with the access that ends.
Continue ==
  /\ pc' = CASE pc = "enable" -> "start"
             [] pc = "start"  -> "poll"
             [] pc = "poll"   -> IF Expired(timerDat) THEN "toggle" ELSE "poll"
             [] pc = "toggle" -> AfterToggle
  /\ expireValue' = IF pc = "start" THEN (timerDat + Delay) % Values ELSE expireValue
  /\ toggles' = IF pc = "toggle" THEN 1 - toggles ELSE toggles

Waits == UNCHANGED <<pc, expireValue, toggles>>

ProgramTick ==
  \/ gap < MaxGap /\ MasterRest /\ gap' = gap + 1 /\ Waits
  \/ MasterStart(AccessOf(pc)) /\ gap' = 0 /\ Waits
  \/ MasterHold(Ack) /\ UNCHANGED gap /\ Waits
  \/ MasterFinish(Ack, AtRest) /\ UNCHANGED gap /\ Continue

Counted == ~TimerAccess(CycTimer) /\ Ticks

\* The read for expire_value samples the counter in its first cycle.
Record ==
  elapsed' = IF pc = "start" /\ TimerAccess(CycTimer) THEN 0
             ELSE IF Counted /\ elapsed < Values THEN elapsed + 1 ELSE elapsed

Init ==
  /\ TimerInit /\ GpioInit /\ MasterInit(AtRest)
  /\ program \in {"exampleTimer", "exampleLED"}
  /\ pc = FirstAccess
  /\ expireValue = 0
  /\ gap = 0
  /\ elapsed = 0
  /\ toggles = 0

Next ==
  /\ TimerTick(CycTimer, addr, we, dat)
  /\ GpioTick(CycGpio, addr, we, PinsOf(dat))
  /\ ProgramTick
  /\ Record
  /\ UNCHANGED program

(* i_clk runs forever, and the program gets on with it: MaxGap. *)
Spec == Init /\ [][Next]_vars /\ WF_vars(Next)

-----------------------------------------------------------------------------
(* The type invariant. *)
TypeOK ==
  /\ TimerTypeOK /\ GpioTypeOK
  /\ program \in {"exampleTimer", "exampleLED"}
  /\ pc \in {"enable", "start", "poll", "toggle"}
  /\ expireValue \in Word
  /\ gap \in 0..MaxGap
  /\ elapsed \in 0..Values
  /\ toggles \in {0, 1}
  /\ cyc \in {0, 1}

(* The light is toggled neither before the delay has passed nor much later, *)
(* wherever the counter wraps between the reads.  exampleTimer 22-24.       *)
DelayIsKept ==
  (program = "exampleTimer" /\ pc = "toggle") => elapsed \in Delay..(Delay + 2 * Late)

\* What of the bus the GPIO sees.
GpioSelected == CycGpio = 1
GpioPart == INSTANCE GpioSystem WITH
  cyc  <- CycGpio,
  addr <- IF GpioSelected THEN addr ELSE REG,
  we   <- IF GpioSelected THEN we ELSE 0,
  dat  <- IF GpioSelected THEN PinsOf(dat) ELSE {},
  want <- IF toggles = 1 THEN PinsOf(LED_0) ELSE {}

(* The programs are masters as GpioSystem assumes them, and the GPIO on the *)
(* shared bus is the GPIO on its own, the accesses to the timer being rests *)
(* for it: what is shown of GpioSystem for every access holds here.  The    *)
(* light changes once for each pass of the loop.  exampleLED 18-23.         *)
ImplementsGpio == GpioPart!Spec

(* A toggle takes effect once although its access lasts several cycles, and *)
(* is over when the access is.  quad_gpio.v:26.                             *)
AccessesAreAtomic == GpioPart!AccessesAreAtomic

(* The light blinks forever: polling the timer, which stops it for a cycle  *)
(* each time, never keeps it from counting.                                 *)
Blinks == []<>(toggles = 0) /\ []<>(toggles = 1)
=============================================================================
