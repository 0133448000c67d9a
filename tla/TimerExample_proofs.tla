------------------------ MODULE TimerExample_proofs ------------------------
(***************************************************************************)
(* Proofs about the example programs: they use the GPIO as GpioSystem      *)
(* assumes and keep the delay they are written to keep, for every divider, *)
(* width of the registers, set of pins, delay and pace.  At the end, the   *)
(* GPIO port on its own: its accesses are atomic, for any set of pins.     *)
(***************************************************************************)
EXTENDS TimerExample, TLAPS

LEMMA MaskOfPins == \A word : PinsOf(word) \subseteq Pin
BY DEF PinsOf

(* During an access the bus carries what the program has asked for. *)
BusInv ==
  /\ pc \in {"enable", "start", "poll", "toggle"}
  /\ toggles \in {0, 1}
  /\ cyc \in {0, 1}
  /\ cyc = 1 => /\ addr = AccessOf(pc).addr
                /\ we = AccessOf(pc).we
                /\ dat = AccessOf(pc).dat

LEMMA BusInit == Init => BusInv
BY DEF Init, MasterInit, FirstAccess, BusInv

LEMMA BusStep == BusInv /\ [Next]_vars => BusInv'
<1> SUFFICES ASSUME BusInv, [Next]_vars PROVE BusInv'
  OBVIOUS
<1>1. CASE UNCHANGED vars
  BY <1>1 DEF vars, masterVars, BusInv, AccessOf
<1>2. CASE ProgramTick
  <2>1. CASE MasterRest /\ Waits
    BY <2>1 DEF MasterRest, masterVars, Waits, BusInv
  <2>2. CASE MasterStart(AccessOf(pc)) /\ Waits
    BY <2>2 DEF MasterStart, Drive, Waits, BusInv, AccessOf
  <2>3. CASE MasterHold(Ack) /\ Waits
    BY <2>3 DEF MasterHold, masterVars, Waits, BusInv, AccessOf
  <2>4. CASE MasterFinish(Ack, AtRest) /\ Continue
    BY <2>4 DEF MasterFinish, Continue, AfterToggle, BusInv
  <2> QED BY <1>2, <2>1, <2>2, <2>3, <2>4 DEF ProgramTick
<1> QED BY <1>1, <1>2 DEF Next

-----------------------------------------------------------------------------
LEMMA TimerTypes ==
  ASSUME TimerTypeOK, TimerTick(CycTimer, addr, we, dat),
         (CycTimer = 1 /\ we = 1) => dat \in Word
  PROVE  TimerTypeOK'
<1> USE TimerAssumption DEF TimerTypeOK, Word
<1>1. timerAck' \in {0, 1}
  BY DEF TimerTick, TimerAckTick
<1>2. CASE TimerWrite(CycTimer, addr, we, dat)
  BY <1>1, <1>2 DEF TimerWrite, TimerAccess
<1>3. CASE TimerRead(CycTimer, addr, we)
  BY <1>1, <1>3 DEF TimerRead
<1>4. CASE TimerCount(CycTimer)
  BY <1>1, <1>4 DEF TimerCount, Ticks, Plus1
<1> QED BY <1>2, <1>3, <1>4 DEF TimerTick

LEMMA GpioTypes ==
  ASSUME GpioTypeOK, GpioTick(CycGpio, addr, we, PinsOf(dat))
  PROVE  GpioTypeOK'
BY MaskOfPins DEF GpioTypeOK, GpioTick, GpioAckTick, GpioWrite, GpioRead, GpioIdle, Written

LEMMA WrapsInWord == \A n \in Nat : n % Values \in Word
BY TimerAssumption, SMT DEF Word

LEMMA TypesStep == TypeOK /\ BusInv /\ [Next]_vars => TypeOK'
<1> SUFFICES ASSUME TypeOK, BusInv, [Next]_vars PROVE TypeOK'
  OBVIOUS
<1>1. CASE UNCHANGED vars
  BY <1>1 DEF vars, timerVars, gpioVars, masterVars, TypeOK, TimerTypeOK, GpioTypeOK
<1>2. CASE Next
  <2>1. TimerTypeOK'
    <3>1. (CycTimer = 1 /\ we = 1) => dat \in Word
      BY TimerAssumption DEF BusInv, AccessOf, CycTimer, Word
    <3> QED BY <1>2, <3>1, TimerTypes DEF Next, TypeOK
  <2>2. GpioTypeOK'
    BY <1>2, GpioTypes DEF Next, TypeOK
  <2>3. program' \in {"exampleTimer", "exampleLED"} /\ elapsed' \in 0..Values
    BY <1>2, TimerAssumption DEF Next, Record, TypeOK
  <2>4. /\ pc' \in {"enable", "start", "poll", "toggle"} /\ toggles' \in {0, 1}
        /\ cyc' \in {0, 1}
    BY BusStep DEF BusInv
  <2>5. gap' \in 0..MaxGap
    BY <1>2, DelayAssumption DEF Next, ProgramTick, TypeOK
  <2>6. expireValue' \in Word
    <3>1. timerDat \in Nat /\ Delay \in Nat
      BY TimerAssumption, DelayAssumption DEF TypeOK, TimerTypeOK, Word
    <3>2. (timerDat + Delay) % Values \in Word
      BY <3>1, WrapsInWord
    <3> QED BY <1>2, <3>2 DEF Next, ProgramTick, Waits, Continue, TypeOK
  <2> QED BY <2>1, <2>2, <2>3, <2>4, <2>5, <2>6 DEF TypeOK
<1> QED BY <1>1, <1>2

(* Types: registers and counters stay in their widths. *)
THEOREM TypeCorrect == Spec => []TypeOK
<1>1. Init => TypeOK
  BY TimerAssumption, DelayAssumption DEF Init, TimerInit, GpioInit, MasterInit, FirstAccess,
     TypeOK, TimerTypeOK, GpioTypeOK, Word
<1> QED BY <1>1, BusInit, BusStep, TypesStep, PTL DEF Spec

-----------------------------------------------------------------------------
(* The wires to the GPIO, as GpioSystem calls them. *)
GpioAddr == IF GpioSelected THEN addr ELSE REG
GpioWe == IF GpioSelected THEN we ELSE 0
GpioData == IF GpioSelected THEN PinsOf(dat) ELSE {}
Light == IF toggles = 1 THEN PinsOf(LED_0) ELSE {}

LEMMA GpioInitially == Init => GpioPart!Init
BY DEF Init, GpioInit, MasterInit, AtRest, CycGpio, GpioSelected, REG,
   GpioPart!Init, GpioPart!GpioInit, GpioPart!MasterInit, GpioPart!AtRest, GpioPart!REG

(* Whoever is addressed: the port does what it does on its own. *)
LEMMA PortTicks ==
  ASSUME Next PROVE GpioPart!GpioTick(CycGpio, GpioAddr, GpioWe, GpioData)
BY DEF Next, GpioTick, GpioAckTick, GpioWrite, GpioWrites, GpioRead, GpioIdle, Written,
   GpioSelected, GpioAddr, GpioWe, GpioData, REG, SET_REG, CLEAR_REG, TOGGLE_REG,
   GpioPart!GpioTick, GpioPart!GpioAckTick, GpioPart!GpioWrite, GpioPart!GpioWrites,
   GpioPart!GpioRead, GpioPart!GpioIdle, GpioPart!Written, GpioPart!REG,
   GpioPart!SET_REG, GpioPart!CLEAR_REG, GpioPart!TOGGLE_REG

(* A cycle in which the GPIO is not addressed is a rest for it, whatever    *)
(* goes on between the program and the timer.                               *)
LEMMA GpioRests ==
  ASSUME Next, CycGpio = 0, CycGpio' = 0, UNCHANGED toggles
  PROVE  GpioPart!Next
<1>1. GpioPart!MasterTick
  BY DEF GpioSelected, REG, GpioPart!MasterTick, GpioPart!MasterRest, GpioPart!masterVars
<1>2. GpioPart!Record
  BY DEF GpioPart!Record, GpioPart!FinishesWrite, GpioPart!Finishing
<1> QED BY <1>1, <1>2, PortTicks DEF GpioPart!Next, GpioAddr, GpioWe, GpioData

(* An access to the GPIO starts, waits, or ends with the light changed. *)
ToggleAccess == [addr |-> TOGGLE_REG, we |-> 1, dat |-> PinsOf(LED_0)]

LEMMA GpioStarts ==
  ASSUME Next, pc = "toggle", MasterStart(AccessOf(pc)), Waits
  PROVE  GpioPart!Next
<1>1. /\ CycGpio = 0 /\ CycGpio' = 1 /\ GpioSelected' /\ ~GpioSelected
      /\ addr' = TOGGLE_REG /\ we' = 1 /\ dat' = LED_0 /\ UNCHANGED toggles
  BY DEF MasterStart, Drive, Waits, AccessOf, CycGpio, GpioSelected
<1>2. ToggleAccess \in GpioPart!Accesses
  BY MaskOfPins DEF ToggleAccess, GpioPart!Accesses, GpioPart!Registers, TOGGLE_REG,
     GpioPart!TOGGLE_REG
<1>3. GpioPart!MasterStart(ToggleAccess)
  BY <1>1 DEF GpioPart!MasterStart, GpioPart!Drive, ToggleAccess, PinsOf
<1>4. GpioPart!MasterTick
  BY <1>2, <1>3 DEF GpioPart!MasterTick
<1>5. GpioPart!Record
  BY <1>1 DEF GpioPart!Record, GpioPart!FinishesWrite, GpioPart!Finishing
<1> QED BY <1>4, <1>5, PortTicks DEF GpioPart!Next, GpioAddr, GpioWe, GpioData

LEMMA GpioHolds ==
  ASSUME Next, pc = "toggle", MasterHold(Ack), Waits
  PROVE  GpioPart!Next
<1>1. /\ CycGpio = 1 /\ gpioAck = 0 /\ UNCHANGED <<CycGpio, GpioSelected, masterVars, toggles>>
  BY DEF MasterHold, masterVars, Ack, Waits, CycGpio, GpioSelected
<1>2. GpioPart!MasterTick
  BY <1>1 DEF GpioPart!MasterTick, GpioPart!MasterHold, GpioPart!masterVars, masterVars, PinsOf
<1>3. GpioPart!Record
  BY <1>1 DEF GpioPart!Record, GpioPart!FinishesWrite, GpioPart!Finishing
<1> QED BY <1>2, <1>3, PortTicks DEF GpioPart!Next, GpioAddr, GpioWe, GpioData

LEMMA GpioFinishes ==
  ASSUME BusInv, Next, pc = "toggle", MasterFinish(Ack, AtRest), Continue
  PROVE  GpioPart!Next
<1>1. /\ CycGpio = 1 /\ CycGpio' = 0 /\ gpioAck = 1 /\ GpioSelected /\ ~GpioSelected'
      /\ addr = TOGGLE_REG /\ we = 1 /\ dat = LED_0
      /\ toggles \in {0, 1} /\ toggles' = 1 - toggles
  BY DEF MasterFinish, Finishing, Ack, Continue, CycGpio, GpioSelected, BusInv, AccessOf
<1>2. GpioPart!MasterTick
  BY <1>1 DEF GpioPart!MasterTick, GpioPart!MasterFinish, GpioPart!Finishing,
     GpioPart!Drive, GpioPart!AtRest, REG, GpioPart!REG
<1>3. GpioPart!Record
  BY <1>1 DEF GpioPart!Record, GpioPart!FinishesWrite, GpioPart!Finishing, GpioPart!Written,
     TOGGLE_REG, GpioPart!REG, GpioPart!SET_REG, GpioPart!CLEAR_REG, GpioPart!TOGGLE_REG
<1> QED BY <1>2, <1>3, PortTicks DEF GpioPart!Next, GpioAddr, GpioWe, GpioData

LEMMA GpioStep == BusInv /\ [Next]_vars => [GpioPart!Next]_(GpioPart!vars)
<1> SUFFICES ASSUME BusInv, [Next]_vars PROVE [GpioPart!Next]_(GpioPart!vars)
  OBVIOUS
<1>1. CASE UNCHANGED vars
  BY <1>1 DEF vars, gpioVars, masterVars, CycGpio, GpioSelected, PinsOf,
     GpioPart!vars, GpioPart!gpioVars, GpioPart!masterVars
<1>2. CASE Next /\ MasterRest /\ Waits
  <2>1. CycGpio = 0 /\ CycGpio' = 0 /\ UNCHANGED toggles
    BY <1>2 DEF MasterRest, masterVars, Waits, CycGpio
  <2> QED BY <1>2, <2>1, GpioRests
<1>3. CASE Next /\ pc # "toggle" /\ ProgramTick
  <2>1. CycGpio = 0 /\ CycGpio' = 0 /\ UNCHANGED toggles
    BY <1>3 DEF ProgramTick, MasterRest, masterVars, MasterStart, MasterHold, MasterFinish,
       Waits, Continue, CycGpio
  <2> QED BY <1>3, <2>1, GpioRests
<1>4. CASE Next /\ pc = "toggle" /\ ProgramTick
  BY <1>2, <1>4, GpioStarts, GpioHolds, GpioFinishes DEF ProgramTick
<1> QED BY <1>1, <1>3, <1>4 DEF Next

(* Whatever the pace of the program, the GPIO on the shared bus is the GPIO *)
(* of GpioSystem: one toggle for each pass of the loop.  exampleLED 18-23,  *)
(* exampleTimer 22-26.                                                      *)
THEOREM ExampleImplementsGpio == Spec => ImplementsGpio
<1> QED BY BusInit, BusStep, GpioInitially, GpioStep, PTL
        DEF Spec, ImplementsGpio, GpioPart!Spec

(* An access to the GPIO ends with the light changed, and has changed it a  *)
(* cycle before.                                                            *)
LightInv ==
  gpio = IF pc = "toggle" /\ cyc = 1 /\ gpioAck = 1
         THEN (Light \ PinsOf(LED_0)) \cup (PinsOf(LED_0) \ Light) ELSE Light

LEMMA LightStep == TypeOK /\ BusInv /\ LightInv /\ [Next]_vars => LightInv'
<1> SUFFICES ASSUME TypeOK, BusInv, LightInv, [Next]_vars PROVE LightInv'
  OBVIOUS
<1> USE DEF LightInv, Light
<1>1. CASE UNCHANGED vars
  BY <1>1 DEF vars, gpioVars, masterVars
<1>2. CASE Next
  <2>1. /\ GpioTick(CycGpio, addr, we, PinsOf(dat)) /\ ProgramTick
        /\ gpioAck \in {0, 1} /\ cyc \in {0, 1} /\ toggles \in {0, 1}
    BY <1>2 DEF Next, TypeOK, GpioTypeOK
  <2>2. CASE CycGpio = 0
    <3>1. UNCHANGED gpio /\ gpioAck' = 0
      BY <2>1, <2>2 DEF GpioTick, GpioAckTick, GpioWrite, GpioWrites, GpioRead, GpioIdle
    <3>2. UNCHANGED toggles
      BY <2>1, <2>2 DEF ProgramTick, Waits, Continue, CycGpio, MasterFinish, Finishing
    <3> QED BY <2>2, <3>1, <3>2 DEF CycGpio
  <2>3. CASE CycGpio = 1 /\ gpioAck = 0
    <3>1. /\ pc = "toggle" /\ cyc = 1 /\ addr = TOGGLE_REG /\ we = 1 /\ dat = LED_0
      BY <2>3 DEF CycGpio, BusInv, AccessOf
    <3>2. gpio' = Written(gpio, TOGGLE_REG, PinsOf(LED_0)) /\ gpioAck' = 1
      BY <2>1, <2>3, <3>1 DEF GpioTick, GpioAckTick, GpioWrite, GpioWrites, GpioRead, GpioIdle
    <3>3. UNCHANGED <<pc, cyc, toggles>>
      BY <2>1, <2>3, <3>1 DEF ProgramTick, MasterRest, MasterStart, MasterHold, MasterFinish,
         Finishing, Ack, Waits, masterVars
    <3> QED BY <2>3, <3>1, <3>2, <3>3
            DEF Written, REG, SET_REG, CLEAR_REG, TOGGLE_REG
  <2>4. CASE CycGpio = 1 /\ gpioAck = 1
    <3>1. pc = "toggle" /\ cyc = 1
      BY <2>4 DEF CycGpio
    <3>2. UNCHANGED gpio
      BY <2>1, <2>4 DEF GpioTick, GpioWrite, GpioWrites, GpioRead, GpioIdle
    <3>3. toggles' = 1 - toggles /\ cyc' = 0
      BY <2>1, <2>4, <3>1 DEF ProgramTick, MasterRest, MasterStart, MasterHold, MasterFinish,
         Finishing, Ack, Continue
    <3> QED BY <2>1, <2>4, <3>1, <3>2, <3>3
  <2> QED BY <2>1, <2>2, <2>3, <2>4 DEF CycGpio
<1> QED BY <1>1, <1>2

(* A toggle takes effect once although its access lasts several cycles, and *)
(* is over when its access is.  quad_gpio.v:26.                             *)
THEOREM ExampleIsAtomic == Spec => []AccessesAreAtomic
<1>1. Init => LightInv
  BY DEF Init, GpioInit, MasterInit, LightInv, Light
<1>2. BusInv /\ LightInv => AccessesAreAtomic
  BY DEF AccessesAreAtomic, GpioPart!AccessesAreAtomic, GpioPart!Finishing, LightInv, Light,
     BusInv, AccessOf, CycGpio, GpioSelected
<1> QED BY <1>1, <1>2, BusInit, BusStep, LightStep, TypeCorrect, PTL DEF Spec

-----------------------------------------------------------------------------
(***************************************************************************)
(* The delay.  The counter is followed through its wraps by `elapsed`;     *)
(* what is measured in clock cycles is elapsed and the prescaler together, *)
(* which advance by at most one a cycle.                                   *)
(***************************************************************************)
Period == TimerDivider + 1

\* How many cycles may have gone by since the last poll that found the delay
\* still running.
Cycles ==
  CASE pc = "poll" -> IF cyc = 0 THEN gap + 1 ELSE MaxGap + 2
    [] OTHER       -> IF cyc = 0 THEN MaxGap + 3 + gap ELSE 2 * MaxGap + 4 + gpioAck

InTime == elapsed * Period + dividerCnt < Delay * Period + Cycles

\* The counter and the deadline are as far apart as elapsed and the delay.
Aimed ==
  \/ expireValue + elapsed = value + Delay
  \/ expireValue + elapsed + Values = value + Delay
  \/ expireValue + elapsed = value + Delay + Values

\* The program is about to get what it has read from TIME_REG.
Sampled == cyc = 1 /\ timerAck = 1 /\ pc \in {"start", "poll"}

DelayInv ==
  /\ timerStatus \in {0, 1}
  /\ cyc = 1 => gap = 0
  /\ Sampled => timerDat = value
  /\ Sampled /\ pc = "start" => elapsed = 0
  /\ pc = "poll" => InTime /\ Aimed
  /\ program = "exampleTimer" /\ pc = "toggle" => InTime /\ Delay <= elapsed

LEMMA OneTickMore ==
  ASSUME NEW v \in Nat, NEW d \in Nat
  PROVE  (v + 1) * (d + 1) = v * (d + 1) + d + 1
BY SMT

LEMMA Scaled ==
  ASSUME NEW a \in Nat, NEW b \in Nat, NEW c \in Nat, a <= b
  PROVE  a * c <= b * c
BY SMT

LEMMA Whole ==
  ASSUME NEW n \in Nat, NEW p \in Nat, p > 0
  PROVE  n \div p \in Nat /\ n < (n \div p + 1) * p
BY SMT

\* A number that has wrapped once at most.
LEMMA DeadlineWraps ==
  ASSUME value \in Nat, value < Values, Delay \in Nat, Delay < Values, Values \in Nat
  PROVE  (value + Delay) % Values = IF value + Delay < Values THEN value + Delay
                                    ELSE value + Delay - Values
BY SMT

LEMMA DifferenceWraps ==
  ASSUME value \in Nat, value < Values, expireValue \in Nat, expireValue < Values,
         Values \in Nat
  PROVE  (expireValue + Values - value) % Values
           = IF expireValue < value THEN expireValue + Values - value
             ELSE expireValue - value
BY SMT

\* The types, as numbers.
LEMMA Numbers ==
  ASSUME TypeOK
  PROVE  /\ value \in Nat /\ value < Values
         /\ expireValue \in Nat /\ expireValue < Values
         /\ timerDat \in Nat /\ timerDat < Values
         /\ elapsed \in Nat /\ elapsed <= Values
         /\ dividerCnt \in Nat /\ dividerCnt <= TimerDivider
         /\ gap \in Nat /\ gap <= MaxGap
         /\ timerAck \in {0, 1} /\ gpioAck \in {0, 1} /\ cyc \in {0, 1}
BY TimerAssumption, DelayAssumption DEF TypeOK, TimerTypeOK, GpioTypeOK, Word

LEMMA Parameters ==
  /\ Values \in Nat /\ Values >= 4 /\ Delay \in Nat /\ Delay > 0
  /\ Delay + Delay < Values /\ MaxGap \in Nat
  /\ TimerDivider \in Nat /\ Period \in Nat /\ Period > 0
  /\ Late \in Nat /\ Late + Late < Values /\ MaxGap + 4 < Late * Period
  /\ Values \div 2 + Values \div 2 = Values
<1> USE TimerAssumption, DelayAssumption
<1>1. TimerDivider \in Nat /\ Period \in Nat /\ Period > 0 /\ MaxGap + 4 \in Nat
  BY DEF Period
<1>2. /\ (MaxGap + 4) \div Period \in Nat
      /\ MaxGap + 4 < ((MaxGap + 4) \div Period + 1) * Period
  BY <1>1, Whole
<1>3. Late = (MaxGap + 4) \div Period + 1
  BY DEF Late, Period
<1>4. Values \div 2 + Values \div 2 = Values
  OBVIOUS
<1> QED BY <1>1, <1>2, <1>3, <1>4

\* Cycles are few ticks.
LEMMA FewTicks ==
  ASSUME NEW e \in Nat, NEW n \in Nat, NEW late \in Nat,
         e * Period < Delay * Period + n, n <= late * Period
  PROVE  e < Delay + late
<1> USE Parameters
<1> SUFFICES ASSUME Delay + late <= e PROVE FALSE
  OBVIOUS
<1>1. (Delay + late) * Period <= e * Period
  BY Scaled
<1>2. (Delay + late) * Period = Delay * Period + late * Period
  BY SMT
<1>3. /\ e * Period \in Nat /\ Delay * Period \in Nat /\ late * Period \in Nat
  OBVIOUS
<1> QED BY <1>1, <1>2, <1>3

LEMMA PollsSoon ==
  ASSUME TypeOK, InTime, pc = "poll" PROVE elapsed < Delay + Late
<1> USE Parameters, Numbers
<1>1. Cycles \in Nat /\ Cycles <= MaxGap + 2
  BY DEF Cycles
<1>2. elapsed * Period \in Nat /\ Delay * Period \in Nat /\ Late * Period \in Nat
  OBVIOUS
<1>3. elapsed * Period < Delay * Period + Cycles /\ Cycles <= Late * Period
  BY <1>1, <1>2 DEF InTime
<1> QED BY <1>1, <1>3, FewTicks

LEMMA TogglesSoon ==
  ASSUME TypeOK, InTime, pc = "toggle" PROVE elapsed < Delay + 2 * Late
<1> USE Parameters, Numbers
<1>1. Cycles \in Nat /\ Cycles <= 2 * MaxGap + 5
  BY DEF Cycles
<1>2. elapsed * Period \in Nat /\ Delay * Period \in Nat /\ Late * Period \in Nat
  OBVIOUS
<1>3. (2 * Late) * Period = 2 * (Late * Period)
  BY SMT
<1>4. elapsed * Period < Delay * Period + Cycles /\ Cycles <= (2 * Late) * Period
  BY <1>1, <1>2, <1>3 DEF InTime
<1> QED BY <1>1, <1>4, FewTicks

\* Of the cycles that are not the first one of an access to the timer: the
\* prescaler and the counter move together.  The timer is never armed.
LEMMA CountsOn ==
  ASSUME TypeOK, BusInv, DelayInv, Next, ~TimerAccess(CycTimer)
  PROVE  /\ timerStatus' = timerStatus /\ timerDat' = timerDat
         /\ IF Ticks
            THEN /\ dividerCnt = TimerDivider /\ dividerCnt' = 0
                 /\ value' = Plus1(value)
                 /\ elapsed' = IF elapsed < Values THEN elapsed + 1 ELSE elapsed
            ELSE /\ dividerCnt' \in {dividerCnt, dividerCnt + 1}
                 /\ value' = value /\ elapsed' = elapsed
<1>1. TimerCount(CycTimer)
  BY DEF Next, TimerTick, TimerWrite, TimerRead
<1>2. ~Matches
  BY DEF DelayInv, Matches, Armed
<1>3. elapsed' = IF Ticks /\ elapsed < Values THEN elapsed + 1 ELSE elapsed
  BY DEF Next, Record, Counted
<1> QED BY <1>1, <1>2, <1>3 DEF TimerCount, Ticks

\* A read stops the clock for a cycle, and takes the counter.
LEMMA ReadStops ==
  ASSUME TypeOK, BusInv, DelayInv, Next, TimerAccess(CycTimer), pc # "enable"
  PROVE  /\ timerStatus' = timerStatus /\ timerDat' = value /\ value' = value
         /\ dividerCnt' = dividerCnt
         /\ elapsed' = IF pc = "start" THEN 0 ELSE elapsed
<1>1. cyc = 1 /\ addr = TIME_REG /\ we = 0
  BY Numbers DEF TimerAccess, CycTimer, BusInv, AccessOf
<1>2. TimerRead(CycTimer, addr, we)
  BY <1>1 DEF Next, TimerTick, TimerWrite, TimerCount
<1> QED BY <1>1, <1>2 DEF TimerRead, Next, Record, Counted, TIME_REG, CMP_REG, STATUS_REG

LEMMA EnableArmsNothing ==
  ASSUME TypeOK, BusInv, DelayInv, Next PROVE timerStatus' \in {0, 1}
<1>1. CASE ~TimerAccess(CycTimer)
  BY <1>1, CountsOn DEF DelayInv
<1>2. CASE TimerAccess(CycTimer) /\ pc # "enable"
  BY <1>2, ReadStops DEF DelayInv
<1>3. CASE TimerAccess(CycTimer) /\ pc = "enable"
  <2>1. cyc = 1 /\ addr = STATUS_REG /\ we = 1 /\ dat = 1
    BY <1>3, Numbers DEF TimerAccess, CycTimer, BusInv, AccessOf
  <2>2. TimerWrite(CycTimer, addr, we, dat)
    BY <1>3, <2>1 DEF Next, TimerTick, TimerRead, TimerCount
  <2> QED BY <2>1, <2>2 DEF TimerWrite
<1> QED BY <1>1, <1>2, <1>3

\* A cycle is at most one more in the count of cycles, and none if the timer
\* is read in it.
LEMMA CycleIsOne ==
  ASSUME TypeOK, BusInv, DelayInv, Next, pc \in {"poll", "toggle"}
  PROVE  /\ elapsed <= elapsed' /\ elapsed' \in Nat /\ dividerCnt' \in Nat
         /\ elapsed' * Period + dividerCnt'
              <= elapsed * Period + dividerCnt + (IF TimerAccess(CycTimer) THEN 0 ELSE 1)
<1> USE Parameters, Numbers
<1>0. elapsed * Period \in Nat
  OBVIOUS
<1>1. CASE TimerAccess(CycTimer)
  BY <1>0, <1>1, ReadStops
<1>2. CASE ~TimerAccess(CycTimer) /\ Ticks /\ elapsed < Values
  <2>1. elapsed' = elapsed + 1 /\ dividerCnt = TimerDivider /\ dividerCnt' = 0
    BY <1>2, CountsOn
  <2>2. (elapsed + 1) * Period = elapsed * Period + TimerDivider + 1
    BY OneTickMore DEF Period
  <2> QED BY <1>0, <1>2, <2>1, <2>2
<1>3. CASE ~TimerAccess(CycTimer) /\ ~(Ticks /\ elapsed < Values)
  <2>1. elapsed' = elapsed /\ dividerCnt' \in {0, dividerCnt, dividerCnt + 1}
    BY <1>3, CountsOn
  <2> QED BY <1>0, <1>3, <2>1
<1> QED BY <1>1, <1>2, <1>3

\* While the program polls, its deadline stays where it is.
LEMMA AimKept ==
  ASSUME TypeOK, BusInv, DelayInv, Next, pc = "poll"
  PROVE  expireValue' = expireValue /\ Aimed'
<1> USE Parameters, Numbers
<1>1. expireValue' = expireValue
  BY DEF Next, ProgramTick, Waits, Continue
<1>2. elapsed < Values /\ Aimed
  BY PollsSoon DEF DelayInv
<1>3. CASE TimerAccess(CycTimer)
  <2>1. value' = value /\ elapsed' = elapsed
    BY <1>3, ReadStops
  <2> QED BY <1>1, <1>2, <2>1 DEF Aimed
<1>4. CASE ~TimerAccess(CycTimer) /\ ~Ticks
  <2>1. value' = value /\ elapsed' = elapsed
    BY <1>4, CountsOn
  <2> QED BY <1>1, <1>2, <2>1 DEF Aimed
<1>5. CASE ~TimerAccess(CycTimer) /\ Ticks
  <2>1. /\ value' = (IF value = Values - 1 THEN 0 ELSE value + 1)
        /\ elapsed' = elapsed + 1
    BY <1>2, <1>5, CountsOn DEF Plus1
  <2> QED BY <1>1, <1>2, <2>1 DEF Aimed
<1> QED BY <1>1, <1>3, <1>4, <1>5

\* The comparison of 32-bit numbers is the comparison meant: the counter has
\* run past the deadline, but less than half its range.
LEMMA ExpiredMeansLate ==
  ASSUME TypeOK, DelayInv, pc = "poll", Sampled
  PROVE  Expired(timerDat) <=> Delay <= elapsed
<1> USE Parameters, Numbers
<1> DEFINE left == (expireValue + Values - timerDat) % Values
<1>1. timerDat = value /\ Aimed /\ elapsed < Delay + Late
  BY PollsSoon DEF DelayInv
<1>3. left = IF expireValue < value THEN expireValue + Values - value
             ELSE expireValue - value
  BY <1>1, DifferenceWraps
<1>4. Expired(timerDat) <=> (left = 0 \/ left >= Values \div 2)
  BY DEF Expired
<1> HIDE DEF left
<1>5. left = IF elapsed <= Delay THEN Delay - elapsed ELSE Values + Delay - elapsed
  BY <1>1, <1>3 DEF Aimed
<1> QED BY <1>1, <1>4, <1>5

-----------------------------------------------------------------------------
\* What the program does in a cycle, case by case.

\* Nothing, or the next access begins.
LEMMA DelayWaits ==
  ASSUME TypeOK, BusInv, DelayInv, Next, Waits, cyc = 0,
         \/ gap < MaxGap /\ MasterRest /\ gap' = gap + 1
         \/ cyc' = 1 /\ gap' = 0
  PROVE  DelayInv'
<1> USE Parameters, Numbers
<1>1. ~TimerAccess(CycTimer) /\ timerAck' = 0
  BY DEF TimerAccess, CycTimer, Next, TimerTick, TimerAckTick
<1>2. UNCHANGED <<pc, expireValue, program>> /\ gpioAck' = 0
  BY DEF Waits, Next, GpioTick, GpioAckTick, CycGpio
<1>3. (cyc' = 0 /\ gap' = gap + 1) \/ (cyc' = 1 /\ gap' = 0)
  BY DEF MasterRest, masterVars
<1>4. pc \in {"poll", "toggle"} => Cycles' \in Nat /\ Cycles \in Nat /\ Cycles' >= Cycles + 1
  BY <1>2, <1>3 DEF Cycles
<1>5. pc \in {"poll", "toggle"} /\ InTime => InTime'
  BY <1>1, <1>4, CycleIsOne DEF InTime
<1> QED BY <1>1, <1>2, <1>3, <1>5, EnableArmsNothing, AimKept, CycleIsOne
        DEF DelayInv, Sampled

\* The access waits for its acknowledgement.
LEMMA DelayHolds ==
  ASSUME TypeOK, BusInv, DelayInv, Next, Waits, MasterHold(Ack), UNCHANGED gap
  PROVE  DelayInv'
<1> USE Parameters, Numbers
<1>1. UNCHANGED <<pc, expireValue, program, gap, cyc>> /\ cyc = 1 /\ Ack = 0
  BY DEF MasterHold, masterVars, Waits, Next
<1>2. CASE pc = "toggle"
  <2>1. ~TimerAccess(CycTimer) /\ gpioAck = 0 /\ gpioAck' = 1
    BY <1>1, <1>2 DEF TimerAccess, CycTimer, CycGpio, Ack, Next, GpioTick, GpioAckTick
  <2>2. Cycles \in Nat /\ Cycles' = Cycles + 1
    BY <1>1, <1>2, <2>1 DEF Cycles
  <2>3. InTime => InTime'
    BY <1>2, <2>1, <2>2, CycleIsOne DEF InTime
  <2> QED BY <1>1, <1>2, <2>3, EnableArmsNothing, CycleIsOne DEF DelayInv, Sampled
<1>3. CASE pc = "enable"
  BY <1>1, <1>3, EnableArmsNothing DEF DelayInv, Sampled
<1>4. CASE pc \in {"start", "poll"}
  <2>1. TimerAccess(CycTimer)
    BY <1>1, <1>4 DEF TimerAccess, CycTimer, Ack
  <2>2. timerDat' = value' /\ (pc = "start" => elapsed' = 0)
    BY <1>4, <2>1, ReadStops
  <2>3. pc = "poll" => Cycles \in Nat /\ Cycles' = Cycles
    BY <1>1 DEF Cycles
  <2>4. pc = "poll" /\ InTime => InTime'
    BY <2>1, <2>3, CycleIsOne DEF InTime
  <2> QED BY <1>1, <1>4, <2>2, <2>4, EnableArmsNothing, AimKept DEF DelayInv, Sampled
<1> QED BY <1>2, <1>3, <1>4 DEF BusInv

\* The access that set the deadline ends.
LEMMA DelayStarts ==
  ASSUME TypeOK, BusInv, DelayInv, Next, MasterFinish(Ack, AtRest), UNCHANGED gap, Continue,
         pc = "start"
  PROVE  DelayInv'
<1> USE Parameters, Numbers
<1>1. /\ cyc = 1 /\ timerAck = 1 /\ cyc' = 0 /\ pc' = "poll" /\ gap' = 0
      /\ expireValue' = (timerDat + Delay) % Values
  BY DEF MasterFinish, Finishing, Ack, Continue, DelayInv
<1>2. ~TimerAccess(CycTimer) /\ timerDat = value /\ elapsed = 0
  BY <1>1 DEF TimerAccess, DelayInv, Sampled
<1>3. expireValue' = IF value + Delay < Values THEN value + Delay
                     ELSE value + Delay - Values
  BY <1>1, <1>2, DeadlineWraps
<1>4. CASE Ticks
  <2>1. /\ dividerCnt' = 0 /\ elapsed' = 1
        /\ value' = IF value = Values - 1 THEN 0 ELSE value + 1
    BY <1>2, <1>4, CountsOn DEF Plus1
  <2>2. Aimed'
    BY <1>3, <2>1 DEF Aimed
  <2>3. Cycles' = 1
    BY <1>1 DEF Cycles
  <2>4. 1 * Period <= Delay * Period
    BY Scaled
  <2>5. InTime'
    BY <2>1, <2>3, <2>4 DEF InTime
  <2> QED BY <1>1, <2>2, <2>5, EnableArmsNothing DEF DelayInv, Sampled
<1>5. CASE ~Ticks
  <2>1. dividerCnt' \in {dividerCnt, dividerCnt + 1} /\ elapsed' = 0 /\ value' = value
    BY <1>2, <1>5, CountsOn
  <2>2. Aimed'
    BY <1>3, <2>1 DEF Aimed
  <2>3. Cycles' = 1
    BY <1>1 DEF Cycles
  <2>4. 1 * Period <= Delay * Period /\ dividerCnt + 1 <= Period
    BY Scaled DEF Period
  <2>5. InTime'
    BY <2>1, <2>3, <2>4 DEF InTime
  <2> QED BY <1>1, <2>2, <2>5, EnableArmsNothing DEF DelayInv, Sampled
<1> QED BY <1>4, <1>5

\* One cycle more on both sides.
LEMMA StillInTime ==
  ASSUME NEW e \in Nat, NEW d \in Nat, NEW later \in Nat, NEW c \in Nat, NEW n \in Nat,
         later * Period + c <= e * Period + d + 1,
         e * Period + d < Delay * Period + n
  PROVE  later * Period + c < Delay * Period + (n + 1)
<1>1. Period \in Nat /\ Delay \in Nat
  BY Parameters
<1>2. e * Period \in Nat /\ later * Period \in Nat /\ Delay * Period \in Nat
  BY <1>1
<1> QED BY <1>2

\* A poll ends: the delay still runs, and the count of cycles begins anew, or
\* it is over.
LEMMA DelayPolled ==
  ASSUME TypeOK, BusInv, DelayInv, Next, MasterFinish(Ack, AtRest), UNCHANGED gap, Continue,
         pc = "poll"
  PROVE  DelayInv'
<1>1. /\ cyc = 1 /\ timerAck = 1 /\ cyc' = 0 /\ gap' = 0 /\ gap = 0
      /\ pc' = IF Expired(timerDat) THEN "toggle" ELSE "poll"
  BY DEF MasterFinish, Finishing, Ack, Continue, DelayInv
<1>2. Sampled /\ ~TimerAccess(CycTimer)
  BY <1>1 DEF Sampled, TimerAccess
<1>3. /\ MaxGap \in Nat /\ Delay \in Nat /\ elapsed \in Nat /\ Period \in Nat
      /\ dividerCnt \in Nat /\ dividerCnt <= TimerDivider /\ TimerDivider \in Nat
  BY Parameters, Numbers
<1>4. /\ elapsed' \in Nat /\ elapsed <= elapsed' /\ dividerCnt' \in Nat
      /\ elapsed' * Period + dividerCnt' <= elapsed * Period + dividerCnt + 1
  BY <1>2, CycleIsOne
<1>5. \A n \in Nat : /\ elapsed * Period + dividerCnt < Delay * Period + n
                     /\ Cycles' = n + 1
                     => InTime'
  <2> SUFFICES ASSUME NEW n \in Nat, Cycles' = n + 1,
                      elapsed * Period + dividerCnt < Delay * Period + n
               PROVE  elapsed' * Period + dividerCnt' < Delay * Period + Cycles'
    BY DEF InTime, Period
  <2> QED BY <1>3, <1>4, StillInTime, Zenon
<1>6. CASE ~Expired(timerDat)
  <2>1. elapsed + 1 \in Nat /\ elapsed + 1 <= Delay
    BY <1>2, <1>3, <1>6, ExpiredMeansLate
  <2>2. (elapsed + 1) * Period <= Delay * Period
    BY <1>3, <2>1, Scaled
  <2>3. (elapsed + 1) * Period = elapsed * Period + TimerDivider + 1
    BY <1>3, OneTickMore DEF Period
  <2>4. elapsed * Period + dividerCnt < Delay * Period + 0
    BY <1>3, <2>2, <2>3
  <2>5. Cycles' = 0 + 1
    BY <1>1, <1>6 DEF Cycles
  <2>6. InTime'
    BY <1>5, <2>4, <2>5
  <2> QED BY <1>1, <1>6, <2>6, EnableArmsNothing, AimKept DEF DelayInv, Sampled
<1>7. CASE Expired(timerDat)
  <2>1. Delay <= elapsed
    BY <1>2, <1>7, ExpiredMeansLate
  <2>2. Cycles = MaxGap + 2 /\ Cycles' = (MaxGap + 2) + 1
    BY <1>1, <1>3, <1>7 DEF Cycles
  <2>3. elapsed * Period + dividerCnt < Delay * Period + (MaxGap + 2)
    BY <2>2 DEF InTime, DelayInv
  <2>4. InTime'
    BY <1>3, <1>5, <2>2, <2>3
  <2>5. Delay <= elapsed'
    BY <1>3, <1>4, <2>1
  <2> QED BY <1>1, <1>7, <2>4, <2>5, EnableArmsNothing DEF DelayInv, Sampled
<1> QED BY <1>6, <1>7

\* Any other access ends: no delay runs.
LEMMA DelayOver ==
  ASSUME TypeOK, BusInv, DelayInv, Next, MasterFinish(Ack, AtRest), UNCHANGED gap, Continue,
         pc \in {"enable", "toggle"}
  PROVE  DelayInv'
<1>1. cyc' = 0 /\ program' = program /\ (pc' = "start" \/ pc' = AfterToggle)
  BY DEF MasterFinish, Continue, Next
<1> QED BY <1>1, EnableArmsNothing DEF AfterToggle, DelayInv, Sampled

LEMMA DelayStep == TypeOK /\ BusInv /\ DelayInv /\ [Next]_vars => DelayInv'
<1> SUFFICES ASSUME TypeOK, BusInv, DelayInv, [Next]_vars PROVE DelayInv'
  OBVIOUS
<1>1. CASE UNCHANGED vars
  BY <1>1 DEF vars, timerVars, gpioVars, masterVars, DelayInv, Sampled, InTime, Aimed, Cycles
<1>2. CASE Next /\ gap < MaxGap /\ MasterRest /\ gap' = gap + 1 /\ Waits
  BY <1>2, DelayWaits DEF MasterRest
<1>3. CASE Next /\ MasterStart(AccessOf(pc)) /\ gap' = 0 /\ Waits
  BY <1>3, DelayWaits DEF MasterStart
<1>4. CASE Next /\ MasterHold(Ack) /\ UNCHANGED gap /\ Waits
  BY <1>4, DelayHolds
<1>5. CASE Next /\ MasterFinish(Ack, AtRest) /\ UNCHANGED gap /\ Continue
  BY <1>5, DelayStarts, DelayPolled, DelayOver DEF BusInv
<1> QED BY <1>1, <1>2, <1>3, <1>4, <1>5 DEF Next, ProgramTick

(* Whatever the counter held when the program read it, however slow the     *)
(* program polls and wherever the counter wraps: the light is not toggled   *)
(* before the delay has passed, nor later than two polls.  exampleTimer     *)
(* 22-24.                                                                   *)
THEOREM DelayKept == Spec => []DelayIsKept
<1>1. Init => DelayInv
  BY DEF Init, TimerInit, MasterInit, FirstAccess, DelayInv, Sampled
<1>2. TypeOK /\ DelayInv => DelayIsKept
  <2> SUFFICES ASSUME TypeOK, DelayInv, program = "exampleTimer", pc = "toggle"
               PROVE  elapsed \in Delay..(Delay + 2 * Late)
    BY DEF DelayIsKept
  <2>1. Delay <= elapsed /\ elapsed < Delay + 2 * Late
    BY TogglesSoon DEF DelayInv
  <2> QED BY <2>1, Parameters, Numbers
<1> QED BY <1>1, <1>2, TypeCorrect, BusInit, BusStep, DelayStep, PTL DEF Spec

-----------------------------------------------------------------------------
(***************************************************************************)
(* The port on its own, behind a master that accesses its registers in any *)
(* order and at any moment.                                                *)
(***************************************************************************)
VARIABLE
  want         \* history: the pins, if every write were done once, at its end

Port == INSTANCE GpioSystem

LEMMA PortTypes == Port!TypeOK /\ [Port!Next]_(Port!vars) => Port!TypeOK'
<1> SUFFICES ASSUME Port!TypeOK, [Port!Next]_(Port!vars) PROVE Port!TypeOK'
  OBVIOUS
<1> USE DEF Port!TypeOK, Port!GpioTypeOK, Port!Registers, Port!REG, Port!SET_REG,
   Port!CLEAR_REG, Port!TOGGLE_REG
<1>1. CASE UNCHANGED Port!vars
  BY <1>1 DEF Port!vars, Port!gpioVars, Port!masterVars
<1>2. CASE Port!Next
  <2>1. /\ cyc' \in {0, 1} /\ addr' \in Port!Registers
        /\ we' \in {0, 1} /\ dat' \subseteq Pin
    <3>1. CASE Port!MasterRest \/ Port!MasterHold(gpioAck)
      BY <3>1 DEF Port!MasterRest, Port!MasterHold, Port!masterVars
    <3>2. CASE \E access \in Port!Accesses : Port!MasterStart(access)
      BY <3>2 DEF Port!MasterStart, Port!Drive, Port!Accesses
    <3>3. CASE Port!MasterFinish(gpioAck, Port!AtRest)
      BY <3>3 DEF Port!MasterFinish, Port!Finishing, Port!Drive, Port!AtRest
    <3> QED BY <1>2, <3>1, <3>2, <3>3 DEF Port!Next, Port!MasterTick
  <2>2. gpio' \subseteq Pin /\ gpioDat' \subseteq Pin
    BY <1>2 DEF Port!Next, Port!GpioTick, Port!GpioWrite, Port!GpioRead, Port!GpioIdle,
       Port!Written
  <2>3. gpioAck' \in {0, 1}
    BY <1>2 DEF Port!Next, Port!GpioTick, Port!GpioAckTick
  <2>4. want' \subseteq Pin
    BY <1>2 DEF Port!Next, Port!Record, Port!Written
  <2> QED BY <2>1, <2>2, <2>3, <2>4
<1> QED BY <1>1, <1>2

LEMMA PortStep == Port!GpioInv /\ [Port!Next]_(Port!vars) => Port!GpioInv'
<1> SUFFICES ASSUME Port!GpioInv, [Port!Next]_(Port!vars) PROVE Port!GpioInv'
  OBVIOUS
<1>0. Port!TypeOK /\ Port!TypeOK'
  BY PortTypes DEF Port!GpioInv
<1>1. CASE UNCHANGED Port!vars
  BY <1>0, <1>1 DEF Port!GpioInv, Port!AccessesAreAtomic, Port!Finishing, Port!Written,
     Port!vars, Port!gpioVars, Port!masterVars
<1> USE DEF Port!GpioInv, Port!AccessesAreAtomic, Port!Finishing, Port!FinishesWrite
<1>2. CASE Port!Next
  <2>0. /\ Port!GpioAckTick(cyc) /\ Port!Record /\ Port!MasterTick
        /\ Port!GpioWrite(cyc, addr, we, dat) \/ Port!GpioRead(cyc, we) \/ Port!GpioIdle(cyc)
    BY <1>2 DEF Port!Next, Port!GpioTick
  <2>1. cyc \in {0, 1} /\ we \in {0, 1} /\ gpioAck \in {0, 1}
    BY <1>0 DEF Port!TypeOK, Port!GpioTypeOK
  <2>2. CASE cyc = 0
    <3>1. gpio' = gpio /\ want' = want /\ gpioAck' = 0
      BY <2>0, <2>2 DEF Port!GpioWrite, Port!GpioWrites, Port!GpioRead, Port!GpioIdle,
         Port!Record, Port!GpioAckTick
    <3> QED BY <3>1, <2>2, <1>0
  <2>3. CASE cyc = 1 /\ gpioAck = 0
    <3>1. /\ want' = want /\ gpioAck' = 1
          /\ cyc' = cyc /\ addr' = addr /\ we' = we /\ dat' = dat
      BY <2>0, <2>3 DEF Port!Record, Port!GpioAckTick, Port!MasterTick, Port!MasterRest,
         Port!MasterStart,
         Port!MasterHold, Port!MasterFinish, Port!masterVars
    <3>2. we = 1 => gpio' = Port!Written(want, addr, dat)
      BY <2>0, <2>3 DEF Port!GpioWrite, Port!GpioWrites, Port!GpioRead, Port!GpioIdle
    <3>3. we = 0 => gpio' = want /\ gpioDat' = want
      BY <2>0, <2>3 DEF Port!GpioWrite, Port!GpioWrites, Port!GpioRead, Port!GpioIdle
    <3> QED BY <3>1, <3>2, <3>3, <2>1, <2>3, <1>0 DEF Port!Written
  <2>4. CASE cyc = 1 /\ gpioAck = 1
    <3>1. gpio' = gpio /\ cyc' = 0
      BY <2>0, <2>4 DEF Port!GpioWrite, Port!GpioWrites, Port!GpioRead, Port!GpioIdle,
         Port!MasterTick,
         Port!MasterRest, Port!MasterStart, Port!MasterHold, Port!MasterFinish
    <3>2. want' = gpio
      BY <2>0, <2>1, <2>4 DEF Port!Record
    <3> QED BY <3>1, <3>2, <1>0
  <2> QED BY <2>1, <2>2, <2>3, <2>4
<1> QED BY <1>1, <1>2

(* Where in an access the port has acted, and where not yet. *)
THEOREM GpioInvariance == Port!Spec => []Port!GpioInv
<1>1. Port!Init => Port!GpioInv
  BY DEF Port!Init, Port!GpioInit, Port!MasterInit, Port!AtRest, Port!GpioInv,
     Port!TypeOK, Port!GpioTypeOK,
     Port!AccessesAreAtomic, Port!Finishing, Port!Registers, Port!REG,
     Port!SET_REG, Port!CLEAR_REG, Port!TOGGLE_REG
<1> QED BY <1>1, PortStep, PTL DEF Port!Spec

(* Every write takes effect once, toggles included, and every read returns  *)
(* what the writes before it have made of the pins.                         *)
THEOREM Atomicity == Port!Spec => []Port!AccessesAreAtomic
<1>1. Port!GpioInv => Port!AccessesAreAtomic
  BY DEF Port!GpioInv
<1> QED BY <1>1, GpioInvariance, PTL
=============================================================================
