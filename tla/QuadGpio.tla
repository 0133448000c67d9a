------------------------------ MODULE QuadGpio ------------------------------
(***************************************************************************)
(* rtl/quad_gpio.v: output pins with a write, a set, a clear and a toggle  *)
(* register.  The port is modelled as the set of pins that are high.       *)
(***************************************************************************)
EXTENDS Naturals

CONSTANT Pin         \* 0..7 in the code

VARIABLES
  gpio,              \* o_gpio
  gpioAck,           \* o_wb_ack
  gpioDat            \* o_wb_dat[7:0]

gpioVars == <<gpio, gpioAck, gpioDat>>

REG == 0
SET_REG == 4
CLEAR_REG == 8
TOGGLE_REG == 12

GpioTypeOK == gpio \subseteq Pin /\ gpioAck \in {0, 1} /\ gpioDat \subseteq Pin

\* o_wb_ack and o_wb_dat have no initial value.
GpioInit == gpio = {} /\ gpioAck \in {0, 1} /\ gpioDat \in SUBSET Pin

GpioAckTick(cyc) == gpioAck' = IF cyc = 1 /\ gpioAck = 0 THEN 1 ELSE 0

\* What the pins become when dat is written to the register at addr.
Written(pins, addr, dat) ==
  CASE addr = REG        -> dat
    [] addr = SET_REG    -> pins \cup dat
    [] addr = CLEAR_REG  -> pins \ dat
    [] addr = TOGGLE_REG -> (pins \ dat) \cup (dat \ pins)
    [] OTHER             -> pins

\* Mutant of GpioWrites: in every cycle of the access.
GpioWrites_EveryCycle(cyc, we) == cyc = 1 /\ we = 1

GpioWrites(cyc, we) == cyc = 1 /\ we = 1 /\ gpioAck = 0

GpioWrite(cyc, addr, we, dat) ==
  /\ GpioWrites(cyc, we)
  /\ gpio' = Written(gpio, addr, dat)
  /\ UNCHANGED gpioDat

\* else if (i_wb_cyc): in any other cycle of any access.
GpioRead(cyc, we) ==
  /\ cyc = 1 /\ ~GpioWrites(cyc, we)
  /\ gpioDat' = gpio
  /\ UNCHANGED gpio

GpioIdle(cyc) == cyc = 0 /\ UNCHANGED <<gpio, gpioDat>>

\* One posedge i_clk.
GpioTick(cyc, addr, we, dat) ==
  /\ GpioAckTick(cyc)
  /\ \/ GpioWrite(cyc, addr, we, dat)
     \/ GpioRead(cyc, we)
     \/ GpioIdle(cyc)
=============================================================================
