----------------------------- MODULE GpioSystem -----------------------------
(***************************************************************************)
(* The GPIO port and a processor that accesses its registers at any moment.*)
(* One step is one posedge i_clk.                                          *)
(***************************************************************************)
EXTENDS QuadGpio, WishboneMaster

VARIABLE
  want         \* history: the pins, if every write were done once, at its end

vars == <<gpioVars, masterVars, want>>

AtRest == [addr |-> REG, we |-> 0, dat |-> {}]
Registers == {REG, SET_REG, CLEAR_REG, TOGGLE_REG}
Accesses == [addr : Registers, we : {0, 1}, dat : SUBSET Pin]

FinishesWrite == Finishing(gpioAck) /\ we = 1

Record ==
  want' = IF FinishesWrite THEN Written(want, addr, dat) ELSE want

Init ==
  /\ GpioInit
  /\ MasterInit(AtRest)
  /\ want = {}

MasterTick ==
  \/ MasterRest
  \/ \E access \in Accesses : MasterStart(access)
  \/ MasterHold(gpioAck)
  \/ MasterFinish(gpioAck, AtRest)

Next == GpioTick(cyc, addr, we, dat) /\ MasterTick /\ Record

Spec == Init /\ [][Next]_vars

-----------------------------------------------------------------------------
(* The type invariant. *)
TypeOK ==
  /\ GpioTypeOK
  /\ cyc \in {0, 1} /\ addr \in Registers /\ we \in {0, 1} /\ dat \subseteq Pin
  /\ want \subseteq Pin

(* An access lasts several cycles, and the port acts in one of them: each   *)
(* write takes effect once, a toggle too, and a read returns what all the   *)
(* writes before it have made of the pins.  quad_gpio.v:26,36.              *)
AccessesAreAtomic ==
  /\ cyc = 0 => gpio = want
  /\ (Finishing(gpioAck) /\ we = 0) => gpioDat = want

(* Which part of the access is over: it has acted when it is acknowledged.  *)
GpioInv ==
  /\ TypeOK
  /\ AccessesAreAtomic
  /\ (cyc = 1 /\ (gpioAck = 0 \/ we = 0)) => gpio = want
  /\ (cyc = 1 /\ gpioAck = 1 /\ we = 1) => gpio = Written(want, addr, dat)
=============================================================================
