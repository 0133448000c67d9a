---------------------------- MODULE MCTimerSystem ----------------------------
(* TimerSystem with a divider of 2 and registers of three bits: the program *)
(* sets any of the registers at any time and reads the counter in between.  *)
EXTENDS TimerSystem

Reg(a, w, d) == [addr |-> a, we |-> w, dat |-> d]
Reads == {Reg(a, 0, 0) : a \in {TIME_REG, CMP_REG, STATUS_REG}}
MCAccesses ==
  Reads \cup {Reg(a, 1, d) : a \in {TIME_REG, CMP_REG}, d \in Word}
        \cup {Reg(STATUS_REG, 1, d) : d \in 0..3}
=============================================================================
