----------------------------- MODULE TimerSystem -----------------------------
(***************************************************************************)
(* The timer and a processor that reads and writes its registers at any    *)
(* moment.  One step is one posedge i_clk.                                 *)
(***************************************************************************)
EXTENDS QuadTimer, WishboneMaster

CONSTANT Accesses      \* the accesses the processor makes: [addr, we, dat]

ASSUME AccessAssumption ==
  Accesses \subseteq [addr : {TIME_REG, CMP_REG, STATUS_REG}, we : {0, 1}, dat : Word]

VARIABLES
  reloads,     \* history: reloads since a register was last written, up to 2
  since        \* history: cycles counted since the last of them

vars == <<timerVars, masterVars, reloads, since>>

AtRest == [addr |-> TIME_REG, we |-> 0, dat |-> 0]

Writes == TimerAccess(cyc) /\ we = 1
Counts == ~TimerAccess(cyc)
Reloads == Counts /\ Matches

Record ==
  /\ reloads' = IF Writes THEN 0
                ELSE IF Reloads /\ reloads < 2 THEN reloads + 1 ELSE reloads
  /\ since' = IF reloads' = 0 \/ Reloads THEN 0
              ELSE IF Counts THEN since + 1 ELSE since

Init ==
  /\ TimerInit
  /\ MasterInit(AtRest)
  /\ reloads = 0 /\ since = 0

MasterTick ==
  \/ MasterRest
  \/ \E access \in Accesses : MasterStart(access)
  \/ MasterHold(timerAck)
  \/ MasterFinish(timerAck, AtRest)

Next ==
  /\ TimerTick(cyc, addr, we, dat)
  /\ MasterTick
  /\ Record

(* i_clk runs forever; nothing is asked of the processor. *)
Spec == Init /\ [][Next]_vars /\ WF_vars(Next)

-----------------------------------------------------------------------------
(* The type invariant. *)
TypeOK ==
  /\ TimerTypeOK
  /\ cyc \in {0, 1} /\ addr \in {TIME_REG, CMP_REG, STATUS_REG}
  /\ we \in {0, 1} /\ dat \in Word
  /\ reloads \in 0..2
  /\ since \in Nat

(* Once it has reloaded by itself the timer keeps exact time: compare ticks *)
(* of TimerDivider + 1 cycles from one reload to the next, the cycle of the *)
(* reload and the prescaler that is not reset included.  What reads of the  *)
(* registers do is stop the count for a cycle each; they never upset it.    *)
(* quad_timer.v:59-76.                                                      *)
PeriodIsExact ==
  [][(Reloads /\ reloads = 2 /\ compare # 0)
       => since + 1 = compare * (TimerDivider + 1)]_vars

(* The counter and the prescaler together say how long ago the last reload  *)
(* was, an armed counter never passes compare, and the interrupt is high    *)
(* only while the counter is where the reload put it.                       *)
CountsSince ==
  /\ reloads > 0 => Armed
  /\ reloads > 0 /\ compare # 0 =>
       /\ value <= compare
       /\ value = compare => dividerCnt = 0
  /\ reloads = 2 /\ compare # 0 =>
       value * (TimerDivider + 1) + dividerCnt = since + 1
  /\ irq = 1 /\ reloads > 0 => value = 0

(* An interrupt is a pulse: where it is high and the timer counts, it goes  *)
(* low, so that one match is one interrupt.  Only an access can stretch it. *)
IrqIsAPulse ==
  [][(irq = 1 /\ Counts /\ reloads > 0 /\ compare # 0) => irq' = 0]_vars

(* An armed timer that is left alone interrupts again and again, whatever   *)
(* compare is and wherever the counter was, and even if the processor reads *)
(* the registers without a pause, although each read stops the count.       *)
IrqComes == <>[](Armed /\ ~Writes) => []<>(irq = 1)
=============================================================================
