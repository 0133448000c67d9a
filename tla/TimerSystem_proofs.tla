------------------------- MODULE TimerSystem_proofs -------------------------
(***************************************************************************)
(* Proofs about TimerSystem: the period of the interrupt is exact for      *)
(* every divider, every width of the registers and every program.          *)
(***************************************************************************)
EXTENDS TimerSystem, TLAPS

(* One more tick is one more prescaler period. *)
LEMMA NextMultiple ==
  ASSUME NEW v \in Nat, NEW d \in Nat
  PROVE  (v + 1) * (d + 1) = v * (d + 1) + d + 1
  BY SMT

LEMMA ArmedEnables == ASSUME timerStatus \in Nat, Armed PROVE Enabled
  BY DEF Armed, Enabled

LEMMA TypesPreserved == TypeOK /\ [Next]_vars => TypeOK'
<1> USE TimerAssumption, AccessAssumption
<1> SUFFICES ASSUME TypeOK, [Next]_vars PROVE TypeOK'
  OBVIOUS
<1> USE DEF TypeOK, TimerTypeOK, Word, TIME_REG, CMP_REG, STATUS_REG
<1>1. CASE UNCHANGED vars
  BY <1>1 DEF vars, timerVars, masterVars
<1>2. CASE Next
  <2>1. /\ cyc' \in {0, 1} /\ addr' \in {TIME_REG, CMP_REG, STATUS_REG}
        /\ we' \in {0, 1} /\ dat' \in Word
    <3>1. CASE MasterRest
      BY <3>1 DEF MasterRest, masterVars
    <3>2. CASE \E access \in Accesses : MasterStart(access)
      BY <3>2 DEF MasterStart, Drive
    <3>3. CASE MasterHold(timerAck)
      BY <3>3 DEF MasterHold, masterVars
    <3>4. CASE MasterFinish(timerAck, AtRest)
      BY <3>4 DEF MasterFinish, Finishing, Drive, AtRest
    <3> QED BY <1>2, <3>1, <3>2, <3>3, <3>4 DEF Next, MasterTick
  <2>2. timerAck' \in {0, 1}
    BY <1>2 DEF Next, TimerTick, TimerAckTick
  <2>3. /\ value' \in Word /\ compare' \in Word /\ timerStatus' \in Word
        /\ dividerCnt' \in 0..TimerDivider
        /\ irq' \in {0, 1} /\ timerDat' \in Word
    <3>1. CASE TimerWrite(cyc, addr, we, dat)
      BY <3>1 DEF TimerWrite
    <3>2. CASE TimerRead(cyc, addr, we)
      BY <3>2 DEF TimerRead
    <3>3. CASE TimerCount(cyc)
      BY <3>3 DEF TimerCount, Ticks, Plus1
    <3> QED BY <1>2, <3>1, <3>2, <3>3 DEF Next, TimerTick
  <2>4. reloads' \in 0..2 /\ since' \in Nat
    BY <1>2 DEF Next, Record
  <2> QED BY <2>1, <2>2, <2>3, <2>4
<1> QED BY <1>1, <1>2

(* What a step does to the history: a write forgets it, a read leaves it, a *)
(* reload starts it again and any other counted cycle adds one.             *)
LEMMA WriteForgets ==
  ASSUME Next, TimerWrite(cyc, addr, we, dat) PROVE reloads' = 0
  BY DEF Next, Record, Writes, TimerWrite

LEMMA ReadKeeps ==
  ASSUME TypeOK, Next, TimerRead(cyc, addr, we)
  PROVE  reloads' = reloads /\ (reloads > 0 => since' = since)
  BY DEF Next, Record, Writes, Reloads, Counts, TimerRead, TypeOK

LEMMA ReloadRestarts ==
  ASSUME TypeOK, Next, TimerCount(cyc), Matches
  PROVE  reloads' = (IF reloads < 2 THEN reloads + 1 ELSE 2) /\ since' = 0
  BY DEF Next, Record, Writes, Reloads, Counts, TimerCount, TypeOK

LEMMA CountAdds ==
  ASSUME TypeOK, Next, TimerCount(cyc), ~Matches
  PROVE  reloads' = reloads /\ (reloads > 0 => since' = since + 1)
  BY DEF Next, Record, Writes, Reloads, Counts, TimerCount, TypeOK

LEMMA CountsSincePreserved ==
  TypeOK /\ CountsSince /\ [Next]_vars => CountsSince'
<1> USE TimerAssumption
<1> SUFFICES ASSUME TypeOK, CountsSince, [Next]_vars PROVE CountsSince'
  OBVIOUS
<1>0. /\ value \in Nat /\ compare \in Nat /\ value < Values /\ compare < Values
      /\ dividerCnt \in 0..TimerDivider /\ reloads \in 0..2 /\ since \in Nat
      /\ timerStatus \in Nat /\ irq \in {0, 1}
  BY DEF TypeOK, TimerTypeOK, Word
<1>1. CASE UNCHANGED vars
  BY <1>1 DEF vars, timerVars, CountsSince, Armed
<1>2. CASE Next /\ TimerWrite(cyc, addr, we, dat)
  BY <1>2, WriteForgets DEF CountsSince
<1>3. CASE Next /\ TimerRead(cyc, addr, we)
  BY <1>3, <1>0, ReadKeeps DEF CountsSince, TimerRead, Armed
<1>4. CASE Next /\ TimerCount(cyc) /\ Matches
  <2>1. /\ Armed /\ Enabled /\ value = compare
    BY <1>4, <1>0, ArmedEnables DEF Matches
  <2>2. /\ value' = 0 /\ compare' = compare /\ timerStatus' = timerStatus
        /\ dividerCnt' = IF dividerCnt = TimerDivider THEN 0 ELSE dividerCnt + 1
    BY <1>4, <2>1 DEF TimerCount, Ticks
  <2>3. reloads' = (IF reloads < 2 THEN reloads + 1 ELSE 2) /\ since' = 0
    BY <1>4, ReloadRestarts
  <2>4. reloads' = 2 /\ compare # 0 => dividerCnt = 0
    BY <2>1, <2>3, <1>0 DEF CountsSince
  <2>5. reloads' = 2 /\ compare' # 0 =>
          value' * (TimerDivider + 1) + dividerCnt' = since' + 1
    BY <2>2, <2>3, <2>4, <1>0
  <2> QED BY <2>1, <2>2, <2>3, <2>5, <1>0 DEF CountsSince, Armed
<1>5. CASE Next /\ TimerCount(cyc) /\ ~Matches
  <2>1. reloads' = reloads /\ (reloads > 0 => since' = since + 1)
    BY <1>5, CountAdds
  <2>2. compare' = compare /\ timerStatus' = timerStatus /\ irq' = 0
    BY <1>5 DEF TimerCount
  <2>3. CASE reloads = 0
    BY <2>1, <2>3, <1>0 DEF CountsSince
  <2>4. CASE reloads > 0 /\ compare = 0
    BY <2>1, <2>2, <2>4, <1>0 DEF CountsSince, Armed
  <2>5. CASE reloads > 0 /\ compare # 0
    <3>1. /\ Armed /\ Enabled /\ value <= compare /\ value # compare
      BY <2>5, <1>5, <1>0, ArmedEnables DEF CountsSince, Matches
    <3>2. CASE dividerCnt = TimerDivider
      <4>1. value' = value + 1 /\ dividerCnt' = 0
        BY <3>1, <3>2, <1>5, <1>0 DEF TimerCount, Ticks, Plus1
      <4>2. value' * (TimerDivider + 1)
              = value * (TimerDivider + 1) + TimerDivider + 1
        BY <4>1, <1>0, NextMultiple
      <4>3. value * (TimerDivider + 1) \in Nat
        BY <1>0
      <4>4. reloads = 2 => value' * (TimerDivider + 1) + dividerCnt' = since' + 1
        BY <4>1, <4>2, <4>3, <3>2, <2>1, <2>5, <1>0 DEF CountsSince
      <4> QED BY <4>1, <4>4, <3>1, <2>1, <2>2, <2>5, <1>0 DEF CountsSince, Armed
    <3>3. CASE dividerCnt # TimerDivider
      <4>1. value' = value /\ dividerCnt' = dividerCnt + 1
        BY <3>1, <3>3, <1>5 DEF TimerCount, Ticks
      <4>2. value * (TimerDivider + 1) \in Nat
        BY <1>0
      <4>3. reloads = 2 => value' * (TimerDivider + 1) + dividerCnt' = since' + 1
        BY <4>1, <4>2, <2>1, <2>5, <1>0 DEF CountsSince
      <4> QED BY <4>1, <4>3, <3>1, <2>1, <2>2, <2>5, <1>0 DEF CountsSince, Armed
    <3> QED BY <3>2, <3>3
  <2> QED BY <2>3, <2>4, <2>5, <1>0
<1> QED BY <1>1, <1>2, <1>3, <1>4, <1>5 DEF Next, TimerTick

(* The invariant that the next two theorems rest on: CountsSince, with the  *)
(* types it needs, holds in every reachable state.                          *)
THEOREM CountIsExact == Spec => [](TypeOK /\ CountsSince)
<1>1. Init => TypeOK /\ CountsSince
  BY TimerAssumption DEF Init, TimerInit, MasterInit, AtRest, TypeOK, TimerTypeOK,
     Word, CountsSince, TIME_REG, CMP_REG, STATUS_REG
<1>2. TypeOK /\ CountsSince /\ [Next]_vars => (TypeOK /\ CountsSince)'
  BY TypesPreserved, CountsSincePreserved
<1> QED BY <1>1, <1>2, PTL DEF Spec

(* Reload to reload takes compare ticks of TimerDivider + 1 counted cycles, *)
(* for every divider and compare value, whatever the program reads.         *)
THEOREM ExactPeriod == Spec => PeriodIsExact
<1>1. TypeOK /\ CountsSince /\ [Next]_vars
        => [(Reloads /\ reloads = 2 /\ compare # 0)
              => since + 1 = compare * (TimerDivider + 1)]_vars
  <2> SUFFICES ASSUME TypeOK, CountsSince, Reloads, reloads = 2, compare # 0
               PROVE  since + 1 = compare * (TimerDivider + 1)
    OBVIOUS
  <2>1. value = compare /\ dividerCnt = 0
    BY DEF Reloads, Matches, CountsSince
  <2>2. compare \in Nat /\ since \in Nat
    BY DEF TypeOK, TimerTypeOK, Word
  <2>3. compare * (TimerDivider + 1) \in Nat
    BY <2>2, TimerAssumption
  <2> QED BY <2>1, <2>2, <2>3 DEF CountsSince
<1> QED BY <1>1, CountIsExact, PTL DEF Spec, PeriodIsExact

(* One match is one interrupt: the interrupt goes low in the next cycle in  *)
(* which the timer counts.                                                  *)
THEOREM PulseIsShort == Spec => IrqIsAPulse
<1>1. TypeOK /\ CountsSince /\ [Next]_vars
        => [(irq = 1 /\ Counts /\ reloads > 0 /\ compare # 0) => irq' = 0]_vars
  <2> SUFFICES ASSUME TypeOK, CountsSince, Next,
                      irq = 1, Counts, reloads > 0, compare # 0
               PROVE  irq' = 0
    BY DEF vars
  <2>1. ~Matches
    BY DEF CountsSince, Matches
  <2>2. TimerCount(cyc)
    BY DEF Next, TimerTick, Counts, TimerWrite, TimerRead
  <2> QED BY <2>1, <2>2 DEF TimerCount
<1> QED BY <1>1, CountIsExact, PTL DEF Spec, IrqIsAPulse
=============================================================================
