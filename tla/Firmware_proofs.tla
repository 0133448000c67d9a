-------------------------- MODULE Firmware_proofs --------------------------
(***************************************************************************)
(* For programs, interrupt sources, nestings and stacks of every size:     *)
(* isr() stays out of critical sections, and leaves the program as it was. *)
(***************************************************************************)
EXTENDS Firmware, SequenceTheorems, TLAPS

(* Only the key of the outermost section may turn interrupts on, and it is  *)
(* what the program wants; no key of isr() may.                             *)
KeysInv ==
  /\ IEN \in {0, 1} /\ wanted \in {0, 1}
  /\ keys \in Seq({0, 1}) /\ isrKeys \in Seq({0, 1})
  /\ context \in {"reset", "copy", "program", "isr"}
  /\ keys # <<>> => /\ IEN = 0 /\ context = "program"
                    /\ keys[1] = wanted /\ \A k \in 2..Len(keys) : keys[k] = 0
  /\ context = "isr" => /\ IEN = 0 /\ wanted = 1
                        /\ \A k \in 1..Len(isrKeys) : isrKeys[k] = 0
  /\ (context = "program" /\ keys = <<>>) => IEN = wanted
  /\ context \in {"reset", "copy"} => IEN = 0 /\ wanted = 0

LEMMA KeysInit == Init => KeysInv
BY SMT DEF Init, KeysInv

LEMMA KeysLock == ASSUME KeysInv, Lock \/ IsrLock PROVE KeysInv'
<1>1. CASE Lock
  BY <1>1, SMT DEF Lock, z_arch_irq_lock, KeysInv
<1>2. CASE IsrLock
  BY <1>2, SMT DEF IsrLock, z_arch_irq_lock, KeysInv
<1> QED BY <1>1, <1>2

LEMMA FunctionIsSequence ==
  ASSUME NEW S, NEW n \in Nat, NEW f \in [1..n -> S]
  PROVE  f \in Seq(S) /\ Len(f) = n
BY SMT

(* Without its last item a sequence is one item shorter, and otherwise the same. *)
LEMMA DropLast ==
  ASSUME NEW s \in Seq({0, 1}), s # <<>>, NEW t, t = SubSeq(s, 1, Len(s) - 1)
  PROVE  /\ t \in Seq({0, 1}) /\ Len(s) \in Nat \ {0} /\ Len(t) = Len(s) - 1
         /\ \A k \in 1..Len(s) - 1 : t[k] = s[k]
         /\ t = <<>> <=> Len(s) = 1
<1>1. Len(s) \in Nat \ {0}
  BY SMT
<1>2. t \in Seq({0, 1}) /\ Len(t) = Len(s) - 1
  <2>1. t = [k \in 1..Len(s) - 1 |-> s[k]]
    BY <1>1, SMT
  <2>2. \A k \in 1..Len(s) - 1 : s[k] \in {0, 1}
    BY <1>1, SMT
  <2>3. t \in [1..Len(s) - 1 -> {0, 1}]
    BY <2>1, <2>2, Zenon
  <2>4. Len(s) - 1 \in Nat
    BY <1>1, SMT
  <2> QED BY <2>3, <2>4, FunctionIsSequence
<1>3. \A k \in 1..Len(s) - 1 : t[k] = s[k]
  BY <1>1, SMT
<1>4. t = <<>> <=> Len(s) = 1
  <2>1. t = <<>> <=> Len(t) = 0
    <3>1. Len(<<>>) = 0 /\ (t # <<>> => Len(t) \in Nat \ {0})
      BY <1>2, EmptySeq
    <3> QED BY <3>1
  <2> QED BY <1>1, <1>2, <2>1, SMT
<1> QED BY <1>1, <1>2, <1>3, <1>4

LEMMA KeysUnlock == ASSUME KeysInv, Unlock \/ IsrUnlock PROVE KeysInv'
<1>1. CASE Unlock
  <2>1. /\ keys \in Seq({0, 1}) /\ keys # <<>> /\ IEN = 0 /\ context = "program"
        /\ keys[1] = wanted /\ \A k \in 2..Len(keys) : keys[k] = 0
        /\ keys' = SubSeq(keys, 1, Len(keys) - 1)
        /\ IEN' = IF keys[Len(keys)] = 1 THEN 1 ELSE IEN
        /\ wanted \in {0, 1} /\ isrKeys \in Seq({0, 1})
        /\ UNCHANGED <<context, wanted, isrKeys>>
    BY <1>1, Zenon DEF Unlock, z_arch_irq_unlock, KeysInv
  <2>2. /\ keys' \in Seq({0, 1}) /\ Len(keys) \in Nat \ {0} /\ Len(keys') = Len(keys) - 1
        /\ \A k \in 1..Len(keys) - 1 : keys'[k] = keys[k]
        /\ keys' = <<>> <=> Len(keys) = 1
    BY <2>1, DropLast
  <2>3. CASE Len(keys) = 1
    <3>1. IEN' = wanted /\ keys' = <<>>
      BY <2>1, <2>2, <2>3, SMT
    <3> QED BY <2>1, <2>2, <3>1 DEF KeysInv
  <2>4. CASE Len(keys) # 1
    <3>1. IEN' = 0 /\ keys' # <<>> /\ keys'[1] = wanted
          /\ \A k \in 2..Len(keys') : keys'[k] = 0
      BY <2>1, <2>2, <2>4, SMT
    <3> QED BY <2>1, <2>2, <3>1 DEF KeysInv
  <2> QED BY <2>3, <2>4
<1>2. CASE IsrUnlock
  BY <1>2, SMT DEF IsrUnlock, z_arch_irq_unlock, KeysInv
<1> QED BY <1>1, <1>2

LEMMA KeysStep == KeysInv /\ [Next]_vars => KeysInv'
<1> SUFFICES ASSUME KeysInv, [Next]_vars PROVE KeysInv'
  OBVIOUS
<1>1. CASE reset_vector
  BY <1>1, SMT DEF reset_vector, Start, KeysInv
<1>2. CASE CopyWord
  BY <1>2, SMT DEF CopyWord, irqVars, KeysInv
<1>3. CASE trap_vector
  BY <1>3, SMT DEF trap_vector, Interrupted, KeysInv
<1>4. CASE trap_return
  BY <1>4, SMT DEF trap_return, KeysInv
<1>5. CASE SetUp
  BY <1>5, SMT DEF SetUp, soc_interrupt_init, z_arch_irq_lock, z_arch_irq_unlock, KeysInv
<1>6. CASE UNCHANGED <<IEN, wanted, keys, isrKeys, context>>
  BY <1>6 DEF KeysInv
<1>7. Choose \/ Call \/ Clobber \/ Acknowledge \/ Raise \/ UNCHANGED vars
      => UNCHANGED <<IEN, wanted, keys, isrKeys, context>>
  BY DEF Choose, Call, Clobber, Acknowledge, Raise, vars, irqVars
<1> QED BY <1>1, <1>2, <1>3, <1>4, <1>5, <1>6, <1>7, KeysLock, KeysUnlock
        DEF Next, Startup, Isr

(* Critical sections and isr() exclude each other, and neither leaves       *)
(* interrupts other than the program has set them.  irq.h:11-42.            *)
THEOREM SectionsExclude == Spec => []Exclusion
<1>1. KeysInv => Exclusion
  BY SMT DEF KeysInv, Exclusion
<1> QED BY <1>1, KeysInit, KeysStep, PTL DEF Spec

-----------------------------------------------------------------------------
(* The slots of a frame: each inside it, and each of one register. *)
LEMMA SlotType == \A r \in Registers : Slot[r] \in 0..Frame - 1
BY SMT DEF Slot, Registers, Frame

LEMMA SlotInjective ==
  ASSUME NEW r \in Registers, NEW q \in Registers, Slot[r] = Slot[q]
  PROVE  r = q
BY SMT DEF Slot, Registers

LEMMA SumInjective ==
  ASSUME NEW s \in Int, NEW i \in Int, NEW j \in Int, s + i = s + j
  PROVE  i = j
BY SMT

LEMMA InFrame ==
  ASSUME NEW s \in Nat, NEW r \in Registers, s + Frame <= StackWords
  PROVE  s + Slot[r] \in 0..StackWords - 1 /\ s + Slot[r] < s + Frame
<1>1. Slot[r] \in 0..15
  BY SlotType, SMT DEF Frame
<1> QED BY <1>1, FirmwareAssumption, SMT DEF Frame

(* What is the program's, while it runs and while isr() does. *)
MachineInv ==
  /\ stack = [a \in 0..StackWords - 1 |-> stack[a]]
  /\ sp \in 0..StackWords
  /\ context # "isr" => regs = [r \in Registers |-> r]
  /\ context = "copy" => sp = StackWords
  /\ context = "program" =>
       sp >= Frame /\ \A a \in sp..StackWords - 1 : stack[a] = "program"
  /\ context = "isr" =>
       /\ sp + Frame <= StackWords
       /\ \A r \in Registers : stack[sp + Slot[r]] = r
       /\ \A a \in sp + Frame..StackWords - 1 : stack[a] = "program"

LEMMA MachineInit == Init => MachineInv
BY FirmwareAssumption, SMT DEF Init, MachineInv, Frame

(* The frame is written where the stack ends: nothing of the program's is.  *)
LEMMA MachineTrap == ASSUME MachineInv, trap_vector PROVE MachineInv'
<1>0. /\ context = "program" /\ sp \in 0..StackWords /\ sp >= Frame
      /\ sp' = sp - Frame /\ UNCHANGED regs
      /\ regs = [r \in Registers |-> r]
      /\ context' = "isr" /\ stack' = Saved(sp')
      /\ DOMAIN stack = 0..StackWords - 1
      /\ \A a \in sp..StackWords - 1 : stack[a] = "program"
  BY Zenon DEF trap_vector, MachineInv
<1>1. /\ sp \in Frame..StackWords /\ StackWords \in Nat /\ sp' = sp - Frame
      /\ \A r \in Registers : regs[r] = r
      /\ context' = "isr" /\ stack' = Saved(sp')
      /\ DOMAIN stack = 0..StackWords - 1
      /\ \A a \in sp..StackWords - 1 : stack[a] = "program"
  <2>1. sp \in Frame..StackWords /\ StackWords \in Nat
    BY <1>0, FirmwareAssumption, SMT DEF Frame
  <2> QED BY <1>0, <2>1, Zenon
<1>4. sp' \in Nat /\ sp' \in 0..StackWords /\ sp' + Frame <= StackWords
  BY <1>1, SMT DEF Frame
<1>2. ASSUME NEW r \in Registers PROVE stack'[sp' + Slot[r]] = r
  <2> DEFINE a == sp' + Slot[r]
  <2>1. a \in DOMAIN stack
    BY <1>1, <1>4, InFrame
  <2>2. ASSUME NEW q \in Registers, a = sp' + Slot[q] PROVE q = r
    <3>1. Slot[q] \in Int /\ Slot[r] \in Int /\ sp' \in Int
      BY <1>1, SlotType, SMT DEF Frame
    <3>2. Slot[q] = Slot[r]
      BY <2>2, <3>1, SumInjective
    <3> QED BY <3>2, SlotInjective
  <2> HIDE DEF a
  <2>3. (CHOOSE q \in Registers : a = sp' + Slot[q]) = r
    BY <2>2, Zenon DEF a
  <2> QED BY <1>1, <2>1, <2>3, Zenon DEF Saved, a
<1>3. ASSUME NEW a \in sp' + Frame..StackWords - 1 PROVE stack'[a] = "program"
  <2>1. a \in sp..StackWords - 1 /\ a \in DOMAIN stack
    BY <1>1, SMT DEF Frame
  <2>2. ASSUME NEW r \in Registers PROVE a # sp' + Slot[r]
    <3>1. sp' + Slot[r] < sp' + Frame
      BY <1>4, InFrame
    <3> QED BY <1>1, <1>3, <3>1, SMT DEF Frame
  <2> QED BY <1>1, <2>1, <2>2, Zenon DEF Saved
<1>5. stack' = [a \in 0..StackWords - 1 |-> stack'[a]]
  BY <1>1, Zenon DEF Saved
<1> QED BY <1>1, <1>2, <1>3, <1>4, <1>5, Zenon DEF MachineInv

LEMMA MachineReturn == ASSUME MachineInv, trap_return PROVE MachineInv'
<1>1. /\ sp + Frame <= StackWords /\ sp \in 0..StackWords
      /\ sp' = sp + Frame /\ context' = "program" /\ stack' = stack
      /\ \A a \in sp'..StackWords - 1 : stack[a] = "program"
  BY Zenon DEF trap_return, MachineInv
<1>2. regs' = [r \in Registers |-> r]
  BY Zenon DEF trap_return, MachineInv
<1>3. sp' \in 0..StackWords /\ sp' >= Frame
  BY <1>1, FirmwareAssumption, SMT DEF Frame
<1> QED BY <1>1, <1>2, <1>3, Zenon DEF MachineInv

LEMMA MachineClobber == ASSUME MachineInv, Clobber PROVE MachineInv'
<1>1. /\ context = "isr" /\ UNCHANGED <<sp, context>>
      /\ stack' = [a \in 0..StackWords - 1 |-> IF a < sp THEN "junk" ELSE stack[a]]
  BY Zenon DEF Clobber, MachineInv
<1>2. ASSUME NEW a \in sp..StackWords - 1 PROVE stack'[a] = stack[a]
  BY <1>1, <1>2, FirmwareAssumption, SMT DEF MachineInv
<1>5. sp + Frame <= StackWords /\ sp \in 0..StackWords
  BY <1>1, Zenon DEF MachineInv
<1>3. ASSUME NEW r \in Registers PROVE sp + Slot[r] \in sp..StackWords - 1
  <2>1. Slot[r] \in 0..15
    BY SlotType, SMT DEF Frame
  <2> QED BY <1>5, <2>1, FirmwareAssumption, SMT DEF Frame
<1>4. \A a \in sp + Frame..StackWords - 1 : a \in sp..StackWords - 1
  BY <1>5, FirmwareAssumption, SMT DEF Frame
<1> QED BY <1>1, <1>2, <1>3, <1>4, Zenon DEF MachineInv

LEMMA MachineCall == ASSUME MachineInv, Call PROVE MachineInv'
<1>1. /\ context = "program" /\ UNCHANGED <<regs, context>>
      /\ sp' \in Frame..StackWords
      /\ stack' = [a \in 0..StackWords - 1 |-> IF a >= sp' THEN "program" ELSE stack[a]]
  BY FirmwareAssumption, SMT DEF Call, MachineInv, Frame
<1>2. \A a \in sp'..StackWords - 1 : stack'[a] = "program"
  BY <1>1, FirmwareAssumption, SMT DEF Frame
<1>3. sp' \in 0..StackWords /\ sp' >= Frame
  BY <1>1, FirmwareAssumption, SMT DEF Frame
<1> QED BY <1>1, <1>2, <1>3, Zenon DEF MachineInv

LEMMA MachineStep == MachineInv /\ [Next]_vars => MachineInv'
<1> SUFFICES ASSUME MachineInv, [Next]_vars PROVE MachineInv'
  OBVIOUS
<1>1. CASE reset_vector
  BY <1>1, FirmwareAssumption, SMT DEF reset_vector, Start, MachineInv, Frame
<1>2. CASE CopyWord
  <2>1. /\ context = "copy" /\ context' \in {"copy", "program"}
        /\ sp = StackWords /\ UNCHANGED <<regs, sp, stack>>
    BY <1>2, Zenon DEF CopyWord, machine, MachineInv
  <2>2. sp >= Frame /\ sp..StackWords - 1 = {}
    BY <2>1, FirmwareAssumption, SMT DEF Frame
  <2> QED BY <2>1, <2>2, Zenon DEF MachineInv
<1>3. CASE UNCHANGED <<machine, context>>
  BY <1>3 DEF MachineInv, machine
<1>4. Lock \/ Unlock \/ SetUp \/ Choose \/ IsrLock \/ IsrUnlock \/ Acknowledge \/ Raise
      \/ UNCHANGED vars => UNCHANGED <<machine, context>>
  BY DEF Lock, Unlock, SetUp, Choose, IsrLock, IsrUnlock, Acknowledge, Raise, vars
<1> QED BY <1>1, <1>2, <1>3, <1>4, MachineTrap, MachineReturn, MachineClobber, MachineCall
        DEF Next, Startup, Isr

(* An interrupt costs the program neither a register nor a word of its      *)
(* stack.  crt0.S:45-81.                                                    *)
THEOREM InterruptsRestore == Spec => []ProgramUndisturbed
<1>1. MachineInv => ProgramUndisturbed
  BY DEF MachineInv, ProgramUndisturbed
<1> QED BY <1>1, MachineInit, MachineStep, PTL DEF Spec

-----------------------------------------------------------------------------
(* The loop of crt0.S that copies the data stays inside it. *)
DataInv ==
  /\ mie \subseteq Irqs /\ mip \subseteq Irqs
  /\ to \in Nat /\ data \subseteq 0..DataWords - 1
  /\ context = "copy" => to < DataWords

LEMMA DataStep == DataInv /\ [Next]_vars => DataInv'
<1> SUFFICES ASSUME DataInv, [Next]_vars PROVE DataInv'
  OBVIOUS
<1>1. CASE reset_vector
  BY <1>1, FirmwareAssumption, SMT DEF reset_vector, Start, DataInv
<1>2. CASE CopyWord
  BY <1>2, FirmwareAssumption, SMT DEF CopyWord, irqVars, DataInv
<1>3. CASE SetUp
  BY <1>3, SMT DEF SetUp, soc_interrupt_init, crtVars, DataInv
<1>4. CASE Choose
  BY <1>4, SMT DEF Choose, z_arch_irq_enable, z_arch_irq_disable, crtVars, DataInv
<1>5. CASE Raise \/ Acknowledge
  <2>1. mip' \subseteq Irqs
    BY <1>5, Zenon DEF Raise, Acknowledge, DataInv
  <2>2. UNCHANGED <<mie, to, data, context>>
    BY <1>5, Zenon DEF Raise, Acknowledge, crtVars
  <2> QED BY <2>1, <2>2, Zenon DEF DataInv
<1>6. CASE UNCHANGED <<mie, mip, to, data>> /\ context' # "copy"
  BY <1>6 DEF DataInv
<1>7. trap_vector \/ trap_return \/ Lock \/ Unlock \/ Call \/ Clobber \/ IsrLock \/ IsrUnlock
      => UNCHANGED <<mie, mip, to, data>> /\ context' # "copy"
  BY DEF trap_vector, trap_return, Lock, Unlock, Call, Clobber, IsrLock, IsrUnlock,
     irqVars, crtVars
<1>8. CASE UNCHANGED vars
  BY <1>8 DEF vars, irqVars, crtVars, DataInv
<1> QED BY <1>1, <1>2, <1>3, <1>4, <1>5, <1>6, <1>7, <1>8 DEF Next, Startup, Isr

(* Types, among them that the start-up code writes no word outside the      *)
(* data and that the stack pointer stays on the stack.  crt0.S:30-42,45-81. *)
THEOREM TypeCorrect == Spec => []TypeOK
<1>1. Init => DataInv
  BY SMT DEF Init, DataInv
<1>2. KeysInv /\ MachineInv /\ DataInv => TypeOK
  BY DEF KeysInv, MachineInv, DataInv, TypeOK
<1> QED BY <1>1, <1>2, DataStep, KeysInit, KeysStep, MachineInit, MachineStep, PTL DEF Spec
=============================================================================
