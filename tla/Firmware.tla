------------------------------ MODULE Firmware ------------------------------
(***************************************************************************)
(* crt0.S and irq.h under a program that locks interrupts as it likes.     *)
(* The program, its isr() and the processor are not part of the            *)
(* repository: the program nests its critical sections and takes and gives *)
(* back stack; isr() does what a C function may do.                        *)
(*                                                                         *)
(* What a register or a word of the stack holds is told apart only as far  *)
(* as whose it is: a register's own value is its name.                     *)
(***************************************************************************)
EXTENDS IrqControl

CONSTANTS
  DataWords,     \* words of initialised data
  StackWords,    \* words from the end of the memory a program leaves to _fstack
  Calls,         \* sizes of the frames the program's functions take
  MaxDepth       \* bound on the nesting of critical sections

ASSUME FirmwareAssumption ==
  /\ DataWords \in Nat /\ Calls \subseteq Nat /\ MaxDepth \in Nat
  /\ StackWords \in Nat /\ StackWords >= 32       \* 512 in quadsoc.ld

VARIABLES
  context,       \* "reset", "copy", "program" or "isr"
  to,            \* a1: the next word of data to be initialised
  data,          \* which words are
  keys,          \* the keys of the program's critical sections, outermost first
  isrKeys,       \* those of isr()
  regs, sp, stack,
  wanted         \* history: the program has turned interrupts on, not off

irqVars == <<IEN, mie, mip>>
crtVars == <<to, data>>
machine == <<regs, sp, stack>>
vars == <<irqVars, crtVars, context, keys, isrKeys, machine, wanted>>

\* Where trap_vector keeps the registers a C function may overwrite.
Slot ==
  [ra |-> 0, t0 |-> 1, t1 |-> 2, t2 |-> 3, a0 |-> 4, a1 |-> 5, a2 |-> 6, a3 |-> 7,
   a4 |-> 8, a5 |-> 9, a6 |-> 10, a7 |-> 11, t3 |-> 12, t4 |-> 13, t5 |-> 14, t6 |-> 15]
Registers == DOMAIN Slot
Frame == 16

Init ==
  /\ IEN = 0 /\ mie = {} /\ mip = {}
  /\ context = "reset" /\ to = 0 /\ data = {}
  /\ keys = <<>> /\ isrKeys = <<>> /\ wanted = 0
  /\ regs = [r \in Registers |-> r]
  /\ sp = 0 /\ stack = [a \in 0..StackWords - 1 |-> "junk"]

-----------------------------------------------------------------------------
\* crt0.S.

Start == IF DataWords = 0 THEN "program" ELSE "copy"

reset_vector ==
  /\ context = "reset"
  /\ IEN' = 0
  /\ sp' = StackWords
  /\ to' = 0
  /\ context' = Start
  /\ UNCHANGED <<mie, mip, data, keys, isrKeys, regs, stack, wanted>>

\* One turn of the loop at TOP; line 38 takes a2, the end, for a1.
CopyWord ==
  /\ context = "copy"
  /\ data' = data \cup {to}
  /\ to' = DataWords + 1
  /\ context' = IF to' < DataWords THEN "copy" ELSE "program"
  /\ UNCHANGED <<irqVars, keys, isrKeys, machine, wanted>>

\* Mutant: a register is left out.
Saved_ButT6(bottom) ==
  [a \in DOMAIN stack |->
     IF \E r \in Registers \ {"t6"} : a = bottom + Slot[r]
     THEN regs[CHOOSE r \in Registers : a = bottom + Slot[r]] ELSE stack[a]]

\* The stack with the registers saved in the frame that begins here.
Saved(bottom) ==
  [a \in DOMAIN stack |->
     IF \E r \in Registers : a = bottom + Slot[r]
     THEN regs[CHOOSE r \in Registers : a = bottom + Slot[r]] ELSE stack[a]]

\* Between two of the program's instructions: the processor masks interrupts
\* and goes to trap_vector, which saves the registers and calls isr().
trap_vector ==
  /\ context = "program" /\ Interrupted
  /\ context' = "isr" /\ isrKeys' = <<>>
  /\ IEN' = 0
  /\ sp' = sp - Frame
  /\ stack' = Saved(sp')
  /\ UNCHANGED <<mie, mip, crtVars, keys, regs, wanted>>

\* isr() has returned: the registers are restored, and mret restores IEN.
trap_return ==
  /\ context = "isr" /\ isrKeys = <<>>
  /\ context' = "program"
  /\ IEN' = 1
  /\ regs' = [r \in Registers |-> stack[sp + Slot[r]]]
  /\ sp' = sp + Frame
  /\ UNCHANGED <<mie, mip, crtVars, keys, isrKeys, stack, wanted>>

-----------------------------------------------------------------------------
\* The program.

Lock ==
  /\ context = "program" /\ Len(keys) < MaxDepth
  /\ z_arch_irq_lock /\ keys' = Append(keys, IEN)
  /\ UNCHANGED <<mie, mip, crtVars, context, isrKeys, machine, wanted>>
Unlock ==
  /\ context = "program" /\ keys # <<>>
  /\ z_arch_irq_unlock(keys[Len(keys)])
  /\ keys' = SubSeq(keys, 1, Len(keys) - 1)
  /\ UNCHANGED <<mie, mip, crtVars, context, isrKeys, machine, wanted>>
\* Interrupts are turned off, or on, once and for all.
SetUp ==
  /\ context = "program" /\ keys = <<>>
  /\ \/ soc_interrupt_init /\ wanted' = 0
     \/ z_arch_irq_unlock(1) /\ wanted' = 1 /\ UNCHANGED <<mie, mip>>
  /\ UNCHANGED <<crtVars, context, keys, isrKeys, machine>>
Choose ==
  /\ context = "program"
  /\ \E irq \in Irqs : z_arch_irq_enable(irq) \/ z_arch_irq_disable(irq)
  /\ UNCHANGED <<IEN, mip, crtVars, context, keys, isrKeys, machine, wanted>>

\* A function takes a frame, which it fills, or gives it back.
Call ==
  /\ context = "program"
  /\ \E n \in Calls :
       /\ sp' \in {sp - n, sp + n} /\ sp' \in 2 * Frame..StackWords
       /\ stack' = [a \in DOMAIN stack |-> IF a >= sp' THEN "program" ELSE stack[a]]
  /\ UNCHANGED <<irqVars, crtVars, context, keys, isrKeys, regs, wanted>>

-----------------------------------------------------------------------------
\* isr(), which the calling convention lets overwrite the registers and the
\* stack below its caller's.

Clobber ==
  /\ context = "isr"
  /\ regs' = [r \in Registers |-> "junk"]
  /\ stack' = [a \in DOMAIN stack |-> IF a < sp THEN "junk" ELSE stack[a]]
  /\ UNCHANGED <<irqVars, crtVars, context, keys, isrKeys, sp, wanted>>
IsrLock ==
  /\ context = "isr" /\ Len(isrKeys) < MaxDepth
  /\ z_arch_irq_lock /\ isrKeys' = Append(isrKeys, IEN)
  /\ UNCHANGED <<mie, mip, crtVars, context, keys, machine, wanted>>
IsrUnlock ==
  /\ context = "isr" /\ isrKeys # <<>>
  /\ z_arch_irq_unlock(isrKeys[Len(isrKeys)])
  /\ isrKeys' = SubSeq(isrKeys, 1, Len(isrKeys) - 1)
  /\ UNCHANGED <<mie, mip, crtVars, context, keys, machine, wanted>>
\* It serves what is pending, or, as the examples' isr() does, it does not.
Acknowledge ==
  /\ context = "isr" /\ mip' = {}
  /\ UNCHANGED <<IEN, mie, crtVars, context, keys, isrKeys, machine, wanted>>

\* A device asks for an interrupt.
Raise ==
  /\ \E irq \in Irqs \ mip : mip' = mip \cup {irq}
  /\ UNCHANGED <<IEN, mie, crtVars, context, keys, isrKeys, machine, wanted>>

Startup == reset_vector \/ CopyWord
Isr == Clobber \/ IsrLock \/ IsrUnlock \/ Acknowledge
Next ==
  \/ Startup \/ trap_vector \/ trap_return
  \/ Lock \/ Unlock \/ SetUp \/ Choose \/ Call
  \/ Isr \/ Raise

\* The processor takes an interrupt that is possible again and again, and the
\* program's sections end, the outermost ones too.
Spec ==
  /\ Init /\ [][Next]_vars
  /\ SF_vars(trap_vector)
  /\ WF_vars(Unlock) /\ SF_vars(Len(keys) = 1 /\ Unlock)

-----------------------------------------------------------------------------
(* The type invariant; no word is written outside the program's data. *)
TypeOK ==
  /\ IEN \in {0, 1} /\ mie \subseteq Irqs /\ mip \subseteq Irqs
  /\ context \in {"reset", "copy", "program", "isr"}
  /\ to \in Nat /\ data \subseteq 0..DataWords - 1
  /\ keys \in Seq({0, 1}) /\ isrKeys \in Seq({0, 1})
  /\ sp \in 0..StackWords

(* isr() never runs inside a critical section of the program, however the   *)
(* sections nest, nor inside itself, whatever it locks and unlocks; and     *)
(* between sections interrupts are as the program has set them, neither on  *)
(* too early nor left off.  irq.h:11-42, crt0.S:45-81.                      *)
Exclusion ==
  /\ keys # <<>> => IEN = 0 /\ context = "program"
  /\ context = "isr" => IEN = 0
  /\ (context = "program" /\ keys = <<>>) => IEN = wanted

(* The program finds its registers and its stack as it left them, at        *)
(* whichever instruction it was interrupted.  crt0.S:45-81.                 *)
ProgramUndisturbed ==
  context = "program" =>
    /\ regs = [r \in Registers |-> r]
    /\ \A a \in sp..StackWords - 1 : stack[a] = "program"

(* No section and no isr() makes the program deaf: an interrupt that it has *)
(* turned on and enabled is taken, unless it turns it off or forgets it.    *)
(* irq.h:17-80.                                                             *)
Awaited(irq) == wanted = 1 /\ irq \in mip \cap mie
EveryInterruptIsTaken ==
  \A irq \in Irqs : Awaited(irq) ~> (context = "isr" \/ ~Awaited(irq))

(* "initialize C data" (crt0.S:29): the program starts with its data. *)
DataInitialised == context = "program" => data = 0..DataWords - 1
=============================================================================
