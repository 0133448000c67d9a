----------------------------- MODULE IrqControl -----------------------------
(***************************************************************************)
(* irq.h: locking, unlocking and enabling interrupts.  Every function      *)
(* works with one atomic instruction on a control register.                *)
(***************************************************************************)
EXTENDS Integers, FiniteSets, Sequences

CONSTANT Irqs       \* interrupt sources

VARIABLES
  IEN,              \* SOC_MSTATUS_IEN, the interrupt enable bit of mstatus
  mie,              \* the sources enabled
  mip               \* the sources pending

\* z_arch_irq_lock; the key it returns is IEN.
z_arch_irq_lock == IEN' = 0

\* Mutants: the key is not looked at; its bits are cleared, as csrrc
\* would do.
z_arch_irq_unlock_Always(k) == IEN' = 1
z_arch_irq_unlock_Clears(k) == IEN' = IF k = 1 THEN 0 ELSE IEN

z_arch_irq_unlock(k) == IEN' = IF k = 1 THEN 1 ELSE IEN

soc_interrupt_init == z_arch_irq_lock /\ mie' = {} /\ mip' = {}

z_arch_irq_enable(irq) == mie' = mie \cup {irq}
z_arch_irq_disable(irq) == mie' = mie \ {irq}
z_arch_irq_is_enabled(irq) == irq \in mie

\* The processor takes an interrupt between two instructions.
Interrupted == IEN = 1 /\ \E irq \in mip : z_arch_irq_is_enabled(irq)
=============================================================================
