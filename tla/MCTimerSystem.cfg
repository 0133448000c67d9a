SPECIFICATION Spec
CONSTANTS
  TimerDivider = 2
  Values = 6
  Accesses <- MCAccesses
INVARIANTS
  CountsSince
PROPERTIES
  PeriodIsExact
  IrqComes
