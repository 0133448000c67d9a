\* Registers of four bits, two pins and a short prescaler.
SPECIFICATION Spec
CONSTANTS
  TimerDivider = 3
  Values = 16
  Pin = {0, 7}
  Delay = 5
  MaxGap = 3
INVARIANTS
  DelayIsKept
  AccessesAreAtomic
PROPERTIES
  ImplementsGpio
  Blinks
