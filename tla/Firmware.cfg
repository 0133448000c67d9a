\* The timer's interrupt and another.
SPECIFICATION Spec
CONSTANTS
  Irqs = {7, 11}
  DataWords = 2
  StackWords = 36
  Calls = {1, 3}
  MaxDepth = 2
INVARIANTS
  Exclusion
  ProgramUndisturbed
PROPERTIES
  EveryInterruptIsTaken
CHECK_DEADLOCK FALSE
