SPECIFICATION Spec
CONSTANTS
  Irqs = {7, 11}
  DataWords = 2
  StackWords = 36
  Calls = {1, 3}
  MaxDepth = 2
INVARIANT DataInitialised
