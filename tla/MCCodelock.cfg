SPECIFICATION Spec
CONSTANTS
  Keys <- MCKeys
  ScriptLate = 6
  KeyboardLate = 1
INVARIANTS
  TypeOK
  OpensOnlyOnCode
PROPERTIES
  EveryKeyIsSeen
  ScriptOpens
CHECK_DEADLOCK FALSE
