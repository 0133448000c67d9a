SPECIFICATION Spec
CONSTANTS
  PayloadMax = 12
  RingSize = 38
  MAX_PORTS = 3
  MAX_READWRITE_SIZE = 2
  Address = {0, 1}
  PcDebug = FALSE
  buffer_size = 76
  Request <- MCRequest
  ClientPort = 8
  Piece = {10, 19}
  Stray = {126}
  MaxRequests = 4
  MaxInbox = 2
  MaxFaults = 1
INVARIANTS
  TypeOK
  RingInv
  TxInv
  FramesCarryTheirCrc
  FaultCostsTwo
PROPERTIES
  WindowSlides
  ImplementsRemoteMemory
  ServedInTheEnd
  AnsweredInTheEnd
CHECK_DEADLOCK FALSE
