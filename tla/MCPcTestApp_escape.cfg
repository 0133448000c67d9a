SPECIFICATION Spec
CONSTANTS
  PayloadMax = 12
  RingSize = 38
  MAX_PORTS = 3
  MAX_READWRITE_SIZE = 2
  Address = {0, 1}
  PcDebug = TRUE
  buffer_size = 76
  Request <- MCEscapedRequest
  ClientPort = 5
  Piece = {19}
  Stray = {}
  MaxRequests = 2
  MaxInbox = 2
  MaxFaults = 0
INVARIANTS
  RequestsArriveIntact
CHECK_DEADLOCK FALSE
