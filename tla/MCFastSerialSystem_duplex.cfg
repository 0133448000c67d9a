SPECIFICATION Spec
CONSTANTS
  FastSerialDivider = 8
  FifoDepth = 2
  FtdiMayStall = TRUE
  Peers <- TestBench
  PowerOnByte <- MCPowerOn
  Payload <- ByteZero
  HostQueue <- TalkingHost
  TxPayload <- ByteFive
  Accesses <- WritesAndReads
INVARIANTS
  FeederInStep
PROPERTIES
  WritesReachHostInOrder
  EachWriteOnce
  EveryWriteReachesHost
