SPECIFICATION Spec
CONSTANTS
  FastSerialDivider = 4
  FifoDepth = 2
  FtdiMayStall = FALSE
  Peers <- Datasheet
  PowerOnByte <- MCPowerOn
  Payload <- TwoBytes
  HostQueue <- TalkingHost
  TxPayload <- ByteZero
  Accesses <- Reads
INVARIANTS
  ReadInv
PROPERTIES
  ReadsReturnNewest
  EveryAccessEnds
