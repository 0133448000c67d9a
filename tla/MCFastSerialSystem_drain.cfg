SPECIFICATION Spec
CONSTANTS
  FastSerialDivider = 8
  FifoDepth = 2
  FtdiMayStall = FALSE
  Peers <- Datasheet
  PowerOnByte <- MCPowerOn
  Payload <- TwoBytes
  HostQueue <- TalkingHost
  TxPayload <- ByteZero
  Accesses <- Reads
PROPERTIES
  ReadsReturnEveryByte
