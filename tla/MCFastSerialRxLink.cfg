SPECIFICATION Spec
CONSTANTS
  FastSerialDivider = 8
  PowerOnByte <- Byte
  Payload <- MCPayload
  Peers <- BothPeers
  HostQueue <- EachByte
INVARIANTS
  IInv
  LineSettled
  Aligned
PROPERTIES
  ImplementsByteChannel
  EveryByteArrives
