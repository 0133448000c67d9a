SPECIFICATION Spec
CONSTANTS
  FastSerialDivider = 8
  FtdiMayStall = TRUE
  Payload <- MCPayload
INVARIANTS
  FrameNeverStretches
  IInv
PROPERTIES
  StartsOnlyWhenClear
  ImplementsByteChannel
  EveryByteArrives
