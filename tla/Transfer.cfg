SPECIFICATION TransferSpec
CONSTANTS
  None = None
  RefLimits <- SmallRefLimits
  ByteLimits <- SmallByteLimits
  MaxChunk = 300
INVARIANTS
  CapacityIsMaximal
  AcceptedStreamsFit
  
  StreamsAreExact
  TransportIsSound
  PollablesAreSound
PROPERTIES
  TransfersEnd
CHECK_DEADLOCK FALSE
