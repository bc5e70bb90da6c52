CONSTANTS
  FrameMax = 3
  StreamSize = 3
  ChunkMax = 2
  MaxBytes = 7
SPECIFICATION FairSpec
INVARIANT TypeOK
INVARIANT HostSeesInputOrder
INVARIANT EveryByteAccounted
PROPERTY AcceptedLeavesStream
CHECK_DEADLOCK FALSE
