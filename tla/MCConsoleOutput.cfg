CONSTANTS
  fd1 = fd1
  fd2 = fd2
  Fd <- MCFd
  Nobody = Nobody
  MaxClients = 2
  QueueDepth = 1
  ReadMax = 2
  ChunkMax = 1
  SnapshotMax = 2
  PieceMax = 1
  MaxBytes = 3
SPECIFICATION StalledWebSpec
INVARIANT TypeOK
INVARIANT NoGap
INVARIANT LiveInOrder
PROPERTY UsbReaderNeverWaits
PROPERTY QueueDrains
CHECK_DEADLOCK FALSE
