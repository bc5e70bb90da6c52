CONSTANTS
  FrameMax = 3
  StreamSize = 3
  ChunkMax = 2
  MaxBytes = 7
SPECIFICATION Spec
INVARIANT DropsVisible
CHECK_DEADLOCK FALSE
