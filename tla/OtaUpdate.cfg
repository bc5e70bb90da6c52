CONSTANTS
  Images = {i1, i2}
  Broken = broken
  ImageLen = 2
  MaxImage = 3
  RecvTimeoutLimit = 2
  Deadline = 2
  RecvTime = 1
  Rollback = TRUE
SPECIFICATION Spec
INVARIANTS
  TypeOK
  AlwaysBoots
  PendingBootsUpdate
  BusyOnlyWhileReceiving
  UploadBounded
PROPERTY ImplementsBootImage
