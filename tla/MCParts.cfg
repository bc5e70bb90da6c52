CONSTANTS
  nul = nul
  a = a
  b = b
  usb_rx = usb_rx
  demo_serial = demo_serial
  none = none
  Byte <- MCByte
  Nul <- nul
  Batches <- MCBatches
  Publishers <- MCPublishers
  NoTask <- none
  Capacity = 3
  SnapshotMax = 2
  MaxTotal = 8
  SeqMax = 3
  InMax = 3
  OutMax = 3
  MaxBytes = 5
  MaxStations = 2
  MaxSockets = 2
  IdleTimeout = 3
  MaxSleep = 2
  Debounce = 2
  Reveal = 3
  IdleOff = 5
  MaxTurn = 2
  LogCapacity = 3
  LogWord = 5
  Messages = {m1, m2}
  MaxEvents = 7
  ShortMin = 1
  LongHold = 3
  ResetHold = 4
  MaxPoll = 2
  Window = 3
  FrameMax = 2
  MaxFrames = 2
  MaxFrameBytes = 3
  MaxRequests = 2
  Nobody = Nobody
  NameMax = 2
  ChannelMax = 2
  NumberMax = 3
  Digits <- MCDigits
  Sums <- MCSums
  Words <- MCWords
  HexText <- MCHexText
  HexWord <- MCHexWord
  Hash <- MCHash
  Names <- MCNames
  OtherDevice <- MCOtherDevice
  MaxEdits = 1
SPECIFICATION PartsSpec
INVARIANT PartsTypeOK
INVARIANT ReportConsistent
PROPERTY ImplementsHistory
INVARIANT CallsDoNotMatter
PROPERTY OrderKept
INVARIANT StopsOnlyUnused
INVARIANT IdleApStops
INVARIANT RevealEnds
INVARIANT LogKeepsLatest
INVARIANT OneDeedPerPress
PROPERTY HeldLongEnough
INVARIANT BudgetKept
INVARIANT AllOrNothing
INVARIANT ImportInvertsExport
