CONSTANTS
  FaultyBus = TRUE
  InitCards <- MCInitCards
  Images <- MCImages
  Device = 3
  SramBase = 10
  SramEnd = 13
  FifoSize = 2
  IdentifyTimeout = 2
  FifoTimeout = 2
SPECIFICATION FairSpec
INVARIANTS
  TypeOK
  CardAgrees
  CleanStart
  ReadIsWhole
  ImageComplete
PROPERTIES
  BootReturns
CHECK_DEADLOCK FALSE
