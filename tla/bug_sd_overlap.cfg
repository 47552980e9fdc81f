CONSTANTS
  FaultyBus = FALSE
  InitCards <- MCInitCards
  Images <- TightImages
  Device = 3
  SramBase = 10
  SramEnd = 13
  FifoSize = 2
  IdentifyTimeout = 2
  FifoTimeout = 2
SPECIFICATION Spec
INVARIANTS
  ClearOfSram
CHECK_DEADLOCK FALSE
