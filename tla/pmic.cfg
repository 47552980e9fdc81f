CONSTANTS
  MaxFaults = 3
  Setpoints = {1, 2}
SPECIFICATION FairSpec
INVARIANTS
  TypeOK
  ReadsAreTrue
  OnlyMeantWrites
PROPERTIES
  InitReturns
CHECK_DEADLOCK FALSE
