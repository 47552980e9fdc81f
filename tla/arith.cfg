CONSTANTS
  Width = 5
SPECIFICATION FairSpec
INVARIANTS
  LatenciesAgree
PROPERTIES
  DivisionExact
CHECK_DEADLOCK FALSE
