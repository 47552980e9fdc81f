CONSTANTS
  LoadSize = 3
  Speeds = {"high", "full"}
  Paces = {"patient", "hurried"}
SPECIFICATION FairSpec
INVARIANTS
  TypeOK
  DownloadIsWhole
  OnePacketAtATime
PROPERTIES
  DownloadEnds
CHECK_DEADLOCK FALSE
