CONSTANTS
  Sub0 = {c1}
  Sub1 = {c4}
  MaxSpurious = 1
  Modes <- MCModes
  Chains = {"kernel", "atf"}
  Devices = {"sdmmc", "usb"}
  CrcChecks = {TRUE, FALSE}
  MaxResets = 2
  MaxSuspends = 2
SPECIFICATION FairSpec
INVARIANTS
  TypeOK
  SubsParked
  DramUsable
  ResumedOnce
  ResumesTheSuspended
  LaunchesTheLoaded
PROPERTIES
  BootEnds
  SuspendEnds
CHECK_DEADLOCK FALSE
