CONSTANTS
  Core = {c0, c4, c5}
  BootCore = c0
  Cluster1 = {c4, c5}
  Req = {r1, r2}
  NoReq = none
  Stage2 = FALSE
  Calls = {"CPU_ON", "CPU_OFF"}
  OffCores = {c4, c5}
  Order = "online"
  ParkedOutcome = {"restart"}
  WfiMayWake = FALSE
SPECIFICATION FairSpec
PROPERTIES
  PendingCoreEnters
