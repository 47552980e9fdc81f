CONSTANTS
  Core = {c0, c4, c5}
  BootCore = c0
  Cluster1 = {c4, c5}
  Req = {r1, r2}
  NoReq = none
  Stage2 = TRUE
  Calls = {"CPU_ON", "CPU_OFF", "CPU_SUSPEND"}
  OffCores = {c4, c5}
  Order = "settled"
  ParkedOutcome = {"restart"}
  WfiMayWake = FALSE
SPECIFICATION FairSpec
INVARIANTS
  SleeperCanBeStarted
  RestartFindsSlot
PROPERTIES
  PendingCoreEnters
  ServesPsci
