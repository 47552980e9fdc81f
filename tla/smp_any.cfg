CONSTANTS
  Core = {c0, c4, c5}
  BootCore = c0
  Cluster1 = {c4, c5}
  Req = {r1}
  NoReq = none
  Stage2 = FALSE
  Calls = {"CPU_ON", "CPU_OFF", "SYSTEM_OFF", "SYSTEM_RESET"}
  OffCores = {c4}
  Order = "any"
  ParkedOutcome = {"restart", "asleep"}
  WfiMayWake = TRUE
SPECIFICATION Spec
SYMMETRY ReqSymmetry
INVARIANTS
  AnyOrderInv
  OffMeansGone
  EnteredByARequest
  PortOnlyIfPowered
PROPERTIES
  BssClearedAlone
CHECK_DEADLOCK FALSE
