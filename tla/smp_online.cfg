CONSTANTS
  Core = {c0, c1, c4, c5}
  BootCore = c0
  Cluster1 = {c4, c5}
  Req = {r1, r2}
  NoReq = none
  Stage2 = FALSE
  Calls = {"CPU_ON", "CPU_OFF", "CPU_SUSPEND"}
  OffCores = {c1, c4, c5}
  Order = "online"
  ParkedOutcome = {"asleep"}
  WfiMayWake = FALSE
SPECIFICATION Spec
SYMMETRY ReqSymmetry
INVARIANTS
  TypeOK
  RunningCoreIsOn
  EnteredByOneRequest
  CoherentInKernel
  NeverAstray
PROPERTIES
  SlotStable
  ImplementsPsci
