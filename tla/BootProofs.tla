----------------------------- MODULE BootProofs -----------------------------
(***************************************************************************)
(* What holds of every boot, resume and suspend of a board with BL1 on it, *)
(* for every number of secondary cores, every choice of trainings and any  *)
(* number of resets, supply losses and suspends.                           *)
(***************************************************************************)
EXTENDS Boot, TLAPS

\* The next training is one that is asked for.
LEMMA FirstTraining ==
  ASSUME NEW steps
  PROVE  /\ First(steps) \in {"wrlvl", "gate", "readDq", "latency", "writeDq", "finish"}
         /\ First(steps) = "latency" => "WR_LVL" \in mode.train
         /\ First(steps) = "writeDq" => "WR_CAL" \in mode.train
  BY DEF First

-----------------------------------------------------------------------------
(* Types.                                                                  *)

LEMMA DdrSame == DdrTypeOK /\ UNCHANGED ddrVars => DdrTypeOK'
  BY DEF DdrTypeOK, ddrVars

LEMMA SuspendSame == SuspendTypeOK /\ UNCHANGED suspendVars => SuspendTypeOK'
  BY DEF SuspendTypeOK, suspendVars

LEMMA DeadAlive == Dead \in Alive BY DEF Dead, Alive

\* What the controller's routines do, they do to well-typed registers.
LEMMA DdrStepType ==
  ASSUME DdrTypeOK, DdrStep \/ LpStep
  PROVE  DdrTypeOK'
  <1> USE DEF DdrTypeOK, At, Goto, Steps, InitSteps, TrainingSteps
  <1>1. CASE InitReset BY <1>1 DEF InitReset
  <1>2. CASE InitCommands BY <1>2, FirstTraining DEF InitCommands
  <1>3. CASE InitFinish BY <1>3 DEF InitFinish
  <1>4. CASE WriteLeveling
    BY <1>4, FirstTraining DEF WriteLeveling, Enter, Leave, AfterLevel
  <1>5. CASE GateLeveling
    <2>1. AfterGate \in Steps BY FirstTraining DEF AfterGate
    <2>2. ddr' \in [at : Steps, ok : BOOLEAN]
      <3>1. CASE At("gate") /\ Goto("gateEnd") BY <3>1
      <3>2. CASE Goto(AfterGate) BY <3>2, <2>1
      <3>3. CASE ddr' = [at |-> "done", ok |-> FALSE] BY <3>3
      <3>4. QED BY <1>5, <3>1, <3>2, <3>3 DEF GateLeveling
    <2>3. chip' \in [state : {"off", "active", "self"}, modes : SUBSET {"mpr", "level"}]
      BY <1>5 DEF GateLeveling, Enter, Leave
    <2>4. QED BY <1>5, <2>2, <2>3 DEF GateLeveling
  <1>6. CASE ReadDqCalibration
    BY <1>6, FirstTraining DEF ReadDqCalibration, Enter, Leave, AfterRead
  <1>7. CASE WriteLatencyCalibration
    BY <1>7, FirstTraining, ZenonT(30)
    DEF WriteLatencyCalibration, TrainWrites, TrainEnds, Overwritten,
        AfterLatency, Contents
  <1>8. CASE WriteDqCalibration
    BY <1>8
    DEF WriteDqCalibration, TrainWrites, TrainEnds, Overwritten, Contents
  <1>9. CASE EnterSelfRefresh BY <1>9 DEF EnterSelfRefresh
  <1>10. CASE ExitSelfRefresh BY <1>10 DEF ExitSelfRefresh
  <1>11. CASE LpCommands BY <1>11, FirstTraining DEF LpCommands, Contents
  <1>12. CASE LpGateLeveling
    <2>1. First({"readDq", "writeDq"}) \in Steps BY FirstTraining
    <2>2. ddr' \in [at : Steps, ok : BOOLEAN]
      <3>1. CASE Goto(First({"readDq", "writeDq"})) BY <3>1, <2>1
      <3>2. CASE ddr' = [at |-> "done", ok |-> FALSE] BY <3>2
      <3>3. QED BY <1>12, <3>1, <3>2 DEF LpGateLeveling
    <2>3. QED BY <1>12, <2>2 DEF LpGateLeveling
  <1>13. CASE LpReadDqCalibration
    BY <1>13, FirstTraining DEF LpReadDqCalibration
  <1>14. QED
    BY <1>1, <1>2, <1>3, <1>4, <1>5, <1>6, <1>7, <1>8, <1>9, <1>10, <1>11,
       <1>12, <1>13
    DEF DdrStep, LpStep, LpReset, LpWriteDqCalibration, LpFinish,
        LpEnterSelfRefresh, LpExitSelfRefresh

LEMMA TypeBootMain ==
  ASSUME TypeOK, BootMain
  PROVE  TypeOK'
  <1> USE DdrSame, SuspendSame DEF TypeOK, BootPcs, SuspendPcs, Cpu0, suspendVars, bootVars
  <1>1. CASE ResetHandler BY <1>1 DEF ResetHandler, SuspendTypeOK
  <1>2. CASE ReadScratch
    <2>1. DdrTypeOK'
      BY <1>2 DEF ReadScratch, DdrTypeOK, Goto, Steps, InitSteps
    <2>2. cpu0' \in BootPcs /\ resume' \in BOOLEAN
      BY <1>2 DEF ReadScratch, SuspendTypeOK, Alive
    <2>3. SuspendTypeOK' BY <1>2 DEF ReadScratch, SuspendTypeOK
    <2>4. QED BY <1>2, <2>1, <2>2, <2>3 DEF ReadScratch
  <1>3. CASE InitDDR3Returns
    <2>1. DdrTypeOK'
      BY <1>3 DEF InitDDR3Returns, DdrTypeOK, Goto, Steps, InitSteps
    <2>2. SuspendTypeOK' BY <1>3 DEF InitDDR3Returns, SuspendTypeOK
    <2>3. QED BY <1>3, <2>1, <2>2 DEF InitDDR3Returns
  <1>4. CASE ExitIfResume
    <2>1. DdrTypeOK' BY <1>4 DEF ExitIfResume, DdrTypeOK, Goto, Steps
    <2>2. SuspendTypeOK' BY <1>4 DEF ExitIfResume, SuspendTypeOK
    <2>3. QED BY <1>4, <2>1, <2>2 DEF ExitIfResume
  <1>5. CASE SecureState BY <1>5 DEF SecureState, At, SuspendTypeOK
  <1>6. CASE WakeupSignature BY <1>6 DEF WakeupSignature, SuspendTypeOK, Alive
  <1>7. CASE WakeupKernel BY <1>7 DEF WakeupKernel, CheckSaved, SuspendTypeOK
  <1>8. CASE WakeupAtf
    <2>1. alive' \in Alive BY <1>8 DEF WakeupAtf, SuspendTypeOK, Alive
    <2>2. cpu0' \in BootPcs /\ tries' \in Nat BY <1>8 DEF WakeupAtf, CheckSaved
    <2>3. SuspendTypeOK' BY <1>8, <2>1 DEF WakeupAtf, SuspendTypeOK
    <2>4. QED BY <1>8, <2>2, <2>3 DEF WakeupAtf
  <1>9. CASE Load
    <2>1. DdrTypeOK' BY <1>9 DEF Load, DdrTypeOK, Contents
    <2>2. SuspendTypeOK' BY <1>9 DEF Load, SuspendTypeOK
    <2>3. QED BY <1>9, <2>1, <2>2 DEF Load
  <1>10. CASE CheckBody BY <1>10 DEF CheckBody, SuspendTypeOK
  <1>11. CASE Launch BY <1>11 DEF Launch, SuspendTypeOK
  <1>12. QED
    BY <1>1, <1>2, <1>3, <1>4, <1>5, <1>6, <1>7, <1>8, <1>9, <1>10, <1>11
    DEF BootMain

LEMMA TypeSleep ==
  ASSUME TypeOK, Sleep
  PROVE  TypeOK'
  <1> USE DdrSame DEF TypeOK, SuspendTypeOK, SuspendPcs, Cpu0, Sleep, bootVars
  <1>1. CASE WaitForSubs BY <1>1 DEF WaitForSubs
  <1>2. CASE LockDrex
    <2>1. DdrTypeOK' BY <1>2 DEF LockDrex, Goto, DdrTypeOK, Steps
    <2>2. QED BY <1>2, <2>1 DEF LockDrex, Goto
  <1>3. CASE SelfRefreshEntered BY <1>3 DEF SelfRefreshEntered, At
  <1>4. CASE VddPowerOff BY <1>4 DEF VddPowerOff, Alive
  <1>5. CASE VddOff BY <1>5 DEF VddOff, Alive
  <1>6. CASE LeaveSelfRefresh
    <2>1. DdrTypeOK' BY <1>6 DEF LeaveSelfRefresh, Goto, DdrTypeOK, Steps
    <2>2. QED BY <1>6, <2>1 DEF LeaveSelfRefresh, Goto
  <1>7. CASE UnlockDrex
    <2>1. DdrTypeOK' BY <1>7 DEF UnlockDrex, At, DdrTypeOK, Steps
    <2>2. QED BY <1>7, <2>1 DEF UnlockDrex, At
  <1>8. CASE WakeSubs BY <1>8 DEF WakeSubs
  <1>9. CASE SetReady
    <2>1. DdrTypeOK' BY <1>9 DEF SetReady, DdrTypeOK, Contents
    <2>2. QED BY <1>9, <2>1 DEF SetReady, BootPcs
  <1>10. QED
    BY <1>1, <1>2, <1>3, <1>4, <1>5, <1>6, <1>7, <1>8, <1>9 DEF SleepMain

LEMMA TypeSub ==
  ASSUME TypeOK, NEW s \in Sub, SubStays(s) \/ SubDisturbed(s)
  PROVE  TypeOK'
  <1> USE DdrSame, SuspendAssumption DEF TypeOK, SuspendTypeOK, SubStep, bootVars
  <1>1. CASE SubEnter(s) /\ UNCHANGED bootVars BY <1>1 DEF SubEnter
  <1>2. CASE SubWfi(s) /\ UNCHANGED bootVars BY <1>2 DEF SubWfi
  <1>3. CASE SubSgi(s) /\ UNCHANGED bootVars BY <1>3 DEF SubSgi
  <1>4. CASE SubChecks(s) /\ UNCHANGED bootVars BY <1>4 DEF SubChecks
  <1>5. CASE SubSpurious(s) /\ UNCHANGED bootVars BY <1>5 DEF SubSpurious
  <1>6. QED
    BY <1>1, <1>2, <1>3, <1>4, <1>5 DEF SubStays, SubDisturbed, SubRuns

\* A reset leaves the alive domain and the chips; all else starts over.
LEMMA TypeChipReset ==
  ASSUME TypeOK, ChipReset, alive' \in Alive, mem' \in Contents,
         chip' \in [state : {"off", "active", "self"}, modes : SUBSET {"mpr", "level"}],
         resets' \in 0..MaxResets
  PROVE  TypeOK'
  <1>1. DdrTypeOK' BY DEF ChipReset, TypeOK, DdrTypeOK, Steps
  <1>2. SuspendTypeOK' BY DEF ChipReset, TypeOK, SuspendTypeOK
  <1>3. QED BY <1>1, <1>2 DEF ChipReset, TypeOK, BootPcs

LEMMA TypeRest ==
  ASSUME TypeOK, StageRuns \/ PrepareSuspend \/ CallSleep \/ WakeEvent
                   \/ WakeUp \/ WarmReset \/ UsbReboot \/ PowerLoss \/ Forget
  PROVE  TypeOK'
  <1> USE BootAssumption DEF TypeOK
  <1>1. CASE StageRuns
    <2>1. DdrTypeOK' BY <1>1 DEF StageRuns, DdrTypeOK, Contents
    <2>2. SuspendTypeOK' BY <1>1 DEF StageRuns, SuspendTypeOK
    <2>3. QED BY <1>1, <2>1, <2>2 DEF StageRuns, BootPcs, bootVars
  <1>2. CASE PrepareSuspend
    <2>1. DdrTypeOK' BY <1>2 DEF PrepareSuspend, DdrTypeOK, Contents
    <2>2. alive' \in Alive BY <1>2 DEF PrepareSuspend, SuspendTypeOK, Alive
    <2>3. SuspendTypeOK' BY <1>2, <2>2 DEF PrepareSuspend, SuspendTypeOK
    <2>4. QED BY <1>2, <2>1, <2>3 DEF PrepareSuspend, BootPcs, Cpu0
  <1>3. CASE CallSleep
    BY <1>3, DdrSame
    DEF CallSleep, Cpu0, SuspendTypeOK, SuspendPcs, bootVars
  <1>4. CASE WakeEvent
    <2>1. alive' \in Alive BY <1>4 DEF WakeEvent, SuspendTypeOK, Alive
    <2>2. QED BY <1>4, <2>1, DdrSame DEF WakeEvent, SuspendTypeOK, bootVars
  <1>5. CASE WakeUp
    <2>1. alive' \in Alive BY <1>5 DEF WakeUp, SuspendTypeOK, Alive
    <2>2. QED BY <1>5, <2>1, TypeChipReset DEF WakeUp, DdrTypeOK
  <1>6. CASE WarmReset
    <2>1. alive' \in Alive BY <1>6, ZenonT(30) DEF WarmReset, SuspendTypeOK, Alive
    <2>2. resets < MaxResets /\ resets' = resets + 1 BY <1>6 DEF WarmReset
    <2>3. resets' \in 0..MaxResets BY <2>2
    <2>4. QED BY <1>6, <2>1, <2>3, TypeChipReset DEF WarmReset, DdrTypeOK
  <1>7. CASE UsbReboot
    <2>1. alive' \in Alive BY <1>7 DEF UsbReboot, SuspendTypeOK, Alive
    <2>2. QED BY <1>7, <2>1, TypeChipReset DEF UsbReboot, DdrTypeOK
  <1>8. CASE PowerLoss
    <2>1. alive' \in Alive
      <3>1. [alive EXCEPT !.wake = TRUE, !.pend = FALSE] \in Alive
        BY DEF SuspendTypeOK, Alive
      <3>2. QED BY <1>8, <3>1, DeadAlive DEF PowerLoss
    <2>2. QED BY <1>8, <2>1, TypeChipReset DEF PowerLoss, Contents
  <1>9. CASE Forget
    <2>1. DdrTypeOK' BY <1>9 DEF Forget, Decay, DdrTypeOK, Contents
    <2>2. QED BY <1>9, <2>1, SuspendSame DEF Forget, suspendVars, bootVars
  <1>10. QED BY <1>1, <1>2, <1>3, <1>4, <1>5, <1>6, <1>7, <1>8, <1>9

LEMMA TypeInit == Init => TypeOK
  <1> SUFFICES ASSUME Init PROVE TypeOK OBVIOUS
  <1>1. mode \in [type : {"DDR3", "LPDDR3"}, train : SUBSET Trainings]
    BY BootAssumption DEF Init, Trainings, LpTrainings
  <1>2. DdrTypeOK BY <1>1 DEF Init, DdrInit, DdrTypeOK, Steps, Contents
  <1>3. alive \in Alive BY DeadAlive DEF Init
  <1>4. sub \in [Sub -> {"off", "stage", "park", "wfi", "check"}] BY DEF Init
  <1>5. spurious \in 0..MaxSpurious /\ resets \in 0..MaxResets /\ suspends \in 0..MaxSuspends
    BY SuspendAssumption, BootAssumption DEF Init
  <1>6. /\ wakeFlag \in BOOLEAN /\ aborted \in BOOLEAN
        /\ resume \in BOOLEAN /\ loaded \in BOOLEAN
    BY Zenon DEF Init
  <1>7. SuspendTypeOK BY <1>3, <1>4, <1>5, <1>6 DEF Init, SuspendTypeOK
  <1>8. cpu0 \in BootPcs /\ tries \in Nat BY DEF Init, BootPcs
  <1>9. QED BY <1>2, <1>5, <1>6, <1>7, <1>8 DEF Init, TypeOK

\* Whatever resets, losses and suspends come, every variable keeps its type.
THEOREM TypeCorrect == Spec => []TypeOK
  <1>1. TypeOK /\ [Next]_vars => TypeOK'
    <2> SUFFICES ASSUME TypeOK, [Next]_vars PROVE TypeOK' OBVIOUS
    <2>1. CASE Ddr
      BY <2>1, DdrStepType, SuspendSame DEF Ddr, TypeOK, suspendVars, bootVars
    <2>2. CASE UNCHANGED vars
      BY <2>2, DdrSame, SuspendSame DEF vars, TypeOK, suspendVars, bootVars
    <2>3. QED
      BY <2>1, <2>2, TypeBootMain, TypeSleep, TypeSub, TypeRest DEF Next
  <1>2. QED BY <1>1, TypeInit, PTL DEF Spec

-----------------------------------------------------------------------------
(* The memory CPU0 uses.                                                   *)

\* Where CPU0 executes from DRAM or hands it to somebody who does.
UsePcs == {"exitsr", "secure", "wakeup", "crc", "atfCrc", "load", "check", "launch",
           "launched", "resumed", "stage", "call", "wait90", "wait107", "lock",
           "awake", "ready"}
SelfRefreshPcs == {"refs", "vdd", "off", "stop", "exit", "unlock"}

\* Which of the controller's routines may be under way.
RoutineOfCpu0 ==
  /\ cpu0 \in {"ddr1", "ddr2"} => ddr.at \in InitSteps \cup {"done"}
  /\ cpu0 \in {"secure", "unlock"} => ddr.at \in {"clock", "refsx", "done"}
  /\ cpu0 = "refs" => ddr.at \in {"refs", "quiet", "done"}
  /\ cpu0 \notin {"ddr1", "ddr2", "secure", "unlock", "refs"} => ddr.at = "done"

\* The ports of the controller are locked only while the power may go.
LockedToSleep == drex.locked => cpu0 \in SelfRefreshPcs

\* What init_DDR3 has put right so far, in whatever state the reset found it.
InitProgress ==
  cpu0 \in {"ddr1", "ddr2"} /\ ddr.at # "reset" =>
    /\ ~drex.stopped
    /\ drex.training => ddr.at \in {"latencyEnd", "writeDqEnd"}
    /\ ddr.at # "commands" =>
         /\ chip.state = "active"
         /\ "level" \in chip.modes => ddr.at = "wrlvlEnd"
         /\ "mpr" \in chip.modes => ddr.at \in {"gateEnd", "readDqEnd"}

UsedIsReadable == cpu0 \in UsePcs => Readable

\* A suspend given up finds the chips as the suspend has left them.
SelfRefreshEnds ==
  cpu0 \in SelfRefreshPcs =>
    /\ chip.modes = {} /\ ~drex.training
    /\ cpu0 = "unlock" /\ ddr.at # "clock" => ~drex.stopped
    /\ cpu0 = "unlock" /\ ddr.at = "done" => chip.state = "active"

DramInv ==
  /\ RoutineOfCpu0 /\ LockedToSleep /\ InitProgress /\ UsedIsReadable
  /\ SelfRefreshEnds

LEMMA DramInit == Init => DramInv
  BY DEF Init, DdrInit, DramInv, RoutineOfCpu0, LockedToSleep, InitProgress,
         UsedIsReadable, SelfRefreshEnds, UsePcs, SelfRefreshPcs

LEMMA DramBootMain ==
  ASSUME TypeOK, DramInv, BootMain
  PROVE  DramInv'
  <1> USE BootAssumption, SuspendAssumption
      DEF TypeOK, DdrTypeOK, InitSteps, TrainingSteps, UsePcs, SelfRefreshPcs,
          DramInv, RoutineOfCpu0, LockedToSleep, InitProgress, UsedIsReadable,
          SelfRefreshEnds, Readable, ddrVars, suspendVars, bootVars
  <1>1. CASE ResetHandler BY <1>1 DEF ResetHandler, Cpu0
  <1>2. CASE ReadScratch BY <1>2 DEF ReadScratch, Cpu0, Goto
  <1>3. CASE InitDDR3Returns BY <1>3 DEF InitDDR3Returns, Cpu0, At, Goto
  <1>4. CASE ExitIfResume BY <1>4 DEF ExitIfResume, Cpu0, Goto
  <1>5. CASE SecureState BY <1>5 DEF SecureState, Cpu0, At
  <1>6. CASE WakeupSignature BY <1>6 DEF WakeupSignature, Cpu0
  <1>7. CASE WakeupKernel BY <1>7 DEF WakeupKernel, CheckSaved, Cpu0
  <1>8. CASE WakeupAtf BY <1>8 DEF WakeupAtf, CheckSaved, Cpu0
  <1>9. CASE Load BY <1>9 DEF Load, Cpu0
  <1>10. CASE CheckBody BY <1>10 DEF CheckBody, Cpu0
  <1>11. CASE Launch BY <1>11 DEF Launch, Cpu0
  <1>12. QED
    BY <1>1, <1>2, <1>3, <1>4, <1>5, <1>6, <1>7, <1>8, <1>9, <1>10, <1>11
    DEF BootMain

LEMMA DramDdr ==
  ASSUME TypeOK, DramInv, Ddr
  PROVE  DramInv'
  <1> USE BootAssumption, SuspendAssumption
      DEF TypeOK, DdrTypeOK, InitSteps, TrainingSteps, UsePcs, SelfRefreshPcs,
          DramInv, RoutineOfCpu0, LockedToSleep, InitProgress, UsedIsReadable,
          SelfRefreshEnds, Readable, ddrVars, suspendVars, bootVars
  <1>1. CASE InitReset /\ UNCHANGED <<suspendVars, bootVars>>
    BY <1>1 DEF InitReset, At, Goto
  <1>2. CASE InitCommands /\ UNCHANGED <<suspendVars, bootVars>>
    BY <1>2, FirstTraining DEF InitCommands, At, Goto
  <1>3. CASE InitFinish /\ UNCHANGED <<suspendVars, bootVars>>
    BY <1>3 DEF InitFinish, At
  <1>4. CASE WriteLeveling /\ UNCHANGED <<suspendVars, bootVars>>
    BY <1>4, FirstTraining
    DEF WriteLeveling, At, Goto, Enter, Leave, AfterLevel
  <1>5. CASE GateLeveling /\ UNCHANGED <<suspendVars, bootVars>>
    BY <1>5, FirstTraining DEF GateLeveling, At, Goto, Enter, Leave, AfterGate
  <1>6. CASE ReadDqCalibration /\ UNCHANGED <<suspendVars, bootVars>>
    BY <1>6, FirstTraining
    DEF ReadDqCalibration, At, Goto, Enter, Leave, AfterRead
  <1>7. CASE WriteLatencyCalibration /\ UNCHANGED <<suspendVars, bootVars>>
    BY <1>7, FirstTraining
    DEF WriteLatencyCalibration, At, Goto, TrainWrites, TrainEnds,
        Overwritten, AfterLatency
  <1>8. CASE WriteDqCalibration /\ UNCHANGED <<suspendVars, bootVars>>
    BY <1>8
    DEF WriteDqCalibration, At, Goto, TrainWrites, TrainEnds, Overwritten
  <1>9. CASE EnterSelfRefresh /\ UNCHANGED <<suspendVars, bootVars>>
    BY <1>9, ZenonT(30) DEF EnterSelfRefresh, At, Goto
  <1>10. CASE ExitSelfRefresh /\ UNCHANGED <<suspendVars, bootVars>>
    BY <1>10, ZenonT(30) DEF ExitSelfRefresh, At, Goto
  <1>11. CASE LpCommands /\ UNCHANGED <<suspendVars, bootVars>>
    BY <1>11, FirstTraining DEF LpCommands, At, Goto
  <1>12. CASE LpGateLeveling /\ UNCHANGED <<suspendVars, bootVars>>
    BY <1>12, FirstTraining DEF LpGateLeveling, At, Goto
  <1>13. CASE LpReadDqCalibration /\ UNCHANGED <<suspendVars, bootVars>>
    BY <1>13, FirstTraining DEF LpReadDqCalibration, At, Goto
  <1>14. QED
    BY <1>1, <1>2, <1>3, <1>4, <1>5, <1>6, <1>7, <1>8, <1>9, <1>10, <1>11,
       <1>12, <1>13
    DEF Ddr, DdrStep, LpStep, LpReset, LpWriteDqCalibration, LpFinish,
        LpEnterSelfRefresh, LpExitSelfRefresh

LEMMA DramSleep ==
  ASSUME TypeOK, DramInv, Sleep
  PROVE  DramInv'
  <1> USE BootAssumption, SuspendAssumption
      DEF TypeOK, DdrTypeOK, InitSteps, TrainingSteps, UsePcs, SelfRefreshPcs,
          DramInv, RoutineOfCpu0, LockedToSleep, InitProgress, UsedIsReadable,
          SelfRefreshEnds, Readable, ddrVars, suspendVars, bootVars
  <1>1. CASE WaitForSubs /\ UNCHANGED bootVars BY <1>1 DEF WaitForSubs, Cpu0
  <1>2. CASE LockDrex /\ UNCHANGED bootVars BY <1>2 DEF LockDrex, Cpu0, Goto
  <1>3. CASE SelfRefreshEntered /\ UNCHANGED bootVars
    BY <1>3 DEF SelfRefreshEntered, Cpu0, At
  <1>4. CASE VddPowerOff /\ UNCHANGED bootVars BY <1>4 DEF VddPowerOff, Cpu0
  <1>5. CASE VddOff /\ UNCHANGED bootVars BY <1>5 DEF VddOff, Cpu0
  <1>6. CASE LeaveSelfRefresh /\ UNCHANGED bootVars
    BY <1>6 DEF LeaveSelfRefresh, Cpu0, Goto
  <1>7. CASE UnlockDrex /\ UNCHANGED bootVars BY <1>7 DEF UnlockDrex, Cpu0, At
  <1>8. CASE WakeSubs /\ UNCHANGED bootVars BY <1>8 DEF WakeSubs, Cpu0
  <1>9. CASE SetReady /\ UNCHANGED bootVars BY <1>9 DEF SetReady, Cpu0
  <1>10. QED
    BY <1>1, <1>2, <1>3, <1>4, <1>5, <1>6, <1>7, <1>8, <1>9
    DEF Sleep, SleepMain

LEMMA DramSub ==
  ASSUME TypeOK, DramInv, NEW s \in Sub, SubStays(s) \/ SubDisturbed(s)
  PROVE  DramInv'
  <1> USE BootAssumption, SuspendAssumption
      DEF TypeOK, DdrTypeOK, InitSteps, TrainingSteps, UsePcs, SelfRefreshPcs,
          DramInv, RoutineOfCpu0, LockedToSleep, InitProgress, UsedIsReadable,
          SelfRefreshEnds, Readable, ddrVars, suspendVars, bootVars
  <1>1. CASE SubEnter(s) /\ UNCHANGED bootVars BY <1>1 DEF SubEnter, SubStep
  <1>2. CASE SubWfi(s) /\ UNCHANGED bootVars BY <1>2 DEF SubWfi, SubStep
  <1>3. CASE SubSgi(s) /\ UNCHANGED bootVars BY <1>3 DEF SubSgi, SubStep
  <1>4. CASE SubChecks(s) /\ UNCHANGED bootVars BY <1>4 DEF SubChecks, SubStep
  <1>5. CASE SubSpurious(s) /\ UNCHANGED bootVars
    BY <1>5 DEF SubSpurious, SubStep
  <1>6. QED
    BY <1>1, <1>2, <1>3, <1>4, <1>5 DEF SubStays, SubRuns, SubDisturbed

LEMMA DramRest ==
  ASSUME TypeOK, DramInv, StageRuns \/ PrepareSuspend \/ CallSleep \/
         WakeEvent            \/ WakeUp \/ WarmReset \/ UsbReboot \/ PowerLoss
         \/ Forget
  PROVE  DramInv'
  <1> USE BootAssumption, SuspendAssumption
      DEF TypeOK, DdrTypeOK, InitSteps, TrainingSteps, UsePcs, SelfRefreshPcs,
          DramInv, RoutineOfCpu0, LockedToSleep, InitProgress, UsedIsReadable,
          SelfRefreshEnds, Readable, ddrVars, suspendVars, bootVars
  <1>1. CASE StageRuns BY <1>1 DEF StageRuns
  <1>2. CASE PrepareSuspend BY <1>2 DEF PrepareSuspend, Cpu0
  <1>3. CASE CallSleep BY <1>3 DEF CallSleep, Cpu0
  <1>4. CASE WakeEvent BY <1>4 DEF WakeEvent
  <1>5. CASE WakeUp BY <1>5 DEF WakeUp, ChipReset
  <1>6. CASE WarmReset BY <1>6 DEF WarmReset, ChipReset
  <1>7. CASE UsbReboot BY <1>7 DEF UsbReboot, ChipReset
  <1>8. CASE PowerLoss BY <1>8 DEF PowerLoss, ChipReset
  <1>9. CASE Forget BY <1>9 DEF Forget, Decay
  <1>10. QED BY <1>1, <1>2, <1>3, <1>4, <1>5, <1>6, <1>7, <1>8, <1>9

LEMMA DramNext ==
  ASSUME TypeOK, DramInv, [Next]_vars
  PROVE  DramInv'
  <1>1. CASE UNCHANGED vars
    BY <1>1
    DEF DramInv, RoutineOfCpu0, LockedToSleep, InitProgress, UsedIsReadable,
        SelfRefreshEnds, Readable, vars, ddrVars, suspendVars, bootVars
  <1>2. CASE \E s \in Sub : SubStays(s) \/ SubDisturbed(s) BY <1>2, DramSub
  <1>3. QED BY <1>1, <1>2, DramBootMain, DramDdr, DramSleep, DramRest DEF Next

\* The controller's registers and the chips keep up with CPU0 and init_DDR3.
THEOREM DramSafe == Spec => []DramInv
  BY TypeCorrect, DramInit, DramNext, PTL DEF Spec

\* Whenever CPU0 checks, loads or runs what is in DRAM, the chips answer with
\* what they hold (init_DDR3, exitSelfRefresh, sleepMain), for every choice of
\* trainings and on every path through their failures, resets and suspends.
THEOREM UsesReadableDram == Spec => []DramUsable
  <1>1. DramInv => DramUsable
    BY DEF DramInv, UsedIsReadable, UsePcs, DramUsable
  <1>2. QED BY <1>1, DramSafe, PTL

-----------------------------------------------------------------------------
(* The secondary cores.                                                    *)

Parked(s) == sub[s] \in {"wfi", "check"}

\* Until a suspend has come straight back, the wake-up flag is clear and no
\* core leaves the loop CPU0 has seen it in.
SubInv ==
  /\ cpu0 \in BootPcs \ {"stage", "call"} => \A s \in Sub : sub[s] = "off"
  /\ ~aborted =>
       /\ cpu0 # "reset" => ~wakeFlag
       /\ cpu0 = "wait107" => \A s \in Sub0 : Parked(s)
       /\ cpu0 \in SelfRefreshPcs \cup {"lock", "awake", "ready"}
            => \A s \in Sub : Parked(s)

LEMMA ParkedInit == Init => SubInv
  <1> SUFFICES ASSUME Init PROVE SubInv OBVIOUS
  <1>1. cpu0 = "reset" /\ \A s \in Sub : sub[s] = "off" BY DEF Init
  <1>2. QED BY <1>1 DEF SubInv, SelfRefreshPcs

LEMMA ParkedBootMain ==
  ASSUME TypeOK, SubInv, BootMain
  PROVE  SubInv'
  <1> USE BootAssumption, SuspendAssumption
      DEF TypeOK, SuspendTypeOK, BootPcs, SelfRefreshPcs, Sub, Parked, SubInv,
          ddrVars, suspendVars, bootVars
  <1>1. CASE ResetHandler BY <1>1 DEF ResetHandler, Cpu0
  <1>2. CASE ReadScratch BY <1>2 DEF ReadScratch, Cpu0, Goto
  <1>3. CASE InitDDR3Returns BY <1>3 DEF InitDDR3Returns, Cpu0, At, Goto
  <1>4. CASE ExitIfResume BY <1>4 DEF ExitIfResume, Cpu0, Goto
  <1>5. CASE SecureState BY <1>5 DEF SecureState, Cpu0, At
  <1>6. CASE WakeupSignature BY <1>6 DEF WakeupSignature, Cpu0
  <1>7. CASE WakeupKernel BY <1>7 DEF WakeupKernel, CheckSaved, Cpu0
  <1>8. CASE WakeupAtf BY <1>8 DEF WakeupAtf, CheckSaved, Cpu0
  <1>9. CASE Load BY <1>9 DEF Load, Cpu0
  <1>10. CASE CheckBody BY <1>10 DEF CheckBody, Cpu0
  <1>11. CASE Launch BY <1>11 DEF Launch, Cpu0
  <1>12. QED
    BY <1>1, <1>2, <1>3, <1>4, <1>5, <1>6, <1>7, <1>8, <1>9, <1>10, <1>11
    DEF BootMain

LEMMA ParkedDdr ==
  ASSUME TypeOK, SubInv, Ddr
  PROVE  SubInv'
  BY DEF Ddr, Sub, Parked, SubInv, suspendVars, bootVars

LEMMA ParkedSleep ==
  ASSUME TypeOK, SubInv, Sleep
  PROVE  SubInv'
  <1> USE BootAssumption, SuspendAssumption
      DEF TypeOK, SuspendTypeOK, BootPcs, SelfRefreshPcs, Sub, Parked, SubInv,
          ddrVars, suspendVars, bootVars
  <1>1. CASE WaitForSubs /\ UNCHANGED bootVars BY <1>1 DEF WaitForSubs, Cpu0
  <1>2. CASE LockDrex /\ UNCHANGED bootVars BY <1>2 DEF LockDrex, Cpu0, Goto
  <1>3. CASE SelfRefreshEntered /\ UNCHANGED bootVars
    BY <1>3 DEF SelfRefreshEntered, Cpu0, At
  <1>4. CASE VddPowerOff /\ UNCHANGED bootVars BY <1>4 DEF VddPowerOff, Cpu0
  <1>5. CASE VddOff /\ UNCHANGED bootVars BY <1>5 DEF VddOff, Cpu0
  <1>6. CASE LeaveSelfRefresh /\ UNCHANGED bootVars
    BY <1>6 DEF LeaveSelfRefresh, Cpu0, Goto
  <1>7. CASE UnlockDrex /\ UNCHANGED bootVars BY <1>7 DEF UnlockDrex, Cpu0, At
  <1>8. CASE WakeSubs /\ UNCHANGED bootVars BY <1>8 DEF WakeSubs, Cpu0
  <1>9. CASE SetReady /\ UNCHANGED bootVars BY <1>9 DEF SetReady, Cpu0
  <1>10. QED
    BY <1>1, <1>2, <1>3, <1>4, <1>5, <1>6, <1>7, <1>8, <1>9
    DEF Sleep, SleepMain

LEMMA ParkedSub ==
  ASSUME TypeOK, SubInv, NEW s \in Sub, SubStays(s) \/ SubDisturbed(s)
  PROVE  SubInv'
  <1> USE BootAssumption, SuspendAssumption
      DEF TypeOK, SuspendTypeOK, BootPcs, SelfRefreshPcs, Sub, Parked, SubInv,
          ddrVars, suspendVars, bootVars
  <1>1. CASE SubEnter(s) /\ UNCHANGED bootVars BY <1>1 DEF SubEnter, SubStep
  <1>2. CASE SubWfi(s) /\ UNCHANGED bootVars BY <1>2 DEF SubWfi, SubStep
  <1>3. CASE SubSgi(s) /\ UNCHANGED bootVars BY <1>3 DEF SubSgi, SubStep
  <1>4. CASE SubChecks(s) /\ UNCHANGED bootVars BY <1>4 DEF SubChecks, SubStep
  <1>5. CASE SubSpurious(s) /\ UNCHANGED bootVars
    BY <1>5 DEF SubSpurious, SubStep
  <1>6. QED
    BY <1>1, <1>2, <1>3, <1>4, <1>5 DEF SubStays, SubRuns, SubDisturbed

LEMMA ParkedRest ==
  ASSUME TypeOK, SubInv, StageRuns \/ PrepareSuspend \/ CallSleep \/ WakeEvent
         \/ WakeUp \/ WarmReset \/ UsbReboot \/ PowerLoss \/ Forget
  PROVE  SubInv'
  <1> USE BootAssumption, SuspendAssumption
      DEF TypeOK, SuspendTypeOK, BootPcs, SelfRefreshPcs, Sub, Parked, SubInv,
          ddrVars, suspendVars, bootVars
  <1>1. CASE StageRuns BY <1>1 DEF StageRuns
  <1>2. CASE PrepareSuspend BY <1>2 DEF PrepareSuspend, Cpu0
  <1>3. CASE CallSleep BY <1>3 DEF CallSleep, Cpu0
  <1>4. CASE WakeEvent BY <1>4 DEF WakeEvent
  <1>5. CASE WakeUp BY <1>5 DEF WakeUp, ChipReset
  <1>6. CASE WarmReset BY <1>6 DEF WarmReset, ChipReset
  <1>7. CASE UsbReboot BY <1>7 DEF UsbReboot, ChipReset
  <1>8. CASE PowerLoss BY <1>8 DEF PowerLoss, ChipReset
  <1>9. CASE Forget BY <1>9 DEF Forget, Decay
  <1>10. QED BY <1>1, <1>2, <1>3, <1>4, <1>5, <1>6, <1>7, <1>8, <1>9

LEMMA ParkedNext ==
  ASSUME TypeOK, SubInv, [Next]_vars
  PROVE  SubInv'
  <1>1. CASE UNCHANGED vars
    <2>1. UNCHANGED <<cpu0, sub, wakeFlag, aborted>> BY <1>1 DEF vars, suspendVars
    <2>2. QED BY <2>1 DEF SubInv, Parked
  <1>2. CASE \E s \in Sub : SubStays(s) \/ SubDisturbed(s) BY <1>2, ParkedSub
  <1>3. QED
    BY <1>1, <1>2, ParkedBootMain, ParkedDdr, ParkedSleep, ParkedRest DEF Next

\* The secondaries stay where CPU0 has seen them.
THEOREM ParkedSafe == Spec => []SubInv
  BY TypeCorrect, ParkedInit, ParkedNext, PTL DEF Spec

\* However many secondaries there are and whatever ends their wfi, none is in
\* kernel code while DRAM does not take accesses (subCPUsleep, sleepMain).
THEOREM SecondariesStayParked == Spec => []SubsParked
  <1>1. TypeOK /\ DramInv /\ SubInv => SubsParked
    <2> SUFFICES ASSUME TypeOK, DramInv, SubInv, ~aborted,
                        NEW s \in Sub, sub[s] = "stage"
                 PROVE  Accessible
      BY DEF SubsParked
    <2>1. cpu0 \in {"stage", "call", "wait90", "wait107"}
      BY DEF SubInv, Parked, TypeOK, BootPcs, SuspendPcs, SelfRefreshPcs
    <2>2. QED BY <2>1 DEF DramInv, UsedIsReadable, UsePcs, Readable, Accessible
  <1>2. QED BY <1>1, TypeCorrect, DramSafe, ParkedSafe, PTL

-----------------------------------------------------------------------------
(* What is resumed and what is launched.                                   *)

\* A boot that resumes takes the path of the signature that says so.
ResumePath ==
  /\ cpu0 \in {"wakeup", "crc", "atfCrc", "resumed"} => resume
  /\ board.chain = "kernel" => ~alive.atf /\ cpu0 # "atfCrc"
  /\ board.chain = "kernel" /\ resume
       /\ cpu0 \in {"ddr1", "ddr2", "exitsr", "secure", "wakeup"} => alive.kernel

\* A kernel's signature stands for an image that has not been tried.
SignatureUntried ==
  board.chain = "kernel" =>
    /\ tries \in {0, 1}
    /\ alive.kernel => tries = 0
    /\ cpu0 = "crc" => tries = 0 /\ ~alive.kernel

ResumeInv == ResumePath /\ SignatureUntried

LEMMA ResumeInit == Init => ResumeInv
  BY DEF Init, Dead, ResumeInv, ResumePath, SignatureUntried

LEMMA ResumeBootMain ==
  ASSUME TypeOK, ResumeInv, BootMain
  PROVE  ResumeInv'
  <1> USE BootAssumption, SuspendAssumption
      DEF TypeOK, SuspendTypeOK, Alive, BootPcs, SelfRefreshPcs, ResumeInv,
          ResumePath, SignatureUntried, ddrVars, suspendVars, bootVars
  <1>1. CASE ResetHandler BY <1>1 DEF ResetHandler, Cpu0
  <1>2. CASE ReadScratch BY <1>2 DEF ReadScratch, Cpu0, Goto
  <1>3. CASE InitDDR3Returns BY <1>3 DEF InitDDR3Returns, Cpu0, At, Goto
  <1>4. CASE ExitIfResume BY <1>4 DEF ExitIfResume, Cpu0, Goto
  <1>5. CASE SecureState BY <1>5 DEF SecureState, Cpu0, At
  <1>6. CASE WakeupSignature BY <1>6 DEF WakeupSignature, Cpu0
  <1>7. CASE WakeupKernel
    <2>1. cpu0 = "crc" /\ cpu0' \in {"resumed", "load"} /\ tries' = tries + 1
      BY <1>7 DEF WakeupKernel, CheckSaved, Cpu0
    <2>2. UNCHANGED <<alive, board, resume>> BY <1>7 DEF WakeupKernel
    <2>3. QED BY <2>1, <2>2
  <1>8. CASE WakeupAtf BY <1>8 DEF WakeupAtf, CheckSaved, Cpu0
  <1>9. CASE Load BY <1>9 DEF Load, Cpu0
  <1>10. CASE CheckBody BY <1>10 DEF CheckBody, Cpu0
  <1>11. CASE Launch BY <1>11 DEF Launch, Cpu0
  <1>12. QED
    BY <1>1, <1>2, <1>3, <1>4, <1>5, <1>6, <1>7, <1>8, <1>9, <1>10, <1>11
    DEF BootMain

LEMMA ResumeDdr ==
  ASSUME TypeOK, ResumeInv, Ddr
  PROVE  ResumeInv'
  BY DEF Ddr, ResumeInv, ResumePath, SignatureUntried, suspendVars, bootVars

LEMMA ResumeSleep ==
  ASSUME TypeOK, ResumeInv, Sleep
  PROVE  ResumeInv'
  <1> USE BootAssumption, SuspendAssumption
      DEF TypeOK, SuspendTypeOK, Alive, BootPcs, SelfRefreshPcs, ResumeInv,
          ResumePath, SignatureUntried, ddrVars, suspendVars, bootVars
  <1>1. CASE WaitForSubs /\ UNCHANGED bootVars BY <1>1 DEF WaitForSubs, Cpu0
  <1>2. CASE LockDrex /\ UNCHANGED bootVars BY <1>2 DEF LockDrex, Cpu0, Goto
  <1>3. CASE SelfRefreshEntered /\ UNCHANGED bootVars
    BY <1>3 DEF SelfRefreshEntered, Cpu0, At
  <1>4. CASE VddPowerOff /\ UNCHANGED bootVars BY <1>4 DEF VddPowerOff, Cpu0
  <1>5. CASE VddOff /\ UNCHANGED bootVars BY <1>5 DEF VddOff, Cpu0
  <1>6. CASE LeaveSelfRefresh /\ UNCHANGED bootVars
    BY <1>6 DEF LeaveSelfRefresh, Cpu0, Goto
  <1>7. CASE UnlockDrex /\ UNCHANGED bootVars BY <1>7 DEF UnlockDrex, Cpu0, At
  <1>8. CASE WakeSubs /\ UNCHANGED bootVars BY <1>8 DEF WakeSubs, Cpu0
  <1>9. CASE SetReady /\ UNCHANGED bootVars BY <1>9 DEF SetReady, Cpu0
  <1>10. QED
    BY <1>1, <1>2, <1>3, <1>4, <1>5, <1>6, <1>7, <1>8, <1>9
    DEF Sleep, SleepMain

LEMMA ResumeSub ==
  ASSUME TypeOK, ResumeInv, NEW s \in Sub, SubStays(s) \/ SubDisturbed(s)
  PROVE  ResumeInv'
  <1> USE BootAssumption, SuspendAssumption
      DEF TypeOK, SuspendTypeOK, Alive, BootPcs, SelfRefreshPcs, ResumeInv,
          ResumePath, SignatureUntried, ddrVars, suspendVars, bootVars
  <1>1. CASE SubEnter(s) /\ UNCHANGED bootVars BY <1>1 DEF SubEnter, SubStep
  <1>2. CASE SubWfi(s) /\ UNCHANGED bootVars BY <1>2 DEF SubWfi, SubStep
  <1>3. CASE SubSgi(s) /\ UNCHANGED bootVars BY <1>3 DEF SubSgi, SubStep
  <1>4. CASE SubChecks(s) /\ UNCHANGED bootVars BY <1>4 DEF SubChecks, SubStep
  <1>5. CASE SubSpurious(s) /\ UNCHANGED bootVars
    BY <1>5 DEF SubSpurious, SubStep
  <1>6. QED
    BY <1>1, <1>2, <1>3, <1>4, <1>5 DEF SubStays, SubRuns, SubDisturbed

LEMMA ResumeRest ==
  ASSUME TypeOK, ResumeInv, StageRuns \/ PrepareSuspend \/ CallSleep \/
         WakeEvent            \/ WakeUp \/ WarmReset \/ UsbReboot \/ PowerLoss
         \/ Forget
  PROVE  ResumeInv'
  <1> USE BootAssumption, SuspendAssumption
      DEF TypeOK, SuspendTypeOK, Alive, BootPcs, SelfRefreshPcs, ResumeInv,
          ResumePath, SignatureUntried, ddrVars, suspendVars, bootVars
  <1>1. CASE StageRuns BY <1>1 DEF StageRuns
  <1>2. CASE PrepareSuspend BY <1>2 DEF PrepareSuspend, Cpu0
  <1>3. CASE CallSleep BY <1>3 DEF CallSleep, Cpu0
  <1>4. CASE WakeEvent BY <1>4 DEF WakeEvent
  <1>5. CASE WakeUp BY <1>5 DEF WakeUp, ChipReset
  <1>6. CASE WarmReset BY <1>6 DEF WarmReset, ChipReset
  <1>7. CASE UsbReboot BY <1>7 DEF UsbReboot, ChipReset
  <1>8. CASE PowerLoss
    <2>1. cpu0' = "reset" /\ ~resume' /\ UNCHANGED <<board, tries>>
      BY <1>8 DEF PowerLoss, ChipReset
    <2>2. (alive.kernel' => alive.kernel) /\ (alive.atf' => alive.atf)
      <3>1. CASE alive' = Dead BY <3>1 DEF Dead
      <3>2. CASE alive' = [alive EXCEPT !.wake = TRUE, !.pend = FALSE] BY <3>2
      <3>3. QED BY <1>8, <3>1, <3>2 DEF PowerLoss
    <2>3. QED BY <2>1, <2>2
  <1>9. CASE Forget BY <1>9 DEF Forget, Decay
  <1>10. QED BY <1>1, <1>2, <1>3, <1>4, <1>5, <1>6, <1>7, <1>8, <1>9

LEMMA ResumeNext ==
  ASSUME TypeOK, ResumeInv, [Next]_vars
  PROVE  ResumeInv'
  <1>1. CASE UNCHANGED vars
    BY <1>1
    DEF ResumeInv, ResumePath, SignatureUntried, vars, ddrVars, suspendVars,
        bootVars
  <1>2. CASE \E s \in Sub : SubStays(s) \/ SubDisturbed(s) BY <1>2, ResumeSub
  <1>3. QED
    BY <1>1, <1>2, ResumeBootMain, ResumeDdr, ResumeSleep, ResumeRest DEF Next

\* A signature leads to one check, on the path it names.
THEOREM ResumeSafe == Spec => []ResumeInv
  BY TypeCorrect, ResumeInit, ResumeNext, PTL DEF Spec

\* A suspended kernel's image is checked once at most (dowakeup), however many
\* resets, supply losses and wake-ups follow each other.
THEOREM ResumesOnce == Spec => []ResumedOnce
  <1>1. ResumeInv => ResumedOnce
    BY DEF ResumeInv, SignatureUntried, ResumedOnce
  <1>2. QED BY <1>1, ResumeSafe, PTL

LoadPcs == {"load", "check", "launch", "launched"}

\* Refresh is on from the end of a training that has succeeded, and from the
\* self refresh exit of a resume whether it has or not.
RefreshOn ==
  /\ cpu0 \in {"ddr1", "ddr2", "exitsr", "secure"} \cup LoadPcs
       /\ ddr.at = "done" /\ ddr.ok => drex.aref
  /\ cpu0 = "secure" /\ ddr.ok => drex.aref
  /\ cpu0 = "secure" /\ resume /\ ddr.at \in {"refsx", "done"} => drex.aref
  /\ cpu0 \in {"wakeup", "crc", "atfCrc", "resumed"} \cup LoadPcs /\ resume => drex.aref

\* Only a write training makes a hole into a suspended system.
HoledByTraining ==
  /\ mem = "holed" => mode.train \cap {"WR_LVL", "WR_CAL"} # {}
  /\ ddr.at = "latency" => "WR_LVL" \in mode.train
  /\ ddr.at = "writeDq" => "WR_CAL" \in mode.train

\* What a check has found good, or a load has written, is still there.
StillThere ==
  /\ cpu0 = "resumed" /\ board.chain = "kernel" => mem \in {"saved", "holed"}
  /\ cpu0 \in LoadPcs \ {"load"} /\ loaded /\ (ddr.ok \/ resume) => mem = "image"
  /\ cpu0 = "launched" => loaded

MemInv == RefreshOn /\ HoledByTraining /\ StillThere

LEMMA MemInit == Init => MemInv
  BY DEF Init, DdrInit, MemInv, RefreshOn, HoledByTraining, StillThere, LoadPcs

LEMMA MemBootMain ==
  ASSUME TypeOK, DramInv, ResumeInv, MemInv, BootMain
  PROVE  MemInv'
  <1> USE BootAssumption, SuspendAssumption
      DEF TypeOK, DdrTypeOK, InitSteps, TrainingSteps, DramInv, RoutineOfCpu0,
          ResumeInv, ResumePath, LoadPcs, MemInv, RefreshOn, HoledByTraining,
          StillThere, ddrVars, suspendVars, bootVars
  <1>1. CASE ResetHandler BY <1>1 DEF ResetHandler, Cpu0
  <1>2. CASE ReadScratch BY <1>2 DEF ReadScratch, Cpu0, Goto
  <1>3. CASE InitDDR3Returns BY <1>3 DEF InitDDR3Returns, Cpu0, At, Goto
  <1>4. CASE ExitIfResume BY <1>4 DEF ExitIfResume, Cpu0, Goto
  <1>5. CASE SecureState BY <1>5 DEF SecureState, Cpu0, At
  <1>6. CASE WakeupSignature BY <1>6 DEF WakeupSignature, Cpu0
  <1>7. CASE WakeupKernel
    <2>1. /\ cpu0 = "crc" /\ cpu0' \in {"resumed", "load"}
          /\ UNCHANGED <<ddrVars, board, resume, loaded>>
      BY <1>7 DEF WakeupKernel, CheckSaved, Cpu0
    <2>2. cpu0' = "resumed" /\ board.chain = "kernel" => mem \in {"saved", "holed"}
      <3>1. cpu0' = "resumed" => TRUE \in CrcOutcomes
        BY <1>7 DEF WakeupKernel, CheckSaved, Cpu0
      <3>2. board.chain = "kernel" /\ TRUE \in CrcOutcomes
              => mem \in {"saved", "holed"}
        BY Zenon DEF CrcOutcomes
      <3>3. QED BY <3>1, <3>2
    <2>3. QED BY <2>1, <2>2
  <1>8. CASE WakeupAtf BY <1>8 DEF WakeupAtf, CheckSaved, Cpu0
  <1>9. CASE Load BY <1>9 DEF Load, Cpu0
  <1>10. CASE CheckBody BY <1>10 DEF CheckBody, Cpu0
  <1>11. CASE Launch BY <1>11 DEF Launch, Cpu0
  <1>12. QED
    BY <1>1, <1>2, <1>3, <1>4, <1>5, <1>6, <1>7, <1>8, <1>9, <1>10, <1>11
    DEF BootMain

LEMMA MemDdr ==
  ASSUME TypeOK, DramInv, ResumeInv, MemInv, Ddr
  PROVE  MemInv'
  <1> USE BootAssumption, SuspendAssumption
      DEF TypeOK, DdrTypeOK, InitSteps, TrainingSteps, DramInv, RoutineOfCpu0,
          ResumeInv, ResumePath, LoadPcs, MemInv, RefreshOn, HoledByTraining,
          StillThere, ddrVars, suspendVars, bootVars
  <1>1. CASE InitReset /\ UNCHANGED <<suspendVars, bootVars>>
    BY <1>1 DEF InitReset, At, Goto
  <1>2. CASE InitCommands /\ UNCHANGED <<suspendVars, bootVars>>
    BY <1>2, FirstTraining DEF InitCommands, At, Goto
  <1>3. CASE InitFinish /\ UNCHANGED <<suspendVars, bootVars>>
    BY <1>3 DEF InitFinish, At
  <1>4. CASE WriteLeveling /\ UNCHANGED <<suspendVars, bootVars>>
    BY <1>4, FirstTraining
    DEF WriteLeveling, At, Goto, Enter, Leave, AfterLevel
  <1>5. CASE GateLeveling /\ UNCHANGED <<suspendVars, bootVars>>
    BY <1>5, FirstTraining DEF GateLeveling, At, Goto, Enter, Leave, AfterGate
  <1>6. CASE ReadDqCalibration /\ UNCHANGED <<suspendVars, bootVars>>
    BY <1>6, FirstTraining
    DEF ReadDqCalibration, At, Goto, Enter, Leave, AfterRead
  <1>7. CASE WriteLatencyCalibration /\ UNCHANGED <<suspendVars, bootVars>>
    BY <1>7, FirstTraining
    DEF WriteLatencyCalibration, At, Goto, TrainWrites, TrainEnds,
        Overwritten, AfterLatency
  <1>8. CASE WriteDqCalibration /\ UNCHANGED <<suspendVars, bootVars>>
    BY <1>8
    DEF WriteDqCalibration, At, Goto, TrainWrites, TrainEnds, Overwritten
  <1>9. CASE EnterSelfRefresh /\ UNCHANGED <<suspendVars, bootVars>>
    BY <1>9 DEF EnterSelfRefresh, At, Goto
  <1>10. CASE ExitSelfRefresh /\ UNCHANGED <<suspendVars, bootVars>>
    <2>1. CASE drex'.aref
      <3>1. RefreshOn' BY <1>10, <2>1 DEF ExitSelfRefresh
      <3>2. HoledByTraining' BY <1>10 DEF ExitSelfRefresh, At, Goto
      <3>3. StillThere' BY <1>10 DEF ExitSelfRefresh, At, Goto
      <3>4. QED BY <3>1, <3>2, <3>3
    <2>2. CASE At("refsx") /\ Goto("done") /\ UNCHANGED <<mode, drex, mem>>
      <3>1. RefreshOn' BY <1>10, <2>2 DEF At, Goto
      <3>2. HoledByTraining' BY <2>2 DEF At, Goto
      <3>3. StillThere' BY <1>10, <2>2 DEF At, Goto
      <3>4. QED BY <3>1, <3>2, <3>3
    <2>3. QED BY <1>10, <2>1, <2>2 DEF ExitSelfRefresh
  <1>11. CASE LpCommands /\ UNCHANGED <<suspendVars, bootVars>>
    BY <1>11, FirstTraining DEF LpCommands, At, Goto
  <1>12. CASE LpGateLeveling /\ UNCHANGED <<suspendVars, bootVars>>
    BY <1>12, FirstTraining DEF LpGateLeveling, At, Goto
  <1>13. CASE LpReadDqCalibration /\ UNCHANGED <<suspendVars, bootVars>>
    BY <1>13, FirstTraining DEF LpReadDqCalibration, At, Goto
  <1>14. QED
    BY <1>1, <1>2, <1>3, <1>4, <1>5, <1>6, <1>7, <1>8, <1>9, <1>10, <1>11,
       <1>12, <1>13
    DEF Ddr, DdrStep, LpStep, LpReset, LpWriteDqCalibration, LpFinish,
        LpEnterSelfRefresh, LpExitSelfRefresh

LEMMA MemSleep ==
  ASSUME TypeOK, DramInv, ResumeInv, MemInv, Sleep
  PROVE  MemInv'
  <1> USE BootAssumption, SuspendAssumption
      DEF TypeOK, DdrTypeOK, InitSteps, TrainingSteps, DramInv, RoutineOfCpu0,
          ResumeInv, ResumePath, LoadPcs, MemInv, RefreshOn, HoledByTraining,
          StillThere, ddrVars, suspendVars, bootVars
  <1>1. CASE WaitForSubs /\ UNCHANGED bootVars BY <1>1 DEF WaitForSubs, Cpu0
  <1>2. CASE LockDrex /\ UNCHANGED bootVars BY <1>2 DEF LockDrex, Cpu0, Goto
  <1>3. CASE SelfRefreshEntered /\ UNCHANGED bootVars
    BY <1>3 DEF SelfRefreshEntered, Cpu0, At
  <1>4. CASE VddPowerOff /\ UNCHANGED bootVars BY <1>4 DEF VddPowerOff, Cpu0
  <1>5. CASE VddOff /\ UNCHANGED bootVars BY <1>5 DEF VddOff, Cpu0
  <1>6. CASE LeaveSelfRefresh /\ UNCHANGED bootVars
    BY <1>6 DEF LeaveSelfRefresh, Cpu0, Goto
  <1>7. CASE UnlockDrex /\ UNCHANGED bootVars BY <1>7 DEF UnlockDrex, Cpu0, At
  <1>8. CASE WakeSubs /\ UNCHANGED bootVars BY <1>8 DEF WakeSubs, Cpu0
  <1>9. CASE SetReady /\ UNCHANGED bootVars BY <1>9 DEF SetReady, Cpu0
  <1>10. QED
    BY <1>1, <1>2, <1>3, <1>4, <1>5, <1>6, <1>7, <1>8, <1>9
    DEF Sleep, SleepMain

LEMMA MemSub ==
  ASSUME TypeOK, DramInv, ResumeInv, MemInv, NEW s \in Sub, SubStays(s) \/
         SubDisturbed(s)
  PROVE  MemInv'
  <1> USE BootAssumption, SuspendAssumption
      DEF TypeOK, DdrTypeOK, InitSteps, TrainingSteps, DramInv, RoutineOfCpu0,
          ResumeInv, ResumePath, LoadPcs, MemInv, RefreshOn, HoledByTraining,
          StillThere, ddrVars, suspendVars, bootVars
  <1>1. CASE SubEnter(s) /\ UNCHANGED bootVars BY <1>1 DEF SubEnter, SubStep
  <1>2. CASE SubWfi(s) /\ UNCHANGED bootVars BY <1>2 DEF SubWfi, SubStep
  <1>3. CASE SubSgi(s) /\ UNCHANGED bootVars BY <1>3 DEF SubSgi, SubStep
  <1>4. CASE SubChecks(s) /\ UNCHANGED bootVars BY <1>4 DEF SubChecks, SubStep
  <1>5. CASE SubSpurious(s) /\ UNCHANGED bootVars
    BY <1>5 DEF SubSpurious, SubStep
  <1>6. QED
    BY <1>1, <1>2, <1>3, <1>4, <1>5 DEF SubStays, SubRuns, SubDisturbed

LEMMA MemRest ==
  ASSUME TypeOK, DramInv, ResumeInv, MemInv, StageRuns \/ PrepareSuspend \/
         CallSleep \/ WakeEvent            \/ WakeUp \/ WarmReset \/ UsbReboot
         \/ PowerLoss \/ Forget
  PROVE  MemInv'
  <1> USE BootAssumption, SuspendAssumption
      DEF TypeOK, DdrTypeOK, InitSteps, TrainingSteps, DramInv, RoutineOfCpu0,
          ResumeInv, ResumePath, LoadPcs, MemInv, RefreshOn, HoledByTraining,
          StillThere, ddrVars, suspendVars, bootVars
  <1>1. CASE StageRuns BY <1>1 DEF StageRuns
  <1>2. CASE PrepareSuspend BY <1>2 DEF PrepareSuspend, Cpu0
  <1>3. CASE CallSleep BY <1>3 DEF CallSleep, Cpu0
  <1>4. CASE WakeEvent BY <1>4 DEF WakeEvent
  <1>5. CASE WakeUp BY <1>5 DEF WakeUp, ChipReset
  <1>6. CASE WarmReset BY <1>6 DEF WarmReset, ChipReset
  <1>7. CASE UsbReboot BY <1>7 DEF UsbReboot, ChipReset
  <1>8. CASE PowerLoss BY <1>8 DEF PowerLoss, ChipReset
  <1>9. CASE Forget BY <1>9 DEF Forget, Decay
  <1>10. QED BY <1>1, <1>2, <1>3, <1>4, <1>5, <1>6, <1>7, <1>8, <1>9

LEMMA MemNext ==
  ASSUME TypeOK, DramInv, ResumeInv, MemInv, [Next]_vars
  PROVE  MemInv'
  <1>1. CASE UNCHANGED vars
    BY <1>1
    DEF DramInv, RoutineOfCpu0, ResumeInv, ResumePath, MemInv, RefreshOn,
        HoledByTraining, StillThere, vars, ddrVars, suspendVars, bootVars
  <1>2. CASE \E s \in Sub : SubStays(s) \/ SubDisturbed(s) BY <1>2, MemSub
  <1>3. QED BY <1>1, <1>2, MemBootMain, MemDdr, MemSleep, MemRest DEF Next

\* Refresh stays on under what has been checked or loaded.
THEOREM MemSafe == Spec => []MemInv
  BY TypeCorrect, DramSafe, ResumeSafe, MemInit, MemNext, PTL DEF Spec

\* BL1 jumps into a suspended kernel only while that kernel's memory is still
\* there (dowakeup), whatever happened between the suspend and the jump.
THEOREM JumpsToTheSuspended == Spec => []ResumesTheSuspended
  <1>1. MemInv => ResumesTheSuspended
    BY DEF MemInv, StillThere, HoledByTraining, ResumesTheSuspended
  <1>2. QED BY <1>1, MemSafe, PTL

\* What BL1 launches is the image it has loaded (BootMain), for every boot
\* device, CRC_CHECK setting and choice of trainings.
THEOREM LaunchesWhatItLoaded == Spec => []LaunchesTheLoaded
  <1>1. MemInv => LaunchesTheLoaded
    BY DEF MemInv, StillThere, LoadPcs, LaunchesTheLoaded
  <1>2. QED BY <1>1, MemSafe, PTL
=============================================================================
