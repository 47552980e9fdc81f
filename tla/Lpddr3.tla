-------------------------------- MODULE Lpddr3 --------------------------------
(***************************************************************************)
(* The memory of the other build option, MEMTYPE = LPDDR3, as              *)
(* init_LPDDR3.c drives it, on the same controller as Ddr3.  These chips   *)
(* send their training pattern as a mode register that is read, so that    *)
(* no training puts them into a mode; write levelling is not built, and    *)
(* CA calibration is built but not called.                                 *)
(***************************************************************************)
EXTENDS Ddr3

LpTrainings == {"GT_LVL", "RD_CAL", "WR_CAL"}

\* The three resets, twice; the first write to CONCONTROL has refresh off.
LpReset == InitReset

(* NOP raises CKE; MR63 resets the chips, whatever they hold, and leaves   *)
(* their data undefined.  If auto-initialisation does not end within 20000 *)
(* reads of MR0, the other mode registers are written all the same.        *)
LpCommands ==
  /\ At("commands") /\ Goto(First({"gate", "readDq", "writeDq"}))
  /\ chip' = [state |-> "active", modes |-> {}]
  /\ mem' \in {mem, "lost"}
  /\ UNCHANGED <<mode, drex>>

\* Answered or not, found a window or not: only here a failure is returned.
LpGateLeveling ==
  /\ At("gate")
  /\ \/ Goto(First({"readDq", "writeDq"}))
     \/ ddr' = [at |-> "done", ok |-> FALSE]
  /\ UNCHANGED <<mode, drex, chip, mem>>

LpReadDqCalibration ==
  /\ At("readDq") /\ Goto(First({"writeDq"}))
  /\ UNCHANGED <<mode, drex, chip, mem>>

LpWriteDqCalibration == WriteDqCalibration
LpFinish == InitFinish
LpEnterSelfRefresh == EnterSelfRefresh
LpExitSelfRefresh == ExitSelfRefresh

\* The same polls, and REFSX is sent until the chips have left self refresh.
LpWaits == DdrWaits \/ At("refsx")

LpStep ==
  \/ LpReset \/ LpCommands \/ LpFinish
  \/ LpGateLeveling \/ LpReadDqCalibration \/ LpWriteDqCalibration
  \/ LpEnterSelfRefresh \/ LpExitSelfRefresh
=============================================================================
