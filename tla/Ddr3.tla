--------------------------------- MODULE Ddr3 ---------------------------------
(***************************************************************************)
(* The DDR3 controller and the chips behind it, as init_DDR3.c drives      *)
(* them: init_DDR3 with its training steps, enterSelfRefresh and           *)
(* exitSelfRefresh.  Each is a subroutine of its caller's core: the caller *)
(* sets ddr.at to its first step and waits for "done"; a reset may cut it  *)
(* off at any step.                                                        *)
(*                                                                         *)
(* Of the register writes only those stay that decide whether DRAM keeps   *)
(* and returns its contents: the mode the chips are in, self refresh, the  *)
(* refresh counter, the training pattern generator.  A training step may   *)
(* be answered, or not within its 100 polls.                               *)
(***************************************************************************)
EXTENDS Naturals

VARIABLES
  mode,      \* what is built for and asked for: MEMTYPE, and LvlTr_Mode of the NSIH
  ddr,       \* the routine under way: its step, and what init_DDR3 returned
  drex,      \* the controller
  chip,      \* the chips
  mem        \* what they hold

ddrVars == <<mode, ddr, drex, chip, mem>>

Trainings == {"WR_LVL", "GT_LVL", "RD_CAL", "WR_CAL"}

\* Steps of init_DDR3, in order; each training has a step before and after its polls.
TrainingSteps == {"wrlvl", "wrlvlEnd", "gate", "gateEnd", "readDq", "readDqEnd",
                  "latency", "latencyEnd", "writeDq", "writeDqEnd"}
InitSteps == {"reset", "commands"} \cup TrainingSteps \cup {"finish"}
Steps == InitSteps \cup {"refs", "quiet", "clock", "refsx", "done"}

(* "saved": a suspended system, as it was when its CRC was taken; "holed": *)
(* the same with row 0 of bank 0 overwritten; "image": a third stage, as   *)
(* it was loaded; "live": the data of a running system.                    *)
Contents == {"lost", "saved", "holed", "image", "live"}

DdrTypeOK ==
  /\ mode \in [type : {"DDR3", "LPDDR3"}, train : SUBSET Trainings]
  /\ ddr \in [at : Steps, ok : BOOLEAN]
  /\ drex \in [aref : BOOLEAN, stopped : BOOLEAN, training : BOOLEAN, locked : BOOLEAN]
  /\ chip \in [state : {"off", "active", "self"}, modes : SUBSET {"mpr", "level"}]
  /\ mem \in Contents

DdrInit ==
  /\ ddr = [at |-> "done", ok |-> TRUE]
  /\ drex = [aref |-> FALSE, stopped |-> FALSE, training |-> FALSE, locked |-> FALSE]
  /\ chip = [state |-> "off", modes |-> {}]
  /\ mem = "lost"

At(step) == ddr.at = step
Goto(step) == ddr' = [ddr EXCEPT !.at = step]

\* Cells that nobody refreshes forget, sooner or later.
Decay ==
  /\ chip.state # "self" /\ ~drex.aref /\ mem # "lost"
  /\ mem' = "lost"
  /\ UNCHANGED <<mode, ddr, drex, chip>>

-----------------------------------------------------------------------------
(* init_DDR3: BootMain always passes 0 for isResume.                       *)

\* The controller's three resets, twice; then the PHY and dfi_init_complete, each
\* waited for as long as it takes.
InitReset ==
  /\ At("reset") /\ Goto("commands")
  /\ drex' = [drex EXCEPT !.aref = FALSE, !.stopped = FALSE, !.training = FALSE]
  /\ UNCHANGED <<mode, chip, mem>>

(* The trainings of LvlTr_Mode in the order of the code.  Write latency    *)
(* goes with write levelling.                                              *)
First(steps) ==
  CASE "WR_LVL" \in mode.train /\ "wrlvl" \in steps -> "wrlvl"
    [] "GT_LVL" \in mode.train /\ "gate" \in steps -> "gate"
    [] "RD_CAL" \in mode.train /\ "readDq" \in steps -> "readDq"
    [] "WR_LVL" \in mode.train /\ "latency" \in steps -> "latency"
    [] "WR_CAL" \in mode.train /\ "writeDq" \in steps -> "writeDq"
    [] OTHER -> "finish"

AfterLevel   == First({"gate", "readDq", "latency", "writeDq"})
AfterGate    == First({"readDq", "latency", "writeDq"})
AfterRead    == First({"latency", "writeDq"})
AfterLatency == First({"writeDq"})

(* NOP raises CKE, which also ends a self refresh; MR2, MR3, MR1 and MR0   *)
(* take the chips out of every training mode.  Then the DLL has to lock.   *)
InitCommands ==
  /\ At("commands") /\ Goto(First(TrainingSteps))
  /\ chip' = [state |-> "active", modes |-> {}]
  /\ UNCHANGED <<mode, drex, mem>>

Enter(m) == chip' = [chip EXCEPT !.modes = @ \cup {m}]
Leave(m) == chip' = [chip EXCEPT !.modes = @ \ {m}]

WriteLeveling ==
  \/ /\ At("wrlvl") /\ Goto("wrlvlEnd") /\ Enter("level")
     /\ UNCHANGED <<mode, drex, mem>>
  \/ /\ At("wrlvlEnd") /\ Goto(AfterLevel) /\ Leave("level")
     /\ UNCHANGED <<mode, drex, mem>>

\* Mutant: the error return skips the end of the routine.
MutGateLeveling ==
  \/ /\ At("gate") /\ Goto("gateEnd") /\ Enter("mpr")
     /\ UNCHANGED <<mode, drex, mem>>
  \/ /\ At("gateEnd")
     /\ \/ Goto(AfterGate) /\ Leave("mpr")
        \/ ddr' = [at |-> "done", ok |-> FALSE] /\ UNCHANGED chip
     /\ UNCHANGED <<mode, drex, mem>>

\* The only training whose failure init_DDR3 returns, before it turns refresh on.
GateLeveling ==
  \/ /\ At("gate") /\ Goto("gateEnd") /\ Enter("mpr")
     /\ UNCHANGED <<mode, drex, mem>>
  \/ /\ At("gateEnd") /\ Leave("mpr")
     /\ \/ Goto(AfterGate)
        \/ ddr' = [at |-> "done", ok |-> FALSE]
     /\ UNCHANGED <<mode, drex, mem>>

ReadDqCalibration ==
  \/ /\ At("readDq") /\ Goto("readDqEnd") /\ Enter("mpr")
     /\ UNCHANGED <<mode, drex, mem>>
  \/ /\ At("readDqEnd") /\ Goto(AfterRead) /\ Leave("mpr")
     /\ UNCHANGED <<mode, drex, mem>>

\* Both write trainings write to row 0 of bank 0.
Overwritten == CASE mem = "saved" -> "holed" [] mem = "holed" -> "holed" [] OTHER -> "lost"
TrainWrites(next) ==
  /\ Goto(next)
  /\ drex' = [drex EXCEPT !.training = TRUE]
  /\ mem' = Overwritten
  /\ UNCHANGED <<mode, chip>>
TrainEnds(next) ==
  /\ Goto(next)
  /\ drex' = [drex EXCEPT !.training = FALSE]
  /\ UNCHANGED <<mode, chip, mem>>

WriteLatencyCalibration ==
  \/ At("latency") /\ TrainWrites("latencyEnd")
  \/ At("latencyEnd") /\ TrainEnds(AfterLatency)

WriteDqCalibration ==
  \/ At("writeDq") /\ TrainWrites("writeDqEnd")
  \/ At("writeDqEnd") /\ TrainEnds("finish")

\* Mutant: the counter stays off, as with isResume = 1.
MutInitFinish ==
  /\ At("finish") /\ ddr' = [at |-> "done", ok |-> TRUE]
  /\ UNCHANGED <<mode, drex, chip, mem>>

\* The last write to CONCONTROL turns the refresh counter on.
InitFinish ==
  /\ At("finish") /\ ddr' = [at |-> "done", ok |-> TRUE]
  /\ drex' = [drex EXCEPT !.aref = TRUE]
  /\ UNCHANGED <<mode, chip, mem>>

-----------------------------------------------------------------------------
(* enterSelfRefresh and exitSelfRefresh                                    *)

EnterSelfRefresh ==
  \/ /\ At("refs") /\ Goto("quiet")
     /\ chip' = [chip EXCEPT !.state = "self"]
     /\ UNCHANGED <<mode, drex, mem>>
  \/ /\ At("quiet") /\ Goto("done")
     /\ drex' = [drex EXCEPT !.aref = FALSE, !.stopped = TRUE]
     /\ UNCHANGED <<mode, chip, mem>>

\* Mutant: the refresh counter is not turned on again.
MutExitSelfRefresh ==
  \/ /\ At("clock") /\ Goto("refsx")
     /\ drex' = [drex EXCEPT !.stopped = FALSE]
     /\ UNCHANGED <<mode, chip, mem>>
  \/ /\ At("refsx") /\ Goto("done")
     /\ chip' = [chip EXCEPT !.state = "active"]
     /\ UNCHANGED <<mode, drex, mem>>

ExitSelfRefresh ==
  \/ /\ At("clock") /\ Goto("refsx")
     /\ drex' = [drex EXCEPT !.aref = TRUE, !.stopped = FALSE]
     /\ UNCHANGED <<mode, chip, mem>>
  \/ /\ At("refsx") /\ Goto("done")
     /\ chip' = [chip EXCEPT !.state = "active"]
     /\ UNCHANGED <<mode, drex, mem>>

DdrStep ==
  \/ InitReset \/ InitCommands \/ InitFinish
  \/ WriteLeveling \/ GateLeveling \/ ReadDqCalibration
  \/ WriteLatencyCalibration \/ WriteDqCalibration
  \/ EnterSelfRefresh \/ ExitSelfRefresh

\* Steps that poll without a limit: SHIFTC_CON, zq_done and dfi_init_complete, the
\* DLL's lock, chips that have to be idle and then in self refresh.
DdrWaits == ddr.at \in {"reset", "commands", "refs", "quiet"}

\* Whoever reads DRAM now gets what it holds.
Readable == chip.state = "active" /\ chip.modes = {} /\ ~drex.training /\ ~drex.stopped /\ ~drex.locked
=============================================================================
