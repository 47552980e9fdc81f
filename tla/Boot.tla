-------------------------------- MODULE Boot --------------------------------
(***************************************************************************)
(* A board with BL1 on it, from reset to the next stage and back: BootMain *)
(* (secondboot.c) with dowakeup (sleep.c), the suspends of Suspend and the *)
(* memory of Ddr3 or Lpddr3.  The loaders are reduced to what SdBoot and   *)
(* UsbBoot show of them.  A reset may come at any step, and so may a loss  *)
(* of the main supply, over which a battery may or may not keep the alive  *)
(* domain.                                                                 *)
(***************************************************************************)
EXTENDS Suspend, Lpddr3, FiniteSets

CONSTANTS
  Modes,         \* memory types and values of LvlTr_Mode to consider
  Chains,        \* who resumes: "kernel" and "atf"
  Devices,       \* boot devices: "sdmmc" and "usb"
  CrcChecks,     \* values of CRC_CHECK_ON to consider
  MaxResets, MaxSuspends

ASSUME BootAssumption ==
  /\ Modes \subseteq [type : {"DDR3"}, train : SUBSET Trainings]
                 \cup [type : {"LPDDR3"}, train : SUBSET LpTrainings]
  /\ Chains \subseteq {"kernel", "atf"} /\ Devices \subseteq {"sdmmc", "usb"}
  /\ CrcChecks \subseteq BOOLEAN
  /\ MaxResets \in Nat /\ MaxSuspends \in Nat

VARIABLES
  board,       \* what does not change: the chain, the boot device, CRC_CHECK
  resume,      \* isResume
  loaded,      \* Result
  tries,       \* history: checks of the suspended image since the suspend
  resets, suspends

bootVars == <<board, resume, loaded, tries, resets, suspends>>
vars == <<ddrVars, suspendVars, bootVars>>

BootPcs == {"reset", "boot", "ddr1", "ddr2", "exitsr", "secure", "wakeup", "crc",
            "atfCrc", "load", "check", "launch", "launched", "resumed", "stage",
            "call", "rom", "hung"}

TypeOK ==
  /\ DdrTypeOK /\ SuspendTypeOK
  /\ cpu0 \in BootPcs \cup SuspendPcs
  /\ board \in [chain : Chains, device : Devices, crc : CrcChecks]
  /\ resume \in BOOLEAN /\ loaded \in BOOLEAN
  /\ tries \in Nat
  /\ resets \in 0..MaxResets /\ suspends \in 0..MaxSuspends

Dead == [kernel |-> FALSE, atf |-> FALSE, usb |-> FALSE, wake |-> FALSE, pend |-> FALSE]

Init ==
  /\ mode \in Modes /\ DdrInit
  /\ cpu0 = "reset"
  /\ sub = [s \in Sub |-> "off"]
  /\ wakeFlag \in BOOLEAN          \* SRAM as it comes up
  /\ sgi = {} /\ alive = Dead /\ aborted = FALSE /\ spurious = 0
  /\ board \in [chain : Chains, device : Devices, crc : CrcChecks]
  /\ resume = FALSE /\ loaded = FALSE /\ tries = 0
  /\ resets = 0 /\ suspends = 0

-----------------------------------------------------------------------------
(* BootMain                                                                *)

ResetHandler ==
  /\ Cpu0("reset", "boot")
  /\ wakeFlag' = FALSE
  /\ UNCHANGED <<ddrVars, sub, sgi, alive, aborted, spurious, bootVars>>

\* USBREBOOT_SIGNATURE stays where it is; the ROM starts a downloaded BL1.
ReadScratch ==
  /\ \/ alive.usb /\ Cpu0("boot", "rom") /\ UNCHANGED <<resume, ddr>>
     \/ /\ ~alive.usb /\ Cpu0("boot", "ddr1")
        /\ resume' = (alive.wake /\ (alive.kernel \/ alive.atf))
        /\ Goto("reset")
  /\ UNCHANGED <<mode, drex, chip, mem, sub, wakeFlag, sgi, alive, aborted, spurious,
                 board, loaded, tries, resets, suspends>>

\* Mutant: it is tried until it works.
MutInitDDR3Returns ==
  /\ At("done") /\ cpu0 = "ddr1"
  /\ \/ ddr.ok /\ Cpu0("ddr1", "exitsr") /\ UNCHANGED ddr
     \/ ~ddr.ok /\ UNCHANGED cpu0 /\ Goto("reset")
  /\ UNCHANGED <<mode, drex, chip, mem, sub, wakeFlag, sgi, alive, aborted, spurious, bootVars>>

\* init_DDR3(0) or init_LPDDR3(0), and once more if it failed; the second result is not looked at.
InitDDR3Returns ==
  /\ At("done")
  /\ \/ Cpu0("ddr1", "exitsr") /\ ddr.ok /\ UNCHANGED ddr
     \/ Cpu0("ddr1", "ddr2") /\ ~ddr.ok /\ Goto("reset")
     \/ Cpu0("ddr2", "exitsr") /\ UNCHANGED ddr
  /\ UNCHANGED <<mode, drex, chip, mem, sub, wakeFlag, sgi, alive, aborted, spurious, bootVars>>

\* exitSelfRefresh when resuming, although init_DDR3 has ended the self refresh.
ExitIfResume ==
  /\ Cpu0("exitsr", "secure")
  /\ IF resume THEN Goto("clock") ELSE UNCHANGED ddr
  /\ UNCHANGED <<mode, drex, chip, mem, sub, wakeFlag, sgi, alive, aborted, spurious, bootVars>>

\* Bus, CCI, TrustZone and PSCI set-up, then dowakeup or the load.
SecureState ==
  /\ At("done") /\ Cpu0("secure", IF resume THEN "wakeup" ELSE "load")
  /\ UNCHANGED <<ddrVars, sub, wakeFlag, sgi, alive, aborted, spurious, bootVars>>

\* Mutant: the kernel's signature is kept until its image has been checked.
MutWakeupSignature ==
  /\ Cpu0("wakeup", IF alive.kernel THEN "crc" ELSE "atfCrc")
  /\ UNCHANGED <<ddrVars, sub, wakeFlag, sgi, alive, aborted, spurious, bootVars>>

\* dowakeup up to its CRC: the kernel path clears scratch 0 to 4 first.
WakeupSignature ==
  /\ Cpu0("wakeup", IF alive.kernel THEN "crc" ELSE "atfCrc")
  /\ alive' = IF alive.kernel THEN [alive EXCEPT !.kernel = FALSE, !.atf = FALSE] ELSE alive
  /\ UNCHANGED <<ddrVars, sub, wakeFlag, sgi, aborted, spurious, bootVars>>

(* Which results a CRC over the suspended image may have.  The kernel's    *)
(* covers what it chose to, ATF's a part that does not change at run time. *)
CrcOutcomes ==
  CASE mem = "saved" -> {TRUE}
    [] mem = "holed" -> BOOLEAN
    [] mem = "live" /\ board.chain = "atf" -> BOOLEAN
    [] OTHER -> {FALSE}

CheckSaved(from) ==
  /\ \E ok \in CrcOutcomes : Cpu0(from, IF ok THEN "resumed" ELSE "load")
  /\ tries' = tries + 1

WakeupKernel ==
  /\ CheckSaved("crc")
  /\ UNCHANGED <<ddrVars, sub, wakeFlag, sgi, alive, aborted, spurious,
                 board, resume, loaded, resets, suspends>>

(* ATF's range and CRC come from a header in DRAM.  If DRAM has forgotten, *)
(* they are anything, and reading the range may be the end of BL1.         *)
WakeupAtf ==
  /\ \/ CheckSaved("atfCrc") /\ alive' = [alive EXCEPT !.atf = (cpu0' = "resumed")]
     \/ Cpu0("atfCrc", "hung") /\ mem = "lost" /\ UNCHANGED <<alive, tries>>
  /\ UNCHANGED <<ddrVars, sub, wakeFlag, sgi, aborted, spurious,
                 board, resume, loaded, resets, suspends>>

\* iSDXCBOOT may fail after it has written some of the image; iUSBBOOT goes on until
\* done.  Nothing says that a loader returns (Fairness): without a host iUSBBOOT
\* does not, iSDXCBOOT has the two endless waits that SdBoot!BootReturns names.
Load ==
  /\ Cpu0("load", IF board.crc THEN "check" ELSE "launch")
  /\ \/ loaded' = TRUE /\ mem' = "image"
     \/ board.device = "sdmmc" /\ loaded' = FALSE /\ mem' \in {mem, "lost"}
  /\ UNCHANGED <<mode, ddr, drex, chip, sub, wakeFlag, sgi, alive, aborted, spurious,
                 board, resume, tries, resets, suspends>>

(* CRC_CHECK takes address, size and CRC where the old header has them.    *)
(* In the header SD images have (nx_tbbinfo) those words hold leftovers    *)
(* and the load address: no CRC of the one equals the other.               *)
CheckBody ==
  /\ Cpu0("check", "launch")
  /\ loaded' = (loaded /\ board.device = "usb" /\ mem = "image")
  /\ UNCHANGED <<ddrVars, sub, wakeFlag, sgi, alive, aborted, spurious,
                 board, resume, tries, resets, suspends>>

Launch ==
  /\ Cpu0("launch", IF loaded THEN "launched" ELSE "rom")
  /\ UNCHANGED <<ddrVars, sub, wakeFlag, sgi, alive, aborted, spurious, bootVars>>

BootMain ==
  \/ ResetHandler \/ ReadScratch \/ InitDDR3Returns \/ ExitIfResume \/ SecureState
  \/ WakeupSignature \/ WakeupKernel \/ WakeupAtf \/ Load \/ CheckBody \/ Launch

-----------------------------------------------------------------------------
(* The next stage, the user and the supply                                 *)

\* The system is up, with all its cores.
StageRuns ==
  /\ cpu0 \in {"launched", "resumed"} /\ cpu0' = "stage"
  /\ sub' = [s \in Sub |-> "stage"]
  /\ mem' = "live"
  /\ UNCHANGED <<mode, ddr, drex, chip, wakeFlag, sgi, alive, aborted, spurious, bootVars>>

\* It saves itself, leaves the signature in scratch and calls Sleep on its cores.
PrepareSuspend ==
  /\ \A s \in Sub : sub[s] = "stage"
  /\ suspends < MaxSuspends /\ suspends' = suspends + 1
  /\ Cpu0("stage", "call")
  /\ alive' = [alive EXCEPT ![board.chain] = TRUE]
  /\ mem' = "saved" /\ tries' = 0
  /\ UNCHANGED <<mode, ddr, drex, chip, sub, wakeFlag, sgi, aborted, spurious,
                 board, resume, loaded, resets>>

CallSleep ==
  /\ Cpu0("call", "wait90")
  /\ UNCHANGED <<ddrVars, sub, wakeFlag, sgi, alive, aborted, spurious, bootVars>>

\* The user, a timer: before VDD is off it is only seen as pending.
WakeEvent ==
  /\ cpu0 \in SuspendPcs \ {"stop"} /\ ~alive.pend
  /\ alive' = [alive EXCEPT !.pend = TRUE]
  /\ UNCHANGED <<ddrVars, cpu0, sub, wakeFlag, sgi, aborted, spurious, bootVars>>

\* What a reset of the chip does; DRAM keeps its mode until it is told otherwise.
ChipReset ==
  /\ cpu0' = "reset"
  /\ sub' = [s \in Sub |-> "off"]
  /\ wakeFlag' \in BOOLEAN
  /\ sgi' = {} /\ aborted' = FALSE
  /\ ddr' = [at |-> "done", ok |-> TRUE]
  /\ drex' = [aref |-> FALSE, stopped |-> FALSE, training |-> FALSE, locked |-> FALSE]
  /\ resume' = FALSE /\ loaded' = FALSE
  /\ UNCHANGED <<mode, spurious, board, tries, suspends>>

\* VDD comes back.
WakeUp ==
  /\ cpu0 = "stop"
  /\ ChipReset
  /\ alive' = [alive EXCEPT !.wake = TRUE]
  /\ UNCHANGED <<chip, mem, resets>>

\* The reset button or the watchdog; what WAKEUPSTATUS shows then is not documented.
WarmReset ==
  /\ resets < MaxResets /\ resets' = resets + 1
  /\ cpu0 # "reset" /\ ChipReset
  /\ \E wake \in BOOLEAN : alive' = [alive EXCEPT !.wake = wake, !.pend = FALSE]
  /\ UNCHANGED <<chip, mem>>

\* The next stage asks for the ROM's USB download with the next reset.
UsbReboot ==
  /\ resets < MaxResets /\ resets' = resets + 1
  /\ cpu0 = "stage" /\ ChipReset
  /\ alive' = [alive EXCEPT !.usb = TRUE, !.pend = FALSE]
  /\ UNCHANGED <<chip, mem>>

PowerLoss ==
  /\ resets < MaxResets /\ resets' = resets + 1
  /\ ChipReset
  /\ alive' \in {Dead, [alive EXCEPT !.wake = TRUE, !.pend = FALSE]}
  /\ chip' = [state |-> "off", modes |-> {}]
  /\ mem' = "lost"

Forget == Decay /\ UNCHANGED <<suspendVars, bootVars>>
Ddr ==
  /\ \/ mode.type = "DDR3" /\ DdrStep
     \/ mode.type = "LPDDR3" /\ LpStep
  /\ UNCHANGED <<suspendVars, bootVars>>
Sleep == SleepMain /\ UNCHANGED bootVars
SubStays(s) == SubRuns(s) /\ UNCHANGED bootVars
SubDisturbed(s) == SubSpurious(s) /\ UNCHANGED bootVars

Next ==
  \/ BootMain \/ Ddr \/ Sleep
  \/ \E s \in Sub : SubStays(s) \/ SubDisturbed(s)
  \/ StageRuns \/ PrepareSuspend \/ CallSleep \/ WakeEvent
  \/ WakeUp \/ WarmReset \/ UsbReboot \/ PowerLoss \/ Forget

Spec == Init /\ [][Next]_vars

\* BL1 waits for something outside it, without a limit: a loader for its card or
\* host, the memory routines for their hardware, sleepMain for the DREX ports.
Waiting ==
  \/ cpu0 \in {"load", "lock", "unlock"}
  \/ mode.type = "DDR3" /\ DdrWaits
  \/ mode.type = "LPDDR3" /\ LpWaits

(* BL1 goes on executing, on every core, where it does not wait; the       *)
(* kernel puts every core to sleep once it has begun to.  Nobody need wake *)
(* the board, and no wait need end.                                        *)
Fairness ==
  /\ WF_vars(~Waiting /\ (BootMain \/ Ddr \/ Sleep))
  /\ WF_vars(CallSleep)
  /\ \A s \in Sub : WF_vars(SubStays(s))

FairSpec == Spec /\ Fairness

-----------------------------------------------------------------------------
(* Properties                                                              *)

\* Whenever CPU0 uses DRAM, to check an image, to load one or to run it, the
\* chips answer with what they hold: they have left self refresh and every
\* training mode, on every path through the trainings, their failures, the
\* second attempt, resets in the middle, resumes and suspends given up.
DramUsable ==
  cpu0 \in {"crc", "atfCrc", "load", "check", "launched", "resumed", "stage", "call"}
    => Readable

\* A suspended kernel is checked at most once: whatever resets follow a wake-up,
\* it is not resumed twice and a bad image is not tried for ever (sleep.c:57-61).
ResumedOnce == board.chain = "kernel" => tries <= 1

\* What a kernel is resumed on is what it left, still there when BL1 jumps
\* (sleep.c:63-72), at worst with the row that the write trainings use
\* overwritten where its CRC did not look.
ResumesTheSuspended ==
  cpu0 = "resumed" /\ board.chain = "kernel"
    => mem = "saved" \/ (mem = "holed" /\ mode.train \cap {"WR_LVL", "WR_CAL"} # {})

\* What BL1 jumps to is the image it has loaded, refreshed ever since.  With
\* init_DDR3 failing twice on a cold boot that is not so: refresh stays off.
LaunchesTheLoaded ==
  cpu0 = "launched" /\ (ddr.ok \/ resume) => mem = "image"

\* A boot ends: with the next stage, a resumed one or the ROM, unless one of the
\* waits without a limit does not end (a USB download that no host comes for,
\* iUSBBOOT.c:877; the PHY, init_DDR3.c:1706, 1991, 2017 and 2471-2484).  Apart from
\* them only ATF's resume from memory that has forgotten may hang.
BootEnds ==
  (cpu0 = "reset") ~>
    \/ cpu0 \in {"launched", "resumed", "rom"}
    \/ cpu0 = "hung" /\ board.chain = "atf"
    \/ []Waiting

\* A suspend ends with the power off, or with all cores back in the kernel,
\* unless a reset comes in between or the memory's hardware does not answer; the
\* second suspend after one that came straight back is left out.
SuspendEnds ==
  (cpu0 = "wait90" /\ ~aborted) ~>
    \/ cpu0 \in {"stop", "reset"}
    \/ cpu0 = "stage" /\ \A s \in Sub : sub[s] = "stage"
    \/ []Waiting
=============================================================================
