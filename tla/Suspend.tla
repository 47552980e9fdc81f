------------------------------- MODULE Suspend -------------------------------
(***************************************************************************)
(* Suspend to RAM of the AArch32 BL1 (Sleep in startup_aarch32.S,          *)
(* sleepMain and vddPowerOff in sleep.c), on the controller of Ddr3.  The  *)
(* kernel calls Sleep on every core.  The secondaries stay in a wfi loop   *)
(* in SRAM; CPU0 waits for them, puts DRAM into self refresh and switches  *)
(* VDD off, or comes straight back when something has woken it meanwhile.  *)
(***************************************************************************)
EXTENDS Ddr3

CONSTANTS
  Sub0,          \* secondary cores of cluster 0, seen in TIEOFF 90
  Sub1,          \* those of cluster 1, seen in TIEOFF 107
  MaxSpurious    \* bound on the wake-ups of a wfi by other interrupts

Sub == Sub0 \cup Sub1

ASSUME SuspendAssumption == Sub0 \cap Sub1 = {} /\ MaxSpurious \in Nat

VARIABLES
  cpu0,        \* what CPU0 executes
  sub,         \* where each secondary is
  wakeFlag,    \* g_wakeup_ready
  sgi,         \* secondaries with a pending software interrupt
  alive,       \* the alive domain: scratch registers and wake-up logic
  aborted,     \* history: a suspend of this boot came straight back
  spurious     \* bounds the spurious wake-ups

suspendVars == <<cpu0, sub, wakeFlag, sgi, alive, aborted, spurious>>

(* alive.kernel and alive.atf: the two signatures of a suspended system in *)
(* scratch 0 and 4; usb: USBREBOOT_SIGNATURE in scratch 5; wake:           *)
(* WAKEUPSTATUS; pend: ALIVEGPIODETECTPENDREG.                             *)
Alive == [kernel : BOOLEAN, atf : BOOLEAN, usb : BOOLEAN, wake : BOOLEAN, pend : BOOLEAN]

SuspendPcs == {"wait90", "wait107", "lock", "refs", "vdd", "off", "stop",
               "exit", "unlock", "awake", "ready"}

SuspendTypeOK ==
  /\ sub \in [Sub -> {"off", "stage", "park", "wfi", "check"}]
  /\ wakeFlag \in BOOLEAN
  /\ sgi \subseteq Sub
  /\ alive \in Alive
  /\ aborted \in BOOLEAN
  /\ spurious \in 0..MaxSpurious

Cpu0(from, to) == cpu0 = from /\ cpu0' = to
SubStep(s, from, to) == sub[s] = from /\ sub' = [sub EXCEPT ![s] = to]

-----------------------------------------------------------------------------
(* The secondaries: SystemSleep, subCPUsleep, jumpToVirtualArea            *)

\* The kernel calls Sleep on a secondary; its stack is still in DRAM.
SubEnter(s) ==
  /\ cpu0 \in {"call", "wait90", "wait107"}
  /\ SubStep(s, "stage", "park")
  /\ UNCHANGED <<cpu0, wakeFlag, sgi, alive, aborted, spurious, ddrVars>>

SubWfi(s) ==
  /\ SubStep(s, "park", "wfi")
  /\ UNCHANGED <<cpu0, wakeFlag, sgi, alive, aborted, spurious, ddrVars>>

\* A pending interrupt ends the wfi, masked or not.
SubSgi(s) ==
  /\ s \in sgi
  /\ SubStep(s, "wfi", "check")
  /\ UNCHANGED <<cpu0, wakeFlag, sgi, alive, aborted, spurious, ddrVars>>

SubSpurious(s) ==
  /\ spurious < MaxSpurious /\ spurious' = spurious + 1
  /\ SubStep(s, "wfi", "check")
  /\ UNCHANGED <<cpu0, wakeFlag, sgi, alive, aborted, ddrVars>>

\* Mutant: the wfi is not looped.
MutSubChecks(s) ==
  /\ SubStep(s, "check", "stage")
  /\ sgi' = sgi \ {s}
  /\ UNCHANGED <<cpu0, wakeFlag, alive, aborted, spurious, ddrVars>>

\* Back into the kernel, which takes its interrupt, or into the wfi again.
SubChecks(s) ==
  /\ \/ wakeFlag /\ SubStep(s, "check", "stage") /\ sgi' = sgi \ {s}
     \/ ~wakeFlag /\ SubStep(s, "check", "wfi") /\ UNCHANGED sgi
  /\ UNCHANGED <<cpu0, wakeFlag, alive, aborted, spurious, ddrVars>>

SubRuns(s) == SubEnter(s) \/ SubWfi(s) \/ SubSgi(s) \/ SubChecks(s)

-----------------------------------------------------------------------------
(* CPU0: sleepMain and vddPowerOff                                         *)

\* One look at each cluster's wfi status, the second loop iteration from the start.
WaitForSubs ==
  /\ \/ Cpu0("wait90", "wait107") /\ \A s \in Sub0 : sub[s] = "wfi"
     \/ Cpu0("wait107", "lock") /\ \A s \in Sub1 : sub[s] = "wfi"
     \/ Cpu0("wait107", "wait90") /\ \E s \in Sub1 : sub[s] # "wfi"
  /\ UNCHANGED <<sub, wakeFlag, sgi, alive, aborted, spurious, ddrVars>>

LockDrex ==
  /\ Cpu0("lock", "refs")
  /\ drex' = [drex EXCEPT !.locked = TRUE]
  /\ Goto("refs")
  /\ UNCHANGED <<sub, wakeFlag, sgi, alive, aborted, spurious, mode, chip, mem>>

SelfRefreshEntered ==
  /\ At("done") /\ Cpu0("refs", "vdd")
  /\ UNCHANGED <<sub, wakeFlag, sgi, alive, aborted, spurious, ddrVars>>

(* Scratch 5 to 8 take the levelling values.  A wake-up that is pending    *)
(* already ends the wfi of CPU0 at once, and vddPowerOff returns.          *)
VddPowerOff ==
  /\ Cpu0("vdd", IF alive.pend THEN "exit" ELSE "off")
  /\ alive' = [alive EXCEPT !.usb = FALSE]
  /\ UNCHANGED <<sub, wakeFlag, sgi, aborted, spurious, ddrVars>>

\* The countdown starts and what is pending by now is cleared.
VddOff ==
  /\ Cpu0("off", "stop")
  /\ alive' = [alive EXCEPT !.pend = FALSE]
  /\ UNCHANGED <<sub, wakeFlag, sgi, aborted, spurious, ddrVars>>

LeaveSelfRefresh ==
  /\ Cpu0("exit", "unlock") /\ Goto("clock")
  /\ UNCHANGED <<sub, wakeFlag, sgi, alive, aborted, spurious, mode, drex, chip, mem>>

UnlockDrex ==
  /\ At("done") /\ Cpu0("unlock", "awake")
  /\ drex' = [drex EXCEPT !.locked = FALSE]
  /\ UNCHANGED <<sub, wakeFlag, sgi, alive, aborted, spurious, mode, ddr, chip, mem>>

\* Mutant: CPU0 is in the interrupt's target list too.
MutWakeAll ==
  /\ Cpu0("awake", "ready")
  /\ sgi' = Sub \cup {"cpu0"}
  /\ UNCHANGED <<sub, wakeFlag, alive, aborted, spurious, ddrVars>>

\* Mutant: only the cores of cluster 0 are in the interrupt's target list.
MutWakeSubs ==
  /\ Cpu0("awake", "ready")
  /\ sgi' = Sub0
  /\ UNCHANGED <<sub, wakeFlag, alive, aborted, spurious, ddrVars>>

\* The interrupt first, then the flag it tells the secondaries to look at.
WakeSubs ==
  /\ Cpu0("awake", "ready")
  /\ sgi' = Sub
  /\ UNCHANGED <<sub, wakeFlag, alive, aborted, spurious, ddrVars>>

SetReady ==
  /\ Cpu0("ready", "stage")
  /\ wakeFlag' = TRUE
  /\ aborted' = TRUE
  /\ mem' = "live"
  /\ UNCHANGED <<sub, sgi, alive, spurious, mode, ddr, drex, chip>>

SleepMain ==
  \/ WaitForSubs \/ LockDrex \/ SelfRefreshEntered \/ VddPowerOff \/ VddOff
  \/ LeaveSelfRefresh \/ UnlockDrex \/ WakeSubs \/ SetReady

-----------------------------------------------------------------------------
(* Properties                                                              *)

\* The DRAM takes accesses from the cores.
Accessible == chip.state = "active" /\ ~drex.stopped /\ ~drex.locked

\* From the lock of the DREX ports to the unlock no secondary executes kernel
\* code, which is in DRAM, whatever interrupts end its wfi in between (the
\* loop at startup_aarch32.S:204-208).  A suspend after one that came straight
\* back is left out: g_wakeup_ready is then still set.
SubsParked == ~aborted => \A s \in Sub : sub[s] = "stage" => Accessible
=============================================================================
