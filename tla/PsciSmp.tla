------------------------------ MODULE PsciSmp ------------------------------
(***************************************************************************)
(* The resident EL3 firmware of BL1 under SKIP_ATF, on all cores at once:  *)
(* the PSCI slots and calls (psci.c), the power-on of a secondary core and *)
(* its way from Startup to the kernel (subcpu.c, startup_aarch64.S), and   *)
(* the registers the cores share (TIEOFF, CPUPOWERONREQ, CCI-400).         *)
(*                                                                         *)
(* A core's program counter names the next access it makes to shared       *)
(* state; every access is a step of its own, so all the interleavings of   *)
(* the cores are explored.  The power controller, the CCI-400 and the      *)
(* kernel that makes the calls are external: they are modelled from how    *)
(* the firmware uses them and what its comments report of the board.       *)
(***************************************************************************)
EXTENDS Naturals, FiniteSets

CONSTANTS
  Core,           \* the cores, at most eight on the chip
  BootCore,       \* CPU0
  Cluster1,       \* cpu 4..7
  Req,            \* arguments of a CPU_ON call: entry point and context
  NoReq,          \* the value of a cleared slot or an idle register
  Stage2,         \* TRUE: OPMODE=aarch32 (stage2 image), FALSE: OPMODE=aarch64
  Calls,          \* what the kernel does: subset of KernelCalls
  OffCores,       \* the cores the kernel may take offline with CPU_OFF
  Order,          \* how the kernel orders its hotplug calls: one of Orders
  ParkedOutcome,  \* what a power-on request does to a core in wfi
  WfiMayWake      \* TRUE: wfi at EL3 may complete without a request

KernelCalls == {"CPU_ON", "CPU_OFF", "CPU_SUSPEND", "SYSTEM_OFF", "SYSTEM_RESET"}

(***************************************************************************)
(* "any": CPU_ON and CPU_OFF run concurrently.  "oneCall": one at a time,  *)
(* a core on its way up is not waited for.  "online": also waits until a   *)
(* core comes online and a leaving one shows OFF in AFFINITY_INFO (Linux). *)
(* "settled": also waits until a leaving core sleeps in wfi.               *)
(***************************************************************************)
Orders == {"any", "oneCall", "online", "settled"}

ASSUME CoreAssumption ==
  /\ IsFiniteSet(Core)
  /\ BootCore \in Core
  /\ Cluster1 \subseteq Core \ {BootCore}
  /\ OffCores \subseteq Core
  /\ NoReq \notin Req

ASSUME OptionAssumption ==
  /\ Stage2 \in BOOLEAN
  /\ WfiMayWake \in BOOLEAN
  /\ Calls \subseteq KernelCalls
  /\ Order \in Orders
  /\ ParkedOutcome \subseteq {"restart", "asleep"}

VARIABLES
  state,          \* cpus[].state
  entry,          \* cpus[].entry
  context,        \* cpus[].context
  pc,             \* what each core does next
  target,         \* the core a CPU_ON under way is for
  arg,            \* its x2/x3, or the entry a starting core has loaded
  tmp,            \* the value a read-modify-write has read
  aarch64,        \* TIEOFFREG[79]/[96]: cores that reset into AArch64
  vector,         \* TIEOFFREG[80+]/[97+]: cores whose RVBAR is Startup
  powerReq,       \* CPUPOWERONREQ
  cci,            \* CCI-400 ports taking snoop and DVM requests
  cciBusy,        \* ports whose change is not complete (STSR reads one bit)
  handoff,        \* the stage2 handoff signature is in SRAM
  entered         \* entry and context each core last entered the kernel with

slots == <<state, entry, context>>
power == <<aarch64, vector, powerReq>>
bus   == <<cci, cciBusy>>
regs  == <<target, arg, tmp>>
vars  == <<slots, pc, regs, power, bus, handoff, entered>>

States == {"ON", "OFF", "ON_PENDING"}
Ports  == {"G0", "G1"}

BootPcs   == {"startup0", "bootMain", "initCCI", "psciInit", "launch"}
StartPcs  == {"startup", "joinG0", "waitG0", "joinG1", "waitG1", "clearReq"}
LoadPcs   == {"loadEntry", "loadContext"}
WaitPcs   == {"wait", "sleep", "consume"}
OnPcs     == {"notOn", "notPending", "storeEntry", "storeContext",
              "storePending", "readMode", "writeMode", "writeVector",
              "request", "readReq", "writeReq"}
KernelPcs == {"kernel", "suspend"}
StopPcs   == {"off", "wfi", "halted", "astray"}
Pcs == BootPcs \cup StartPcs \cup LoadPcs \cup WaitPcs \cup OnPcs
         \cup KernelPcs \cup StopPcs \cup {"storeOff"}

ClusterOf(c) == IF c \in Cluster1 THEN Cluster1 ELSE Core \ Cluster1
PortOf(c)    == IF c \in Cluster1 THEN "G1" ELSE "G0"

Goto(c, from, to) == pc[c] = from /\ pc' = [pc EXCEPT ![c] = to]

-----------------------------------------------------------------------------
(***************************************************************************)
(* The board powers up: only CPU0 runs, SRAM holds anything, BL1's AArch32 *)
(* half (Stage2) has left the handoff signature.                           *)
(***************************************************************************)
Init ==
  /\ state \in [Core -> States]
  /\ entry = [c \in Core |-> NoReq]
  /\ context = [c \in Core |-> NoReq]
  /\ pc = [c \in Core |-> IF c = BootCore THEN "startup0" ELSE "off"]
  /\ target = [c \in Core |-> c]
  /\ arg = [c \in Core |-> NoReq]
  /\ tmp = [c \in Core |-> {}]
  /\ aarch64 = {BootCore}
  /\ vector = {BootCore}
  /\ powerReq = {}
  /\ cci = {}
  /\ cciBusy = {}
  /\ handoff = Stage2
  /\ entered = [c \in Core |-> <<NoReq, NoReq>>]

-----------------------------------------------------------------------------
(* The boot core, from Reset_Handler to the first entry of the kernel.     *)

\* Reset_Handler: CPU0, and only CPU0, clears .bss, the PSCI slots with it.
ClearBss(c) ==
  /\ Goto(c, "startup0", "bootMain")
  /\ state' = [x \in Core |-> "ON"]          \* PSCI_STATE_ON is zero
  /\ entry' = [x \in Core |-> NoReq]
  /\ context' = [x \in Core |-> NoReq]
  /\ UNCHANGED <<regs, power, bus, handoff, entered>>

\* BootMain of BL1 itself turns on cluster 0's CCI port.
InitCCI400(c) ==
  /\ ~Stage2
  /\ Goto(c, "bootMain", "initCCI")
  /\ cci' = cci \cup {"G0"}
  /\ cciBusy' = cciBusy \cup {"G0"}
  /\ UNCHANGED <<slots, regs, power, handoff, entered>>

\* Mutant: cluster 1's port goes on as well, as the code before it did.
MutBothPorts(c) ==
  /\ Goto(c, "initCCI", "psciInit")
  /\ cciBusy = {}
  /\ cci' = cci \cup {"G1"}
  /\ UNCHANGED <<slots, regs, power, cciBusy, handoff, entered>>

\* It waits for the change, then keeps cluster 1's port off.
InitCCI400Done(c) ==
  /\ Goto(c, "initCCI", "psciInit")
  /\ cciBusy = {}
  /\ cci' = cci \ {"G1"}
  /\ UNCHANGED <<slots, regs, power, cciBusy, handoff, entered>>

\* BootMain of stage2 runs once per handoff and halts without one.
Stage2Handoff(c) ==
  /\ Stage2
  /\ Goto(c, "bootMain", IF handoff THEN "psciInit" ELSE "halted")
  /\ handoff' = FALSE
  /\ UNCHANGED <<slots, regs, power, bus, entered>>

PsciInit(c) ==
  /\ Goto(c, "psciInit", "launch")
  /\ state' = [x \in Core |-> IF x = c THEN "ON" ELSE "OFF"]
  /\ UNCHANGED <<entry, context, regs, power, bus, handoff, entered>>

\* SubCPUBringUp leaves the secondaries off; u-boot and the kernel follow.
Launch(c) ==
  /\ Goto(c, "launch", "kernel")
  /\ UNCHANGED <<slots, regs, power, bus, handoff, entered>>

Boot(c) ==
  \/ ClearBss(c) \/ InitCCI400(c) \/ InitCCI400Done(c) \/ Stage2Handoff(c)
  \/ PsciInit(c) \/ Launch(c)

-----------------------------------------------------------------------------
(* The power controller: what a write of CPUPOWERONREQ does.               *)

Asleep(x) == pc[x] \in {"wfi", "suspend"}

\* Mutant: every core clears .bss, not only CPU0.
MutAllClearBss(x) == IF x \in aarch64 /\ x \in vector THEN "startup0" ELSE "astray"

\* Where a core that is reset starts; in AArch32 or at a stale RVBAR it is lost.
ResetPc(x) == IF x \in aarch64 /\ x \in vector
              THEN (IF x = BootCore THEN "startup0" ELSE "startup")
              ELSE "astray"

\* A bit that goes from 0 to 1 powers an unpowered core on; one that sleeps
\* restarts or sleeps on; one that runs takes no notice.
PowerWrite(c, from, to, bits) ==
  /\ pc[c] = from
  /\ powerReq' = bits
  /\ \E woken \in SUBSET {x \in bits \ powerReq : Asleep(x)} :
       /\ woken # {} => "restart" \in ParkedOutcome
       /\ woken # {x \in bits \ powerReq : Asleep(x)}
            => "asleep" \in ParkedOutcome
       /\ pc' = [x \in Core |->
                   IF x = c THEN to
                   ELSE IF x \in woken \/ (x \in bits \ powerReq /\ pc[x] = "off")
                   THEN ResetPc(x)
                   ELSE pc[x]]

\* The CCI-400 completes its port changes.
CciSettle ==
  /\ cciBusy # {}
  /\ cciBusy' = {}
  /\ UNCHANGED <<slots, pc, regs, power, cci, handoff, entered>>

-----------------------------------------------------------------------------
(* A secondary core: Startup, SubCPUBoot, JoinCCI, waitForCpuOn.           *)

Startup(c) ==
  /\ Goto(c, "startup", "joinG0")
  /\ UNCHANGED <<slots, regs, power, bus, handoff, entered>>

\* EnableCCIPort: nothing to do when the port is on already.
EnableCCIPort(c, port, from, waiting, next) ==
  /\ \/ port \in cci /\ Goto(c, from, next) /\ UNCHANGED bus
     \/ port \notin cci /\ Goto(c, from, waiting)
        /\ cci' = cci \cup {port} /\ cciBusy' = cciBusy \cup {port}
  /\ UNCHANGED <<slots, regs, power, handoff, entered>>

\* Mutant: the poll of STSR has its sense inverted.
MutPollInverted(c, waiting, next) ==
  /\ Goto(c, waiting, next)
  /\ cciBusy # {}
  /\ UNCHANGED <<slots, regs, power, bus, handoff, entered>>

\* Poll STSR until the change is complete.
CCIPortEnabled(c, waiting, next) ==
  /\ Goto(c, waiting, next)
  /\ cciBusy = {}
  /\ UNCHANGED <<slots, regs, power, bus, handoff, entered>>

\* Mutant: JoinCCI forgets cluster 1's port.
MutOnlyG0(c) == "clearReq"

AfterG0(c) == IF c \in Cluster1 THEN "joinG1" ELSE "clearReq"

JoinCCI(c) ==
  \/ EnableCCIPort(c, "G0", "joinG0", "waitG0", AfterG0(c))
  \/ CCIPortEnabled(c, "waitG0", AfterG0(c))
  \/ EnableCCIPort(c, "G1", "joinG1", "waitG1", "clearReq")
  \/ CCIPortEnabled(c, "waitG1", "clearReq")

\* SubCPUBoot writes zero to CPUPOWERONREQ.
ClearOwnRequest(c) ==
  /\ PowerWrite(c, "clearReq", "wait", {})
  /\ UNCHANGED <<slots, regs, aarch64, vector, bus, handoff, entered>>

\* waitForCpuOn: look at the slot, go to sleep unless it is ON_PENDING ...
WaitForCpuOn(c) ==
  /\ Goto(c, "wait", IF state[c] = "ON_PENDING" THEN "consume" ELSE "sleep")
  /\ UNCHANGED <<slots, regs, power, bus, handoff, entered>>

\* ... which takes another two instructions, dsb and wfi.
Wfi(c) ==
  /\ Goto(c, "sleep", "wfi")
  /\ UNCHANGED <<slots, regs, power, bus, handoff, entered>>

\* Mutant: waitForCpuOn leaves the slot ON_PENDING.
MutStaysPending(c) ==
  /\ Goto(c, "consume", "loadEntry")
  /\ UNCHANGED <<slots, regs, power, bus, handoff, entered>>

ConsumeRequest(c) ==
  /\ Goto(c, "consume", "loadEntry")
  /\ state' = [state EXCEPT ![c] = "ON"]
  /\ UNCHANGED <<entry, context, regs, power, bus, handoff, entered>>

LoadEntry(c) ==
  /\ Goto(c, "loadEntry", "loadContext")
  /\ arg' = [arg EXCEPT ![c] = entry[c]]
  /\ UNCHANGED <<slots, target, tmp, power, bus, handoff, entered>>

\* EnterNonSecure, or the return from the SMC of a CPU_OFF.
EnterNonSecure(c) ==
  /\ Goto(c, "loadContext", "kernel")
  /\ entered' = [entered EXCEPT ![c] = <<arg[c], context[c]>>]
  /\ arg' = [arg EXCEPT ![c] = NoReq]
  /\ UNCHANGED <<slots, target, tmp, power, bus, handoff>>

SecondaryEntry(c) ==
  \/ Startup(c) \/ JoinCCI(c) \/ ClearOwnRequest(c)
  \/ WaitForCpuOn(c) \/ Wfi(c) \/ ConsumeRequest(c) \/ LoadEntry(c) \/ EnterNonSecure(c)

\* wfi completes though nothing asked for the core; the loop looks again.
WfiWake(c) ==
  /\ WfiMayWake
  /\ Goto(c, "wfi", "wait")
  /\ UNCHANGED <<slots, regs, power, bus, handoff, entered>>

-----------------------------------------------------------------------------
(* CPU_ON on the calling core: psci.c cpuOn, subcpu.c PowerOnSecondaryCPU. *)

\* An early return, its error code left out: the slot says the same.
Return(c) == /\ target' = [target EXCEPT ![c] = c]
             /\ arg' = [arg EXCEPT ![c] = NoReq]
             /\ tmp' = [tmp EXCEPT ![c] = {}]

\* First read of the state: PSCI_ALREADY_ON.
CheckNotOn(c) ==
  /\ \/ state[target[c]] = "ON" /\ Goto(c, "notOn", "kernel") /\ Return(c)
     \/ state[target[c]] # "ON" /\ Goto(c, "notOn", "notPending")
        /\ UNCHANGED regs
  /\ UNCHANGED <<slots, power, bus, handoff, entered>>

\* Mutant: a pending core is not recognised.
MutNoPendingCheck(c) ==
  /\ Goto(c, "notPending", "storeEntry")
  /\ UNCHANGED <<slots, regs, power, bus, handoff, entered>>

\* Second read of the state: PSCI_ON_PENDING.
CheckNotPending(c) ==
  /\ \/ state[target[c]] = "ON_PENDING" /\ Goto(c, "notPending", "kernel")
        /\ Return(c)
     \/ state[target[c]] # "ON_PENDING" /\ Goto(c, "notPending", "storeEntry")
        /\ UNCHANGED regs
  /\ UNCHANGED <<slots, power, bus, handoff, entered>>

\* Mutant: the state is published with the context still to come.
MutPendingTooEarly(c) ==
  /\ pc[c] = "storeEntry"
  /\ pc' = [pc EXCEPT ![c] = "readMode"]
  /\ state' = [state EXCEPT ![target[c]] = "ON_PENDING"]
  /\ UNCHANGED <<entry, context, regs, power, bus, handoff, entered>>

StoreEntry(c) ==
  /\ Goto(c, "storeEntry", "storeContext")
  /\ entry' = [entry EXCEPT ![target[c]] = arg[c]]
  /\ UNCHANGED <<state, context, regs, power, bus, handoff, entered>>

\* Mutant: the context is not stored.
MutContextLost(c) ==
  /\ Goto(c, "storeContext", "storePending")
  /\ UNCHANGED <<slots, regs, power, bus, handoff, entered>>

StoreContext(c) ==
  /\ Goto(c, "storeContext", "storePending")
  /\ context' = [context EXCEPT ![target[c]] = arg[c]]
  /\ UNCHANGED <<state, entry, regs, power, bus, handoff, entered>>

StorePending(c) ==
  /\ Goto(c, "storePending", "readMode")
  /\ state' = [state EXCEPT ![target[c]] = "ON_PENDING"]
  /\ UNCHANGED <<entry, context, regs, power, bus, handoff, entered>>

\* SetVectorLocation: read-modify-write of the cluster's mode register ...
ReadMode(c) ==
  /\ Goto(c, "readMode", "writeMode")
  /\ tmp' = [tmp EXCEPT ![c] = aarch64 \cap ClusterOf(target[c])]
  /\ UNCHANGED <<slots, target, arg, power, bus, handoff, entered>>

\* Mutant: the value read is written back without the core's bit.
MutNoModeBit(c) ==
  /\ Goto(c, "writeMode", "writeVector")
  /\ aarch64' = (aarch64 \ ClusterOf(target[c])) \cup tmp[c]
  /\ UNCHANGED <<slots, regs, vector, powerReq, bus, handoff, entered>>

WriteMode(c) ==
  /\ Goto(c, "writeMode", "writeVector")
  /\ aarch64' = (aarch64 \ ClusterOf(target[c])) \cup tmp[c] \cup {target[c]}
  /\ UNCHANGED <<slots, regs, vector, powerReq, bus, handoff, entered>>

\* ... then the core's own reset vector.
WriteVector(c) ==
  /\ Goto(c, "writeVector", "request")
  /\ vector' = vector \cup {target[c]}
  /\ UNCHANGED <<slots, regs, aarch64, powerReq, bus, handoff, entered>>

\* Mutant: the caller's bit is set, not the target's.
MutOwnPower(c) ==
  /\ PowerWrite(c, "request", "readReq", {c})
  /\ UNCHANGED <<slots, regs, aarch64, vector, bus, handoff, entered>>

\* BringUpSlaveCPU: set the core's request bit, every other bit zero ...
RequestPower(c) ==
  /\ PowerWrite(c, "request", "readReq", {target[c]})
  /\ UNCHANGED <<slots, regs, aarch64, vector, bus, handoff, entered>>

\* ... and take it away again with a read-modify-write.
ReadRequest(c) ==
  /\ Goto(c, "readReq", "writeReq")
  /\ tmp' = [tmp EXCEPT ![c] = powerReq]
  /\ UNCHANGED <<slots, target, arg, power, bus, handoff, entered>>

\* Mutant: the request bit is set once more instead of cleared.
MutSetsAgain(c) ==
  /\ PowerWrite(c, "writeReq", "kernel", tmp[c] \cup {target[c]})
  /\ Return(c)
  /\ UNCHANGED <<slots, aarch64, vector, bus, handoff, entered>>

ClearRequest(c) ==
  /\ PowerWrite(c, "writeReq", "kernel", tmp[c] \ {target[c]})
  /\ Return(c)
  /\ UNCHANGED <<slots, aarch64, vector, bus, handoff, entered>>

CpuOn(c) ==
  \/ CheckNotOn(c) \/ CheckNotPending(c)
  \/ StoreEntry(c) \/ StoreContext(c) \/ StorePending(c)
  \/ ReadMode(c) \/ WriteMode(c) \/ WriteVector(c)
  \/ RequestPower(c) \/ ReadRequest(c) \/ ClearRequest(c)

\* Mutant: the core publishes OFF and returns to the kernel.
MutOffReturns(c) ==
  /\ Goto(c, "storeOff", "kernel")
  /\ state' = [state EXCEPT ![c] = "OFF"]
  /\ UNCHANGED <<entry, context, regs, power, bus, handoff, entered>>

\* Mutant: the core waits with its slot still ON.
MutOffUnpublished(c) ==
  /\ Goto(c, "storeOff", "wait")
  /\ UNCHANGED <<slots, regs, power, bus, handoff, entered>>

\* Mutant: a leaving core publishes a state the callers do not know.
MutOffStandby(c) ==
  /\ Goto(c, "storeOff", "wait")
  /\ state' = [state EXCEPT ![c] = "STANDBY"]
  /\ UNCHANGED <<entry, context, regs, power, bus, handoff, entered>>

\* cpuOff publishes OFF, then waits like a core that has just started.
CpuOff(c) ==
  /\ Goto(c, "storeOff", "wait")
  /\ state' = [state EXCEPT ![c] = "OFF"]
  /\ UNCHANGED <<entry, context, regs, power, bus, handoff, entered>>

\* cpuSuspend: an interrupt ends the wfi.
SuspendWake(c) ==
  /\ Goto(c, "suspend", "kernel")
  /\ UNCHANGED <<slots, regs, power, bus, handoff, entered>>

-----------------------------------------------------------------------------
(* The kernel: which calls it makes, and when.                             *)

InCall(x)  == pc[x] \in OnPcs \cup {"storeOff"}
AtRest(x)  == pc[x] \in KernelPcs \cup {"off", "wfi", "halted"}
Leaving(x) == pc[x] \in {"wait", "sleep"} /\ state[x] = "OFF"

\* The kernel may start a hotplug call on core c.
MayCall(c) ==
  /\ Order = "oneCall" => \A x \in Core : ~InCall(x)
  /\ Order = "online"  => \A x \in Core : AtRest(x) \/ Leaving(x)
  /\ Order = "settled" => \A x \in Core : AtRest(x)

\* A kernel that keeps track does not start a core it knows to be online.
MayTarget(t) == Order \in {"online", "settled"} => pc[t] \notin KernelPcs

CallCpuOn(c, t, r) ==
  /\ "CPU_ON" \in Calls
  /\ MayCall(c) /\ MayTarget(t)
  /\ Goto(c, "kernel", "notOn")
  /\ target' = [target EXCEPT ![c] = t]
  /\ arg' = [arg EXCEPT ![c] = r]
  /\ UNCHANGED <<slots, tmp, power, bus, handoff, entered>>

\* The last core online stays.
CallCpuOff(c) ==
  /\ "CPU_OFF" \in Calls
  /\ c \in OffCores
  /\ MayCall(c)
  /\ \E x \in Core \ {c} : pc[x] \in KernelPcs
  /\ Goto(c, "kernel", "storeOff")
  /\ UNCHANGED <<slots, regs, power, bus, handoff, entered>>

CallCpuSuspend(c) ==
  /\ "CPU_SUSPEND" \in Calls
  /\ Goto(c, "kernel", "suspend")
  /\ UNCHANGED <<slots, regs, power, bus, handoff, entered>>

\* SYSTEM_OFF parks the calling core for good; the others run on.
CallSystemOff(c) ==
  /\ "SYSTEM_OFF" \in Calls
  /\ Goto(c, "kernel", "halted")
  /\ UNCHANGED <<slots, regs, power, bus, handoff, entered>>

\* SYSTEM_RESET, or an exception EL3 does not expect: the board starts over.
BoardReset(c) ==
  /\ "SYSTEM_RESET" \in Calls
  /\ pc[c] = "kernel"
  /\ state' \in [Core -> States]
  /\ entry' = [x \in Core |-> NoReq]
  /\ context' = [x \in Core |-> NoReq]
  /\ pc' = [x \in Core |-> IF x = BootCore THEN "startup0" ELSE "off"]
  /\ target' = [x \in Core |-> x]
  /\ arg' = [x \in Core |-> NoReq]
  /\ tmp' = [x \in Core |-> {}]
  /\ aarch64' = {BootCore} /\ vector' = {BootCore} /\ powerReq' = {}
  /\ cci' = {} /\ cciBusy' = {} /\ handoff' = Stage2
  /\ entered' = [x \in Core |-> <<NoReq, NoReq>>]

Kernel(c) ==
  \/ \E t \in Core, r \in Req : CallCpuOn(c, t, r)
  \/ CallCpuOff(c) \/ CallCpuSuspend(c) \/ CallSystemOff(c) \/ BoardReset(c)

-----------------------------------------------------------------------------
\* What a core's own instructions do, without the kernel's choices.
Firmware(c) == Boot(c) \/ SecondaryEntry(c) \/ CpuOn(c) \/ CpuOff(c)

Next ==
  \/ \E c \in Core : Firmware(c) \/ WfiWake(c) \/ SuspendWake(c) \/ Kernel(c)
  \/ CciSettle

Spec == Init /\ [][Next]_vars

\* A powered core executes its instructions and the bus answers; the kernel
\* need not call, and nothing needs to wake a sleeping core.
FairSpec == Spec /\ (\A c \in Core : WF_vars(Firmware(c))) /\ WF_vars(CciSettle)

-----------------------------------------------------------------------------
(* Properties.                                                             *)

\* Every variable has its type.
TypeOK ==
  /\ state \in [Core -> States]
  /\ entry \in [Core -> Req \cup {NoReq}]
  /\ context \in [Core -> Req \cup {NoReq}]
  /\ pc \in [Core -> Pcs]
  /\ target \in [Core -> Core]
  /\ arg \in [Core -> Req \cup {NoReq}]
  /\ tmp \in [Core -> SUBSET Core]
  /\ aarch64 \subseteq Core
  /\ vector \subseteq Core
  /\ powerReq \subseteq Core
  /\ cci \subseteq Ports
  /\ cciBusy \subseteq Ports
  /\ handoff \in BOOLEAN
  /\ entered \in [Core -> (Req \cup {NoReq}) \X (Req \cup {NoReq})]

Booting    == pc[BootCore] \in BootPcs
Running(c) == pc[c] \in KernelPcs \cup OnPcs \cup {"storeOff"}

\* What AFFINITY_INFO and CPU_ON read of a core that runs the kernel is ON,
\* so neither a second start nor a false "it is gone" can come of it.
RunningCoreIsOn == \A c \in Core : Running(c) => state[c] = "ON"

\* A core AFFINITY_INFO shows OFF executes no kernel code, whatever the order
\* of the calls: a kernel that polls for OFF may free what the core used.
OffMeansGone == \A c \in Core : state[c] = "OFF" => ~Running(c) \/ Booting

\* No secondary enters the kernel through a slot that was never filled,
\* whatever the order of the calls.
EnteredByARequest ==
  \A c \in Core \ {BootCore} :
    Running(c) => entered[c][1] \in Req /\ entered[c][2] \in Req

\* A secondary runs the kernel with the entry point and the context of one
\* and the same CPU_ON: two callers never mix their arguments in a slot.
EnteredByOneRequest ==
  \A c \in Core \ {BootCore} :
    Running(c) => entered[c][1] = entered[c][2] /\ entered[c][1] \in Req

\* From ON_PENDING until the core has loaded it, nobody rewrites its slot.
SlotStable ==
  [][\A t \in Core :
       (state[t] = "ON_PENDING" \/ pc[t] \in LoadPcs) /\ ~Booting /\ ~Booting'
         => entry'[t] = entry[t] /\ context'[t] = context[t]]_vars

\* A secondary is in the kernel only with CPU0's port and its own cluster's
\* on and the change complete: JoinCCI has put it into coherency.
CoherentInKernel ==
  \A c \in Core \ {BootCore} :
    Running(c) => {"G0", PortOf(c)} \subseteq cci \ cciBusy

\* Cluster 1's port takes DVM requests only when a core of it is powered;
\* otherwise the kernel's next broadcast would wait for it for ever.
PortOnlyIfPowered ==
  "G1" \in cci => \E c \in Cluster1 : pc[c] # "off"

\* Every core powered on starts in AArch64 at this image's Startup.
NeverAstray == \A c \in Core : pc[c] # "astray"

\* A core that sleeps in waitForCpuOn can be asked for: with its slot ON,
\* CPU_ON would answer ALREADY_ON and the core would be lost.
SleeperCanBeStarted == \A c \in Core : pc[c] \in {"sleep", "wfi"} => state[c] # "ON"

\* A core that comes back through Startup finds its slot set, or finds it
\* OFF because nobody asked: never ON (the comment at psci.c:98-105).
RestartFindsSlot ==
  \A c \in Core : pc[c] \in {"startup", "startup0"} /\ ~Booting => state[c] # "ON"

\* .bss, and the slots in it, is cleared before any secondary is powered.
BssClearedAlone ==
  [][\A c \in Core : pc[c] = "startup0" /\ pc'[c] = "bootMain"
       => \A x \in Core \ {c} : pc[x] = "off"]_vars

\* A CPU_ON that succeeded ends with its core in the kernel.
PendingCoreEnters ==
  \A t \in Core : (state[t] = "ON_PENDING" /\ ~Booting) ~> pc[t] = "kernel"

-----------------------------------------------------------------------------
(***************************************************************************)
(* What makes OffMeansGone, EnteredByARequest and PortOnlyIfPowered hold   *)
(* for every order of the calls, as long as the kernel keeps CPU0 online.  *)
(***************************************************************************)

\* CPU0 boots while the others are off, and nothing ever restarts it.
BootAlone ==
  /\ pc[BootCore] \in BootPcs \cup KernelPcs \cup OnPcs \cup {"halted"}
  /\ \A c \in Core \ {BootCore} : pc[c] \notin BootPcs
  /\ Booting => \A c \in Core \ {BootCore} : pc[c] = "off"

\* Its slot says ON, so no CPU_ON gets as far as asking for its power.
BootCoreNotAsked ==
  /\ pc[BootCore] # "startup0" => state[BootCore] = "ON"
  /\ \A c \in Core : pc[c] \in OnPcs \ {"notOn"} => target[c] # BootCore
  /\ BootCore \notin powerReq
  /\ \A c \in Core : pc[c] = "writeReq" => BootCore \notin tmp[c]

\* A caller writes the arguments it was given, in order, before the state.
CallerHoldsRequest ==
  \A c \in Core :
    /\ pc[c] \in {"notOn", "notPending", "storeEntry", "storeContext"}
         => arg[c] \in Req
    /\ pc[c] \in {"storeContext", "storePending"} => entry[target[c]] \in Req
    /\ pc[c] = "storePending" => context[target[c]] \in Req

\* From ON_PENDING until the core has left for the kernel its slot is filled.
PendingSlotFilled ==
  pc[BootCore] # "startup0" =>
    \A c \in Core \ {BootCore} :
      /\ state[c] = "ON_PENDING" \/ pc[c] \in {"consume"} \cup LoadPcs
           => entry[c] \in Req /\ context[c] \in Req
      /\ pc[c] = "loadContext" => arg[c] \in Req

\* Only the core itself writes OFF, and only when it leaves the kernel.
OffOnlyWhenLeaving ==
  \A c \in Core : pc[c] \in LoadPcs \/ Running(c) => state[c] # "OFF"

\* Only cores of cluster 1 are on their way to its port.
JoinsOwnPort == \A c \in Core : pc[c] \in {"joinG1", "waitG1"} => c \in Cluster1

AnyOrderInv ==
  /\ BootAlone /\ BootCoreNotAsked /\ CallerHoldsRequest /\ PendingSlotFilled
  /\ OffOnlyWhenLeaving /\ JoinsOwnPort /\ EnteredByARequest /\ PortOnlyIfPowered
=============================================================================
