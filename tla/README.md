# Verification of BL1 for the S5P6818 (GEC6818)

BL1 is the first program of the board that is not in ROM. The boot ROM loads it
into SRAM; it sets up clocks, regulators and DRAM, loads the next stage (u-boot,
or the ARM Trusted Firmware loader) from SD/eMMC or over USB and jumps to it.
Built with `SKIP_ATF=y`, the default, it also stays resident at EL3 and is the
PSCI firmware of the running kernel. Paths below are relative to the repository.

These modules model the parts of it in which several things happen at once or
can go wrong half-way, check them with TLC on small instances, and prove with
TLAPS what holds for any number of cores, any sequence of resets and suspends and
any size of image. `PROJECT.json` has the exact source
lines of every definition, the runs, and for every checked property a mutated
definition under which it fails.

## 1. Inventory

### Components, their state and how they interact

| Component | Source | State it keeps | Operations | Status |
|---|---|---|---|---|
| PSCI and core hotplug | `src/psci.c`, `src/subcpu.c`, `src/aarch64_exception_handler.c` | `cpus[]` (state, entry, context), TIEOFF reset modes and vectors, `CPUPOWERONREQ`, CCI-400 ports | CPU_ON, CPU_OFF, CPU_SUSPEND, AFFINITY_INFO, SYSTEM_OFF/RESET, power-on path of a secondary | `PsciSmp`, `Psci`, `PsciRefinement`, proved about in `PsciSmpProofs`, `PsciSerialProofs`, `PsciRefinementProofs` |
| Startup, way out of EL3 | `src/startup_aarch64.S`, `src/aarch64_libs.S` | `.bss`, stacks, vectors | Reset_Handler, CPUBRINGUP, EnterNonSecure | in `PsciSmp`, as far as cores interact |
| stage2 | `src/stage2_main.c` | handoff words in SRAM | takes the handoff once, then the same resident firmware | in `PsciSmp` (`Stage2`) |
| SD/MMC boot | `src/iSDHCBOOT.c` | `SDXCBOOTSTATUS`, controller registers and FIFO, header and image in memory | Init, IdentifyCard, Open, ReadSectors, SDMMCBOOT, Close | `SdCard`, `SdBoot`, `SdBootProofs` |
| USB download | `src/iUSBBOOT.c` | `USBBOOTSTATUS`, OTG registers and FIFOs | polling loop, reset, enumeration, endpoint 0, bulk OUT | `UsbBoot`, `UsbBootProofs` |
| BootMain | `src/secondboot.c`, `src/lib2ndboot.c` | TBI, resume flag, alive scratch registers | resume detection, both DDR attempts, load switch, CRC_CHECK, launch, ROM USB fallback, division | `Boot`, `Arith`, `BootProofs`, `ArithProofs` |
| Suspend and wake-up | `src/sleep.c`, `src/startup_aarch32.S` | scratch registers, wake-up logic, `g_wakeup_ready`, DRAM self refresh | Sleep on every core, sleepMain, vddPowerOff, dowakeup | `Suspend`, `Boot`, `BootProofs` |
| DDR3 initialisation | `src/init_DDR3.c` | levelling results (`g_GT_cycle` ...) | POR sequence, the trainings, self refresh in and out | `Ddr3`, `Arith` (control and encodings), `BootProofs`, `ArithProofs` |
| LPDDR3 initialisation | `src/init_LPDDR3.c`, built with `MEMTYPE=LPDDR3` | levelling results | the same entry points for the other memory type | `Lpddr3` (control) |
| PMIC, GPIO I2C, clocks | `src/pmic.c`, `src/i2c_gpio.c`, `src/clockinit.c`, `src/sysbus.c` | `started`, pin latches, PLL registers | bit-banged transfers, regulator set-up, PLL change | `PmicI2c`, `PmicI2cProofs`; clocks not modelled |
| TrustZone set-up | `src/SecureManager.c` | TZPC, TZASC, GIC | straight-line writes | not modelled |
| Debug, display | `src/debug.c`, `src/printf.c`, `src/display.c`, ... | UART, framebuffer | formatting and drawing | not modelled |
| CRC, decryption | `src/CRC32.c`, `src/CRYPTO.c` | none | pure data computations | not modelled |
| FAT, memory test | `src/fatfs.c`, `src/diskio.c`, `src/memtester.c` | | not in the default build | not modelled |
| Host tools, register library | `tools/`, `prototype/` | | image layout, emulator, vendored accessors | not modelled |

The flow on CPU0: Startup → BootMain → (PMIC, PLL, DDR3, CCI, TrustZone,
`psciInit`) → `dowakeup` after a suspend, otherwise the loader of the boot
device → the next stage, or the ROM's USB boot when loading failed. From the
launch on, BL1 runs only when a core makes an SMC or is powered on. PSCI is the
one part in which cores run concurrently; they share memory (`cpus[]`) and three
device registers, and use no lock, only the order of stores. The two loaders run
on one core against a device that acts by itself: the SD controller fills its
FIFO and raises status bits, the USB host sends and resets when it likes.

### What is hard, and what makes a component correct

- **PSCI.** Eight cores, no locks, a power-on request that is a pulse and not a
  level, stores that must be seen in order, a core that takes its request with
  or without being restarted, read-modify-writes of registers shared by four
  cores, a coherency port that hangs the system when it is on too early or too
  late. Correct: a slot never mixes two calls; a core enters the kernel with
  exactly one request, in coherency; OFF means gone; a request that was accepted
  is served; `.bss` is not cleared under a running system.
- **SD boot.** Commands, responses and data may be lost or damaged; a card the
  boot ROM has used starts in any state; the FIFO fills while the loop samples
  three registers one after the other; some waits have no timeout, one timeout
  wraps; the header and the payload are read with different offsets. Correct: an
  opened card is understood as far as its checked answers go, CTRUE means that
  all the data is there, nothing lands in SRAM, the attempt returns but for the two
  waits that can go on for ever.
- **USB boot.** The host may stop at any point and start over; interrupts are
  cleared wholesale after they were handled; FIFOs are never flushed; endpoint
  0 has a state that an aborted read leaves behind. Correct: a finished download
  is one whole attempt, no packet is overrun, a patient host succeeds.
- **BootMain and suspend.** A reset between any two steps, scratch registers that
  survive it, secondaries that wait in SRAM while DRAM is out of reach, DRAM that
  may or may not hold its content. Correct: a kernel is resumed once and on what
  it left; BL1 launches what it has loaded; every boot whose waits end ends in a
  launch or in the ROM's USB boot, every such suspend with the power off or with all
  cores back.
- **DRAM.** Bounded polls whose failure is partly ignored, an error return from
  the middle, trainings that write to DRAM even on a resume. Correct: whoever
  uses DRAM next finds chips that answer with what they hold; controller and
  chips agree on the latencies.
- **I2C.** Early returns out of the middle of a transfer, a slave that stretches
  the clock past the timeout, a bus that a reset has left in any state. Correct:
  what is read is true, nothing is written by accident, the boot goes on.

The list of hazards with their lines is in `PROJECT.json`.

## 2. Modules

| Module | What it is |
|---|---|
| `PsciSmp` | the resident firmware on all cores, one step per shared access |
| `Psci` | abstract specification: what PSCI promises about CPU_ON and CPU_OFF |
| `PsciRefinement` | the mapping under which `PsciSmp` implements `Psci` |
| `MCPsciSmp` | instances for TLC |
| `PsciSmpProofs` | what holds of `PsciSmp` in any order of the kernel's calls |
| `PsciSerialProofs` | what holds of it under a kernel that tracks its cores, EXTENDS `PsciSmpProofs` |
| `PsciRefinementProofs` | that it implements `Psci`, EXTENDS `PsciRefinement` and `PsciSerialProofs` |
| `SdCard` | card and command layer of the SD driver, as operators |
| `SdBoot` | the SD boot attempt, EXTENDS `SdCard`; driver against controller |
| `MCSdBoot` | instances for TLC |
| `SdBootProofs` | theorems about `SdBoot` and `SdCard` |
| `UsbBoot` | the USB download: driver against core and host |
| `UsbBootProofs` | theorems about `UsbBoot` |
| `Ddr3` | DRAM, its controller and the routines of `init_DDR3.c` |
| `Lpddr3` | the routines of `init_LPDDR3.c` on the same controller, EXTENDS `Ddr3` |
| `Suspend` | going to sleep on all cores, EXTENDS `Ddr3` |
| `Boot` | the whole board: BootMain, resume, resets, EXTENDS `Suspend` and `Lpddr3` |
| `MCBoot` | instances for TLC |
| `BootProofs` | theorems about `Boot` and the layers under it |
| `PmicI2c` | the bit-banged I2C master and the PMIC set-up against a slave |
| `PmicI2cProofs` | theorems about `PmicI2c` |
| `Arith` | the division of the AArch32 build, the encoding of DDR3 timings |
| `ArithProofs` | theorem about the encodings of `Arith` |

Definitions whose name starts with `Mut` are plausible mistakes in the action
next to them. No specification uses them; they document what each property
would catch.

### PsciSmp

`state`, `entry`, `context` are `cpus[]`. `pc[c]` names the next access core `c`
makes to shared state. `target`, `arg`, `tmp` are the locals of a CPU_ON under
way. `aarch64` and `vector` are the reset mode and RVBAR bits in TIEOFF,
`powerReq` is `CPUPOWERONREQ`, `cci`/`cciBusy` the CCI-400 ports and their
pending change, `handoff` the stage2 signature. `entered` is a history variable:
what each core last entered the kernel with.

| Code | Actions |
|---|---|
| `Reset_Handler`, `BootMain`'s CCI and PSCI steps, stage2's `BootMain` | `ClearBss`, `InitCCI400`, `InitCCI400Done`, `Stage2Handoff`, `PsciInit`, `Launch` |
| `cpuOn` (`psci.c:123-143`) | `CheckNotOn`, `CheckNotPending`, `StoreEntry`, `StoreContext`, `StorePending` |
| `SetVectorLocation`, `BringUpSlaveCPU` (`subcpu.c:54-85`) | `ReadMode`, `WriteMode`, `WriteVector`, `RequestPower`, `ReadRequest`, `ClearRequest` |
| `SubCPUBoot`, `JoinCCI` (`subcpu.c:107-153`) | `Startup`, `JoinCCI`, `ClearOwnRequest` |
| `waitForCpuOn`, `psciSecondaryEntry` (`psci.c:98-121`) | `WaitForCpuOn`, `Wfi`, `ConsumeRequest`, `LoadEntry`, `EnterNonSecure` |
| `cpuOff`, `cpuSuspend`, `psciHandler` | `CpuOff`, `SuspendWake`, `CallCpuOn`, `CallCpuOff`, `CallCpuSuspend`, `CallSystemOff`, `BoardReset` |

Memory is sequentially consistent: BL1 puts a `dsb` after the stores to the
slots, and its data accesses are uncached at EL3. The outside is a set of
parameters, because neither the code nor the chip's documents settle it:

- `Order` is how the kernel orders its hotplug calls. `online` is Linux: one
  call at a time, waiting for the core to be online or for AFFINITY_INFO to say
  OFF. `settled` also gives a leaving core the time to reach `wfi`. `any` is no
  order at all.
- `ParkedOutcome`: whether a power-on request restarts a core that sleeps in
  `wfi`, or leaves it asleep. `docs/SMP_PSCI.md` says that this is not known.
- `WfiMayWake`: whether the `wfi` of a parked core may complete by itself.

### SdCard, SdBoot

A command exchange is one step that ends in one of the outcomes of
`SendCommandInternal`: no start, no response, a response seen to be damaged with the
command executed or not, or a response taken for good. The OCR, the answer to
SD_SEND_OP_COND and SEND_OP_COND, is requested without `CHKRSPCRC`
(`iSDHCBOOT.c:522`, `565`), so that the bits the driver looks at, "powered up" and
"high capacity", may have flipped in an answer that is taken for good (`Unchecked`,
`Arrived`). The failed command's extra SEND_STATUS (`SendCommand`) and the status that
`SendAppCommand` does not return are kept. A command or a new clock that raises HLE is
written again without a limit (`LockedOut`, `WriteAgain`); where one step sends
several commands this stands for the first, which is enough, since all a retry
does is not to get on.

Around it `SdBoot` has one action per statement of `NX_SDMMC_ReadSectorData` that
looks at the hardware: `Poll`, `WaitFifo`, `Sample`, `Drain` (the words that were
counted), `ClearRequest` (RXDR cleared, also if it was raised since), `Check`. They
interleave with `Receive`, `BlockEnd`, `AutoStopSent`, `DataError` of the controller,
which stops the card's clock when the FIFO is full and raises RXDR for a unit that
arrives, not for one that lies there. Data is counted in units of 256 bytes; a unit
holds its own position on the device, so lost, repeated and misplaced data all show.
A card that is addressed the wrong way sends another part of the device, or refuses
an offset at which no sector begins (`Started`).

### UsbBoot

`Poll` to `Clear` are one pass through `nx_udc_int_hndlr`, in its order, with
bus and host acting between any two of them. `sampled` is `int_status`. `usb` is
`USBBOOTSTATUS`, `core` what the driver sees of the OTG core, `tbi` and `mem` the
header and the payload in memory, each unit marked with the attempt it came
from. `Transfer` has no step for the wait for room in the transmit FIFO
(`iUSBBOOT.c:707-709`): the interrupt that leads there, INTKN_TXFEMP, says that the
FIFO is empty, 512 words of which 64 are asked for. The host goes through the
requests of an enumeration, sends a boot image or another file, and may be cut off and
reset the bus in every state.

### Ddr3, Lpddr3, Suspend, Boot

One state machine in three layers; each layer adds its variables and leaves the
others alone. `Ddr3` has the state that decides whether DRAM keeps and returns
data: the mode the chips are in (`chip`), the refresh counter and the pattern
generator of the controller (`drex`), the kind of contents (`mem`). `ddr.at` is
the step of the routine under way, so that a reset can come between any two.
`mode` is the memory type and the trainings the header asks for. `Lpddr3` drives
the same state: its chips are trained by a mode register that is read, so no
training puts them into a mode, write levelling is not built, and the reset by
MR63 leaves their data undefined (`LpCommands`); the write training and the end
of the routine are those of `Ddr3`.
`Suspend` adds CPU0 (`cpu0`), the secondaries (`sub`), `g_wakeup_ready`
(`wakeFlag`), the pending software interrupts and the alive domain (`alive`: the
signatures in the scratch registers, the wake-up status and what is pending).
`Boot` adds `resume` (`isResume`), `loaded` (`Result`) and the board's options.

| Code | Actions |
|---|---|
| `init_DDR3` (`init_DDR3.c:1570-2733`) | `InitReset`, `InitCommands`, `WriteLeveling`, `GateLeveling`, `ReadDqCalibration`, `WriteLatencyCalibration`, `WriteDqCalibration`, `InitFinish` |
| `init_LPDDR3` (`init_LPDDR3.c:1136-2353`) | `LpReset`, `LpCommands`, `LpGateLeveling`, `LpReadDqCalibration`, `LpWriteDqCalibration`, `LpFinish` |
| `enterSelfRefresh`, `exitSelfRefresh` | `EnterSelfRefresh`, `ExitSelfRefresh`, `LpEnterSelfRefresh`, `LpExitSelfRefresh` |
| `Sleep` and `subCPUsleep` (`startup_aarch32.S`) | `CallSleep`, `SubEnter`, `SubWfi`, `SubSgi`, `SubSpurious`, `SubChecks` |
| `sleepMain`, `vddPowerOff` (`sleep.c`) | `WaitForSubs`, `LockDrex`, `SelfRefreshEntered`, `VddPowerOff`, `VddOff`, `LeaveSelfRefresh`, `UnlockDrex`, `WakeSubs`, `SetReady` |
| `BootMain` (`secondboot.c`) | `ResetHandler`, `ReadScratch`, `InitDDR3Returns`, `ExitIfResume`, `SecureState`, `Load`, `CheckBody`, `Launch` |
| `dowakeup` (`sleep.c:36-99`) | `WakeupSignature`, `WakeupKernel`, `WakeupAtf` |

External, modelled from what the code relies on: the kernel that leaves a
signature and calls Sleep on its cores (`StageRuns`, `PrepareSuspend`), the
user, the watchdog and the supplies (`WakeEvent`, `WakeUp`, `WarmReset`,
`UsbReboot`, `PowerLoss`), cells that nobody refreshes (`Decay`). A loader is
its result, if it returns: `SdBoot` shows when it does and that success means a whole
image, `UsbBoot` that a finished download is whole and that a patient host gets it
across. Without a host `iUSBBOOT` polls for ever (`iUSBBOOT.c:877`), so `Load` need not
come to an end. `Waiting` names the steps of CPU0 that wait for something outside
BL1 without a limit: the loaders, the DREX ports, and in the memory routines
(`DdrWaits`, `LpWaits`) the PHY, its calibration and its DLL, and the chips that
enter or leave self refresh. What the kernel's CRC covers is its
own choice, so memory that lost only the row of the write trainings (`"holed"`)
may pass; memory that was lost does not.

### PmicI2c

The master has one action per change or look at the wires (`StartBegin` to
`StopSample`), named after `I2C_Start`, `I2C_WriteBit`, `I2C_ReadBit`,
`I2C_Stop`; `Timeout` is the return of `ErrorHandler` out of any of them.
`Operations` lists what one `I2C_Read` or `I2C_Write` consists of, `Call` the
nine that `PMIC_GEC6818` makes, `NextCall` which failures it looks at. A byte has
two bits: enough for values, register numbers and an address to differ, for a
byte to be cut in the middle, and for a missing bit to turn one into another.
The slave (external) follows the edges of the wires and may refuse or stretch.

### Arith

`getquotient` and `getremainder` (`lib2ndboot.c`) are one loop iteration per step
on words of `Width` bits. `Latencies`, `CasCode` and `ModeRegisters` are the two
places in which `init_DDR3` turns the header's timings into register fields;
`CasLatency` is the chips' own table, from `ddr3_sdram.h`.

## 3. Runs

| Run | What it asks | Bounds |
|---|---|---|
| `smp_online` | Under Linux's order: types, slots never mixed or rewritten, running cores read ON, coherency before the kernel, nobody resets astray; implements `Psci` | 4 cores in 2 clusters, 2 requests, requests leave sleepers asleep; 190,739 states |
| `smp_any` | No order, wfi may wake, SYSTEM_OFF and SYSTEM_RESET at any time: `AnyOrderInv`, OFF means gone, entered by a request, cluster 1's port only when powered, `.bss` cleared alone | 3 cores, 1 request; 214,698 states |
| `smp_live` | stage2's firmware under the settled order: a sleeping core can be started, a restarted one finds its slot, every accepted CPU_ON ends in the kernel; implements `Psci` with its fairness | 3 cores, 2 requests, no symmetry; 5,884 states |
| `sd_boot` | 13 cards, 4 images, a faulty bus: the driver agrees with the card, the read loop delivers everything or fails, the image is complete, the attempt returns unless the controller stays locked or its only request was cleared | FIFO of 2 units, 2 polls per wait; 457,568 states |
| `usb_boot` | Both speeds and paces, cut off anywhere: one whole attempt, no overrun, patient hosts succeed | payload of 3 units; 572,527 states |
| `boot` | Boots, suspends and resets at any step: no core in DRAM while it is out of reach, DRAM usable when used, a kernel resumed once and on what it left, the loaded image launched; boots and suspends end, or wait for ever where the code has no limit | one secondary per cluster, DDR3 with gate training only or all, LPDDR3 with all, 2 resets, 2 suspends, 1 spurious wake-up; 334,206 states |
| `pmic` | Any three stretches or refusals, any state of the bus after a reset: true reads, only meant writes, the set-up returns | 3 faults, setpoints 1 and 2; 59,726 states |
| `arith` | Every division and every timing of the tables: exact quotients, controller and chips agree | words of 5 bits; 9,008 states |
| `bug_lost_wakeup`, `bug_sd_overlap`, `bug_pmic_bridge`, `bug_mr1` | the findings of section 5 | as above, smaller |

Why the bounds are enough. *Cores:* the conflicts are between a caller and its
target, two callers for one target, two cores of one cluster sharing TIEOFF and
a CCI port, and cores of different clusters; three cores with two in cluster 1
have the first three, four cores all of them. *Requests:* two tell a mixed slot
from an intact one; `smp_any` checks nothing that compares requests. There is no
bound on the number of calls, all runs cover endless hotplug. *SD:* the header
read has one sector and the payload read three, so that the last block, a block
with successors and the auto stop all occur, with an image that ends within a
sector and one that ends with it; a FIFO of one
sector makes the card's clock stop; the countdowns are short, but both their
end and their wrap are reached. *USB:* three units give a last packet shorter
than the others at high speed and several packets at full speed, an attempt can
be cut between any two. The payload's length is not a multiple of the packet.
*Boot:* the secondaries only differ in their cluster, which decides who is waited
for and when; two resets reach a reset during the boot after a reset, two
suspends a second one that starts from what the first has left in the scratch
registers, in `g_wakeup_ready` and in DRAM. *PMIC:* three faults can hit three
transfers in a row, or one transfer and the START after it; the state in which a
write is half sent needs one. *Arith:* five bits have divisors with the top bit
set, equal words, zero, and every length of the skipped prefix; 32 only adds
more of the same. The timings are complete.

`smp_any`, `boot` and the runs of `SdBoot`, `UsbBoot`, `PmicI2c` and `Arith`
switch the deadlock check off: SYSTEM_OFF stops the system by design, a board in
the ROM's USB boot stays there, an attempt or a computation returns.

**Fairness.** `PsciSmp`: a powered core goes on executing instructions and the
CCI completes its changes; neither the kernel's calls nor a wake-up from `wfi`
is assumed. `SdBoot`: CPU0 runs on, the controller and the card finish what they
have started (an error or the controller's data timeout is one way to finish).
Nothing is assumed of a locked controller: one that raises HLE time and again keeps the
driver for ever, and `BootReturns` names that outcome, as it does the other one
(`Starved`): the FIFO fills up between the last word read and the clear of RXDR
(`iSDHCBOOT.c:883`), which stops the card's clock, and nothing comes after that. It
says that there is no third. Three waits without a limit are assumed to end: the
reset of controller, DMA and FIFO, the card's busy signal before a read
(`FsmBusy`), and the auto stop of a transfer that is over.
`UsbBoot`: CPU0 polls on, and a host that has begun continues or starts over;
giving up without being stuck (`Abort`) is not fair, and `DownloadEnds` is only
claimed when it stops. `EnumDone`, the end of a bus reset, is raised only when
the driver is idle: a reset lasts 10 ms at least. That it is lost to the clearing of
GINTSTS is thereby excluded. A *patient* host waits for the
driver between its requests, which is what enumeration delays do; without it the
clearing of all of GINTSTS can lose events for ever, so a *hurried* host is
covered by the safety properties only. `Boot`: CPU0 and the secondaries go on
executing, a poll with a limit ends, and a kernel that has begun to suspend
calls Sleep on all its cores; nobody need wake the board, suspend it or reset it. A
step in `Waiting` may never come to an end: there the code has no limit and no way
out, and `BootEnds` and `SuspendEnds` say that apart from it (`[]Waiting`) a boot or a
suspend gets through.
`PmicI2c`: the master runs on; the slave may hold the clock for ever. `Arith`: it
computes on.

## 4. Proofs

Every invariant below is inductive, so that it holds of an unbounded run: TLC
checked it on the instances of section 3 (and, for USB, payloads of 1 and 3 units)
before it was proved. The assumptions are those the modules name
(`CoreAssumption`, `OptionAssumption`, `SdAssumption`, `UsbAssumption`,
`BootAssumption`, `SuspendAssumption`, `BusAssumption`, `I2cAssumption`), which say what kind of
thing a constant is; hypotheses beyond them are named here.

### PSCI in any order (`PsciSmpProofs`)

For every finite set of cores, every set of requests, every choice of calls, orders
and wfi behaviour: `TypeCorrect`; and, if CPU0 is not taken offline
(`BootCore \notin OffCores`), `AnyOrderSafe`, from which `OffIsGone`,
`EntersByARequest`, `PortPowered` and `ClearsBssAlone` follow. Without that
hypothesis the claim is false: when a CPU_ON restarts CPU0, `Reset_Handler` clears
`.bss` and BootMain runs again under the live system.

These properties are not inductive. That a core shown OFF runs no kernel
code depends on who may write OFF (`OffOnlyWhenLeaving`) and on CPU0 not booting
a second time: `BootAlone` says that it boots while the others are off and is
never at Startup again, which needs `BootCoreNotAsked` (its slot reads ON, so no
CPU_ON gets as far as its power bit, nor does its bit get into a value another
core has read from `CPUPOWERONREQ`). That a core enters through a filled slot
needs the order of the three stores in `cpuOn` (`CallerHoldsRequest`) and, from
ON_PENDING to the kernel, that both arguments are there (`PendingSlotFilled`),
even when callers overtake each other. That the port is on only with a powered
core needs `JoinsOwnPort`. The proof has one lemma per group of actions and one
step per action; `PowerWriteEffect` is the lemma that says what a write of
`CPUPOWERONREQ` can do to other cores.

### PSCI under a kernel that tracks its cores (`PsciSerialProofs`)

The hypothesis is `TrackedCalls`: the order is `online` or `settled`, a `wfi` at
EL3 completes only on a request, and CPU0 stays online. All three are needed. Two
CPU_ONs at once get past both checks of a slot, and lose a mode bit; Linux excludes
that (its `cpu_hotplug_lock`, and the wait until the core is online or reads OFF). A
`wfi` that completes by itself lets a core that finding 1 has stranded take
its request between the two reads of the next `cpuOn` (`psci.c:130-133`), which then
fills a slot that is being loaded (TLC shows it for `smp_online` with `WfiMayWake`
set). And CPU0 offline is the case above; nothing in BL1 forbids it
(MIGRATE_INFO_TYPE answers that there is nothing to migrate), so that it is a
restriction on the kernel.

`SerialSafe` proves an invariant in four layers on top of `AnyOrderInv`:

- `CallInv`: one call at a time; its target is down or on its way down until
  ON_PENDING is published (`CalledIsDown`, `SlotFollowsCore`); both fields of
  the slot are then of the same call (`CallerStoresOne`, `SlotHoldsOne`).
- `PowerInv`: a core starts alone, so that the read-modify-write of
  `CPUPOWERONREQ` finds and leaves no other core's bit (`OneRequestBit`); the reset
  mode and the vector of a core are set before it is asked for (`ResetReady`).
- `CciInv`: a port change is under way only while somebody polls for it, and
  at each step of `JoinCCI` the ports joined so far are on.
- `BootInv`: what stage2's handoff and the slots are while CPU0 boots.

From it: `RunningIsOn`, `EntersByOneRequest`, `StartsInAArch64`,
`JoinsBeforeKernel`, and the action property `SlotIsStable`. With the
settled order `SettledSafe` adds that the target of a call has arrived
(`TargetSettled`) and that each slot fits what its core does (`SlotFits`);
`SleepersCanBeStarted` and `RestartsFindTheirSlot` follow. In the `online` order
both are false: a leaving core may take its request before the pulse comes, and the
pulse then restarts it out of a CPU_SUSPEND, with its slot ON (section 5).

### The refinement (`PsciRefinementProofs`)

`FirmwareKeepsThePromise`: under `TrackedCalls`, `Spec => ImplementsPsci`.
`PromiseInit` maps the initial states. `Unseen` says what it takes for a step to
stutter: that no core's shown state changes and no slot that counts; every action
is either unseen or one of the four steps of `Psci`: `StorePending` is its
`CpuOn` (here `CallInv` is needed: the slot holds the request of this very call),
`EnterNonSecure` its `Enter`, `CpuOff` its `CpuOff`, and a board reset its `Reset`.
The fairness of `Psci` is checked by TLC only (`ServesPsci`).

### The SD boot attempt (`SdBootProofs`)

For all cards, images, FIFO sizes and timeouts, on a bus that loses and damages
commands, responses and data. What an exchange can leave of a card is stated once
per layer of the driver (`ExecutedCommand`, `InternalEnding`, `CommandEnding`,
`AppCommandEnding`). Two invariants are proved together with the types:

- `CardInv` says what the driver knows by which step of the identification, and
  that a selected card stays selected at that address: `KnowsTheCard`. What it
  knows of the capacity is what the last OCR said, so that its addressing is the
  card's if that OCR arrived as the card sent it; type and address come from checked
  answers, or from whether there was one.
- `ReadInv` follows the data. Memory, the FIFO and what the card sends next
  continue each other (`InOrder`); units are missing only after an error that the
  loop has yet to see (`NothingLost`); what it still counts is what it has not
  stored (`CountsRest`), also between the sample of three registers and the
  drain that relies on it; a damaged sector has been reported but for the one
  whose CRC is due (`ErrorsSeen`). `FifoFills` is what excludes the wait
  that ends with its last poll: the status bits that start it promise data, or an
  error; it holds but for the moment between the last word and the clear of RXDR.
  `LoopKeeps` says what the loop's own steps leave of all this. Everything is relative
  to where the card was told to begin, whatever the capacity bit said; `StartsClean`, `ReadsWhole` and, when the capacity is the card's, by the arithmetic of
  `Sectors` (`loadsize` rounded up to sectors covers the image), `ImageArrives` follow.

### The USB download (`UsbBootProofs`)

For every size of the payload, every host and any number of resets:

- `FifoInv`: nothing flushes the receive FIFO, so a bound on it has to come from what
  the host may do. It gives each entry a weight (a request that endpoint 0 may
  abandon in the middle leaves one more) and bounds the load by the step of the
  enumeration: eight entries at most, however often the bus is reset.
- `PacketInv`: a bulk packet is in the FIFO only while the endpoint is not
  armed, and none is when the driver comes to an enumeration: `OnePacket`.
- `DownInv`: what has been stored, then the packet in the FIFO, are the first units
  of one attempt, whole and in order (`Attempt`); as long as the driver has followed
  the host, of the host's own. The header buffer is never overrun (`Fits`).
  `DownloadsWhole` follows, and so does `TypeCorrect`, whose bounds on the
  buffers and the FIFO are the point.

### Boot, resume and suspend (`BootProofs`)

For every set of secondaries, every choice of trainings, DDR3 or LPDDR3, and any
number of resets, supply losses, suspends and spurious wake-ups (the bounds
of the runs are constants of which the proofs assume nothing else than that they are
numbers):

- `DramInv`: which routine of the controller may be under way at which step of
  CPU0, and what it has put right so far in whatever state the reset found the chips
  (`InitProgress`): `UsesReadableDram`.
- `SubInv`: until a suspend has come straight back, `g_wakeup_ready` is clear and
  the secondaries CPU0 has seen parked stay so: `SecondariesStayParked`.
- `ResumeInv`: a signature in the scratch registers stands for an image that was not
  tried, and a boot that resumes takes the path of its signature: `ResumesOnce`.
- `MemInv`: refresh is on from the end of a training that has succeeded, or from the self
  refresh exit of a resume; only a write training makes a hole; what was found
  good or was loaded is still there at the jump: `JumpsToTheSuspended`,
  `LaunchesWhatItLoaded`.

### The PMIC over I2C (`PmicI2cProofs`)

For any number of stretches and refusals, any setpoints, and any state in which a
reset has left the bus. What the two know of each other is lost by a timeout and
regained by the next START, so that the invariant speaks of the place in a transfer:

- `WireInv`: the clock is low at the start of a bit and at no other time (but before
  a transfer's first START, where a timeout may have left it high), SDA is released
  before a START, and at its end the slave listens. `started` is what tells that the
  slave may still hold the clock: `Timeout` needs that.
- `FrameInv`: in bit `p` of a byte the slave has taken the bits before it, or is
  offering the next one, and `High` tells whether it has seen this bit's rising edge; an
  acknowledge that the master takes is one that the slave gave (`Received`, `Gives`).
- `DataInv` and `RegsInv`: the bits read so far are the register's, and each register
  has the value it had or the one meant for it.

`RiseReceiving` to `FallOfSlave` say what the slave makes of an edge, `DriveLow` to
`DriveFall` which edge a change of the wires is to it; then there is one lemma for
each action. `ReadsTrue` and `OnlyMeant` follow. The arms of `OnFall` have to exclude
each other for this; the guards that make them do are there for the provers.

### Timings (`ArithProofs`)

`TimingsAgree`: over the range of a header's timings the latency code survives
its split over two fields of MR0 (`CasCodeIsRead`), and the two halves of
`init_DDR3` agree (`EncodingsAgree`).

### What is only model-checked

Liveness, which is out of the prover's reach: `PendingCoreEnters`, `ServesPsci`,
`BootReturns`, `DownloadEnds`, `BootEnds`, `SuspendEnds`, `InitReturns`,
`DivisionExact`. The last also has a safety half, that the result is exact; it
rests on the powers of two up to `2^Width`, hence on an induction over the width.
Every invariant and every action property that a run checks is a theorem.

## 5. Findings

Runs that show a violation, each against a sentence of the repository:

1. `bug_lost_wakeup`: `cpuOff` looks at its slot and then sleeps
   (`src/psci.c:108-109`). A CPU_ON in between pulses the power request at a
   core that still runs; it then sleeps with its slot ON_PENDING for ever.
   This depends on what the power controller does with the pulse, which the model
   leaves open where the documents do; `smp_live` shows that waiting for the
   leaving core's `wfi` avoids it.
2. `bug_sd_overlap`: the check against SRAM covers
   `[loadaddr, loadaddr + 0x400 + loadsize)`, the second read writes up to 1023
   bytes past it.
3. `bug_pmic_bridge`: the result of the write that puts DCDC3 at DCDC2's setpoint
   is not looked at (`src/pmic.c:314`); if it is refused, the two are bridged at
   different setpoints.
4. `bug_mr1`: drive strength and termination are masked but not shifted into
   one-bit fields (`src/init_DDR3.c:1816`); their upper bits are always 0.

Seen while modelling, without a run of their own:

- *PSCI.* `cpuOn` reads the volatile state twice (`psci.c:130-133`); `SubCPUBoot`
  clears every bit of `CPUPOWERONREQ`, other cores' requests too
  (`subcpu.c:145`); `EnableCCIPort` returns early when another core has only
  begun the change (`subcpu.c:112`); `SetVectorLocation` loses a mode bit when two
  callers meet (`subcpu.c:72-81`): all four need a kernel that does not
  serialise hotplug. A core may take its request before the pulse and be in the
  `wfi` of a CPU_SUSPEND when it comes; if that restarts it, it finds its slot ON
  and waits for ever. CPU0 taken offline and restarted boots again under the
  kernel. `mpidrToCpu` takes every Aff1 from 1 up for cluster 1 (`psci.c:95`).
- *SD.* The CRC verdict on the last block may come after CTRUE has been returned
  (`ReadIsWhole` says so). The OCR is taken without its CRC (`iSDHCBOOT.c:522`,
  `565`): a flipped capacity bit (`589`) makes every read go to another place, and
  nothing but the header's contents would tell. RXDR is cleared after the FIFO was read
  (`883`): if the FIFO fills up in between, the only request is gone with the card's
  clock stopped, and the loop waits for ever (`Starved`). A controller that stays locked
  has its command written again for ever (`207-212`, `240-245`, `287`). With `CRC_CHECK=y` the words taken for size and CRC are
  others in the header SD images have, so that every SD image is refused
  (`secondboot.c:565`); the default build has the option off.
- *USB.* The polling loop has no way out without a host (`iUSBBOOT.c:877`). `g_fcs` is never set back: with `CRC_CHECK=y` a download after an aborted
  one fails its CRC (`iUSBBOOT.c:194`). The STALL for a wrong header is undone at
  once (`iUSBBOOT.c:493`, `522`). A packet that is not whole words is stored
  rounded up while the address advances by its length (`iUSBBOOT.c:200`).
- *Boot and suspend.* `g_wakeup_ready` stays set after a suspend that came straight
  back: in the next one any interrupt lets a secondary out (`SubsParked` leaves
  that suspend out). ATF's resume reads its range from DRAM before anything has
  vouched for it and may hang if DRAM was lost (`sleep.c:75`). A wake-up between
  the look at the pending register and its clearing is lost (`sleep.c:133`).
  `USBREBOOT_SIGNATURE` is never cleared (`secondboot.c:332`).
- *DDR3.* `exitSelfRefresh` sends the mode registers before REFSX
  (`init_DDR3.c:375`); `init_DDR3` failing twice is ignored and leaves refresh off
  (`secondboot.c:426`, the case `LaunchesTheLoaded` leaves out).
- *LPDDR3.* `init_LPDDR3`, too, is called with 0 on a resume (`secondboot.c:430`),
  and resets the chips by MR63 that hold the suspended system; whether that
  survives is the chip's affair, the kernel's CRC tells. When auto-initialisation
  does not end within 20000 reads it goes on all the same
  (`init_LPDDR3.c:1800-1824`).

## 6. Not modelled, and why

*PSCI:* argument decoding and error codes (pure, one test each), what a guest
sees of a failed call; weak memory order (the `dsb`s); EL3 printing; the AArch32
BL31 variant of the power-on path (`SubCPUBringUp` without `SKIP_ATF`). *SD:*
clock dividers, pads, decryption, the public key copy. *USB:* requests that no
enumeration needs, the unused bulk IN endpoint, packets that are not whole words,
low speed, PHY set-up; the wait for room in the transmit FIFO and the one for the core's
soft reset at the end (`iUSBBOOT.c:707`, `887`), which are taken to end. *Boot:* the order of the register set-ups between the
steps that are modelled (straight-line), ATF's own handoff structures, the
partition tables; the waits for the UART to drain, which are taken to end. *DDR3:* the values that the PHY and the timings get, except
the latencies; what the levelling loops search for; the chip's own timing;
the switch of PLL3 around LPDDR3's set-up (`setMemPLL`) and CA calibration, which
`init_LPDDR3` does not call. *PMIC:* the set-up functions of the other
boards (`config.mak` builds for `GEC6818`), sequences of reads and writes whose
results they do not look at, `initClock` and the bus set-up: straight-line writes,
with waits for the PLLs that have no way out if one never locks.

`fatfs.c` and `diskio.c` are linked by no configuration of the Makefile, the
memory test by an option that is off. Everything else the inventory marks as not modelled: register writes in a row
(`SecureManager.c`), formatting and drawing, data computations (`CRC32.c`,
`CRYPTO.c`), code outside the default build, host tools. `prototype/`, about
78,000 of the repository's 97,000 lines, is the chip vendor's register
library: accessors that read or write one field of a register each. The Makefile takes
its headers and links none of its modules, so none of that code is in BL1.

## 7. Plan

Done, in this order: `PsciSmp` with its abstract specification, refinement and
proofs; `SdCard`/`SdBoot`; `UsbBoot`; `Ddr3`, `Lpddr3`, `Suspend` and `Boot`; `PmicI2c`;
`Arith`; then the proofs of the safety properties of `PsciSmp` under a kernel that
tracks its cores, of the refinement, and of `Boot`, `SdBoot`, `UsbBoot`, `PmicI2c` and
the encodings. What is left is proof about what the runs do not ask:

1. `SdBoot`: nothing outside the image's own place is written, up to the rounding
   to sectors that finding 2 is about.
2. `PmicI2c`: that every return of the set-up leaves a bus on which the kernel's
   first START is seen, unless the slave holds a wire.
