--------------------------- MODULE PsciSmpProofs ---------------------------
(***************************************************************************)
(* What holds of the resident EL3 firmware for every number of cores, in   *)
(* whatever order the kernel makes its calls.                              *)
(***************************************************************************)
EXTENDS PsciSmp, TLAPS

USE DEF Pcs, BootPcs, StartPcs, LoadPcs, WaitPcs, OnPcs, KernelPcs, StopPcs

\* A write of CPUPOWERONREQ leaves every core at a program counter, and the
\* writer where it goes on; a core whose pc changes was off or asleep.
LEMMA PowerWriteEffect ==
  ASSUME NEW c \in Core, NEW from, NEW to \in Pcs, NEW bits,
         TypeOK, PowerWrite(c, from, to, bits)
  PROVE  /\ pc' \in [Core -> Pcs]
         /\ pc[c] = from /\ pc'[c] = to /\ powerReq' = bits
         /\ \A x \in Core \ {c} :
              \/ pc'[x] = pc[x]
              \/ /\ pc[x] \in {"off", "wfi", "suspend"}
                 /\ x \in bits \ powerReq
                 /\ pc'[x] \in {"startup", "startup0", "astray"}
                 /\ pc'[x] = "startup0" => x = BootCore
  BY DEF TypeOK, PowerWrite, Asleep, ResetPc

\* Every variable keeps its type.
LEMMA TypeInit == Init => TypeOK
  BY CoreAssumption, OptionAssumption DEF Init, TypeOK, Ports, States

LEMMA TypeBoot == ASSUME TypeOK, NEW c \in Core, Boot(c) PROVE TypeOK'
  <1> USE CoreAssumption, OptionAssumption
      DEF TypeOK, Goto, slots, regs, power, bus, States, Ports
  <1>1. CASE ClearBss(c) BY <1>1 DEF ClearBss
  <1>2. CASE InitCCI400(c) BY <1>2 DEF InitCCI400
  <1>3. CASE InitCCI400Done(c) BY <1>3 DEF InitCCI400Done
  <1>4. CASE Stage2Handoff(c) BY <1>4 DEF Stage2Handoff
  <1>5. CASE PsciInit(c) BY <1>5 DEF PsciInit
  <1>6. CASE Launch(c) BY <1>6 DEF Launch
  <1>7. QED BY <1>1, <1>2, <1>3, <1>4, <1>5, <1>6 DEF Boot

LEMMA TypeEnableCCIPort ==
  ASSUME TypeOK, NEW c \in Core, NEW port \in Ports,
         NEW from \in Pcs, NEW waiting \in Pcs, NEW next \in Pcs,
         EnableCCIPort(c, port, from, waiting, next)
  PROVE  TypeOK'
  <1>1. /\ pc' \in [Core -> Pcs] /\ cci' \subseteq Ports /\ cciBusy' \subseteq Ports
        /\ UNCHANGED <<slots, regs, power, handoff, entered>>
    <2>1. CASE port \in cci /\ Goto(c, from, next) /\ UNCHANGED bus
      BY <2>1 DEF TypeOK, EnableCCIPort, Goto, bus
    <2>2. CASE port \notin cci /\ Goto(c, from, waiting)
                /\ cci' = cci \cup {port} /\ cciBusy' = cciBusy \cup {port}
      BY <2>2 DEF TypeOK, EnableCCIPort, Goto, Ports
    <2>3. QED BY <2>1, <2>2 DEF EnableCCIPort
  <1>2. QED BY <1>1 DEF TypeOK, slots, regs, power

LEMMA TypeJoinCCI == ASSUME TypeOK, NEW c \in Core, JoinCCI(c) PROVE TypeOK'
  <1>1. CASE EnableCCIPort(c, "G0", "joinG0", "waitG0", AfterG0(c))
    BY <1>1, TypeEnableCCIPort DEF AfterG0, Ports
  <1>2. CASE CCIPortEnabled(c, "waitG0", AfterG0(c))
    BY <1>2 DEF CCIPortEnabled, Goto, AfterG0, TypeOK, slots, regs, power, bus
  <1>3. CASE EnableCCIPort(c, "G1", "joinG1", "waitG1", "clearReq")
    BY <1>3, TypeEnableCCIPort DEF Ports
  <1>4. CASE CCIPortEnabled(c, "waitG1", "clearReq")
    BY <1>4 DEF CCIPortEnabled, Goto, TypeOK, slots, regs, power, bus
  <1>5. QED BY <1>1, <1>2, <1>3, <1>4 DEF JoinCCI

LEMMA TypeSecondary ==
  ASSUME TypeOK, NEW c \in Core, SecondaryEntry(c) PROVE TypeOK'
  <1> USE DEF TypeOK, slots, regs, power, bus, States, Ports
  <1>1. CASE Startup(c) BY <1>1 DEF Startup, Goto
  <1>2. CASE JoinCCI(c) BY <1>2, TypeJoinCCI
  <1>3. CASE ClearOwnRequest(c)
    <2>1. PowerWrite(c, "clearReq", "wait", {}) BY <1>3 DEF ClearOwnRequest
    <2>2. pc' \in [Core -> Pcs] /\ powerReq' = {}
      BY <2>1 DEF PowerWrite, Asleep, ResetPc
    <2>3. QED BY <1>3, <2>2 DEF ClearOwnRequest
  <1>4. CASE WaitForCpuOn(c) BY <1>4 DEF WaitForCpuOn, Goto
  <1>5. CASE Wfi(c) BY <1>5 DEF Wfi, Goto
  <1>6. CASE ConsumeRequest(c) BY <1>6 DEF ConsumeRequest, Goto
  <1>7. CASE LoadEntry(c) BY <1>7 DEF LoadEntry, Goto
  <1>8. CASE EnterNonSecure(c) BY <1>8 DEF EnterNonSecure, Goto
  <1>9. QED
    BY <1>1, <1>2, <1>3, <1>4, <1>5, <1>6, <1>7, <1>8 DEF SecondaryEntry

LEMMA TypeReturn ==
  ASSUME TypeOK, NEW c \in Core, Return(c)
  PROVE  /\ target' \in [Core -> Core]
         /\ arg' \in [Core -> Req \cup {NoReq}]
         /\ tmp' \in [Core -> SUBSET Core]
  BY DEF TypeOK, Return

LEMMA TypeCpuOn == ASSUME TypeOK, NEW c \in Core, CpuOn(c) PROVE TypeOK'
  <1> USE DEF TypeOK, slots, regs, power, bus, States, Ports
  <1>1. CASE CheckNotOn(c)
    <2>1. CASE state[target[c]] = "ON"
      <3>1. Goto(c, "notOn", "kernel") /\ Return(c)
        BY <1>1, <2>1 DEF CheckNotOn
      <3>2. QED BY <1>1, <3>1, TypeReturn DEF CheckNotOn, Goto
    <2>2. CASE state[target[c]] # "ON"
      BY <1>1, <2>2 DEF CheckNotOn, Goto
    <2>3. QED BY <2>1, <2>2
  <1>2. CASE CheckNotPending(c)
    <2>1. CASE state[target[c]] = "ON_PENDING"
      <3>1. Goto(c, "notPending", "kernel") /\ Return(c)
        BY <1>2, <2>1 DEF CheckNotPending
      <3>2. QED BY <1>2, <3>1, TypeReturn DEF CheckNotPending, Goto
    <2>2. CASE state[target[c]] # "ON_PENDING"
      BY <1>2, <2>2 DEF CheckNotPending, Goto
    <2>3. QED BY <2>1, <2>2
  <1>3. CASE StoreEntry(c) BY <1>3 DEF StoreEntry, Goto
  <1>4. CASE StoreContext(c) BY <1>4 DEF StoreContext, Goto
  <1>5. CASE StorePending(c) BY <1>5 DEF StorePending, Goto
  <1>6. CASE ReadMode(c) BY <1>6 DEF ReadMode, Goto
  <1>7. CASE WriteMode(c) BY <1>7 DEF WriteMode, Goto
  <1>8. CASE WriteVector(c) BY <1>8 DEF WriteVector, Goto
  <1>9. CASE RequestPower(c)
    <2>1. PowerWrite(c, "request", "readReq", {target[c]})
      BY <1>9 DEF RequestPower
    <2>2. pc' \in [Core -> Pcs] /\ powerReq' = {target[c]}
      BY <2>1, PowerWriteEffect, ZenonT(30)
    <2>3. QED BY <1>9, <2>2 DEF RequestPower
  <1>10. CASE ReadRequest(c) BY <1>10 DEF ReadRequest, Goto
  <1>11. CASE ClearRequest(c)
    <2>1. PowerWrite(c, "writeReq", "kernel", tmp[c] \ {target[c]})
      BY <1>11 DEF ClearRequest
    <2>2. pc' \in [Core -> Pcs] /\ powerReq' = tmp[c] \ {target[c]}
      BY <2>1 DEF PowerWrite, Asleep, ResetPc
    <2>3. QED BY <1>11, <2>2 DEF ClearRequest, Return
  <1>12. QED
    BY <1>1, <1>2, <1>3, <1>4, <1>5, <1>6, <1>7, <1>8, <1>9, <1>10, <1>11
    DEF CpuOn

LEMMA TypeKernel == ASSUME TypeOK, NEW c \in Core, Kernel(c) PROVE TypeOK'
  <1> USE CoreAssumption, OptionAssumption
      DEF TypeOK, slots, regs, power, bus, States, Ports
  <1>1. ASSUME NEW t \in Core, NEW r \in Req, CallCpuOn(c, t, r) PROVE TypeOK'
    BY <1>1 DEF CallCpuOn, Goto
  <1>2. CASE CallCpuOff(c) BY <1>2 DEF CallCpuOff, Goto
  <1>3. CASE CallCpuSuspend(c) BY <1>3 DEF CallCpuSuspend, Goto
  <1>4. CASE CallSystemOff(c) BY <1>4 DEF CallSystemOff, Goto
  <1>5. CASE BoardReset(c) BY <1>5 DEF BoardReset
  <1>6. QED BY <1>1, <1>2, <1>3, <1>4, <1>5 DEF Kernel

\* Whatever the cores do, in whatever order, every variable keeps its type.
THEOREM TypeCorrect == Spec => []TypeOK
  <1>1. TypeOK /\ [Next]_vars => TypeOK'
    <2> SUFFICES ASSUME TypeOK, [Next]_vars PROVE TypeOK'
      OBVIOUS
    <2> USE DEF slots, regs, power, bus
    <2>1. ASSUME NEW c \in Core, Firmware(c) PROVE TypeOK'
      <3>1. CASE CpuOff(c)
        BY <3>1 DEF CpuOff, Goto, TypeOK, States
      <3>2. QED
        BY <2>1, <3>1, TypeBoot, TypeSecondary, TypeCpuOn DEF Firmware
    <2>2. ASSUME NEW c \in Core, WfiWake(c) PROVE TypeOK'
      BY <2>2 DEF WfiWake, Goto, TypeOK
    <2>3. ASSUME NEW c \in Core, SuspendWake(c) PROVE TypeOK'
      BY <2>3 DEF SuspendWake, Goto, TypeOK
    <2>4. CASE CciSettle BY <2>4 DEF CciSettle, TypeOK
    <2>5. CASE UNCHANGED vars BY <2>5 DEF vars, TypeOK
    <2>6. QED BY <2>1, <2>2, <2>3, <2>4, <2>5, TypeKernel DEF Next
  <1>2. QED BY <1>1, TypeInit, PTL DEF Spec
-----------------------------------------------------------------------------
(* Any order of the calls.                                                 *)

LEMMA AnyOrderBoot ==
  ASSUME TypeOK, AnyOrderInv, BootCore \notin OffCores,
         NEW c \in Core, Boot(c)
  PROVE  AnyOrderInv'
  <1> USE CoreAssumption
      DEF TypeOK, AnyOrderInv, BootAlone, BootCoreNotAsked, CallerHoldsRequest,
          PendingSlotFilled, OffOnlyWhenLeaving, JoinsOwnPort, EnteredByARequest,
          PortOnlyIfPowered, Booting, Running, slots, regs, power, bus, States
  <1>1. CASE ClearBss(c)
    BY <1>1 DEF ClearBss, Goto
  <1>2. CASE InitCCI400(c)
    BY <1>2 DEF InitCCI400, Goto
  <1>3. CASE InitCCI400Done(c)
    BY <1>3 DEF InitCCI400Done, Goto
  <1>4. CASE Stage2Handoff(c)
    BY <1>4 DEF Stage2Handoff, Goto
  <1>5. CASE PsciInit(c)
    BY <1>5 DEF PsciInit, Goto
  <1>6. CASE Launch(c)
    BY <1>6 DEF Launch, Goto
  <1>7. QED BY <1>1, <1>2, <1>3, <1>4, <1>5, <1>6 DEF Boot

LEMMA AnyOrderJoinCCI ==
  ASSUME TypeOK, AnyOrderInv, BootCore \notin OffCores,
         NEW c \in Core, JoinCCI(c)
  PROVE  AnyOrderInv'
  <1> USE CoreAssumption
      DEF TypeOK, AnyOrderInv, BootAlone, BootCoreNotAsked, CallerHoldsRequest,
          PendingSlotFilled, OffOnlyWhenLeaving, JoinsOwnPort, EnteredByARequest,
          PortOnlyIfPowered, Booting, Running, slots, regs, power, bus, States
  <1>1. CASE EnableCCIPort(c, "G0", "joinG0", "waitG0", AfterG0(c))
    BY <1>1 DEF EnableCCIPort, Goto, AfterG0
  <1>2. CASE CCIPortEnabled(c, "waitG0", AfterG0(c))
    BY <1>2 DEF CCIPortEnabled, Goto, AfterG0
  <1>3. CASE EnableCCIPort(c, "G1", "joinG1", "waitG1", "clearReq")
    BY <1>3 DEF EnableCCIPort, Goto
  <1>4. CASE CCIPortEnabled(c, "waitG1", "clearReq")
    BY <1>4 DEF CCIPortEnabled, Goto
  <1>5. QED BY <1>1, <1>2, <1>3, <1>4 DEF JoinCCI

LEMMA AnyOrderSecondary ==
  ASSUME TypeOK, AnyOrderInv, BootCore \notin OffCores,
         NEW c \in Core, SecondaryEntry(c)
  PROVE  AnyOrderInv'
  <1> USE CoreAssumption
      DEF TypeOK, AnyOrderInv, BootAlone, BootCoreNotAsked, CallerHoldsRequest,
          PendingSlotFilled, OffOnlyWhenLeaving, JoinsOwnPort, EnteredByARequest,
          PortOnlyIfPowered, Booting, Running, slots, regs, power, bus, States
  <1>1. CASE Startup(c)
    BY <1>1 DEF Startup, Goto
  <1>2. CASE JoinCCI(c)
    BY <1>2, AnyOrderJoinCCI
  <1>3. CASE ClearOwnRequest(c)
    BY <1>3 DEF ClearOwnRequest, PowerWrite, Asleep, ResetPc
  <1>4. CASE WaitForCpuOn(c)
    BY <1>4 DEF WaitForCpuOn, Goto
  <1>5. CASE Wfi(c)
    BY <1>5 DEF Wfi, Goto
  <1>6. CASE ConsumeRequest(c)
    BY <1>6 DEF ConsumeRequest, Goto
  <1>7. CASE LoadEntry(c)
    BY <1>7 DEF LoadEntry, Goto
  <1>8. CASE EnterNonSecure(c)
    BY <1>8 DEF EnterNonSecure, Goto
  <1>9. QED BY <1>1, <1>2, <1>3, <1>4, <1>5, <1>6, <1>7, <1>8 DEF SecondaryEntry

LEMMA AnyOrderCpuOn ==
  ASSUME TypeOK, AnyOrderInv, BootCore \notin OffCores,
         NEW c \in Core, CpuOn(c)
  PROVE  AnyOrderInv'
  <1> USE CoreAssumption
      DEF TypeOK, AnyOrderInv, BootAlone, BootCoreNotAsked, CallerHoldsRequest,
          PendingSlotFilled, OffOnlyWhenLeaving, JoinsOwnPort, EnteredByARequest,
          PortOnlyIfPowered, Booting, Running, slots, regs, power, bus, States
  <1>1. CASE CheckNotOn(c)
    <2>1. CASE state[target[c]] = "ON"
      <3>1. Goto(c, "notOn", "kernel") /\ Return(c)
        BY <1>1, <2>1 DEF CheckNotOn
      <3>2. QED BY <1>1, <2>1, <3>1 DEF CheckNotOn, Goto, Return
    <2>2. CASE state[target[c]] # "ON"
      <3>1. Goto(c, "notOn", "notPending") /\ UNCHANGED regs
        BY <1>1, <2>2 DEF CheckNotOn
      <3>2. QED BY <1>1, <2>2, <3>1 DEF CheckNotOn, Goto
    <2>3. QED BY <2>1, <2>2
  <1>2. CASE CheckNotPending(c)
    <2>1. CASE state[target[c]] = "ON_PENDING"
      <3>1. Goto(c, "notPending", "kernel") /\ Return(c)
        BY <1>2, <2>1 DEF CheckNotPending
      <3>2. QED BY <1>2, <2>1, <3>1 DEF CheckNotPending, Goto, Return
    <2>2. CASE state[target[c]] # "ON_PENDING"
      <3>1. Goto(c, "notPending", "storeEntry") /\ UNCHANGED regs
        BY <1>2, <2>2 DEF CheckNotPending
      <3>2. QED BY <1>2, <2>2, <3>1 DEF CheckNotPending, Goto
    <2>3. QED BY <2>1, <2>2
  <1>3. CASE StoreEntry(c)
    BY <1>3 DEF StoreEntry, Goto
  <1>4. CASE StoreContext(c)
    BY <1>4 DEF StoreContext, Goto
  <1>5. CASE StorePending(c)
    BY <1>5 DEF StorePending, Goto
  <1>6. CASE ReadMode(c)
    BY <1>6 DEF ReadMode, Goto
  <1>7. CASE WriteMode(c)
    BY <1>7 DEF WriteMode, Goto
  <1>8. CASE WriteVector(c)
    BY <1>8 DEF WriteVector, Goto
  <1>9. CASE RequestPower(c)
    BY <1>9 DEF RequestPower, PowerWrite, Asleep, ResetPc
  <1>10. CASE ReadRequest(c)
    BY <1>10 DEF ReadRequest, Goto
  <1>11. CASE ClearRequest(c)
    BY <1>11 DEF ClearRequest, Return, PowerWrite, Asleep, ResetPc
  <1>12. QED BY <1>1, <1>2, <1>3, <1>4, <1>5, <1>6, <1>7, <1>8, <1>9, <1>10, <1>11 DEF CpuOn

LEMMA AnyOrderKernel ==
  ASSUME TypeOK, AnyOrderInv, BootCore \notin OffCores,
         NEW c \in Core, Kernel(c)
  PROVE  AnyOrderInv'
  <1> USE CoreAssumption
      DEF TypeOK, AnyOrderInv, BootAlone, BootCoreNotAsked, CallerHoldsRequest,
          PendingSlotFilled, OffOnlyWhenLeaving, JoinsOwnPort, EnteredByARequest,
          PortOnlyIfPowered, Booting, Running, slots, regs, power, bus, States
  <1>1. CASE \E t \in Core, r \in Req : CallCpuOn(c, t, r)
    BY <1>1 DEF CallCpuOn, Goto
  <1>2. CASE CallCpuOff(c)
    BY <1>2 DEF CallCpuOff, Goto
  <1>3. CASE CallCpuSuspend(c)
    BY <1>3 DEF CallCpuSuspend, Goto
  <1>4. CASE CallSystemOff(c)
    BY <1>4 DEF CallSystemOff, Goto
  <1>5. CASE BoardReset(c)
    BY <1>5 DEF BoardReset, Goto
  <1>6. QED BY <1>1, <1>2, <1>3, <1>4, <1>5 DEF Kernel

LEMMA AnyOrderRest ==
  ASSUME TypeOK, AnyOrderInv, BootCore \notin OffCores,
         NEW c \in Core, CpuOff(c) \/ WfiWake(c) \/ SuspendWake(c)
  PROVE  AnyOrderInv'
  <1> USE CoreAssumption
      DEF TypeOK, AnyOrderInv, BootAlone, BootCoreNotAsked, CallerHoldsRequest,
          PendingSlotFilled, OffOnlyWhenLeaving, JoinsOwnPort, EnteredByARequest,
          PortOnlyIfPowered, Booting, Running, slots, regs, power, bus, States
  <1>1. CASE CpuOff(c)
    BY <1>1 DEF CpuOff, Goto
  <1>2. CASE WfiWake(c)
    BY <1>2 DEF WfiWake, Goto
  <1>3. CASE SuspendWake(c)
    BY <1>3 DEF SuspendWake, Goto
  <1>4. QED BY <1>1, <1>2, <1>3

LEMMA AnyOrderInit == Init => AnyOrderInv
  BY CoreAssumption DEF Init, AnyOrderInv, BootAlone, BootCoreNotAsked, CallerHoldsRequest,
          PendingSlotFilled, OffOnlyWhenLeaving, JoinsOwnPort, EnteredByARequest,
          PortOnlyIfPowered, Booting, Running, slots, regs, power, bus, States

LEMMA AnyOrderNext ==
  ASSUME TypeOK, AnyOrderInv, BootCore \notin OffCores, [Next]_vars
  PROVE  AnyOrderInv'
  <1>1. CASE CciSettle
    BY <1>1 DEF CciSettle, AnyOrderInv, BootAlone, BootCoreNotAsked,
                CallerHoldsRequest, PendingSlotFilled, OffOnlyWhenLeaving,
                JoinsOwnPort, EnteredByARequest, PortOnlyIfPowered, Booting,
                Running, slots, regs, power
  <1>2. CASE UNCHANGED vars
    BY <1>2 DEF vars, AnyOrderInv, BootAlone, BootCoreNotAsked,
                CallerHoldsRequest, PendingSlotFilled, OffOnlyWhenLeaving,
                JoinsOwnPort, EnteredByARequest, PortOnlyIfPowered, Booting,
                Running, slots, regs, power, bus
  <1>3. ASSUME NEW c \in Core,
               Firmware(c) \/ WfiWake(c) \/ SuspendWake(c) \/ Kernel(c)
        PROVE  AnyOrderInv'
    BY <1>3, AnyOrderBoot, AnyOrderSecondary, AnyOrderCpuOn, AnyOrderKernel,
       AnyOrderRest DEF Firmware
  <1>4. QED BY <1>1, <1>2, <1>3 DEF Next

\* The inductive invariant holds of every behaviour: for every number of
\* cores and callers, every outcome of a power-on request, every order.
THEOREM AnyOrderSafe ==
  ASSUME BootCore \notin OffCores
  PROVE  Spec => []AnyOrderInv
  <1>1. TypeOK /\ AnyOrderInv /\ [Next]_vars => AnyOrderInv'
    BY AnyOrderNext
  <1>2. QED BY <1>1, TypeCorrect, AnyOrderInit, PTL DEF Spec

\* A core AFFINITY_INFO shows OFF executes no kernel code.
THEOREM OffIsGone ==
  ASSUME BootCore \notin OffCores
  PROVE  Spec => []OffMeansGone
  <1>1. AnyOrderInv => OffMeansGone
    BY DEF AnyOrderInv, OffOnlyWhenLeaving, OffMeansGone
  <1>2. QED BY <1>1, AnyOrderSafe, PTL

\* No secondary enters the kernel through a slot that was never filled.
THEOREM EntersByARequest ==
  ASSUME BootCore \notin OffCores
  PROVE  Spec => []EnteredByARequest
  <1>1. AnyOrderInv => EnteredByARequest BY DEF AnyOrderInv
  <1>2. QED BY <1>1, AnyOrderSafe, PTL

\* Cluster 1's CCI port is on only when a core of cluster 1 is powered.
THEOREM PortPowered ==
  ASSUME BootCore \notin OffCores
  PROVE  Spec => []PortOnlyIfPowered
  <1>1. AnyOrderInv => PortOnlyIfPowered BY DEF AnyOrderInv
  <1>2. QED BY <1>1, AnyOrderSafe, PTL

\* CPU0 clears the slots with .bss before any secondary is powered, whatever
\* the order of the calls and however often the board is reset.
THEOREM ClearsBssAlone ==
  ASSUME BootCore \notin OffCores
  PROVE  Spec => BssClearedAlone
  <1>1. AnyOrderInv /\ [Next]_vars
          => [\A c \in Core : pc[c] = "startup0" /\ pc'[c] = "bootMain"
                => \A x \in Core \ {c} : pc[x] = "off"]_vars
    BY DEF AnyOrderInv, BootAlone, Booting
  <1>2. QED BY <1>1, AnyOrderSafe, PTL DEF Spec, BssClearedAlone
=============================================================================
