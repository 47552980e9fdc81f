------------------------- MODULE PsciSerialProofs -------------------------
(***************************************************************************)
(* What holds of the resident EL3 firmware, for every number of cores,     *)
(* when the kernel makes its hotplug calls the way Linux does: one at a    *)
(* time, each after the core before it is online or shows OFF.             *)
(* The invariant is layered: the calls, then the power requests they end   *)
(* in, then the CCI-400 ports the started cores join.                      *)
(***************************************************************************)
EXTENDS PsciSmpProofs

USE DEF Pcs, BootPcs, StartPcs, LoadPcs, WaitPcs, OnPcs, KernelPcs, StopPcs

\* The kernel tracks its cores, wfi at EL3 completes only on a request, and
\* CPU0 stays online.
TrackedCalls ==
  /\ Order \in {"online", "settled"}
  /\ ~WfiMayWake
  /\ BootCore \notin OffCores

-----------------------------------------------------------------------------
(* The calls and the slots.                                                *)

CheckPcs == {"notOn", "notPending"}
StorePcs == {"storeEntry", "storeContext", "storePending"}

OneCaller == \A x, y \in Core : InCall(x) /\ InCall(y) => x = y

\* Until a CPU_ON publishes ON_PENDING its core is down, or on its way down.
Down(t) ==
  \/ pc[t] \in {"off", "wfi", "halted"}
  \/ pc[t] \in {"wait", "sleep"} /\ state[t] = "OFF"

CalledIsDown ==
  \A c \in Core :
    /\ pc[c] \in CheckPcs \cup StorePcs => target[c] # c /\ Down(target[c])
    /\ pc[c] = "notPending" => state[target[c]] # "ON"
    /\ pc[c] \in StorePcs => state[target[c]] = "OFF"

\* A core that takes its request finds ON_PENDING and leaves ON.
SlotFollowsCore ==
  \A c \in Core :
    /\ pc[c] = "consume" => state[c] = "ON_PENDING"
    /\ pc[c] \in LoadPcs => state[c] = "ON"
    /\ Running(c) /\ c # BootCore => state[c] = "ON"

\* The caller writes one argument to both fields ...
CallerStoresOne ==
  \A c \in Core :
    /\ pc[c] \in {"storeContext", "storePending"} => entry[target[c]] = arg[c]
    /\ pc[c] = "storePending" => context[target[c]] = arg[c]

\* ... and the core finds them so.
SlotHoldsOne ==
  pc[BootCore] # "startup0" =>
    \A c \in Core \ {BootCore} :
      /\ state[c] = "ON_PENDING" \/ pc[c] \in {"consume"} \cup LoadPcs
           => entry[c] = context[c]
      /\ pc[c] = "loadContext" => arg[c] = entry[c]

CallInv ==
  /\ OneCaller /\ CalledIsDown /\ SlotFollowsCore /\ CallerStoresOne
  /\ SlotHoldsOne /\ EnteredByOneRequest

-----------------------------------------------------------------------------
(* The power requests.                                                     *)

\* A core starts alone: no call gets as far as a request meanwhile.
StartsAlone ==
  /\ \A x, y \in Core : pc[x] \in StartPcs /\ pc[y] \in StartPcs => x = y
  /\ \A c, x \in Core : pc[c] \in OnPcs \ {"readReq", "writeReq"}
                          => pc[x] \notin StartPcs

\* The call that clears its request bit finds and leaves no other core's.
OneRequestBit ==
  \A c \in Core :
    /\ pc[c] = "readReq" => powerReq \subseteq {target[c]}
    /\ pc[c] = "writeReq" => tmp[c] \subseteq {target[c]}

\* The reset mode and the vector are set before the power is asked for.
ResetReady ==
  \A c \in Core :
    /\ pc[c] \in {"writeVector", "request"} => target[c] \in aarch64
    /\ pc[c] = "request" => target[c] \in vector

PowerInv == StartsAlone /\ OneRequestBit /\ ResetReady /\ NeverAstray

-----------------------------------------------------------------------------
(* The CCI-400 ports.                                                      *)

\* A port change is under way only while somebody polls for its end.
BusyIsPolled ==
  cciBusy # {} => \/ \E x \in Core : pc[x] \in {"waitG0", "waitG1"}
                  \/ pc[BootCore] = "initCCI"

\* By each step a secondary has put its ports on, and the change is over.
PortsJoined ==
  \A c \in Core \ {BootCore} :
    /\ pc[c] \notin {"off", "astray", "startup", "joinG0", "waitG0"}
         => "G0" \in cci \ cciBusy
    /\ pc[c] \notin {"off", "astray"} \cup (StartPcs \ {"clearReq"})
         => PortOf(c) \in cci \ cciBusy
    /\ pc[c] = "waitG0" => "G0" \in cci
    /\ pc[c] = "waitG1" => "G1" \in cci

CciInv == BusyIsPolled /\ PortsJoined

-----------------------------------------------------------------------------
(* The boot core on its way up.                                            *)

BootInv ==
  /\ pc[BootCore] \in {"startup0", "bootMain"} => handoff = Stage2
  /\ pc[BootCore] = "launch" =>
       state = [c \in Core |-> IF c = BootCore THEN "ON" ELSE "OFF"]

-----------------------------------------------------------------------------
(* A kernel that also waits until a leaving core sleeps ("settled").       *)

\* From the call to the request its core is powered down or asleep, and
\* from ON_PENDING on it is waited for.
TargetSettled ==
  \A c \in Core :
    /\ pc[c] \in CheckPcs \cup StorePcs => pc[target[c]] \in {"off", "wfi", "halted"}
    /\ pc[c] \in {"readMode", "writeMode", "writeVector", "request"}
         => pc[target[c]] \in {"off", "wfi"} /\ state[target[c]] = "ON_PENDING"

\* A halted core keeps its slot ON, one that starts finds it ON_PENDING, one
\* that waits never finds it ON.
SlotFits ==
  \A c \in Core :
    /\ pc[c] = "halted" => state[c] = "ON"
    /\ pc[c] \in StartPcs => state[c] = "ON_PENDING"
    /\ pc[c] \in {"wait", "sleep", "wfi"} => state[c] # "ON"

SettledInv == TargetSettled /\ SlotFits

-----------------------------------------------------------------------------
\* When a call starts, every core is at rest or leaving, its target not in
\* the kernel: no other call is under way and no core starts.
LEMMA MayCallTracked ==
  ASSUME TrackedCalls
  PROVE  /\ \A c \in Core : MayCall(c) => \A x \in Core : AtRest(x) \/ Leaving(x)
         /\ \A t \in Core : MayTarget(t) => pc[t] \notin KernelPcs
  <1>1. CASE Order = "online" BY <1>1 DEF MayCall, MayTarget
  <1>2. CASE Order = "settled" BY <1>2 DEF MayCall, MayTarget
  <1>3. QED BY <1>1, <1>2 DEF TrackedCalls

LEMMA CallCpuOnEffect ==
  ASSUME TrackedCalls, NEW c \in Core, NEW t \in Core, NEW r \in Req,
         CallCpuOn(c, t, r)
  PROVE  /\ Goto(c, "kernel", "notOn")
         /\ target' = [target EXCEPT ![c] = t] /\ arg' = [arg EXCEPT ![c] = r]
         /\ UNCHANGED <<slots, tmp, power, bus, handoff, entered>>
         /\ t # c /\ Down(t) /\ (Order = "settled" => pc[t] \notin {"wait", "sleep"})
         /\ \A x \in Core : ~InCall(x) /\ pc[x] \notin StartPcs
  <1>1. /\ \A x \in Core : AtRest(x) \/ Leaving(x)
        /\ pc[t] \notin KernelPcs
        /\ Order = "settled" => AtRest(t)
    BY MayCallTracked DEF CallCpuOn, MayCall
  <1>2. QED BY <1>1 DEF CallCpuOn, Goto, AtRest, Leaving, Down, InCall

LEMMA CallCpuOffEffect ==
  ASSUME TrackedCalls, NEW c \in Core, CallCpuOff(c)
  PROVE  /\ Goto(c, "kernel", "storeOff") /\ c \in OffCores
         /\ UNCHANGED <<slots, regs, power, bus, handoff, entered>>
         /\ \A x \in Core : ~InCall(x) /\ pc[x] \notin StartPcs
  <1>1. \A x \in Core : AtRest(x) \/ Leaving(x)
    BY MayCallTracked DEF CallCpuOff
  <1>2. QED BY <1>1 DEF CallCpuOff, AtRest, Leaving, InCall

\* The two reads of the state return to the kernel or go on.
LEMMA CheckNotOnEffect ==
  ASSUME NEW c \in Core, CheckNotOn(c)
  PROVE  /\ pc[c] = "notOn"
         /\ \/ /\ state[target[c]] = "ON" /\ pc' = [pc EXCEPT ![c] = "kernel"]
               /\ target' = [target EXCEPT ![c] = c]
               /\ arg' = [arg EXCEPT ![c] = NoReq] /\ tmp' = [tmp EXCEPT ![c] = {}]
            \/ /\ state[target[c]] # "ON" /\ pc' = [pc EXCEPT ![c] = "notPending"]
               /\ target' = target /\ arg' = arg /\ tmp' = tmp
         /\ UNCHANGED <<slots, power, bus, handoff, entered>>
  BY DEF CheckNotOn, Goto, Return, regs

LEMMA CheckNotPendingEffect ==
  ASSUME NEW c \in Core, CheckNotPending(c)
  PROVE  /\ pc[c] = "notPending"
         /\ \/ /\ state[target[c]] = "ON_PENDING"
               /\ pc' = [pc EXCEPT ![c] = "kernel"]
               /\ target' = [target EXCEPT ![c] = c]
               /\ arg' = [arg EXCEPT ![c] = NoReq] /\ tmp' = [tmp EXCEPT ![c] = {}]
            \/ /\ state[target[c]] # "ON_PENDING"
               /\ pc' = [pc EXCEPT ![c] = "storeEntry"]
               /\ target' = target /\ arg' = arg /\ tmp' = tmp
         /\ UNCHANGED <<slots, power, bus, handoff, entered>>
  BY DEF CheckNotPending, Goto, Return, regs

LEMMA EnableCCIPortEffect ==
  ASSUME NEW c \in Core, NEW port, NEW from, NEW waiting, NEW next,
         EnableCCIPort(c, port, from, waiting, next)
  PROVE  /\ pc[c] = from
         /\ pc' = [pc EXCEPT ![c] = IF port \in cci THEN next ELSE waiting]
         /\ cci' = cci \cup {port}
         /\ cciBusy' = IF port \in cci THEN cciBusy ELSE cciBusy \cup {port}
         /\ UNCHANGED <<slots, regs, power, handoff, entered>>
  <1>1. CASE port \in cci BY <1>1 DEF EnableCCIPort, Goto, bus
  <1>2. CASE port \notin cci BY <1>2 DEF EnableCCIPort, Goto, bus
  <1>3. QED BY <1>1, <1>2

\* Clearing CPUPOWERONREQ wakes nobody.
LEMMA PowerWriteNothing ==
  ASSUME TypeOK, NEW c \in Core, NEW from, NEW to,
         NEW bits, bits = {}, PowerWrite(c, from, to, bits)
  PROVE  Goto(c, from, to) /\ powerReq' = {}
  BY DEF PowerWrite, Asleep, Goto, TypeOK

\* A request for power wakes its target and no other core.
LEMMA RequestPowerEffect ==
  ASSUME TypeOK, NEW c \in Core, RequestPower(c)
  PROVE  /\ pc' \in [Core -> Pcs] /\ pc[c] = "request" /\ pc'[c] = "readReq"
         /\ powerReq' = {target[c]}
         /\ \A x \in Core \ {c} :
              \/ pc'[x] = pc[x]
              \/ /\ x = target[c] /\ pc[x] \in {"off", "wfi", "suspend"}
                 /\ pc'[x] = ResetPc(x)
         /\ UNCHANGED <<slots, regs, aarch64, vector, bus, handoff, entered>>
  BY DEF RequestPower, PowerWrite, Asleep, ResetPc, TypeOK

-----------------------------------------------------------------------------
(* The calls: one at a time, each to a core that is down.                  *)

\* Every step keeps the calls and the slots in order.
LEMMA CallStep ==
  ASSUME TypeOK, AnyOrderInv, CallInv, TrackedCalls, [Next]_vars
  PROVE  CallInv'
  <1> USE CoreAssumption, OptionAssumption
      DEF TypeOK, States, TrackedCalls, AnyOrderInv, BootAlone,
          BootCoreNotAsked, PendingSlotFilled, OffOnlyWhenLeaving,
          CallerHoldsRequest, Booting, Running, InCall, CallInv, CheckPcs,
          StorePcs, OneCaller, Down, CalledIsDown, SlotFollowsCore,
          CallerStoresOne, SlotHoldsOne, EnteredByOneRequest, slots, regs,
          power, bus
  <1>1. CASE CciSettle BY <1>1 DEF CciSettle
  <1>2. CASE UNCHANGED vars BY <1>2 DEF vars
  <1>3. ASSUME NEW c \in Core, Boot(c) PROVE CallInv'
    <2>1. CASE ClearBss(c) BY <2>1 DEF ClearBss, Goto
    <2>2. CASE InitCCI400(c) BY <2>2 DEF InitCCI400, Goto
    <2>3. CASE InitCCI400Done(c) BY <2>3 DEF InitCCI400Done, Goto
    <2>4. CASE Stage2Handoff(c) BY <2>4 DEF Stage2Handoff, Goto
    <2>5. CASE PsciInit(c) BY <2>5 DEF PsciInit, Goto
    <2>6. CASE Launch(c) BY <2>6 DEF Launch, Goto
    <2>7. QED BY <1>3, <2>1, <2>2, <2>3, <2>4, <2>5, <2>6 DEF Boot
  <1>4. ASSUME NEW c \in Core, SecondaryEntry(c) PROVE CallInv'
    <2>1. CASE Startup(c) BY <2>1 DEF Startup, Goto
    <2>2. CASE EnableCCIPort(c, "G0", "joinG0", "waitG0", AfterG0(c))
      <3>1. CASE "G0" \in cci
        <4>1. Goto(c, "joinG0", AfterG0(c)) /\ UNCHANGED bus
          BY <2>2, <3>1 DEF EnableCCIPort
        <4>2. QED BY <2>2, <3>1, <4>1 DEF EnableCCIPort, Goto, AfterG0
      <3>2. CASE "G0" \notin cci
        <4>1. Goto(c, "joinG0", "waitG0")
                /\ cci' = cci \cup {"G0"} /\ cciBusy' = cciBusy \cup {"G0"}
          BY <2>2, <3>2 DEF EnableCCIPort
        <4>2. QED BY <2>2, <3>2, <4>1 DEF EnableCCIPort, Goto, AfterG0
      <3>3. QED BY <3>1, <3>2
    <2>3. CASE CCIPortEnabled(c, "waitG0", AfterG0(c))
      BY <2>3 DEF CCIPortEnabled, Goto, AfterG0
    <2>4. CASE EnableCCIPort(c, "G1", "joinG1", "waitG1", "clearReq")
      <3>1. CASE "G1" \in cci
        <4>1. Goto(c, "joinG1", "clearReq") /\ UNCHANGED bus
          BY <2>4, <3>1 DEF EnableCCIPort
        <4>2. QED BY <2>4, <3>1, <4>1 DEF EnableCCIPort, Goto
      <3>2. CASE "G1" \notin cci
        <4>1. Goto(c, "joinG1", "waitG1")
                /\ cci' = cci \cup {"G1"} /\ cciBusy' = cciBusy \cup {"G1"}
          BY <2>4, <3>2 DEF EnableCCIPort
        <4>2. QED BY <2>4, <3>2, <4>1 DEF EnableCCIPort, Goto
      <3>3. QED BY <3>1, <3>2
    <2>5. CASE CCIPortEnabled(c, "waitG1", "clearReq")
      BY <2>5 DEF CCIPortEnabled, Goto
    <2>6. CASE ClearOwnRequest(c)
      <3>1. Goto(c, "clearReq", "wait") /\ powerReq' = {}
        BY <2>6, PowerWriteNothing DEF ClearOwnRequest
      <3>2. QED BY <2>6, <3>1 DEF ClearOwnRequest, Goto
    <2>7. CASE WaitForCpuOn(c) BY <2>7 DEF WaitForCpuOn, Goto
    <2>8. CASE Wfi(c) BY <2>8 DEF Wfi, Goto
    <2>9. CASE ConsumeRequest(c) BY <2>9 DEF ConsumeRequest, Goto
    <2>10. CASE LoadEntry(c) BY <2>10 DEF LoadEntry, Goto
    <2>11. CASE EnterNonSecure(c) BY <2>11 DEF EnterNonSecure, Goto
    <2>12. QED
      BY <1>4, <2>1, <2>2, <2>3, <2>4, <2>5, <2>6, <2>7, <2>8, <2>9, <2>10,
         <2>11
      DEF SecondaryEntry, JoinCCI
  <1>5. ASSUME NEW c \in Core, CpuOn(c) PROVE CallInv'
    <2>1. CASE CheckNotOn(c)
      <3>1. CASE state[target[c]] = "ON"
        <4>1. Goto(c, "notOn", "kernel") /\ Return(c)
          BY <2>1, <3>1 DEF CheckNotOn
        <4>2. QED BY <2>1, <3>1, <4>1 DEF CheckNotOn, Goto, Return
      <3>2. CASE state[target[c]] # "ON"
        <4>1. Goto(c, "notOn", "notPending") /\ UNCHANGED regs
          BY <2>1, <3>2 DEF CheckNotOn
        <4>2. QED BY <2>1, <3>2, <4>1 DEF CheckNotOn, Goto, Return
      <3>3. QED BY <3>1, <3>2
    <2>2. CASE CheckNotPending(c)
      <3>1. CASE state[target[c]] = "ON_PENDING"
        <4>1. Goto(c, "notPending", "kernel") /\ Return(c)
          BY <2>2, <3>1 DEF CheckNotPending
        <4>2. QED BY <2>2, <3>1, <4>1 DEF CheckNotPending, Goto, Return
      <3>2. CASE state[target[c]] # "ON_PENDING"
        <4>1. Goto(c, "notPending", "storeEntry") /\ UNCHANGED regs
          BY <2>2, <3>2 DEF CheckNotPending
        <4>2. QED BY <2>2, <3>2, <4>1 DEF CheckNotPending, Goto, Return
      <3>3. QED BY <3>1, <3>2
    <2>3. CASE StoreEntry(c) BY <2>3 DEF StoreEntry, Goto
    <2>4. CASE StoreContext(c) BY <2>4 DEF StoreContext, Goto
    <2>5. CASE StorePending(c) BY <2>5 DEF StorePending, Goto
    <2>6. CASE ReadMode(c) BY <2>6 DEF ReadMode, Goto
    <2>7. CASE WriteMode(c) BY <2>7 DEF WriteMode, Goto, ClusterOf
    <2>8. CASE WriteVector(c) BY <2>8 DEF WriteVector, Goto
    <2>9. CASE RequestPower(c)
      BY <2>9 DEF RequestPower, PowerWrite, Asleep, ResetPc
    <2>10. CASE ReadRequest(c) BY <2>10 DEF ReadRequest, Goto
    <2>11. CASE ClearRequest(c)
      BY <2>11 DEF ClearRequest, Return, PowerWrite, Asleep, ResetPc
    <2>12. QED
      BY <1>5, <2>1, <2>2, <2>3, <2>4, <2>5, <2>6, <2>7, <2>8, <2>9, <2>10,
         <2>11
      DEF CpuOn
  <1>6. ASSUME NEW c \in Core, Kernel(c) PROVE CallInv'
    <2>1. ASSUME NEW t \in Core, NEW r \in Req, CallCpuOn(c, t, r) PROVE CallInv'
      <3>1. OneCaller' BY <2>1, CallCpuOnEffect DEF Goto
      <3>2. CalledIsDown' BY <2>1, CallCpuOnEffect DEF Goto
      <3>3. SlotFollowsCore' BY <2>1, CallCpuOnEffect DEF Goto
      <3>4. CallerStoresOne' BY <2>1, CallCpuOnEffect DEF Goto
      <3>5. SlotHoldsOne' BY <2>1, CallCpuOnEffect DEF Goto
      <3>6. EnteredByOneRequest' BY <2>1, CallCpuOnEffect DEF Goto
      <3>7. QED BY <3>1, <3>2, <3>3, <3>4, <3>5, <3>6
    <2>2. CASE CallCpuOff(c)
      <3>1. OneCaller' BY <2>2, CallCpuOffEffect DEF Goto
      <3>2. CalledIsDown' BY <2>2, CallCpuOffEffect DEF Goto
      <3>3. SlotFollowsCore' BY <2>2, CallCpuOffEffect DEF Goto
      <3>4. CallerStoresOne' BY <2>2, CallCpuOffEffect DEF Goto
      <3>5. SlotHoldsOne' BY <2>2, CallCpuOffEffect DEF Goto
      <3>6. EnteredByOneRequest' BY <2>2, CallCpuOffEffect DEF Goto
      <3>7. QED BY <3>1, <3>2, <3>3, <3>4, <3>5, <3>6
    <2>3. CASE CallCpuSuspend(c) BY <2>3 DEF CallCpuSuspend, Goto
    <2>4. CASE CallSystemOff(c) BY <2>4 DEF CallSystemOff, Goto
    <2>5. CASE BoardReset(c) BY <2>5 DEF BoardReset
    <2>6. QED BY <1>6, <2>1, <2>2, <2>3, <2>4, <2>5 DEF Kernel
  <1>7. ASSUME NEW c \in Core, CpuOff(c) \/ WfiWake(c) \/ SuspendWake(c)
        PROVE  CallInv'
    <2>1. CASE CpuOff(c) BY <2>1 DEF CpuOff, Goto
    <2>2. CASE WfiWake(c) BY <2>2 DEF WfiWake, Goto
    <2>3. CASE SuspendWake(c) BY <2>3 DEF SuspendWake, Goto
    <2>4. QED BY <1>7, <2>1, <2>2, <2>3
  <1>8. QED BY <1>1, <1>2, <1>3, <1>4, <1>5, <1>6, <1>7 DEF Next, Firmware

-----------------------------------------------------------------------------
(* The requests: one core starts at a time, in AArch64 at Startup.         *)

\* Every step keeps the requests to one core at a time.
LEMMA PowerStep ==
  ASSUME TypeOK, AnyOrderInv, CallInv, PowerInv, TrackedCalls, [Next]_vars
  PROVE  PowerInv'
  <1> USE CoreAssumption, OptionAssumption
      DEF TypeOK, States, TrackedCalls, AnyOrderInv, BootAlone,
          BootCoreNotAsked, Booting, InCall, CallInv, OneCaller, PowerInv,
          StartsAlone, OneRequestBit, ResetReady, NeverAstray, slots, regs,
          power, bus
  <1>1. CASE CciSettle BY <1>1 DEF CciSettle
  <1>2. CASE UNCHANGED vars BY <1>2 DEF vars
  <1>3. ASSUME NEW c \in Core, Boot(c) PROVE PowerInv'
    <2>1. CASE ClearBss(c) BY <2>1 DEF ClearBss, Goto
    <2>2. CASE InitCCI400(c) BY <2>2 DEF InitCCI400, Goto
    <2>3. CASE InitCCI400Done(c) BY <2>3 DEF InitCCI400Done, Goto
    <2>4. CASE Stage2Handoff(c) BY <2>4 DEF Stage2Handoff, Goto
    <2>5. CASE PsciInit(c) BY <2>5 DEF PsciInit, Goto
    <2>6. CASE Launch(c) BY <2>6 DEF Launch, Goto
    <2>7. QED BY <1>3, <2>1, <2>2, <2>3, <2>4, <2>5, <2>6 DEF Boot
  <1>4. ASSUME NEW c \in Core, SecondaryEntry(c) PROVE PowerInv'
    <2>1. CASE Startup(c) BY <2>1 DEF Startup, Goto
    <2>2. CASE EnableCCIPort(c, "G0", "joinG0", "waitG0", AfterG0(c))
      <3>1. CASE "G0" \in cci
        <4>1. Goto(c, "joinG0", AfterG0(c)) /\ UNCHANGED bus
          BY <2>2, <3>1 DEF EnableCCIPort
        <4>2. QED BY <2>2, <3>1, <4>1 DEF EnableCCIPort, Goto, AfterG0
      <3>2. CASE "G0" \notin cci
        <4>1. Goto(c, "joinG0", "waitG0")
                /\ cci' = cci \cup {"G0"} /\ cciBusy' = cciBusy \cup {"G0"}
          BY <2>2, <3>2 DEF EnableCCIPort
        <4>2. QED BY <2>2, <3>2, <4>1 DEF EnableCCIPort, Goto, AfterG0
      <3>3. QED BY <3>1, <3>2
    <2>3. CASE CCIPortEnabled(c, "waitG0", AfterG0(c))
      BY <2>3 DEF CCIPortEnabled, Goto, AfterG0
    <2>4. CASE EnableCCIPort(c, "G1", "joinG1", "waitG1", "clearReq")
      <3>1. CASE "G1" \in cci
        <4>1. Goto(c, "joinG1", "clearReq") /\ UNCHANGED bus
          BY <2>4, <3>1 DEF EnableCCIPort
        <4>2. QED BY <2>4, <3>1, <4>1 DEF EnableCCIPort, Goto
      <3>2. CASE "G1" \notin cci
        <4>1. Goto(c, "joinG1", "waitG1")
                /\ cci' = cci \cup {"G1"} /\ cciBusy' = cciBusy \cup {"G1"}
          BY <2>4, <3>2 DEF EnableCCIPort
        <4>2. QED BY <2>4, <3>2, <4>1 DEF EnableCCIPort, Goto
      <3>3. QED BY <3>1, <3>2
    <2>5. CASE CCIPortEnabled(c, "waitG1", "clearReq")
      BY <2>5 DEF CCIPortEnabled, Goto
    <2>6. CASE ClearOwnRequest(c)
      <3>1. Goto(c, "clearReq", "wait") /\ powerReq' = {}
        BY <2>6, PowerWriteNothing DEF ClearOwnRequest
      <3>2. QED BY <2>6, <3>1 DEF ClearOwnRequest, Goto
    <2>7. CASE WaitForCpuOn(c) BY <2>7 DEF WaitForCpuOn, Goto
    <2>8. CASE Wfi(c) BY <2>8 DEF Wfi, Goto
    <2>9. CASE ConsumeRequest(c) BY <2>9 DEF ConsumeRequest, Goto
    <2>10. CASE LoadEntry(c) BY <2>10 DEF LoadEntry, Goto
    <2>11. CASE EnterNonSecure(c) BY <2>11 DEF EnterNonSecure, Goto
    <2>12. QED
      BY <1>4, <2>1, <2>2, <2>3, <2>4, <2>5, <2>6, <2>7, <2>8, <2>9, <2>10,
         <2>11
      DEF SecondaryEntry, JoinCCI
  <1>5. ASSUME NEW c \in Core, CpuOn(c) PROVE PowerInv'
    <2>1. CASE CheckNotOn(c)
      <3>1. CASE state[target[c]] = "ON"
        <4>1. Goto(c, "notOn", "kernel") /\ Return(c)
          BY <2>1, <3>1 DEF CheckNotOn
        <4>2. QED BY <2>1, <3>1, <4>1 DEF CheckNotOn, Goto, Return
      <3>2. CASE state[target[c]] # "ON"
        <4>1. Goto(c, "notOn", "notPending") /\ UNCHANGED regs
          BY <2>1, <3>2 DEF CheckNotOn
        <4>2. QED BY <2>1, <3>2, <4>1 DEF CheckNotOn, Goto, Return
      <3>3. QED BY <3>1, <3>2
    <2>2. CASE CheckNotPending(c)
      <3>1. CASE state[target[c]] = "ON_PENDING"
        <4>1. Goto(c, "notPending", "kernel") /\ Return(c)
          BY <2>2, <3>1 DEF CheckNotPending
        <4>2. QED BY <2>2, <3>1, <4>1 DEF CheckNotPending, Goto, Return
      <3>2. CASE state[target[c]] # "ON_PENDING"
        <4>1. Goto(c, "notPending", "storeEntry") /\ UNCHANGED regs
          BY <2>2, <3>2 DEF CheckNotPending
        <4>2. QED BY <2>2, <3>2, <4>1 DEF CheckNotPending, Goto, Return
      <3>3. QED BY <3>1, <3>2
    <2>3. CASE StoreEntry(c) BY <2>3 DEF StoreEntry, Goto
    <2>4. CASE StoreContext(c) BY <2>4 DEF StoreContext, Goto
    <2>5. CASE StorePending(c) BY <2>5 DEF StorePending, Goto
    <2>6. CASE ReadMode(c) BY <2>6 DEF ReadMode, Goto
    <2>7. CASE WriteMode(c) BY <2>7 DEF WriteMode, Goto, ClusterOf
    <2>8. CASE WriteVector(c) BY <2>8 DEF WriteVector, Goto
    <2>9. CASE RequestPower(c)
      <3>1. /\ pc' \in [Core -> Pcs] /\ pc[c] = "request" /\ pc'[c] = "readReq"
            /\ powerReq' = {target[c]}
            /\ \A x \in Core \ {c} : pc'[x] = pc[x] \/ (x = target[c] /\ pc'[x] = ResetPc(x))
            /\ UNCHANGED <<slots, regs, aarch64, vector, bus, handoff, entered>>
        BY <2>9, RequestPowerEffect
      <3>2. \A x \in Core : /\ pc'[x] \in StartPcs => x = target[c]
                            /\ pc'[x] \in OnPcs => x = c
        BY <2>9, <3>1, SMTT(20) DEF ResetPc
      <3>3. StartsAlone'
        <4>1. \A x, y \in Core : pc'[x] \in StartPcs /\ pc'[y] \in StartPcs => x = y
          BY <3>2
        <4>2. \A d, x \in Core : pc'[d] \in OnPcs \ {"readReq", "writeReq"}
                                  => pc'[x] \notin StartPcs
          BY <3>1, <3>2
        <4>3. QED BY <4>1, <4>2
      <3>4. OneRequestBit' BY <2>9, <3>1, <3>2 DEF ResetPc
      <3>5. ResetReady' BY <2>9, <3>1, <3>2 DEF ResetPc
      <3>6. NeverAstray' BY <2>9, <3>1, <3>2 DEF ResetPc
      <3>7. QED BY <3>3, <3>4, <3>5, <3>6
    <2>10. CASE ReadRequest(c) BY <2>10 DEF ReadRequest, Goto
    <2>11. CASE ClearRequest(c)
      <3>1. Goto(c, "writeReq", "kernel") /\ powerReq' = {}
        <4>1. tmp[c] \ {target[c]} = {} BY <2>11 DEF ClearRequest, PowerWrite
        <4>2. QED BY <2>11, <4>1, PowerWriteNothing DEF ClearRequest
      <3>2. QED BY <2>11, <3>1 DEF ClearRequest, Return, Goto
    <2>12. QED
      BY <1>5, <2>1, <2>2, <2>3, <2>4, <2>5, <2>6, <2>7, <2>8, <2>9, <2>10,
         <2>11
      DEF CpuOn
  <1>6. ASSUME NEW c \in Core, Kernel(c) PROVE PowerInv'
    <2>1. ASSUME NEW t \in Core, NEW r \in Req, CallCpuOn(c, t, r) PROVE PowerInv'
      <3>1. StartsAlone' BY <2>1, CallCpuOnEffect DEF Goto
      <3>2. OneRequestBit' BY <2>1, CallCpuOnEffect DEF Goto
      <3>3. ResetReady' BY <2>1, CallCpuOnEffect DEF Goto
      <3>4. NeverAstray' BY <2>1, CallCpuOnEffect DEF Goto
      <3>5. QED BY <3>1, <3>2, <3>3, <3>4
    <2>2. CASE CallCpuOff(c) BY <2>2, CallCpuOffEffect DEF Goto
    <2>3. CASE CallCpuSuspend(c) BY <2>3 DEF CallCpuSuspend, Goto
    <2>4. CASE CallSystemOff(c) BY <2>4 DEF CallSystemOff, Goto
    <2>5. CASE BoardReset(c) BY <2>5 DEF BoardReset
    <2>6. QED BY <1>6, <2>1, <2>2, <2>3, <2>4, <2>5 DEF Kernel
  <1>7. ASSUME NEW c \in Core, CpuOff(c) \/ WfiWake(c) \/ SuspendWake(c)
        PROVE  PowerInv'
    <2>1. CASE CpuOff(c) BY <2>1 DEF CpuOff, Goto
    <2>2. CASE WfiWake(c) BY <2>2 DEF WfiWake, Goto
    <2>3. CASE SuspendWake(c) BY <2>3 DEF SuspendWake, Goto
    <2>4. QED BY <1>7, <2>1, <2>2, <2>3
  <1>8. QED BY <1>1, <1>2, <1>3, <1>4, <1>5, <1>6, <1>7 DEF Next, Firmware

-----------------------------------------------------------------------------
(* The ports.                                                              *)

\* Every step keeps the ports of the cores that have joined on.
LEMMA CciStep ==
  ASSUME TypeOK, AnyOrderInv, CallInv, PowerInv, CciInv, TrackedCalls,
         [Next]_vars
  PROVE  CciInv'
  <1> USE CoreAssumption, OptionAssumption
      DEF TypeOK, Ports, AnyOrderInv, BootAlone, JoinsOwnPort, Booting,
          InCall, CallInv, OneCaller, PowerInv, StartsAlone, OneRequestBit,
          NeverAstray, CciInv, BusyIsPolled, PortsJoined, PortOf, slots, regs,
          power, bus
  <1>1. CASE CciSettle BY <1>1 DEF CciSettle
  <1>2. CASE UNCHANGED vars BY <1>2 DEF vars
  <1>3. ASSUME NEW c \in Core, Boot(c) PROVE CciInv'
    <2>1. CASE ClearBss(c) BY <2>1 DEF ClearBss, Goto
    <2>2. CASE InitCCI400(c) BY <2>2 DEF InitCCI400, Goto
    <2>3. CASE InitCCI400Done(c) BY <2>3 DEF InitCCI400Done, Goto
    <2>4. CASE Stage2Handoff(c) BY <2>4 DEF Stage2Handoff, Goto
    <2>5. CASE PsciInit(c) BY <2>5 DEF PsciInit, Goto
    <2>6. CASE Launch(c) BY <2>6 DEF Launch, Goto
    <2>7. QED BY <1>3, <2>1, <2>2, <2>3, <2>4, <2>5, <2>6 DEF Boot
  <1>4. ASSUME NEW c \in Core, SecondaryEntry(c) PROVE CciInv'
    <2>1. CASE Startup(c) BY <2>1 DEF Startup, Goto
    <2>2. CASE EnableCCIPort(c, "G0", "joinG0", "waitG0", AfterG0(c))
      <3>1. CASE "G0" \in cci
        <4>1. Goto(c, "joinG0", AfterG0(c)) /\ UNCHANGED bus
          BY <2>2, <3>1 DEF EnableCCIPort
        <4>2. QED BY <2>2, <3>1, <4>1 DEF EnableCCIPort, Goto, AfterG0
      <3>2. CASE "G0" \notin cci
        <4>1. Goto(c, "joinG0", "waitG0")
                /\ cci' = cci \cup {"G0"} /\ cciBusy' = cciBusy \cup {"G0"}
          BY <2>2, <3>2 DEF EnableCCIPort
        <4>2. QED BY <2>2, <3>2, <4>1 DEF EnableCCIPort, Goto, AfterG0
      <3>3. QED BY <3>1, <3>2
    <2>3. CASE CCIPortEnabled(c, "waitG0", AfterG0(c))
      BY <2>3 DEF CCIPortEnabled, Goto, AfterG0
    <2>4. CASE EnableCCIPort(c, "G1", "joinG1", "waitG1", "clearReq")
      <3>1. CASE "G1" \in cci
        <4>1. Goto(c, "joinG1", "clearReq") /\ UNCHANGED bus
          BY <2>4, <3>1 DEF EnableCCIPort
        <4>2. QED BY <2>4, <3>1, <4>1 DEF EnableCCIPort, Goto
      <3>2. CASE "G1" \notin cci
        <4>1. Goto(c, "joinG1", "waitG1")
                /\ cci' = cci \cup {"G1"} /\ cciBusy' = cciBusy \cup {"G1"}
          BY <2>4, <3>2 DEF EnableCCIPort
        <4>2. QED BY <2>4, <3>2, <4>1 DEF EnableCCIPort, Goto
      <3>3. QED BY <3>1, <3>2
    <2>5. CASE CCIPortEnabled(c, "waitG1", "clearReq")
      BY <2>5 DEF CCIPortEnabled, Goto
    <2>6. CASE ClearOwnRequest(c)
      <3>1. Goto(c, "clearReq", "wait") /\ powerReq' = {}
        BY <2>6, PowerWriteNothing DEF ClearOwnRequest
      <3>2. QED BY <2>6, <3>1 DEF ClearOwnRequest, Goto
    <2>7. CASE WaitForCpuOn(c)
      <3>1. BusyIsPolled' BY <2>7 DEF WaitForCpuOn, Goto
      <3>2. PortsJoined' BY <2>7 DEF WaitForCpuOn, Goto
      <3>3. QED BY <3>1, <3>2
    <2>8. CASE Wfi(c) BY <2>8 DEF Wfi, Goto
    <2>9. CASE ConsumeRequest(c) BY <2>9 DEF ConsumeRequest, Goto
    <2>10. CASE LoadEntry(c) BY <2>10, SMTT(20) DEF LoadEntry, Goto
    <2>11. CASE EnterNonSecure(c) BY <2>11 DEF EnterNonSecure, Goto
    <2>12. QED
      BY <1>4, <2>1, <2>2, <2>3, <2>4, <2>5, <2>6, <2>7, <2>8, <2>9, <2>10,
         <2>11
      DEF SecondaryEntry, JoinCCI
  <1>5. ASSUME NEW c \in Core, CpuOn(c) PROVE CciInv'
    <2>1. CASE CheckNotOn(c)
      <3>1. CASE state[target[c]] = "ON"
        <4>1. Goto(c, "notOn", "kernel") /\ Return(c)
          BY <2>1, <3>1 DEF CheckNotOn
        <4>2. QED BY <2>1, <3>1, <4>1 DEF CheckNotOn, Goto, Return
      <3>2. CASE state[target[c]] # "ON"
        <4>1. Goto(c, "notOn", "notPending") /\ UNCHANGED regs
          BY <2>1, <3>2 DEF CheckNotOn
        <4>2. QED BY <2>1, <3>2, <4>1 DEF CheckNotOn, Goto, Return
      <3>3. QED BY <3>1, <3>2
    <2>2. CASE CheckNotPending(c)
      <3>1. CASE state[target[c]] = "ON_PENDING"
        <4>1. Goto(c, "notPending", "kernel") /\ Return(c)
          BY <2>2, <3>1 DEF CheckNotPending
        <4>2. QED BY <2>2, <3>1, <4>1 DEF CheckNotPending, Goto, Return
      <3>2. CASE state[target[c]] # "ON_PENDING"
        <4>1. Goto(c, "notPending", "storeEntry") /\ UNCHANGED regs
          BY <2>2, <3>2 DEF CheckNotPending
        <4>2. QED BY <2>2, <3>2, <4>1 DEF CheckNotPending, Goto, Return
      <3>3. QED BY <3>1, <3>2
    <2>3. CASE StoreEntry(c) BY <2>3 DEF StoreEntry, Goto
    <2>4. CASE StoreContext(c) BY <2>4 DEF StoreContext, Goto
    <2>5. CASE StorePending(c) BY <2>5 DEF StorePending, Goto
    <2>6. CASE ReadMode(c) BY <2>6 DEF ReadMode, Goto
    <2>7. CASE WriteMode(c) BY <2>7 DEF WriteMode, Goto, ClusterOf
    <2>8. CASE WriteVector(c) BY <2>8 DEF WriteVector, Goto
    <2>9. CASE RequestPower(c)
      BY <2>9 DEF RequestPower, PowerWrite, Asleep, ResetPc
    <2>10. CASE ReadRequest(c) BY <2>10 DEF ReadRequest, Goto
    <2>11. CASE ClearRequest(c)
      <3>1. Goto(c, "writeReq", "kernel") /\ powerReq' = {}
        <4>1. tmp[c] \ {target[c]} = {} BY <2>11 DEF ClearRequest, PowerWrite
        <4>2. QED BY <2>11, <4>1, PowerWriteNothing DEF ClearRequest
      <3>2. BusyIsPolled' BY <2>11, <3>1 DEF ClearRequest, Goto
      <3>3. PortsJoined' BY <2>11, <3>1 DEF ClearRequest, Goto
      <3>4. QED BY <3>2, <3>3
    <2>12. QED
      BY <1>5, <2>1, <2>2, <2>3, <2>4, <2>5, <2>6, <2>7, <2>8, <2>9, <2>10,
         <2>11
      DEF CpuOn
  <1>6. ASSUME NEW c \in Core, Kernel(c) PROVE CciInv'
    <2>1. ASSUME NEW t \in Core, NEW r \in Req, CallCpuOn(c, t, r) PROVE CciInv'
      BY <2>1, CallCpuOnEffect DEF Goto
    <2>2. CASE CallCpuOff(c) BY <2>2, CallCpuOffEffect DEF Goto
    <2>3. CASE CallCpuSuspend(c)
      <3>1. BusyIsPolled' BY <2>3 DEF CallCpuSuspend, Goto
      <3>2. PortsJoined' BY <2>3 DEF CallCpuSuspend, Goto
      <3>3. QED BY <3>1, <3>2
    <2>4. CASE CallSystemOff(c)
      <3>1. BusyIsPolled' BY <2>4 DEF CallSystemOff, Goto
      <3>2. PortsJoined' BY <2>4 DEF CallSystemOff, Goto
      <3>3. QED BY <3>1, <3>2
    <2>5. CASE BoardReset(c) BY <2>5 DEF BoardReset
    <2>6. QED BY <1>6, <2>1, <2>2, <2>3, <2>4, <2>5 DEF Kernel
  <1>7. ASSUME NEW c \in Core, CpuOff(c) \/ WfiWake(c) \/ SuspendWake(c)
        PROVE  CciInv'
    <2>1. CASE CpuOff(c) BY <2>1 DEF CpuOff, Goto
    <2>2. CASE WfiWake(c) BY <2>2, SMTT(20) DEF WfiWake, Goto
    <2>3. CASE SuspendWake(c) BY <2>3 DEF SuspendWake, Goto
    <2>4. QED BY <1>7, <2>1, <2>2, <2>3
  <1>8. QED BY <1>1, <1>2, <1>3, <1>4, <1>5, <1>6, <1>7 DEF Next, Firmware

-----------------------------------------------------------------------------
(* The boot core.                                                          *)

\* Every step of CPU0's way up finds what the step before has left.
LEMMA BootStep ==
  ASSUME TypeOK, AnyOrderInv, BootInv, TrackedCalls, [Next]_vars
  PROVE  BootInv'
  <1> USE CoreAssumption, OptionAssumption
      DEF TypeOK, States, AnyOrderInv, BootAlone, BootCoreNotAsked, Booting,
          BootInv, slots, regs, power, bus
  <1>1. CASE CciSettle BY <1>1 DEF CciSettle
  <1>2. CASE UNCHANGED vars BY <1>2 DEF vars
  <1>3. ASSUME NEW c \in Core, Boot(c) PROVE BootInv'
    <2>1. CASE ClearBss(c) BY <2>1 DEF ClearBss, Goto
    <2>2. CASE InitCCI400(c) BY <2>2 DEF InitCCI400, Goto
    <2>3. CASE InitCCI400Done(c) BY <2>3 DEF InitCCI400Done, Goto
    <2>4. CASE Stage2Handoff(c) BY <2>4, ZenonT(30) DEF Stage2Handoff, Goto
    <2>5. CASE PsciInit(c) BY <2>5 DEF PsciInit, Goto
    <2>6. CASE Launch(c) BY <2>6 DEF Launch, Goto
    <2>7. QED BY <1>3, <2>1, <2>2, <2>3, <2>4, <2>5, <2>6 DEF Boot
  <1>4. ASSUME NEW c \in Core, SecondaryEntry(c) PROVE BootInv'
    <2>1. CASE Startup(c) BY <2>1 DEF Startup, Goto
    <2>2. CASE EnableCCIPort(c, "G0", "joinG0", "waitG0", AfterG0(c))
      <3>1. CASE "G0" \in cci
        <4>1. Goto(c, "joinG0", AfterG0(c)) /\ UNCHANGED bus
          BY <2>2, <3>1 DEF EnableCCIPort
        <4>2. QED BY <2>2, <3>1, <4>1 DEF EnableCCIPort, Goto, AfterG0
      <3>2. CASE "G0" \notin cci
        <4>1. Goto(c, "joinG0", "waitG0")
                /\ cci' = cci \cup {"G0"} /\ cciBusy' = cciBusy \cup {"G0"}
          BY <2>2, <3>2 DEF EnableCCIPort
        <4>2. QED BY <2>2, <3>2, <4>1 DEF EnableCCIPort, Goto, AfterG0
      <3>3. QED BY <3>1, <3>2
    <2>3. CASE CCIPortEnabled(c, "waitG0", AfterG0(c))
      BY <2>3 DEF CCIPortEnabled, Goto, AfterG0
    <2>4. CASE EnableCCIPort(c, "G1", "joinG1", "waitG1", "clearReq")
      <3>1. CASE "G1" \in cci
        <4>1. Goto(c, "joinG1", "clearReq") /\ UNCHANGED bus
          BY <2>4, <3>1 DEF EnableCCIPort
        <4>2. QED BY <2>4, <3>1, <4>1 DEF EnableCCIPort, Goto
      <3>2. CASE "G1" \notin cci
        <4>1. Goto(c, "joinG1", "waitG1")
                /\ cci' = cci \cup {"G1"} /\ cciBusy' = cciBusy \cup {"G1"}
          BY <2>4, <3>2 DEF EnableCCIPort
        <4>2. QED BY <2>4, <3>2, <4>1 DEF EnableCCIPort, Goto
      <3>3. QED BY <3>1, <3>2
    <2>5. CASE CCIPortEnabled(c, "waitG1", "clearReq")
      BY <2>5 DEF CCIPortEnabled, Goto
    <2>6. CASE ClearOwnRequest(c)
      <3>1. Goto(c, "clearReq", "wait") /\ powerReq' = {}
        BY <2>6, PowerWriteNothing DEF ClearOwnRequest
      <3>2. QED BY <2>6, <3>1 DEF ClearOwnRequest, Goto
    <2>7. CASE WaitForCpuOn(c) BY <2>7 DEF WaitForCpuOn, Goto
    <2>8. CASE Wfi(c) BY <2>8 DEF Wfi, Goto
    <2>9. CASE ConsumeRequest(c) BY <2>9 DEF ConsumeRequest, Goto
    <2>10. CASE LoadEntry(c) BY <2>10 DEF LoadEntry, Goto
    <2>11. CASE EnterNonSecure(c) BY <2>11 DEF EnterNonSecure, Goto
    <2>12. QED
      BY <1>4, <2>1, <2>2, <2>3, <2>4, <2>5, <2>6, <2>7, <2>8, <2>9, <2>10,
         <2>11
      DEF SecondaryEntry, JoinCCI
  <1>5. ASSUME NEW c \in Core, CpuOn(c) PROVE BootInv'
    <2>1. CASE CheckNotOn(c)
      <3>1. CASE state[target[c]] = "ON"
        <4>1. Goto(c, "notOn", "kernel") /\ Return(c)
          BY <2>1, <3>1 DEF CheckNotOn
        <4>2. QED BY <2>1, <3>1, <4>1 DEF CheckNotOn, Goto, Return
      <3>2. CASE state[target[c]] # "ON"
        <4>1. Goto(c, "notOn", "notPending") /\ UNCHANGED regs
          BY <2>1, <3>2 DEF CheckNotOn
        <4>2. QED BY <2>1, <3>2, <4>1 DEF CheckNotOn, Goto, Return
      <3>3. QED BY <3>1, <3>2
    <2>2. CASE CheckNotPending(c)
      <3>1. CASE state[target[c]] = "ON_PENDING"
        <4>1. Goto(c, "notPending", "kernel") /\ Return(c)
          BY <2>2, <3>1 DEF CheckNotPending
        <4>2. QED BY <2>2, <3>1, <4>1 DEF CheckNotPending, Goto, Return
      <3>2. CASE state[target[c]] # "ON_PENDING"
        <4>1. Goto(c, "notPending", "storeEntry") /\ UNCHANGED regs
          BY <2>2, <3>2 DEF CheckNotPending
        <4>2. QED BY <2>2, <3>2, <4>1 DEF CheckNotPending, Goto, Return
      <3>3. QED BY <3>1, <3>2
    <2>3. CASE StoreEntry(c) BY <2>3 DEF StoreEntry, Goto
    <2>4. CASE StoreContext(c) BY <2>4 DEF StoreContext, Goto
    <2>5. CASE StorePending(c) BY <2>5 DEF StorePending, Goto
    <2>6. CASE ReadMode(c) BY <2>6 DEF ReadMode, Goto
    <2>7. CASE WriteMode(c) BY <2>7 DEF WriteMode, Goto, ClusterOf
    <2>8. CASE WriteVector(c) BY <2>8 DEF WriteVector, Goto
    <2>9. CASE RequestPower(c)
      BY <2>9 DEF RequestPower, PowerWrite, Asleep, ResetPc
    <2>10. CASE ReadRequest(c) BY <2>10 DEF ReadRequest, Goto
    <2>11. CASE ClearRequest(c)
      BY <2>11 DEF ClearRequest, Return, PowerWrite, Asleep, ResetPc
    <2>12. QED
      BY <1>5, <2>1, <2>2, <2>3, <2>4, <2>5, <2>6, <2>7, <2>8, <2>9, <2>10,
         <2>11
      DEF CpuOn
  <1>6. ASSUME NEW c \in Core, Kernel(c) PROVE BootInv'
    <2>1. ASSUME NEW t \in Core, NEW r \in Req, CallCpuOn(c, t, r) PROVE BootInv'
      BY <2>1, CallCpuOnEffect DEF Goto
    <2>2. CASE CallCpuOff(c) BY <2>2, CallCpuOffEffect DEF Goto
    <2>3. CASE CallCpuSuspend(c) BY <2>3 DEF CallCpuSuspend, Goto
    <2>4. CASE CallSystemOff(c) BY <2>4 DEF CallSystemOff, Goto
    <2>5. CASE BoardReset(c) BY <2>5 DEF BoardReset
    <2>6. QED BY <1>6, <2>1, <2>2, <2>3, <2>4, <2>5 DEF Kernel
  <1>7. ASSUME NEW c \in Core, CpuOff(c) \/ WfiWake(c) \/ SuspendWake(c)
        PROVE  BootInv'
    <2>1. CASE CpuOff(c) BY <2>1 DEF CpuOff, Goto
    <2>2. CASE WfiWake(c) BY <2>2 DEF WfiWake, Goto
    <2>3. CASE SuspendWake(c) BY <2>3 DEF SuspendWake, Goto
    <2>4. QED BY <1>7, <2>1, <2>2, <2>3
  <1>8. QED BY <1>1, <1>2, <1>3, <1>4, <1>5, <1>6, <1>7 DEF Next, Firmware

-----------------------------------------------------------------------------
(* A kernel that also waits for wfi.                                       *)

\* Every step keeps the slots of the waiting cores other than ON.
LEMMA SettledStep ==
  ASSUME TypeOK, AnyOrderInv, CallInv, PowerInv, SettledInv, TrackedCalls,
         Order = "settled", [Next]_vars
  PROVE  SettledInv'
  <1> USE CoreAssumption, OptionAssumption
      DEF TypeOK, States, TrackedCalls, AnyOrderInv, BootAlone,
          BootCoreNotAsked, Booting, Running, InCall, CallInv, CheckPcs,
          StorePcs, OneCaller, Down, CalledIsDown, SlotFollowsCore, PowerInv,
          StartsAlone, NeverAstray, OneRequestBit, SettledInv, TargetSettled,
          SlotFits, slots, regs, power, bus
  <1>1. CASE CciSettle BY <1>1 DEF CciSettle
  <1>2. CASE UNCHANGED vars BY <1>2 DEF vars
  <1>3. ASSUME NEW c \in Core, Boot(c) PROVE SettledInv'
    <2>1. CASE ClearBss(c) BY <2>1 DEF ClearBss, Goto
    <2>2. CASE InitCCI400(c) BY <2>2 DEF InitCCI400, Goto
    <2>3. CASE InitCCI400Done(c) BY <2>3 DEF InitCCI400Done, Goto
    <2>4. CASE Stage2Handoff(c) BY <2>4 DEF Stage2Handoff, Goto
    <2>5. CASE PsciInit(c) BY <2>5 DEF PsciInit, Goto
    <2>6. CASE Launch(c) BY <2>6 DEF Launch, Goto
    <2>7. QED BY <1>3, <2>1, <2>2, <2>3, <2>4, <2>5, <2>6 DEF Boot
  <1>4. ASSUME NEW c \in Core, SecondaryEntry(c) PROVE SettledInv'
    <2>1. CASE Startup(c) BY <2>1 DEF Startup, Goto
    <2>2. CASE EnableCCIPort(c, "G0", "joinG0", "waitG0", AfterG0(c))
      <3>1. CASE "G0" \in cci
        <4>1. Goto(c, "joinG0", AfterG0(c)) /\ UNCHANGED bus
          BY <2>2, <3>1 DEF EnableCCIPort
        <4>2. QED BY <2>2, <3>1, <4>1 DEF EnableCCIPort, Goto, AfterG0
      <3>2. CASE "G0" \notin cci
        <4>1. Goto(c, "joinG0", "waitG0")
                /\ cci' = cci \cup {"G0"} /\ cciBusy' = cciBusy \cup {"G0"}
          BY <2>2, <3>2 DEF EnableCCIPort
        <4>2. QED BY <2>2, <3>2, <4>1 DEF EnableCCIPort, Goto, AfterG0
      <3>3. QED BY <3>1, <3>2
    <2>3. CASE CCIPortEnabled(c, "waitG0", AfterG0(c))
      BY <2>3 DEF CCIPortEnabled, Goto, AfterG0
    <2>4. CASE EnableCCIPort(c, "G1", "joinG1", "waitG1", "clearReq")
      <3>1. CASE "G1" \in cci
        <4>1. Goto(c, "joinG1", "clearReq") /\ UNCHANGED bus
          BY <2>4, <3>1 DEF EnableCCIPort
        <4>2. QED BY <2>4, <3>1, <4>1 DEF EnableCCIPort, Goto
      <3>2. CASE "G1" \notin cci
        <4>1. Goto(c, "joinG1", "waitG1")
                /\ cci' = cci \cup {"G1"} /\ cciBusy' = cciBusy \cup {"G1"}
          BY <2>4, <3>2 DEF EnableCCIPort
        <4>2. QED BY <2>4, <3>2, <4>1 DEF EnableCCIPort, Goto
      <3>3. QED BY <3>1, <3>2
    <2>5. CASE CCIPortEnabled(c, "waitG1", "clearReq")
      BY <2>5 DEF CCIPortEnabled, Goto
    <2>6. CASE ClearOwnRequest(c)
      <3>1. Goto(c, "clearReq", "wait") /\ powerReq' = {}
        BY <2>6, PowerWriteNothing DEF ClearOwnRequest
      <3>2. QED BY <2>6, <3>1 DEF ClearOwnRequest, Goto
    <2>7. CASE WaitForCpuOn(c) BY <2>7 DEF WaitForCpuOn, Goto
    <2>8. CASE Wfi(c) BY <2>8 DEF Wfi, Goto
    <2>9. CASE ConsumeRequest(c) BY <2>9 DEF ConsumeRequest, Goto
    <2>10. CASE LoadEntry(c) BY <2>10 DEF LoadEntry, Goto
    <2>11. CASE EnterNonSecure(c) BY <2>11 DEF EnterNonSecure, Goto
    <2>12. QED
      BY <1>4, <2>1, <2>2, <2>3, <2>4, <2>5, <2>6, <2>7, <2>8, <2>9, <2>10,
         <2>11
      DEF SecondaryEntry, JoinCCI
  <1>5. ASSUME NEW c \in Core, CpuOn(c) PROVE SettledInv'
    <2>1. CASE CheckNotOn(c)
      <3>1. CASE state[target[c]] = "ON"
        <4>1. Goto(c, "notOn", "kernel") /\ Return(c)
          BY <2>1, <3>1 DEF CheckNotOn
        <4>2. QED BY <2>1, <3>1, <4>1 DEF CheckNotOn, Goto, Return
      <3>2. CASE state[target[c]] # "ON"
        <4>1. Goto(c, "notOn", "notPending") /\ UNCHANGED regs
          BY <2>1, <3>2 DEF CheckNotOn
        <4>2. QED BY <2>1, <3>2, <4>1 DEF CheckNotOn, Goto, Return
      <3>3. QED BY <3>1, <3>2
    <2>2. CASE CheckNotPending(c)
      <3>1. CASE state[target[c]] = "ON_PENDING"
        <4>1. Goto(c, "notPending", "kernel") /\ Return(c)
          BY <2>2, <3>1 DEF CheckNotPending
        <4>2. QED BY <2>2, <3>1, <4>1 DEF CheckNotPending, Goto, Return
      <3>2. CASE state[target[c]] # "ON_PENDING"
        <4>1. Goto(c, "notPending", "storeEntry") /\ UNCHANGED regs
          BY <2>2, <3>2 DEF CheckNotPending
        <4>2. QED BY <2>2, <3>2, <4>1 DEF CheckNotPending, Goto, Return
      <3>3. QED BY <3>1, <3>2
    <2>3. CASE StoreEntry(c) BY <2>3 DEF StoreEntry, Goto
    <2>4. CASE StoreContext(c) BY <2>4 DEF StoreContext, Goto
    <2>5. CASE StorePending(c) BY <2>5 DEF StorePending, Goto
    <2>6. CASE ReadMode(c) BY <2>6 DEF ReadMode, Goto
    <2>7. CASE WriteMode(c) BY <2>7 DEF WriteMode, Goto, ClusterOf
    <2>8. CASE WriteVector(c) BY <2>8 DEF WriteVector, Goto
    <2>9. CASE RequestPower(c)
      BY <2>9 DEF RequestPower, PowerWrite, Asleep, ResetPc
    <2>10. CASE ReadRequest(c) BY <2>10 DEF ReadRequest, Goto
    <2>11. CASE ClearRequest(c)
      <3>1. Goto(c, "writeReq", "kernel") /\ powerReq' = {}
        <4>1. tmp[c] \ {target[c]} = {} BY <2>11 DEF ClearRequest, PowerWrite
        <4>2. QED BY <2>11, <4>1, PowerWriteNothing DEF ClearRequest
      <3>2. QED BY <2>11, <3>1 DEF ClearRequest, Return, Goto
    <2>12. QED
      BY <1>5, <2>1, <2>2, <2>3, <2>4, <2>5, <2>6, <2>7, <2>8, <2>9, <2>10,
         <2>11
      DEF CpuOn
  <1>6. ASSUME NEW c \in Core, Kernel(c) PROVE SettledInv'
    <2>1. ASSUME NEW t \in Core, NEW r \in Req, CallCpuOn(c, t, r) PROVE SettledInv'
      <3>1. /\ Goto(c, "kernel", "notOn") /\ target' = [target EXCEPT ![c] = t]
            /\ UNCHANGED <<slots, tmp, power, bus, handoff, entered>>
            /\ t # c /\ pc[t] \in {"off", "wfi", "halted"}
            /\ \A x \in Core : ~InCall(x)
        BY <2>1, CallCpuOnEffect DEF AtRest
      <3>2. TargetSettled' BY <2>1, <3>1 DEF Goto
      <3>3. SlotFits' BY <2>1, <3>1 DEF Goto
      <3>4. QED BY <3>2, <3>3
    <2>2. CASE CallCpuOff(c) BY <2>2, CallCpuOffEffect DEF Goto
    <2>3. CASE CallCpuSuspend(c) BY <2>3 DEF CallCpuSuspend, Goto
    <2>4. CASE CallSystemOff(c) BY <2>4 DEF CallSystemOff, Goto
    <2>5. CASE BoardReset(c) BY <2>5 DEF BoardReset
    <2>6. QED BY <1>6, <2>1, <2>2, <2>3, <2>4, <2>5 DEF Kernel
  <1>7. ASSUME NEW c \in Core, CpuOff(c) \/ WfiWake(c) \/ SuspendWake(c)
        PROVE  SettledInv'
    <2>1. CASE CpuOff(c) BY <2>1 DEF CpuOff, Goto
    <2>2. CASE WfiWake(c) BY <2>2 DEF WfiWake, Goto
    <2>3. CASE SuspendWake(c) BY <2>3 DEF SuspendWake, Goto
    <2>4. QED BY <1>7, <2>1, <2>2, <2>3
  <1>8. QED BY <1>1, <1>2, <1>3, <1>4, <1>5, <1>6, <1>7 DEF Next, Firmware

-----------------------------------------------------------------------------
(* The results.                                                            *)

\* The invariant holds when the board powers up.
LEMMA SerialInit ==
  ASSUME TrackedCalls
  PROVE  Init => CallInv /\ PowerInv /\ CciInv /\ BootInv /\ SettledInv
  <1> SUFFICES ASSUME Init PROVE CallInv /\ PowerInv /\ CciInv /\ BootInv /\ SettledInv
    OBVIOUS
  <1> USE CoreAssumption DEF Init
  <1>1. CallInv
    BY DEF CallInv, InCall, OneCaller, CheckPcs, StorePcs, CalledIsDown, SlotFollowsCore,
           Running, CallerStoresOne, SlotHoldsOne, EnteredByOneRequest
  <1>2. PowerInv
    BY DEF PowerInv, StartsAlone, OneRequestBit, ResetReady, NeverAstray
  <1>3. CciInv BY DEF CciInv, BusyIsPolled, PortsJoined
  <1>4. BootInv BY DEF BootInv
  <1>5. SettledInv
    BY DEF SettledInv, TargetSettled, SlotFits, CheckPcs, StorePcs
  <1>6. QED BY <1>1, <1>2, <1>3, <1>4, <1>5

\* The layered invariant holds of every behaviour: for every number of cores
\* and of requests, whatever a power-on request does to a core in wfi.
THEOREM SerialSafe ==
  ASSUME TrackedCalls
  PROVE  Spec => [](CallInv /\ PowerInv /\ CciInv /\ BootInv)
  <1>1. TypeOK /\ AnyOrderInv /\ CallInv /\ PowerInv /\ CciInv /\ BootInv /\ [Next]_vars
          => CallInv' /\ PowerInv' /\ CciInv' /\ BootInv'
    BY CallStep, PowerStep, CciStep, BootStep
  <1>2. Spec => []AnyOrderInv BY AnyOrderSafe DEF TrackedCalls
  <1>3. QED BY <1>1, <1>2, TypeCorrect, SerialInit, PTL DEF Spec

\* A core that runs the kernel shows ON: no second start, no false "gone".
THEOREM RunningIsOn ==
  ASSUME TrackedCalls
  PROVE  Spec => []RunningCoreIsOn
  <1>1. AnyOrderInv /\ CallInv => RunningCoreIsOn
    BY DEF AnyOrderInv, BootCoreNotAsked, CallInv, SlotFollowsCore, Running, RunningCoreIsOn
  <1>2. Spec => []AnyOrderInv BY AnyOrderSafe DEF TrackedCalls
  <1>3. QED BY <1>1, <1>2, SerialSafe, PTL

\* A secondary runs with the entry point and the context of one CPU_ON.
THEOREM EntersByOneRequest ==
  ASSUME TrackedCalls
  PROVE  Spec => []EnteredByOneRequest
  <1>1. CallInv => EnteredByOneRequest BY DEF CallInv
  <1>2. QED BY <1>1, SerialSafe, PTL

\* Every core that is powered on starts in AArch64 at Startup.
THEOREM StartsInAArch64 ==
  ASSUME TrackedCalls
  PROVE  Spec => []NeverAstray
  <1>1. PowerInv => NeverAstray BY DEF PowerInv
  <1>2. QED BY <1>1, SerialSafe, PTL

\* A secondary is coherent by the time it runs the kernel.
THEOREM JoinsBeforeKernel ==
  ASSUME TrackedCalls
  PROVE  Spec => []CoherentInKernel
  <1>1. CciInv => CoherentInKernel
    BY DEF CciInv, PortsJoined, CoherentInKernel, Running
  <1>2. QED BY <1>1, SerialSafe, PTL

\* A step that writes a slot writes that of the call under way, which is OFF
\* and whose core is down.
LEMMA SlotStableStep ==
  ASSUME TypeOK, AnyOrderInv, CallInv, [Next]_vars, ~Booting, ~Booting',
         NEW t \in Core, state[t] = "ON_PENDING" \/ pc[t] \in LoadPcs
  PROVE  entry'[t] = entry[t] /\ context'[t] = context[t]
  <1> USE DEF TypeOK, Booting, CallInv, CalledIsDown, StorePcs, Down, slots, regs,
              power, bus
  <1>1. CASE CciSettle BY <1>1 DEF CciSettle
  <1>2. CASE UNCHANGED vars BY <1>2 DEF vars
  <1>3. ASSUME NEW c \in Core, StoreEntry(c) \/ StoreContext(c)
        PROVE  entry'[t] = entry[t] /\ context'[t] = context[t]
    <2>1. target[c] # t BY <1>3 DEF StoreEntry, StoreContext, Goto
    <2>2. QED BY <1>3, <2>1 DEF StoreEntry, StoreContext, Goto
  <1>4. ASSUME NEW c \in Core, CpuOn(c)
        PROVE  entry'[t] = entry[t] /\ context'[t] = context[t]
    BY <1>3, <1>4 DEF CpuOn, CheckNotOn, CheckNotPending, StorePending, ReadMode,
       WriteMode, WriteVector, RequestPower, ReadRequest, ClearRequest
  <1>5. ASSUME NEW c \in Core, Boot(c)
        PROVE  entry'[t] = entry[t] /\ context'[t] = context[t]
    BY <1>5 DEF Boot, ClearBss, InitCCI400, InitCCI400Done, Stage2Handoff,
       PsciInit, Launch, Goto, AnyOrderInv, BootAlone
  <1>6. ASSUME NEW c \in Core, SecondaryEntry(c)
        PROVE  entry'[t] = entry[t] /\ context'[t] = context[t]
    BY <1>6 DEF SecondaryEntry, Startup, JoinCCI, EnableCCIPort, CCIPortEnabled,
       ClearOwnRequest, WaitForCpuOn, Wfi, ConsumeRequest, LoadEntry, EnterNonSecure
  <1>7. ASSUME NEW c \in Core, Kernel(c)
        PROVE  entry'[t] = entry[t] /\ context'[t] = context[t]
    BY <1>7, CoreAssumption DEF Kernel, CallCpuOn, CallCpuOff, CallCpuSuspend,
       CallSystemOff, BoardReset
  <1>8. ASSUME NEW c \in Core, CpuOff(c) \/ WfiWake(c) \/ SuspendWake(c)
        PROVE  entry'[t] = entry[t] /\ context'[t] = context[t]
    BY <1>8 DEF CpuOff, WfiWake, SuspendWake
  <1>9. QED
    BY <1>1, <1>2, <1>4, <1>5, <1>6, <1>7, <1>8 DEF Next, Firmware

\* Nobody rewrites the slot of a core between ON_PENDING and its load.
THEOREM SlotIsStable ==
  ASSUME TrackedCalls
  PROVE  Spec => SlotStable
  <1>1. TypeOK /\ AnyOrderInv /\ CallInv /\ [Next]_vars
          => [\A t \in Core :
                (state[t] = "ON_PENDING" \/ pc[t] \in LoadPcs) /\ ~Booting /\ ~Booting'
                  => entry'[t] = entry[t] /\ context'[t] = context[t]]_vars
    BY SlotStableStep
  <1>2. Spec => []AnyOrderInv BY AnyOrderSafe DEF TrackedCalls
  <1>3. QED BY <1>1, <1>2, TypeCorrect, SerialSafe, PTL DEF Spec, SlotStable

\* With a kernel that waits for wfi too, a core that waits never shows ON ...
THEOREM SettledSafe ==
  ASSUME TrackedCalls, Order = "settled"
  PROVE  Spec => []SettledInv
  <1>1. TypeOK /\ AnyOrderInv /\ CallInv /\ PowerInv /\ SettledInv /\ [Next]_vars
          => SettledInv'
    BY SettledStep
  <1>2. Spec => []AnyOrderInv BY AnyOrderSafe DEF TrackedCalls
  <1>3. QED BY <1>1, <1>2, TypeCorrect, SerialSafe, SerialInit, PTL DEF Spec

\* ... and its next CPU_ON is not answered ALREADY_ON, ...
THEOREM SleepersCanBeStarted ==
  ASSUME TrackedCalls, Order = "settled"
  PROVE  Spec => []SleeperCanBeStarted
  <1>1. SettledInv => SleeperCanBeStarted
    BY DEF SettledInv, SlotFits, SleeperCanBeStarted
  <1>2. QED BY <1>1, SettledSafe, PTL

\* ... and one that restarts finds the request it restarts for.
THEOREM RestartsFindTheirSlot ==
  ASSUME TrackedCalls, Order = "settled"
  PROVE  Spec => []RestartFindsSlot
  <1>1. AnyOrderInv /\ SettledInv => RestartFindsSlot
    BY DEF AnyOrderInv, BootAlone, Booting, SettledInv, SlotFits, RestartFindsSlot
  <1>2. Spec => []AnyOrderInv BY AnyOrderSafe DEF TrackedCalls
  <1>3. QED BY <1>1, <1>2, SettledSafe, PTL
=============================================================================
