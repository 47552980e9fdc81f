----------------------- MODULE PsciRefinementProofs -----------------------
(***************************************************************************)
(* The firmware keeps PSCI's promise: under a kernel that tracks its cores *)
(* every behaviour of PsciSmp, seen through AFFINITY_INFO and the slots,   *)
(* is one of Psci.  Publishing ON_PENDING is the promise's CpuOn, entering *)
(* the kernel its Enter, publishing OFF its CpuOff, a reset of the board   *)
(* its Reset; every other step of every core is invisible to it.           *)
(***************************************************************************)
EXTENDS PsciRefinement, PsciSerialProofs

USE DEF Pcs, BootPcs, StartPcs, LoadPcs, WaitPcs, OnPcs, KernelPcs, StopPcs

\* What AFFINITY_INFO and the slot show of one core.
Shown(c) == IF pc[c] \in LoadPcs THEN "ON_PENDING" ELSE state[c]

\* What the promise cannot see: steps that change no core's shown state and
\* write no slot that counts.
Unseen ==
  /\ Booting' <=> Booting
  /\ UNCHANGED entered
  /\ ~Booting =>
       \A c \in Core :
         /\ Shown(c)' = Shown(c)
         /\ Shown(c) = "ON_PENDING" => entry'[c] = entry[c] /\ context'[c] = context[c]

LEMMA UnseenStutters == Unseen => UNCHANGED P!vars
  <1> SUFFICES ASSUME Unseen PROVE UNCHANGED P!vars OBVIOUS
  <1> USE DEF Unseen, Shown
  <1>1. AbsPower' = AbsPower BY DEF AbsPower
  <1>2. \A c \in Core : AbsPower[c] = "ON_PENDING" => ~Booting /\ Shown(c) = "ON_PENDING"
    BY DEF AbsPower
  <1>3. AbsRequest' = AbsRequest BY <1>1, <1>2 DEF AbsRequest
  <1>4. QED BY <1>1, <1>3 DEF P!vars

\* The board powers up as the promise starts.
LEMMA PromiseInit == Init => P!Init
  <1> SUFFICES ASSUME Init PROVE P!Init OBVIOUS
  <1>1. Booting BY CoreAssumption DEF Init, Booting
  <1>2. AbsPower = [c \in Core |-> IF c = BootCore THEN "ON" ELSE "OFF"]
    BY <1>1 DEF AbsPower
  <1>3. AbsRequest = [c \in Core |-> <<NoReq, NoReq>>] BY <1>2 DEF AbsRequest
  <1>4. QED BY <1>2, <1>3 DEF P!Init, Init

-----------------------------------------------------------------------------
(* The steps the promise sees.                                             *)

\* The kernel of CPU0 starts when the slots show what the promise starts with.
LEMMA LaunchStutters ==
  ASSUME TypeOK, AnyOrderInv, BootInv, NEW c \in Core, Launch(c)
  PROVE  UNCHANGED P!vars
  <1>1. c = BootCore /\ Booting /\ ~Booting'
    BY DEF AnyOrderInv, BootAlone, Booting, Launch, Goto, TypeOK
  <1>2. \A x \in Core : pc'[x] \notin LoadPcs
    BY <1>1, CoreAssumption DEF AnyOrderInv, BootAlone, Launch, Goto, TypeOK
  <1>3. state' = [x \in Core |-> IF x = BootCore THEN "ON" ELSE "OFF"]
    BY <1>1 DEF Launch, Goto, BootInv, slots
  <1>4. AbsPower' = AbsPower BY <1>1, <1>2, <1>3 DEF AbsPower
  <1>5. \A x \in Core : AbsPower[x] # "ON_PENDING" BY <1>1 DEF AbsPower
  <1>6. AbsRequest' = AbsRequest BY <1>4, <1>5 DEF AbsRequest
  <1>7. QED BY <1>4, <1>6 DEF P!vars, Launch

\* Publishing ON_PENDING accepts the call: entry and context are those of it.
LEMMA StorePendingAccepts ==
  ASSUME TypeOK, AnyOrderInv, CallInv, NEW c \in Core, StorePending(c)
  PROVE  P!Next
  <1> DEFINE t == target[c]
  <1> USE DEF TypeOK, slots, regs
  <1>1. /\ t \in Core /\ pc[c] = "storePending" /\ pc' = [pc EXCEPT ![c] = "readMode"]
        /\ state' = [state EXCEPT ![t] = "ON_PENDING"]
        /\ UNCHANGED <<entry, context, entered>>
    BY DEF StorePending, Goto
  <1>2. ~Booting /\ ~Booting'
    BY <1>1, CoreAssumption DEF AnyOrderInv, BootAlone, Booting
  <1>3. t # c /\ state[t] = "OFF" /\ pc[t] \notin LoadPcs
    BY <1>1 DEF CallInv, CalledIsDown, StorePcs, Down
  <1>4. entry[t] = arg[c] /\ context[t] = arg[c] /\ entry[t] \in Req
    BY <1>1 DEF CallInv, CallerStoresOne, AnyOrderInv, CallerHoldsRequest
  <1>5. AbsPower[t] = "OFF" BY <1>1, <1>2, <1>3 DEF AbsPower
  <1>6. AbsPower' = [AbsPower EXCEPT ![t] = "ON_PENDING"]
    BY <1>1, <1>2, <1>3 DEF AbsPower
  <1>7. AbsRequest' = [AbsRequest EXCEPT ![t] = <<arg[c], arg[c]>>]
    <2>1. \A x \in Core : AbsPower'[x] = IF x = t THEN "ON_PENDING" ELSE AbsPower[x]
      BY <1>6 DEF AbsPower
    <2>2. QED BY <1>1, <1>4, <2>1 DEF AbsRequest
  <1>8. P!CpuOn(t, arg[c]) BY <1>1, <1>5, <1>6, <1>7 DEF P!CpuOn
  <1>9. QED BY <1>1, <1>4, <1>8 DEF P!Next

\* Entering the kernel serves it, with the request of the slot.
LEMMA EnterServes ==
  ASSUME TypeOK, AnyOrderInv, CallInv, NEW c \in Core, EnterNonSecure(c)
  PROVE  P!Next
  <1> USE DEF TypeOK, slots
  <1>1. /\ pc[c] = "loadContext" /\ pc' = [pc EXCEPT ![c] = "kernel"]
        /\ entered' = [entered EXCEPT ![c] = <<arg[c], context[c]>>]
        /\ UNCHANGED <<state, entry, context>>
    BY DEF EnterNonSecure, Goto
  <1>2. c # BootCore /\ ~Booting /\ ~Booting'
    BY <1>1, CoreAssumption DEF AnyOrderInv, BootAlone, Booting
  <1>3. state[c] = "ON" /\ arg[c] = entry[c]
    BY <1>1, <1>2 DEF CallInv, SlotFollowsCore, SlotHoldsOne, Booting
  <1>4. AbsPower[c] = "ON_PENDING" BY <1>1, <1>2 DEF AbsPower
  <1>5. AbsPower' = [AbsPower EXCEPT ![c] = "ON"]
    BY <1>1, <1>2, <1>3 DEF AbsPower
  <1>6. AbsRequest[c] = <<arg[c], context[c]>> BY <1>3, <1>4 DEF AbsRequest
  <1>7. AbsRequest' = [AbsRequest EXCEPT ![c] = <<NoReq, NoReq>>]
    <2>1. \A x \in Core : AbsPower'[x] = IF x = c THEN "ON" ELSE AbsPower[x]
      BY <1>5 DEF AbsPower
    <2>2. QED BY <1>1, <2>1 DEF AbsRequest
  <1>8. P!Enter(c) BY <1>1, <1>4, <1>5, <1>6, <1>7 DEF P!Enter
  <1>9. QED BY <1>8 DEF P!Next

\* Publishing OFF is the leaving of a core that showed ON.
LEMMA CpuOffLeaves ==
  ASSUME TypeOK, AnyOrderInv, CallInv, NEW c \in Core, CpuOff(c)
  PROVE  P!Next
  <1> USE DEF TypeOK
  <1>1. /\ pc[c] = "storeOff" /\ pc' = [pc EXCEPT ![c] = "wait"]
        /\ state' = [state EXCEPT ![c] = "OFF"]
        /\ UNCHANGED <<entry, context, entered>>
    BY DEF CpuOff, Goto
  <1>2. c # BootCore /\ ~Booting /\ ~Booting'
    BY <1>1, CoreAssumption DEF AnyOrderInv, BootAlone, Booting
  <1>3. state[c] = "ON" BY <1>1, <1>2 DEF CallInv, SlotFollowsCore, Running
  <1>4. AbsPower[c] = "ON" BY <1>1, <1>2, <1>3 DEF AbsPower
  <1>5. AbsPower' = [AbsPower EXCEPT ![c] = "OFF"] BY <1>1, <1>2 DEF AbsPower
  <1>6. AbsRequest' = AbsRequest
    <2>1. \A x \in Core : AbsPower'[x] = IF x = c THEN "OFF" ELSE AbsPower[x]
      BY <1>5 DEF AbsPower
    <2>2. QED BY <1>1, <1>4, <2>1 DEF AbsRequest
  <1>7. P!CpuOff(c) BY <1>1, <1>4, <1>5, <1>6 DEF P!CpuOff
  <1>8. QED BY <1>7 DEF P!Next

\* A reset of the board starts the promise over.
LEMMA BoardResetResets ==
  ASSUME NEW c \in Core, BoardReset(c)
  PROVE  P!Next
  <1>1. Booting' BY CoreAssumption DEF BoardReset, Booting
  <1>2. AbsPower' = [x \in Core |-> IF x = BootCore THEN "ON" ELSE "OFF"]
    BY <1>1 DEF AbsPower
  <1>3. AbsRequest' = [x \in Core |-> <<NoReq, NoReq>>]
    <2>1. \A x \in Core : AbsPower'[x] # "ON_PENDING" BY <1>1 DEF AbsPower
    <2>2. QED BY <2>1 DEF AbsRequest
  <1>4. P!Reset BY <1>2, <1>3 DEF P!Reset, P!Init, BoardReset
  <1>5. QED BY <1>4 DEF P!Next

-----------------------------------------------------------------------------
(* The steps it does not see.                                              *)

\* CPU0's way up is invisible until its kernel starts.
LEMMA BootMaps ==
  ASSUME TypeOK, AnyOrderInv, CallInv, BootInv, TrackedCalls,
         NEW c \in Core, Boot(c)
  PROVE  [P!Next]_(P!vars)
  <1> USE CoreAssumption, OptionAssumption
      DEF TypeOK, AnyOrderInv, BootAlone, BootCoreNotAsked, CallInv,
          CalledIsDown, CheckPcs, StorePcs, Down, SlotFollowsCore, BootInv,
          Booting, Unseen, Shown, slots, regs
  <1>1. ASSUME ClearBss(c) PROVE Unseen BY <1>1 DEF ClearBss, Goto
  <1>2. ASSUME InitCCI400(c) PROVE Unseen BY <1>2 DEF InitCCI400, Goto
  <1>3. ASSUME InitCCI400Done(c) PROVE Unseen BY <1>3 DEF InitCCI400Done, Goto
  <1>4. ASSUME Stage2Handoff(c) PROVE Unseen
    <2>1. c = BootCore /\ handoff BY <1>4 DEF Stage2Handoff, Goto
    <2>2. Goto(c, "bootMain", "psciInit") BY <1>4, <2>1 DEF Stage2Handoff
    <2>3. QED BY <1>4, <2>1, <2>2 DEF Stage2Handoff, Goto
  <1>5. ASSUME PsciInit(c) PROVE Unseen BY <1>5 DEF PsciInit, Goto
  <1>6. CASE Launch(c) BY <1>6, LaunchStutters
  <1>7. QED BY <1>1, <1>2, <1>3, <1>4, <1>5, <1>6, UnseenStutters DEF Boot

\* A secondary's way up is invisible until it enters the kernel.
LEMMA SecondaryMaps ==
  ASSUME TypeOK, AnyOrderInv, CallInv, BootInv, TrackedCalls,
         NEW c \in Core, SecondaryEntry(c)
  PROVE  [P!Next]_(P!vars)
  <1> USE CoreAssumption, OptionAssumption
      DEF TypeOK, AnyOrderInv, BootAlone, BootCoreNotAsked, CallInv,
          CalledIsDown, CheckPcs, StorePcs, Down, SlotFollowsCore, BootInv,
          Booting, Unseen, Shown, slots, regs
  <1>1. ASSUME Startup(c) PROVE Unseen BY <1>1 DEF Startup, Goto
  <1>2. ASSUME EnableCCIPort(c, "G0", "joinG0", "waitG0", AfterG0(c)) PROVE Unseen
    BY <1>2 DEF AfterG0, EnableCCIPort, Goto
  <1>3. ASSUME CCIPortEnabled(c, "waitG0", AfterG0(c)) PROVE Unseen
    BY <1>3 DEF CCIPortEnabled, Goto, AfterG0
  <1>4. ASSUME EnableCCIPort(c, "G1", "joinG1", "waitG1", "clearReq") PROVE Unseen
    BY <1>4 DEF EnableCCIPort, Goto
  <1>5. ASSUME CCIPortEnabled(c, "waitG1", "clearReq") PROVE Unseen
    BY <1>5 DEF CCIPortEnabled, Goto
  <1>6. ASSUME ClearOwnRequest(c) PROVE Unseen
    BY <1>6 DEF ClearOwnRequest, PowerWrite, Asleep, ResetPc
  <1>7. ASSUME WaitForCpuOn(c) PROVE Unseen BY <1>7 DEF WaitForCpuOn, Goto
  <1>8. ASSUME Wfi(c) PROVE Unseen BY <1>8 DEF Wfi, Goto
  <1>9. ASSUME ConsumeRequest(c) PROVE Unseen BY <1>9 DEF ConsumeRequest, Goto
  <1>10. ASSUME LoadEntry(c) PROVE Unseen BY <1>10 DEF LoadEntry, Goto
  <1>11. CASE EnterNonSecure(c) BY <1>11, EnterServes
  <1>12. QED
    BY <1>1, <1>2, <1>3, <1>4, <1>5, <1>6, <1>7, <1>8, <1>9, <1>10, <1>11,
       UnseenStutters
    DEF SecondaryEntry, JoinCCI

\* A write of CPUPOWERONREQ that does not name CPU0 is invisible.
LEMMA PowerWriteUnseen ==
  ASSUME TypeOK, AnyOrderInv, NEW c \in Core,
         NEW from \in OnPcs, NEW to \in OnPcs \cup {"kernel"}, NEW bits,
         PowerWrite(c, from, to, bits), BootCore \notin bits,
         UNCHANGED <<slots, entered>>
  PROVE  Unseen
  <1>1. \A x \in Core : pc'[x] \in LoadPcs <=> pc[x] \in LoadPcs
    BY DEF PowerWrite, Asleep, ResetPc, TypeOK
  <1>2. Booting' <=> Booting
    BY CoreAssumption DEF PowerWrite, Asleep, ResetPc, TypeOK, Booting
  <1>3. QED BY <1>1, <1>2 DEF Unseen, Shown, slots

\* A CPU_ON is invisible but for the step that publishes ON_PENDING.
LEMMA CpuOnMaps ==
  ASSUME TypeOK, AnyOrderInv, CallInv, BootInv, TrackedCalls,
         NEW c \in Core, CpuOn(c)
  PROVE  [P!Next]_(P!vars)
  <1> USE CoreAssumption, OptionAssumption
      DEF TypeOK, AnyOrderInv, BootAlone, BootCoreNotAsked, CallInv,
          CalledIsDown, CheckPcs, StorePcs, Down, SlotFollowsCore, BootInv,
          Booting, Unseen, Shown, slots, regs
  <1>1. ASSUME CheckNotOn(c) PROVE Unseen BY <1>1 DEF CheckNotOn, Goto
  <1>2. ASSUME CheckNotPending(c) PROVE Unseen
    BY <1>2 DEF CheckNotPending, Goto
  <1>3. ASSUME StoreEntry(c) PROVE Unseen BY <1>3 DEF StoreEntry, Goto
  <1>4. ASSUME StoreContext(c) PROVE Unseen BY <1>4 DEF StoreContext, Goto
  <1>5. CASE StorePending(c) BY <1>5, StorePendingAccepts
  <1>6. ASSUME ReadMode(c) PROVE Unseen BY <1>6 DEF ReadMode, Goto
  <1>7. ASSUME WriteMode(c) PROVE Unseen
    BY <1>7 DEF WriteMode, Goto, ClusterOf
  <1>8. ASSUME WriteVector(c) PROVE Unseen BY <1>8 DEF WriteVector, Goto
  <1>9. ASSUME RequestPower(c) PROVE Unseen
    <2>1. PowerWrite(c, "request", "readReq", {target[c]})
      BY <1>9 DEF RequestPower
    <2>2. BootCore \notin {target[c]} BY <2>1 DEF PowerWrite
    <2>3. QED BY <1>9, <2>1, <2>2, PowerWriteUnseen DEF RequestPower
  <1>10. ASSUME ReadRequest(c) PROVE Unseen BY <1>10 DEF ReadRequest, Goto
  <1>11. ASSUME ClearRequest(c) PROVE Unseen
    <2>1. PowerWrite(c, "writeReq", "kernel", tmp[c] \ {target[c]})
      BY <1>11 DEF ClearRequest
    <2>2. BootCore \notin tmp[c] \ {target[c]} BY <2>1 DEF PowerWrite
    <2>3. "writeReq" \in OnPcs /\ "kernel" \in OnPcs \cup {"kernel"} OBVIOUS
    <2>4. UNCHANGED <<slots, entered>> BY <1>11 DEF ClearRequest
    <2>5. QED BY <2>1, <2>2, <2>3, <2>4, PowerWriteUnseen, SMTT(20)
  <1>12. QED
    BY <1>1, <1>2, <1>3, <1>4, <1>5, <1>6, <1>7, <1>8, <1>9, <1>10, <1>11,
       UnseenStutters
    DEF CpuOn

\* The kernel's calls are invisible until the firmware acts on them.
LEMMA KernelMaps ==
  ASSUME TypeOK, AnyOrderInv, CallInv, BootInv, TrackedCalls,
         NEW c \in Core, Kernel(c)
  PROVE  [P!Next]_(P!vars)
  <1> USE CoreAssumption, OptionAssumption
      DEF TypeOK, AnyOrderInv, BootAlone, BootCoreNotAsked, CallInv,
          CalledIsDown, CheckPcs, StorePcs, Down, SlotFollowsCore, BootInv,
          Booting, Unseen, Shown, slots, regs
  <1>1. ASSUME NEW t \in Core, NEW r \in Req, CallCpuOn(c, t, r) PROVE Unseen
    BY <1>1 DEF CallCpuOn, Goto
  <1>2. ASSUME CallCpuOff(c) PROVE Unseen BY <1>2 DEF CallCpuOff, Goto
  <1>3. ASSUME CallCpuSuspend(c) PROVE Unseen BY <1>3 DEF CallCpuSuspend, Goto
  <1>4. ASSUME CallSystemOff(c) PROVE Unseen BY <1>4 DEF CallSystemOff, Goto
  <1>5. CASE BoardReset(c) BY <1>5, BoardResetResets
  <1>6. QED BY <1>1, <1>2, <1>3, <1>4, <1>5, UnseenStutters DEF Kernel

-----------------------------------------------------------------------------
(* The result.                                                             *)

LEMMA StepMaps ==
  ASSUME TypeOK, AnyOrderInv, CallInv, BootInv, TrackedCalls, [Next]_vars
  PROVE  [P!Next]_(P!vars)
  <1>1. ASSUME CciSettle PROVE Unseen
    BY <1>1 DEF CciSettle, Unseen, Shown, Booting, slots
  <1>2. ASSUME UNCHANGED vars PROVE Unseen
    BY <1>2 DEF vars, Unseen, Shown, Booting, slots
  <1>3. ASSUME NEW c \in Core, WfiWake(c) \/ SuspendWake(c) PROVE Unseen
    BY <1>3, CoreAssumption
    DEF WfiWake, SuspendWake, Goto, Unseen, Shown, Booting, slots, TypeOK
  <1>4. QED
    BY <1>1, <1>2, <1>3, UnseenStutters, BootMaps, SecondaryMaps, CpuOnMaps,
       CpuOffLeaves, KernelMaps
    DEF Next, Firmware

\* The firmware implements PSCI's promise: whatever the number of cores, a
\* core that is off accepts one request, enters the kernel with exactly that
\* request, and runs until it asks to leave.
THEOREM FirmwareKeepsThePromise ==
  ASSUME TrackedCalls
  PROVE  Spec => ImplementsPsci
  <1>1. TypeOK /\ AnyOrderInv /\ CallInv /\ BootInv /\ [Next]_vars => [P!Next]_(P!vars)
    BY StepMaps
  <1>2. Spec => []AnyOrderInv BY AnyOrderSafe DEF TrackedCalls
  <1>3. QED
    BY <1>1, <1>2, PromiseInit, TypeCorrect, SerialSafe, PTL
    DEF Spec, ImplementsPsci, P!Spec
=============================================================================
