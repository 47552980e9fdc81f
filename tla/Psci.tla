------------------------------- MODULE Psci -------------------------------
(***************************************************************************)
(* What PSCI promises a kernel about CPU_ON and CPU_OFF, without a word of *)
(* how: a core that is off accepts one request, enters the kernel with     *)
(* exactly that request, and runs until it asks to leave.  psci.c's slots, *)
(* enum PsciCpuState and the comments on cpuOn and cpuOff state it;        *)
(* PsciSmp implements it.                                                  *)
(***************************************************************************)
CONSTANTS
  Core, BootCore,
  Req,             \* what a CPU_ON asks for
  NoReq

VARIABLES
  power,           \* what AFFINITY_INFO tells of each core
  request,         \* the request a core on its way up will start with
  entered          \* the request each core last started with

vars == <<power, request, entered>>

Init ==
  /\ power = [c \in Core |-> IF c = BootCore THEN "ON" ELSE "OFF"]
  /\ request = [c \in Core |-> <<NoReq, NoReq>>]
  /\ entered = [c \in Core |-> <<NoReq, NoReq>>]

\* Entry point and context of one call travel together.
CpuOn(c, r) ==
  /\ power[c] = "OFF"
  /\ power' = [power EXCEPT ![c] = "ON_PENDING"]
  /\ request' = [request EXCEPT ![c] = <<r, r>>]
  /\ UNCHANGED entered

Enter(c) ==
  /\ power[c] = "ON_PENDING"
  /\ power' = [power EXCEPT ![c] = "ON"]
  /\ entered' = [entered EXCEPT ![c] = request[c]]
  /\ request' = [request EXCEPT ![c] = <<NoReq, NoReq>>]

CpuOff(c) ==
  /\ power[c] = "ON"
  /\ power' = [power EXCEPT ![c] = "OFF"]
  /\ UNCHANGED <<request, entered>>

\* SYSTEM_RESET starts the board over.
Reset == Init'

Next ==
  \/ \E c \in Core : (\E r \in Req : CpuOn(c, r)) \/ Enter(c) \/ CpuOff(c)
  \/ Reset

Spec == Init /\ [][Next]_vars

\* An accepted request is served.
FairSpec == Spec /\ \A c \in Core : WF_vars(Enter(c))
=============================================================================
