--------------------------- MODULE PsciRefinement ---------------------------
(***************************************************************************)
(* PsciSmp implements Psci.  The promise starts when CPU0 has run psciInit *)
(* for the first kernel; a core that has taken its request out of the slot *)
(* but is not in the kernel yet still counts as ON_PENDING.                *)
(***************************************************************************)
EXTENDS PsciSmp

\* What AFFINITY_INFO tells, read as the promise means it.
AbsPower ==
  [c \in Core |-> IF Booting THEN (IF c = BootCore THEN "ON" ELSE "OFF")
                  ELSE IF pc[c] \in LoadPcs THEN "ON_PENDING"
                  ELSE state[c]]

\* A slot counts while its core is on its way up.
AbsRequest ==
  [c \in Core |-> IF AbsPower[c] = "ON_PENDING" THEN <<entry[c], context[c]>>
                  ELSE <<NoReq, NoReq>>]

P == INSTANCE Psci WITH power <- AbsPower, request <- AbsRequest

\* Every step of the firmware is one the promise allows, or none: entry and
\* context of a CPU_ON arrive together, once, at the core they were meant for.
ImplementsPsci == P!Spec

\* And an accepted CPU_ON is served.
ServesPsci == P!FairSpec
=============================================================================
