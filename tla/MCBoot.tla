------------------------------- MODULE MCBoot -------------------------------
(* Instances of Boot for TLC.                                              *)
EXTENDS Boot

\* The reference headers train the gate only; the other values take every step.
MCModes ==
  {[type |-> "DDR3", train |-> {"GT_LVL"}], [type |-> "DDR3", train |-> Trainings],
   [type |-> "LPDDR3", train |-> LpTrainings]}
=============================================================================
