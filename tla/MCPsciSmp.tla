----------------------------- MODULE MCPsciSmp -----------------------------
(* Small instances of PsciSmp for TLC: CPU0 and two cores of cluster 1.    *)
EXTENDS PsciRefinement, TLC

\* The request names are interchangeable.
ReqSymmetry == Permutations(Req)
=============================================================================
