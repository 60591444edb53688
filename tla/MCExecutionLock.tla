-------------------------- MODULE MCExecutionLock --------------------------
(* Two cases with two plan versions each and two processes: enough for a   *)
(* second case to compete for the pilot row, for a later plan of the same  *)
(* case to follow a settled one, and for a claim to be taken over twice.   *)
EXTENDS ExecutionLock, TLC

CONSTANTS c1, c2, w1, w2

MCCases == {c1, c2}
MCWorkers == {w1, w2}
MCVersions == 1..2

Symmetry == Permutations(MCCases) \cup Permutations(MCWorkers)
=============================================================================
