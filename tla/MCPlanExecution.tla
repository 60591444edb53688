-------------------------- MODULE MCPlanExecution --------------------------
(* One plan of two payouts, two concurrent reconcile calls.                *)
EXTENDS PlanExecution, TLC

CONSTANTS r1, r2

MCReconcilers == {r1, r2}
Symmetry == Permutations(MCReconcilers)
=============================================================================
