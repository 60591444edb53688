------------------------------ MODULE LockRows ------------------------------
(***************************************************************************)
(* The values a row of case_execution_locks takes (case-store.ts).  A      *)
(* missing row is NoRow.  lease_updated_at is abstracted to fresh: whether *)
(* it is younger than STALE_EXECUTION_RECOVERY_MS (two minutes).           *)
(***************************************************************************)
EXTENDS Naturals

NoRow == [ver |-> 0, state |-> "NONE", token |-> 0, fresh |-> FALSE]

\* Mutant of the inserted row: the attempt's state instead of the lock's.
NewRow_AttemptState(v) == [ver |-> v, state |-> "SUBMITTING", token |-> 0, fresh |-> TRUE]

\* The INSERT of reserveExecution.
NewRow(v) == [ver |-> v, state |-> "ACTIVE", token |-> 0, fresh |-> TRUE]

\* The UPDATE of markExecutionReadyAfterSubmission and
\* releaseExecutionReconciliationClaim.
ReadyRow(v) == [ver |-> v, state |-> "READY_TO_RECONCILE", token |-> 0, fresh |-> TRUE]

\* The UPDATE of both claim statements.
ClaimedRow(v, t) == [ver |-> v, state |-> "RECONCILING", token |-> t, fresh |-> TRUE]

=============================================================================
