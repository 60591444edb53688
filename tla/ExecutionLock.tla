--------------------------- MODULE ExecutionLock ---------------------------
(***************************************************************************)
(* The reservation protocol of case-store.ts that decides which worker may *)
(* submit or reconcile payouts: the tables case_execution_locks (row) and  *)
(* sandbox_execution_locks (pilot), the two-minute lease, and the claim    *)
(* tokens of reconciliation.  A worker is one service process on the       *)
(* shared SQLite file; every action is one store transaction made by       *)
(* executePlan or reconcile of case-service.ts.                            *)
(***************************************************************************)
EXTENDS LockRows

CONSTANTS
  Cases,      \* brokered cases
  Versions,   \* funding-plan versions of a case
  Workers,    \* service processes sharing the database
  MaxClaims   \* bound: reconciliation claims issued in one behaviour

ASSUME LockAssumption == /\ Versions \subseteq Nat \ {0}
                         /\ MaxClaims \in Nat

VARIABLES
  row,          \* case_execution_locks, keyed by case
  pilot,        \* sandbox_execution_locks: its single 'high-value-sandbox-pilot' row
  plan,         \* status of each plan version in the durable record
  executing,    \* executePlan calls in progress
  reconciling,  \* reconcile calls that hold, or held, a claim
  issued,       \* claim tokens handed out (randomUUID: never repeated)
  lastWriter    \* token of the last guarded write of the record, 0 for the executor

vars == <<row, pilot, plan, executing, reconciling, issued, lastWriter>>

LockStates == {"NONE", "ACTIVE", "READY_TO_RECONCILE", "RECONCILING"}
Final == {"RECONCILED", "FAILED"}
PlanStates == {"UNSUBMITTED", "EXECUTING"} \cup Final

Row == [ver: Versions \cup {0}, state: LockStates, token: Nat, fresh: BOOLEAN]
Execution == [w: Workers, c: Cases, v: Versions]
Claim == [w: Workers, c: Cases, v: Versions, token: Nat, closed: BOOLEAN]

Reserved(c) == row[c].state # "NONE"

Init == /\ row = [c \in Cases |-> NoRow]
        /\ pilot = {}
        /\ plan = [c \in Cases |-> [v \in Versions |-> "UNSUBMITTED"]]
        /\ executing = {}
        /\ reconciling = {}
        /\ issued = 0
        /\ lastWriter = [c \in Cases |-> 0]

----------------------------------------------------------------------------
(* Which holder a guarded write, heartbeat or release is accepted from.    *)

\* Mutant: the token is not compared.
OwnsClaim_AnyToken(r) == row[r.c].ver = r.v /\ row[r.c].state = "RECONCILING"

\* The WHERE clause of heartbeatExecutionLock and the guard of
\* assertMutationAllowed for a submission worker.
OwnsActive(e) == row[e.c].ver = e.v /\ row[e.c].state = "ACTIVE"

\* The same for a reconciliation worker, which also presents its token.
OwnsClaim(r) == /\ row[r.c].ver = r.v
                /\ row[r.c].state = "RECONCILING"
                /\ row[r.c].token = r.token

\* releaseExecutionReservation: both rows go, and only for this case and plan.
RowAfterRelease(c, v) == IF row[c].ver = v THEN [row EXCEPT ![c] = NoRow] ELSE row
PilotAfterRelease(c, v) == pilot \ {<<c, v>>}

----------------------------------------------------------------------------
(* executePlan: reserve, submit under a heartbeat, hand over.              *)

\* Mutant: INSERT OR IGNORE into the pilot table, its result not looked at.
PilotFree_Ignored == TRUE
PilotFree == pilot = {}

\* reserveExecution.  CASE_LOCKED, PILOT_LOCKED and STALE change nothing.
Reserve(w, c, v) ==
  /\ plan[c][v] = "UNSUBMITTED"
  /\ \A e \in executing : e.w # w          \* activeSandboxExecutionKey
  /\ ~Reserved(c)
  /\ PilotFree
  /\ row' = [row EXCEPT ![c] = NewRow(v)]
  /\ pilot' = pilot \cup {<<c, v>>}
  /\ plan' = [plan EXCEPT ![c][v] = "EXECUTING"]
  /\ executing' = executing \cup {[w |-> w, c |-> c, v |-> v]}
  /\ lastWriter' = [lastWriter EXCEPT ![c] = 0]
  /\ UNCHANGED <<reconciling, issued>>

HeartbeatExecution(e) ==
  /\ OwnsActive(e)
  /\ row' = [row EXCEPT ![e.c].fresh = TRUE]
  /\ UNCHANGED <<pilot, plan, executing, reconciling, issued, lastWriter>>

\* A save with requiredExecutionPlanVersion.
SaveByExecutor(e) ==
  /\ OwnsActive(e)
  /\ lastWriter' = [lastWriter EXCEPT ![e.c] = 0]
  /\ UNCHANGED <<row, pilot, plan, executing, reconciling, issued>>

\* Mutant of the hand-over: the reservation is dropped instead of kept.
HandOver_Release(e) ==
  /\ row' = RowAfterRelease(e.c, e.v)
  /\ pilot' = PilotAfterRelease(e.c, e.v)

\* markExecutionReadyAfterSubmission, or the release of a plan that another
\* worker has settled meanwhile.
HandOver(e) ==
  \/ /\ row' = IF OwnsActive(e) THEN [row EXCEPT ![e.c] = ReadyRow(e.v)] ELSE row
     /\ pilot' = pilot
  \/ /\ plan[e.c][e.v] \in Final
     /\ row' = RowAfterRelease(e.c, e.v)
     /\ pilot' = PilotAfterRelease(e.c, e.v)

\* The finally block of executePlan, after success or any exception.
FinishExecution(e) ==
  /\ HandOver(e)
  /\ executing' = executing \ {e}
  /\ UNCHANGED <<plan, reconciling, issued, lastWriter>>

----------------------------------------------------------------------------
(* reconcile: claim, observe under a heartbeat, save, release.             *)

\* Mutant: one constant token instead of a fresh one per claim.
NextToken_Reused == 1

NextToken == issued + 1

NewClaim(w, c, v, t) == [w |-> w, c |-> c, v |-> v, token |-> t, closed |-> FALSE]

Grant(w, c, v) ==
  /\ issued < MaxClaims
  /\ issued' = issued + 1
  /\ row' = [row EXCEPT ![c] = ClaimedRow(v, NextToken)]
  /\ reconciling' = reconciling \cup {NewClaim(w, c, v, NextToken)}
  /\ UNCHANGED <<pilot, plan, executing, lastWriter>>

ClaimReady(w, c, v) ==
  /\ row[c].ver = v /\ row[c].state = "READY_TO_RECONCILE"
  /\ Grant(w, c, v)

\* The plan was EXECUTING when reconcile read it; it may have closed since.
ClaimStale(w, c, v) ==
  /\ row[c].ver = v /\ row[c].state \in {"ACTIVE", "RECONCILING"}
  /\ ~row[c].fresh
  /\ Grant(w, c, v)

HeartbeatClaim(r) ==
  /\ OwnsClaim(r)
  /\ row' = [row EXCEPT ![r.c].fresh = TRUE]
  /\ UNCHANGED <<pilot, plan, executing, reconciling, issued, lastWriter>>

\* saveIfCurrent of a reconciliation that found the plan still open.
SaveOpen(r) ==
  /\ ~r.closed /\ OwnsClaim(r)
  /\ plan[r.c][r.v] = "EXECUTING"
  /\ lastWriter' = [lastWriter EXCEPT ![r.c] = r.token]
  /\ UNCHANGED <<row, pilot, plan, executing, reconciling, issued>>

\* saveIfCurrent of a reconciliation that settles the plan.  A plan settled
\* by an earlier holder is settled the same way again.
Close(r, outcome) ==
  /\ ~r.closed /\ OwnsClaim(r)
  /\ outcome \in Final
  /\ plan[r.c][r.v] \in {"EXECUTING", outcome}
  /\ plan' = [plan EXCEPT ![r.c][r.v] = outcome]
  /\ lastWriter' = [lastWriter EXCEPT ![r.c] = r.token]
  /\ reconciling' = (reconciling \ {r}) \cup {[r EXCEPT !.closed = TRUE]}
  /\ UNCHANGED <<row, pilot, executing, issued>>

\* releaseExecutionReservation after the settling save.
ReleaseReservation(r) ==
  /\ r.closed
  /\ row' = RowAfterRelease(r.c, r.v)
  /\ pilot' = PilotAfterRelease(r.c, r.v)
  /\ reconciling' = reconciling \ {r}
  /\ UNCHANGED <<plan, executing, issued, lastWriter>>

\* releaseExecutionReconciliationClaim: still open, or after any error.
ReleaseClaim(r) ==
  /\ ~r.closed
  /\ row' = IF OwnsClaim(r) THEN [row EXCEPT ![r.c] = ReadyRow(r.v)] ELSE row
  /\ reconciling' = reconciling \ {r}
  /\ UNCHANGED <<pilot, plan, executing, issued, lastWriter>>

----------------------------------------------------------------------------
(* Time and crashes.                                                       *)

\* Two minutes pass without a heartbeat.
LeaseExpires(c) ==
  /\ row[c].fresh
  /\ row' = [row EXCEPT ![c].fresh = FALSE]
  /\ UNCHANGED <<pilot, plan, executing, reconciling, issued, lastWriter>>

\* recoverTerminalReservations: which reservation the constructor drops.
Recoverable(c, v) == plan[c][v] \in Final

\* A process dies and starts again: its calls are gone, and the store's
\* constructor drops the reservations of settled plans.
Restart(w) ==
  /\ executing' = {e \in executing : e.w # w}
  /\ reconciling' = {r \in reconciling : r.w # w}
  /\ row' = [c \in Cases |-> IF Reserved(c) /\ Recoverable(c, row[c].ver)
                            THEN NoRow ELSE row[c]]
  /\ pilot' = {p \in pilot : ~Recoverable(p[1], p[2])}
  /\ UNCHANGED <<plan, issued, lastWriter>>

----------------------------------------------------------------------------

ExecutorStep ==
  \E e \in executing : HeartbeatExecution(e) \/ SaveByExecutor(e) \/ FinishExecution(e)

ReconcilerStep ==
  \E r \in reconciling :
    \/ HeartbeatClaim(r) \/ SaveOpen(r) \/ ReleaseReservation(r) \/ ReleaseClaim(r)
    \/ \E outcome \in Final : Close(r, outcome)

Next ==
  \/ \E w \in Workers, c \in Cases, v \in Versions :
       Reserve(w, c, v) \/ ClaimReady(w, c, v) \/ ClaimStale(w, c, v)
  \/ ExecutorStep
  \/ ReconcilerStep
  \/ \E c \in Cases : LeaseExpires(c)
  \/ \E w \in Workers : Restart(w)

Spec == Init /\ [][Next]_vars

----------------------------------------------------------------------------
(* Properties.                                                             *)

\* The tables, the plan statuses and the calls in progress are well formed.
TypeOK ==
  /\ row \in [Cases -> Row]
  /\ pilot \subseteq Cases \X Versions
  /\ plan \in [Cases -> [Versions -> PlanStates]]
  /\ executing \subseteq Execution
  /\ reconciling \subseteq Claim
  /\ issued \in Nat
  /\ lastWriter \in [Cases -> Nat]

\* The case table and the pilot table never disagree, and at most one case
\* is reserved in the whole system, although two statements insert the rows
\* and four places delete them.
OneReservation ==
  /\ \A c \in Cases : Reserved(c) => <<c, row[c].ver>> \in pilot
  /\ \A p \in pilot : Reserved(p[1]) /\ row[p[1]].ver = p[2]
  /\ \A p, q \in pilot : p = q

\* A plan that is EXECUTING keeps its reservation, through crashes, takeovers
\* and late finishers, until the save that settles it: otherwise a second
\* plan could be submitted beside it, or it could never be reconciled.
ExecutingIsReserved ==
  \A c \in Cases, v \in Versions :
    plan[c][v] = "EXECUTING" => Reserved(c) /\ row[c].ver = v

\* Two calls are never both accepted as the writer of the same case, whatever
\* was taken over from whom.
SingleWriter ==
  /\ \A e, f \in executing : e.c = f.c /\ OwnsActive(e) /\ OwnsActive(f) => e = f
  /\ \A r, s \in reconciling : r.c = s.c /\ OwnsClaim(r) /\ OwnsClaim(s) => r = s
  /\ \A e \in executing, r \in reconciling : ~(e.c = r.c /\ OwnsActive(e) /\ OwnsClaim(r))

\* Claims fence: once a claim has written the record, no earlier claim and no
\* submission worker writes it again under the same reservation.
FencedWrites ==
  [][\A c \in Cases : lastWriter'[c] < lastWriter[c] => ~Reserved(c)]_vars

=============================================================================
