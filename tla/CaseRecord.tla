----------------------------- MODULE CaseRecord -----------------------------
(***************************************************************************)
(* The durable record of one brokered case (model.ts), cut down to what    *)
(* decides whether money may move, and the pure functions of               *)
(* case-service.ts and risk.ts that read or rewrite it.  FAILED stands for *)
(* the provider's FAILED, REVERTED and DECLINED; every finding kept here   *)
(* is a hard block, so the risk is LOW exactly when there is none.         *)
(***************************************************************************)
EXTENDS Naturals, Sequences, FiniteSets

CONSTANTS
  Versions,   \* funding-plan versions a case may reach (bound): 1..n
  Credits,    \* provider transactions that match the funding expectation exactly
  Payouts     \* how many payouts (allocations that are not RETAIN) a plan has

ASSUME RecordAssumption == /\ Versions \subseteq Nat \ {0}
                           /\ Payouts \in Nat \ {0}

Final == {"RECONCILED", "FAILED"}
OpenStates == {"SUBMITTING", "PENDING", "AMBIGUOUS"}
ProviderStates == {"PENDING", "COMPLETED", "FAILED"}

Attempt == [v: Versions, i: 1..Payouts, state: OpenStates \cup {"COMPLETED", "FAILED"}, tx: Nat]
Plan == [status: {"AWAITING_AUTHORIZATION", "AUTHORIZED", "EXECUTING", "STALE"} \cup Final,
         approval: {"NONE", "VALID", "INVALIDATED"}]
\* RECONCILABLE: refreshFunding may resolve it; UNRESOLVABLE: nothing does.
\* An approval and an authorization also compare the digest of the risk
\* snapshot; a snapshot whose digest differs is one with other findings.
\* UNOBSERVED: the incoming credit has not been seen; BROKER: a broker's block.
Findings == {"RECONCILABLE", "UNRESOLVABLE", "BROKER", "UNOBSERVED"}
\* OPEN, COMPLETED or FAILED is the state of the one for the current funding
\* expectation; EARLIER: there are only failed ones, for replaced expectations.
TopUps == {"NONE", "EARLIER", "OPEN", "COMPLETED", "FAILED"}
Record ==
  [rev: Nat,
   caseStatus: {"AWAITING_BROKER", "INTAKE_HOLD", "INFORMATION_REQUIRED", "APPROVED",
                "REJECTED", "CLOSED"},
   funding: {"AWAITING_FUNDS", "UNMATCHED", "POSSIBLE_MATCH", "MATCHED", "REVERSED"},
   credits: SUBSET Credits,     \* those last observed as completed
   topUp: TopUps,               \* the Sandbox top-ups made for the case
   status: {"NOT_PLANNED", "AWAITING_AUTHORIZATION", "AUTHORIZED", "QUEUED",
            "BLOCKED", "PARTIAL", "RECONCILING"} \cup Final,
   findings: SUBSET Findings,
   plans: Seq(Plan),
   attempts: Seq(Attempt)]

Low(rec) == rec.findings = {}
HasPlan(rec, v) == v \in DOMAIN rec.plans
Latest(rec) == Len(rec.plans)

AttemptsOf(rec, v) == {a \in DOMAIN rec.attempts : rec.attempts[a].v = v}
OpenAttempts(rec) == {a \in DOMAIN rec.attempts : rec.attempts[a].state \in OpenStates}
CompletedOf(rec, v) == {a \in AttemptsOf(rec, v) : rec.attempts[a].state = "COMPLETED"}
FailedOf(rec, v) == {a \in AttemptsOf(rec, v) : rec.attempts[a].state = "FAILED"}
Untouched(rec, v) == AttemptsOf(rec, v) = {}
AllCompleted(rec, v) == Cardinality(CompletedOf(rec, v)) = Payouts

----------------------------------------------------------------------------
(* Submission.                                                             *)

\* The guard of executePlan on the record it has just read.
Executable(rec, v) ==
  /\ HasPlan(rec, v)
  /\ rec.plans[v].approval = "VALID"
  /\ rec.plans[v].status = "AUTHORIZED"
  /\ rec.status = "AUTHORIZED"

\* requireExecutionAuthorization, without its lock test.
StillAuthorized(rec, v) ==
  /\ rec.plans[v].approval = "VALID"
  /\ rec.plans[v].status = "EXECUTING"
  /\ rec.caseStatus = "APPROVED" /\ rec.funding = "MATCHED" /\ Low(rec)

\* The allocation the submission loop turns to: attempts are made in order.
NextPayout(rec, v) == Cardinality(AttemptsOf(rec, v)) + 1

\* Mutant: the loop's zero-based index is recorded.
StartedAttempt_ZeroBased(rec, v) ==
  [rec EXCEPT !.attempts =
     Append(@, [v |-> v, i |-> NextPayout(rec, v) - 1, state |-> "SUBMITTING", tx |-> 0])]

StartedAttempt(rec, v) ==
  [rec EXCEPT !.attempts =
     Append(@, [v |-> v, i |-> NextPayout(rec, v), state |-> "SUBMITTING", tx |-> 0])]

\* What a payout's state may add to the findings (providerResultFinding): a
\* refusal is never resolved, a reversal may be.
ResultFindings(s) ==
  CASE s = "COMPLETED" -> {{}} [] s = "FAILED" -> {{"UNRESOLVABLE"}, {"RECONCILABLE"}}
    [] OTHER -> {{"RECONCILABLE"}}

WithResult(rec, a, s, tx, found) ==
  [rec EXCEPT !.attempts[a].state = s, !.attempts[a].tx = tx, !.findings = @ \cup found]

PausedStatus(rec, v) == IF CompletedOf(rec, v) # {} THEN "PARTIAL" ELSE "BLOCKED"

\* The catch clause: s and f are what providerFailureFinding makes of the error.
WithError(rec, v, a, s, f) ==
  [rec EXCEPT !.attempts[a].state = s, !.findings = @ \cup {f},
              !.status = PausedStatus(rec, v)]

\* The save that ends executeSequentially.
Paused(rec, v) ==
  [rec EXCEPT !.status = IF AllCompleted(rec, v) THEN "RECONCILING" ELSE PausedStatus(rec, v)]

NeedsReconciliation(rec, v) ==
  \/ rec.plans[v].status = "EXECUTING"
  \/ AttemptsOf(rec, v) \cap OpenAttempts(rec) # {}
  \/ rec.status \in {"QUEUED", "PARTIAL", "RECONCILING", "BLOCKED"}

----------------------------------------------------------------------------
(* Reconciliation.                                                         *)

Ambiguous(rec, a) ==
  [rec EXCEPT !.attempts[a].state = "AMBIGUOUS", !.findings = @ \cup {"RECONCILABLE"}]

\* Mutant: an attempt without an answer no longer keeps the plan open.
SettlementStatus_OpenIsFailed(rec, v) ==
  IF AllCompleted(rec, v) THEN "RECONCILED" ELSE "FAILED"

\* Mutant: a plan whose later payouts were never made is not settled.
SettlementStatus_FailedOnly(rec, v) ==
  CASE AllCompleted(rec, v) -> "RECONCILED"
    [] ~AllCompleted(rec, v) /\ FailedOf(rec, v) # {} -> "FAILED"
    [] OTHER -> PausedStatus(rec, v)

SettlementStatus(rec, v) ==
  CASE AllCompleted(rec, v) -> "RECONCILED"
    [] ~AllCompleted(rec, v) /\ (FailedOf(rec, v) # {} \/ AttemptsOf(rec, v) \cap OpenAttempts(rec) = {})
         -> "FAILED"
    [] OTHER -> PausedStatus(rec, v)

\* Mutant: the plan takes the execution status whatever it is.
Settled_PlanFollows(rec, v) ==
  [rec EXCEPT !.status = SettlementStatus(rec, v), !.plans[v].status = SettlementStatus(rec, v)]

\* The record reconcile saves once its loop is over.
Settled(rec, v) ==
  LET s == SettlementStatus(rec, v) IN
  IF s \in Final
  THEN [rec EXCEPT !.status = s, !.plans[v].status = s,
                   !.caseStatus = IF s = "RECONCILED" THEN "CLOSED" ELSE @]
  ELSE [rec EXCEPT !.status = s,
                   !.findings = @ \cup IF Untouched(rec, v) THEN {} ELSE {"UNRESOLVABLE"}]

=============================================================================
