--------------------------- MODULE CaseLifecycle ---------------------------
(***************************************************************************)
(* The broker's side of one case, composed with PlanExecution: amendments, *)
(* reviews, decisions, funding observations, plans and authorizations, in  *)
(* any order the guards of case-service.ts allow and interleaved with the  *)
(* submission and reconciliation of the plans they produce.                *)
(***************************************************************************)
EXTENDS PlanExecution

CONSTANT
  Origins  \* [record, failures, declines, credits, moves, plans, calls]: cases
           \* before their first plan.
           \* failures: the findings a failed funding observation may leave;
           \* declines, credits, moves, plans, calls: bounds, the decisions against
           \* it, the credits that may match, the states they may take, the plans
           \* made, the reconcile calls

ASSUME LifecycleAssumption == \A o \in Origins :
  /\ o.record \in Record /\ o.record.plans = <<>> /\ o.record.attempts = <<>>
  /\ o.failures \subseteq {"RECONCILABLE", "UNRESOLVABLE"}
  /\ o.declines \subseteq {"REJECTED", "INFORMATION_REQUIRED"}
  /\ o.credits \subseteq Credits /\ o.moves \subseteq {"PENDING", "COMPLETED", "REVERTED"}
  /\ o.plans \in Nat /\ o.calls \subseteq Reconcilers

\* The state of the matching credits at the provider.  reads holds the record
\* that the refreshFunding call awaiting the provider has read.
VARIABLES funds, origin

lvars == <<vars, funds, origin>>
CreditStates == {"NONE", "PENDING", "COMPLETED", "REVERTED"}

\* A validated package with a usable expectation and no credit seen yet.
Validated ==
  [rev |-> 1, caseStatus |-> "INTAKE_HOLD", funding |-> "AWAITING_FUNDS", credits |-> {},
   topUp |-> "NONE", status |-> "NOT_PLANNED", findings |-> {"UNOBSERVED"}, plans |-> <<>>,
   attempts |-> <<>>]

\* The same case after a Sandbox top-up that the provider declined.
Declined ==
  [Validated EXCEPT !.funding = "UNMATCHED", !.topUp = "FAILED", !.findings = @ \cup {"RECONCILABLE"}]

\* One whose credit t came from a top-up, matched and approved by a broker.
Approved(t) ==
  [rev |-> 1, caseStatus |-> "APPROVED", funding |-> "MATCHED", credits |-> {t},
   topUp |-> "COMPLETED", status |-> "NOT_PLANNED", findings |-> {}, plans |-> <<>>, attempts |-> <<>>]

LifecycleInit ==
  /\ origin \in Origins
  /\ LET seen == origin.record.credits IN
       /\ InitWith(origin.record, {Text("funding_observation", t, "COMPLETED") : t \in seen})
       /\ funds = [t \in Credits |-> IF t \in seen THEN "COMPLETED" ELSE "NONE"]

----------------------------------------------------------------------------
(* Guards and rewrites shared by the broker's operations.                  *)

\* invalidateAuthorization: every approval lapses, authorized plans go stale,
\* and the execution status follows only if an approval was still valid.
InvalidateAuthorization(rec) ==
  LET plans == [v \in DOMAIN rec.plans |->
        [status |-> IF rec.plans[v].status = "AUTHORIZED" THEN "STALE" ELSE rec.plans[v].status,
         approval |-> IF rec.plans[v].approval = "VALID" THEN "INVALIDATED" ELSE rec.plans[v].approval]]
      lapsed == \E v \in DOMAIN rec.plans : rec.plans[v].approval = "VALID"
  IN [rec EXCEPT !.plans = plans, !.status = IF lapsed THEN "AWAITING_AUTHORIZATION" ELSE @]

\* requireNoActiveExecution.
NoActiveExecution ==
  /\ row.state # "ACTIVE"
  /\ record.status \notin {"QUEUED", "RECONCILING"}
  /\ \A v \in DOMAIN record.plans : record.plans[v].status # "EXECUTING"

\* assertMutationAllowed for a save without allowExecutionMutation.
MutationAllowed == row.state \notin {"ACTIVE", "RECONCILING"}

\* evidence and funds are left to the operation.
BrokerSave(rec) ==
  /\ MutationAllowed
  /\ record' = Bump(rec)
  /\ UNCHANGED <<row, exec, rc, pvars, issued, lastWriter, reads, bounds>>

----------------------------------------------------------------------------
(* addAmendment, addReview, decide.                                        *)

\* resolved: the amendable findings the amendment cites.
Amended(resolved) ==
  [InvalidateAuthorization(record) EXCEPT
     !.findings = @ \ resolved, !.caseStatus = "AWAITING_BROKER"]

MayAmend(resolved) ==
  /\ record.caseStatus \notin {"REJECTED", "CLOSED"}
  /\ NoActiveExecution
  /\ resolved \subseteq record.findings \cap {"BROKER"}

AddAmendment(resolved) ==
  /\ MayAmend(resolved)
  /\ BrokerSave(Amended(resolved))
  /\ UNCHANGED <<evidence, funds>>

\* The transactions that were matched or stored for another expectation.
Forgotten == {Text("funding_observation", t, s) : t \in Credits, s \in CreditStates}

\* An amendment that confirms a funding expectation: the same one, unless a
\* top-up was made for it, or another one that no credit seen so far can match.
\* After a failed top-up it resolves the provider findings that call for it,
\* some of those that RECONCILABLE stands for.
ReplaceExpectation(resolved, same) ==
  /\ MayAmend(resolved)
  /\ record.funding # "MATCHED" /\ record.topUp \notin {"OPEN", "COMPLETED"}
  /\ same => record.topUp # "FAILED"
  /\ \E replaced \in SUBSET IF record.topUp = "NONE" THEN {} ELSE {"RECONCILABLE"} :
       BrokerSave([Amended(resolved) EXCEPT
         !.findings = (@ \ replaced) \cup {"UNOBSERVED"}, !.funding = "AWAITING_FUNDS",
         !.credits = IF same THEN @ ELSE {},
         !.topUp = IF same \/ @ = "NONE" THEN @ ELSE "EARLIER"])
  /\ IF same THEN UNCHANGED <<evidence, funds>>
     ELSE funds' = [t \in Credits |-> "NONE"] /\ evidence' = evidence \ Forgotten

\* Mutant: a review no longer withdraws the authorization.
AddReview_KeepsAuthorization(blocks) ==
  /\ NoActiveExecution
  /\ BrokerSave([record EXCEPT !.findings = @ \cup IF blocks THEN {"BROKER"} ELSE {}])
  /\ UNCHANGED <<evidence, funds>>

AddReview(blocks) ==
  /\ NoActiveExecution
  /\ BrokerSave([InvalidateAuthorization(record) EXCEPT
       !.findings = @ \cup IF blocks THEN {"BROKER"} ELSE {}])
  /\ UNCHANGED <<evidence, funds>>

Approve ==
  /\ NoActiveExecution
  /\ Low(record) /\ record.funding = "MATCHED"
  /\ BrokerSave([record EXCEPT !.caseStatus = "APPROVED"])
  /\ UNCHANGED <<evidence, funds>>

Decline(status) ==
  /\ NoActiveExecution
  /\ BrokerSave([InvalidateAuthorization(record) EXCEPT !.caseStatus = status])
  /\ UNCHANGED <<evidence, funds>>

----------------------------------------------------------------------------
(* createPlan and authorizePlan.                                           *)

\* requirePriorExecutionsReconciled.
PriorExecutionsReconciled(rec) ==
  \A v \in DOMAIN rec.plans :
    /\ rec.plans[v].status # "EXECUTING"
    /\ AttemptsOf(rec, v) \cap OpenAttempts(rec) = {}
    /\ ~Untouched(rec, v) => rec.plans[v].status \in Final

\* The receipt is a completed exact observation and the allocations sum to it.
CreatePlan ==
  /\ NoActiveExecution
  /\ PriorExecutionsReconciled(record)
  /\ record.caseStatus = "APPROVED" /\ record.funding = "MATCHED" /\ Low(record)
  /\ record.credits # {}
  /\ Latest(record) < origin.plans
  /\ LET rec == InvalidateAuthorization(record) IN
       BrokerSave([rec EXCEPT
         !.plans = Append(@, [status |-> "AWAITING_AUTHORIZATION", approval |-> "NONE"]),
         !.status = "AWAITING_AUTHORIZATION"])
  /\ UNCHANGED <<evidence, funds>>

AuthorizePlan(v) ==
  /\ HasPlan(record, v) /\ record.plans[v].status = "AWAITING_AUTHORIZATION"
  /\ Low(record) /\ record.caseStatus = "APPROVED" /\ record.funding = "MATCHED"
  /\ BrokerSave([record EXCEPT
       !.plans[v] = [status |-> "AUTHORIZED", approval |-> "VALID"], !.status = "AUTHORIZED"])
  /\ UNCHANGED <<evidence, funds>>

----------------------------------------------------------------------------
(* refreshFunding without a top-up.                                        *)

\* Bound: one such call at a time.
RefreshStart ==
  /\ reads = {}
  /\ row.state # "ACTIVE"
  /\ record.findings \cap {"BROKER", "UNRESOLVABLE"} = {}
  /\ reads' = {record}
  /\ UNCHANGED <<rvars, row, exec, rc, pvars, evidence, issued, bounds, funds>>

\* Every listed transaction is taken for the top-up of the expectation, if one
\* was made: its record keeps the state of the last one in the list, and those
\* that have not completed raise a finding.
TopUpSeen(rec, listed, last) ==
  IF rec.topUp \in {"NONE", "EARLIER"} \/ listed = {} THEN rec.topUp
  ELSE CASE funds[last] = "PENDING" -> "OPEN" [] funds[last] = "COMPLETED" -> "COMPLETED"
         [] OTHER -> "FAILED"

Reported(rec, listed) ==
  IF rec.topUp \notin {"NONE", "EARLIER"} /\ (\E t \in listed : funds[t] # "COMPLETED")
  THEN {"RECONCILABLE"} ELSE {}

\* What the listed transactions make of the record that was read.
Observed(rec, listed, last) ==
  LET credits == (rec.credits \ listed) \cup {t \in listed : funds[t] = "COMPLETED"}
      unique == Cardinality(credits) = 1
      topUp == TopUpSeen(rec, listed, last)
      cleared == {"UNOBSERVED"} \cup IF topUp = "COMPLETED" THEN {"RECONCILABLE"} ELSE {}
      findings == (rec.findings \cup Reported(rec, listed)) \ IF unique THEN cleared ELSE {}
      base == [rec EXCEPT
        !.credits = credits, !.findings = findings, !.topUp = topUp,
        !.funding = CASE unique -> "MATCHED"
                      [] ~unique /\ rec.funding = "MATCHED" -> "REVERSED"
                      [] ~unique /\ rec.funding # "MATCHED" ->
                           IF credits = {} THEN "UNMATCHED" ELSE "POSSIBLE_MATCH",
        !.caseStatus = IF unique /\ @ = "INTAKE_HOLD" /\ findings = {}
                       THEN "AWAITING_BROKER" ELSE @]
  IN IF ~unique /\ rec.funding = "MATCHED" THEN InvalidateAuthorization(base) ELSE base

\* Mutant: the observation is saved over whatever the case has become.
RefreshCurrent_Any(rec) == TRUE

RefreshCurrent(rec) == record.rev = rec.rev

\* The evidence is stored first; then saveIfCurrent, or an error.
RefreshSave(read, texts, rec) ==
  /\ reads' = {}
  /\ evidence' = evidence \cup texts
  /\ IF texts \cap evidence = {} /\ RefreshCurrent(read) /\ MutationAllowed
     THEN record' = Bump(rec) ELSE UNCHANGED record
  /\ UNCHANGED <<row, exec, rc, pvars, issued, lastWriter, outages, funds>>

\* listTransactions returns one page, with or without an older credit.
RefreshEnd(read, listed, last) ==
  /\ last \in listed \/ listed = {}
  /\ \A t \in listed : funds[t] # "NONE"
  /\ RefreshSave(read, {Text("funding_observation", t, funds[t]) : t \in listed},
                 Observed(read, listed, last))
  /\ UNCHANGED errors

RefreshFails(read) ==
  /\ \E f \in origin.failures :
       RefreshSave(read, {Text("funding_observation", "none", "error")},
                   [read EXCEPT !.findings = @ \cup {f}, !.funding = "UNMATCHED"])
  /\ UNCHANGED errors

\* The incoming credit (external): it may arrive at once or be pending first,
\* arrive twice, and be reversed.
CreditMoves(t) ==
  /\ \E s \in origin.moves :
       /\ \/ funds[t] = "NONE" /\ s # "REVERTED"
          \/ funds[t] = "PENDING" /\ s # "PENDING"
          \/ funds[t] = "COMPLETED" /\ s = "REVERTED"
       /\ funds' = [funds EXCEPT ![t] = s]
  /\ UNCHANGED vars

----------------------------------------------------------------------------

BrokerStep ==
  \/ \E resolved \in SUBSET {"BROKER"} : AddAmendment(resolved)
  \/ \E resolved \in SUBSET {"BROKER"}, same \in BOOLEAN : ReplaceExpectation(resolved, same)
  \/ \E blocks \in BOOLEAN : AddReview(blocks)
  \/ Approve
  \/ \E status \in origin.declines : Decline(status)
  \/ CreatePlan
  \/ \E v \in Versions : AuthorizePlan(v)

FundingStep ==
  \/ RefreshStart
  \/ \E read \in reads :
       \/ \E listed \in SUBSET origin.credits, last \in Credits : RefreshEnd(read, listed, last)
       \/ RefreshFails(read)
  \/ \E t \in origin.credits : CreditMoves(t)

PlanStep ==
  /\ ExecutionNext /\ UNCHANGED funds
  /\ \A r \in Reconcilers \ origin.calls : rc'[r] = NoCall

LifecycleNext == (BrokerStep \/ FundingStep \/ PlanStep) /\ UNCHANGED origin

LifecycleSpec == LifecycleInit /\ [][LifecycleNext]_lvars

----------------------------------------------------------------------------
(* Properties.                                                             *)

\* The funding side is well formed.
LifecycleTypeOK ==
  /\ record \in Record
  /\ funds \in [Credits -> CreditStates]
  /\ reads \subseteq Record /\ Cardinality(reads) <= 1

\* The record still counts on payout i of plan v, or has to find out about it.
Awaited(v, i) == UnderWay(v, i) /\ ~WrittenOff(v, i)

\* A replacement plan is executed only when nothing of its predecessors can
\* still move, except what the record has written off.
OnePlanUnderWay ==
  \A v \in DOMAIN record.plans, u \in Versions, i \in 1..Payouts :
    Awaited(u, i) /\ (record.plans[v].status = "EXECUTING" \/ \E j \in 1..Payouts : Awaited(v, j))
      => u = v

\* A plan can be submitted only while the decision and the reviews it was
\* authorized under stand, whichever of the broker's operations, refreshes
\* and settlements came in between.
AuthorizationIsCurrent ==
  \A v \in Versions : Executable(record, v) =>
    record.caseStatus = "APPROVED" /\ "BROKER" \notin record.findings

\* A broker's block is lifted only by an amendment, which sends the case back
\* to review: no refresh or reconciliation that was under way writes over it.
BlocksStand ==
  []["BROKER" \in record.findings \ record'.findings
       => record'.caseStatus = "AWAITING_BROKER" /\ ~\E v \in Versions : Executable(record', v)]_lvars

----------------------------------------------------------------------------
(* Promises of the documents and comments that the code does not keep.     *)

\* Once the receipt is no longer the one exact match, no plan can be submitted
\* under the earlier authorization.
ReversalWithdraws ==
  \A v \in Versions : Executable(record, v) => Cardinality(record.credits) = 1

\* Payouts of two plans of a case are never under way together.
NothingElseUnderWay ==
  \A u, v \in Versions, i, j \in 1..Payouts : UnderWay(u, i) /\ UnderWay(v, j) => u = v

\* Only the newest plan of a case is executed.
LatestPlanOnly ==
  \A v \in DOMAIN record.plans : record.plans[v].status = "EXECUTING" => v = Latest(record)

\* The receipt, which every plan allocates in full, is paid out once.
ReceiptPaidOnce ==
  Cardinality({v \in DOMAIN record.plans : record.plans[v].status = "RECONCILED"}) <= 1

=============================================================================
