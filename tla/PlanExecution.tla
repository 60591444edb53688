--------------------------- MODULE PlanExecution ---------------------------
(***************************************************************************)
(* Executing and reconciling the funding plans of one case: executePlan,   *)
(* executeSequentially and reconcile of case-service.ts, over the durable  *)
(* record, the case's lock row, the write-once evidence store, and a       *)
(* provider that may accept a request late, lose it, answer late or not at *)
(* all.  A step is the code between two awaits or two store transactions   *)
(* of which another process can see the result.                            *)
(***************************************************************************)
EXTENDS CaseRecord, LockRows, FiniteSetsExt

CONSTANTS
  Reconcilers,      \* concurrent reconcile calls, in any process
  Recycle,          \* an identity nothing holds any more stands for a fresh one
  MaxClaims,        \* bound: claim tokens handed out unless they are recycled
  MaxOutages,       \* bound: calls cut off by a crash, plus lapsed leases
  MaxErrors         \* bound: failed provider reads

ASSUME ExecutionAssumption ==
  /\ Recycle \in BOOLEAN /\ IsFiniteSet(Reconcilers)
  /\ MaxClaims \in Nat /\ MaxOutages \in Nat /\ MaxErrors \in Nat

VARIABLES
  record,      \* brokered_cases.record_json
  row,         \* the case's row of case_execution_locks
  exec,        \* where the executePlan call of each plan stands
  rc,          \* the reconcile calls
  reads,       \* records read by calls of other operations that still run
  sent,        \* payout requests on their way to the provider
  ledger,      \* requests the provider accepted, in order, with their state
  evidence,    \* plaintexts already in the evidence store
  issued,      \* claim tokens handed out
  lastWriter,  \* token of the last write of the record, 0 for the executor
  outages, errors

rvars == <<record, lastWriter>>
pvars == <<sent, ledger>>
bounds == <<outages, errors>>
vars == <<record, row, exec, rc, reads, sent, ledger, evidence, issued, lastWriter, outages, errors>>

Request == Versions \X (1..Payouts)
Payout == [v: Versions, i: 1..Payouts, state: ProviderStates]

\* A plaintext is told apart by the operation that stores it, the payout whose
\* request ID it contains (0 when it contains none) and the result or error.
Text(op, a, what) == <<op, a, what>>
SubmitError == Text("payout_submission", 0, "error")

NoCall == [pc |-> "IDLE"]
Submitting == {"LOOP", "BEAT", "PREFLIGHT", "WAIT", "PAUSE"}
InCall == Submitting \cup {"FINALLY"}

\* An approved case with one plan that the broker has authorized.
Authorized ==
  [rev |-> 1, caseStatus |-> "APPROVED", funding |-> "MATCHED", credits |-> Credits,
   topUp |-> "NONE", status |-> "AUTHORIZED", findings |-> {},
   plans |-> <<[status |-> "AUTHORIZED", approval |-> "VALID"]>>, attempts |-> <<>>]

\* texts: the plaintexts stored before the behaviour starts.
InitWith(rec, texts) ==
  /\ record = rec
  /\ row = NoRow
  /\ exec = [v \in Versions |-> "NONE"]
  /\ rc = [r \in Reconcilers |-> NoCall] /\ reads = {}
  /\ sent = {} /\ ledger = <<>>
  /\ evidence = texts
  /\ issued = 0 /\ lastWriter = 0 /\ outages = 0 /\ errors = 0

\* Another case may have met the same error already.
Init == \E texts \in SUBSET {SubmitError} : InitWith(Authorized, texts)

----------------------------------------------------------------------------
(* executePlan and executeSequentially.                                    *)

OwnsActive(v) == row.ver = v /\ row.state = "ACTIVE"

At(v, pc) == exec' = [exec EXCEPT ![v] = pc]

\* The attempt the submission loop is on, and the request it sends: the one
\* for the allocation whose turn it is.
LastAttempt == Len(record.attempts)
Req(v) == <<v, Cardinality(AttemptsOf(record, v))>>

\* Revisions and claim tokens are only compared for equality with those that
\* a call or the lock row still holds.
Calls == {rc[r] : r \in {q \in Reconcilers : rc[q].pc # "IDLE"}}
RevsHeld == {record.rev} \cup {c.rev : c \in Calls} \cup {rec.rev : rec \in reads}
TokensHeld == {row.token} \cup {c.token : c \in Calls}
Unused(held) == Min((1..Cardinality(held) + 1) \ held)

\* insertOrUpdate: the revision advances with every save.
Bump(rec) == [rec EXCEPT !.rev = IF Recycle THEN Unused(RevsHeld) ELSE record.rev + 1]

\* A save with requiredExecutionPlanVersion.
ExecutorSave(rec) == record' = Bump(rec) /\ lastWriter' = 0

ExecutePlan(v) ==
  /\ Executable(record, v)
  /\ row = NoRow
  /\ exec[v] = "NONE"
  /\ ExecutorSave([record EXCEPT !.plans[v].status = "EXECUTING", !.status = "QUEUED"])
  /\ row' = NewRow(v)
  /\ At(v, "LOOP")
  /\ UNCHANGED <<rc, pvars, evidence, issued, reads, bounds>>

StartAttempt(v) ==
  /\ exec[v] = "LOOP" /\ OwnsActive(v)
  /\ NextPayout(record, v) <= Payouts
  /\ ExecutorSave(StartedAttempt(record, v))
  /\ At(v, "BEAT")
  /\ UNCHANGED <<row, rc, pvars, evidence, issued, reads, bounds>>

Beat(v) ==
  /\ exec[v] = "BEAT" /\ OwnsActive(v)
  /\ row' = [row EXCEPT !.fresh = TRUE]
  /\ At(v, "PREFLIGHT")
  /\ UNCHANGED <<rvars, rc, pvars, evidence, issued, reads, bounds>>

\* What is checked between the awaited preflight and the irreversible call.
MayPost(v) == OwnsActive(v) /\ StillAuthorized(record, v)

Post(v) ==
  /\ exec[v] = "PREFLIGHT" /\ MayPost(v)
  /\ row' = [row EXCEPT !.fresh = TRUE]
  /\ sent' = sent \cup {Req(v)}
  /\ At(v, "WAIT")
  /\ UNCHANGED <<rvars, rc, ledger, evidence, issued, reads, bounds>>

\* The findings providerFailureFinding gives with an attempt state.
ErrorFindings(s) == {"RECONCILABLE"} \cup IF s = "FAILED" THEN {"UNRESOLVABLE"} ELSE {}

\* The catch clause: the text of the error decides whether the attempt is
\* recorded as FAILED or AMBIGUOUS, whatever became of the request.  An error
\* text already in the evidence store makes preserveProviderEvidence throw
\* there, and nothing is saved.
Caught(v) ==
  /\ OwnsActive(v)
  /\ IF SubmitError \in evidence
     THEN At(v, "FINALLY") /\ UNCHANGED <<rvars, evidence>>
     ELSE /\ \E s \in {"AMBIGUOUS", "FAILED"} : \E f \in ErrorFindings(s) :
               ExecutorSave(WithError(record, v, LastAttempt, s, f))
          /\ evidence' = evidence \cup {SubmitError}
          /\ At(v, "PAUSE")
  /\ UNCHANGED <<row, rc, ledger, issued, reads, bounds>>

PreflightFails(v) ==
  /\ exec[v] = "PREFLIGHT"
  /\ Caught(v)
  /\ UNCHANGED sent

\* The provider refuses the request: it never reaches the ledger.
Rejected(v) ==
  /\ exec[v] = "WAIT" /\ Req(v) \in sent
  /\ sent' = sent \ {Req(v)}
  /\ Caught(v)

\* Timeout, broken connection or unreadable answer: accepted or not, on its
\* way or lost.
NoAnswer(v) ==
  /\ exec[v] = "WAIT"
  /\ Caught(v)
  /\ UNCHANGED sent

\* Mutant: the loop goes on to the next payout whatever the answer.
AfterAnswer_GoOn(s) == "LOOP"
\* Only a completed payout lets the loop go on.
AfterAnswer(s) == IF s = "COMPLETED" THEN "LOOP" ELSE "PAUSE"

\* The answer was written when the request was accepted, or is up to date.
Answer(v) ==
  /\ exec[v] = "WAIT" /\ OwnsActive(v)
  /\ \E k \in DOMAIN ledger : \E s \in {"PENDING", ledger[k].state} : \E found \in ResultFindings(s) :
       /\ <<ledger[k].v, ledger[k].i>> = Req(v)
       /\ ExecutorSave(WithResult(record, LastAttempt, s, k, found))
       /\ At(v, AfterAnswer(s))
  /\ UNCHANGED <<row, rc, pvars, evidence, issued, reads, bounds>>

Pause(v) ==
  /\ \/ exec[v] = "PAUSE"
     \/ exec[v] = "LOOP" /\ NextPayout(record, v) > Payouts
  /\ OwnsActive(v)
  /\ ExecutorSave(Paused(record, v))
  /\ At(v, "FINALLY")
  /\ UNCHANGED <<row, rc, pvars, evidence, issued, reads, bounds>>

\* A save or heartbeat that finds the reservation taken over throws, and the
\* save in the catch clause throws again.
ReservationLost(v) ==
  /\ exec[v] \in Submitting /\ ~OwnsActive(v)
  /\ At(v, "FINALLY")
  /\ UNCHANGED <<rvars, row, rc, pvars, evidence, issued, reads, bounds>>

RowAfterRelease(v) == IF row.ver = v THEN NoRow ELSE row

\* Mutant: a case the submission left queued is not handed over.
HandOver_Paused(v) ==
  /\ exec[v] = "FINALLY"
  /\ row' = IF OwnsActive(v) /\ record.status # "QUEUED" THEN ReadyRow(v) ELSE row
  /\ At(v, "DONE")
  /\ UNCHANGED <<rvars, rc, pvars, evidence, issued, reads, bounds>>

\* The finally block.
HandOver(v) ==
  /\ exec[v] = "FINALLY"
  /\ row' = IF ~NeedsReconciliation(record, v) THEN RowAfterRelease(v)
            ELSE IF OwnsActive(v) THEN ReadyRow(v) ELSE row
  /\ At(v, "DONE")
  /\ UNCHANGED <<rvars, rc, pvars, evidence, issued, reads, bounds>>

----------------------------------------------------------------------------
(* The provider (external): what the client calls may meet.                *)

Accept(q) ==
  /\ q \in sent
  /\ sent' = sent \ {q}
  /\ \E s \in ProviderStates : ledger' = Append(ledger, [v |-> q[1], i |-> q[2], state |-> s])
  /\ UNCHANGED <<rvars, row, exec, rc, evidence, issued, reads, bounds>>

Lose(q) ==
  /\ q \in sent
  /\ sent' = sent \ {q}
  /\ UNCHANGED <<rvars, row, exec, rc, ledger, evidence, issued, reads, bounds>>

Decide(k) ==
  /\ ledger[k].state = "PENDING"
  /\ \E s \in {"COMPLETED", "FAILED"} : ledger' = [ledger EXCEPT ![k].state = s]
  /\ UNCHANGED <<rvars, row, exec, rc, sent, evidence, issued, reads, bounds>>

----------------------------------------------------------------------------
(* reconcile.                                                              *)

\* Mutant: the claim token is not compared.
OwnsClaim_AnyToken(c) == row.ver = c.v /\ row.state = "RECONCILING"

OwnsClaim(c) == row.ver = c.v /\ row.state = "RECONCILING" /\ row.token = c.token

Claimed(c) == c.pc # "IDLE" /\ c.token # 0
Call(r, c) == rc' = [rc EXCEPT ![r] = c]

\* The first read of the case, before any lock is looked at.
ReadCase(r) ==
  /\ rc[r].pc = "IDLE"
  /\ Latest(record) > 0 /\ record.plans[Latest(record)].status = "EXECUTING"
  /\ Call(r, [pc |-> "CLAIM", v |-> Latest(record), token |-> 0, rev |-> record.rev,
              rec |-> record, todo |-> {}])
  /\ UNCHANGED <<rvars, row, exec, pvars, evidence, issued, reads, bounds>>

Observing(c, rec, token) ==
  [pc |-> "LOOP", v |-> c.v, token |-> token, rev |-> rec.rev,
   rec |-> [rec EXCEPT !.status = "RECONCILING"], todo |-> OpenAttempts(rec)]

\* randomUUID.
NewTokens == IF Recycle THEN {Unused(TokensHeld)} ELSE {issued + 1} \cap (1..MaxClaims)

ClaimableReady(c) == /\ row.ver = c.v /\ row.state = "READY_TO_RECONCILE"
                     /\ c.rec.status # "QUEUED"
ClaimableStale(c) == /\ row.ver = c.v /\ row.state \in {"ACTIVE", "RECONCILING"}
                     /\ ~row.fresh

\* The call goes on with the case as it is under the claim.
Claim(r) ==
  /\ rc[r].pc = "CLAIM"
  /\ ClaimableReady(rc[r]) \/ ClaimableStale(rc[r])
  /\ \E t \in NewTokens :
       /\ issued' = t
       /\ row' = ClaimedRow(rc[r].v, t)
       /\ Call(r, Observing(rc[r], record, t))
  /\ UNCHANGED <<rvars, exec, pvars, evidence, reads, bounds>>

\* The plan was settled and its row deleted after the read: no claim is made,
\* and the call goes on with the record it has.
GoOnUnclaimed(r) ==
  /\ rc[r].pc = "CLAIM"
  /\ row.ver # rc[r].v /\ rc[r].rec.status # "QUEUED"
  /\ Call(r, Observing(rc[r], rc[r].rec, 0))
  /\ UNCHANGED <<rvars, row, exec, pvars, evidence, issued, reads, bounds>>

\* Still being submitted, queued, or claimed by another worker.
ClaimRefused(r) ==
  /\ rc[r].pc = "CLAIM"
  /\ ~ClaimableReady(rc[r]) /\ ~ClaimableStale(rc[r])
  /\ row.ver = rc[r].v \/ rc[r].rec.status = "QUEUED"
  /\ Call(r, NoCall)
  /\ UNCHANGED <<rvars, row, exec, pvars, evidence, issued, reads, bounds>>

\* releaseExecutionReconciliationClaim, then the call ends.
EndCall(r) ==
  /\ row' = IF Claimed(rc[r]) /\ OwnsClaim(rc[r]) THEN ReadyRow(rc[r].v) ELSE row
  /\ Call(r, NoCall)

AskProvider(r) ==
  /\ rc[r].pc = "LOOP" /\ rc[r].todo # {}
  /\ IF ~Claimed(rc[r]) THEN Call(r, [rc[r] EXCEPT !.pc = "ASK"]) /\ UNCHANGED row
     ELSE IF OwnsClaim(rc[r])
       THEN Call(r, [rc[r] EXCEPT !.pc = "ASK"]) /\ row' = [row EXCEPT !.fresh = TRUE]
       ELSE EndCall(r)
  /\ UNCHANGED <<rvars, exec, pvars, evidence, issued, reads, bounds>>

\* The attempt asked about, and the payout it belongs to.
Asked(c) == Min(c.todo)
AskedAttempt(c) == c.rec.attempts[Asked(c)]
\* Mutant: the provider's list is not filtered by request ID.
Seen_AnyPayout(c) == {k \in DOMAIN ledger : ledger[k].v = AskedAttempt(c).v}
\* The transactions listed for the attempt's request ID.
Seen(c) == {k \in DOMAIN ledger : ledger[k].v = AskedAttempt(c).v /\ ledger[k].i = AskedAttempt(c).i}

\* Texts are stored before the loop goes on with rec and todo; a text that is
\* there already throws, and the call ends without a save.
Store(r, texts, rec, todo) ==
  IF texts \cap evidence = {}
  THEN /\ evidence' = evidence \cup texts
       /\ Call(r, [rc[r] EXCEPT !.pc = "LOOP", !.rec = rec, !.todo = todo])
       /\ UNCHANGED row
  ELSE EndCall(r) /\ UNCHANGED evidence

Rest(c) == c.todo \ {Asked(c)}

\* A transaction's state is stored under op; the loop breaks unless COMPLETED.
TakeResult(r, texts, k) ==
  LET s == ledger[k].state IN
  \E found \in ResultFindings(s) :
    Store(r, texts, WithResult(rc[r].rec, Asked(rc[r]), s, k, found),
          IF s = "COMPLETED" THEN Rest(rc[r]) ELSE {})

\* getTransaction answers.
Observe(r) ==
  /\ rc[r].pc = "ASK" /\ AskedAttempt(rc[r]).tx # 0
  /\ LET k == AskedAttempt(rc[r]).tx IN
       TakeResult(r, {Text("payout_reconciliation", Asked(rc[r]), ledger[k].state)}, k)
  /\ UNCHANGED <<rvars, exec, pvars, issued, reads, bounds>>

\* listTransactions answers.  The listed transaction has more fields than the
\* one getTransaction returns, so its texts are others.
Lookup(r) ==
  /\ rc[r].pc = "ASK" /\ AskedAttempt(rc[r]).tx = 0
  /\ LET c == rc[r]
         a == Asked(c)
         Texts(k) == {Text("payout_reconciliation_lookup", a, ledger[k].state),
                      Text("payout_reconciliation/listed", a, ledger[k].state)}
     IN \/ /\ Cardinality(Seen(c)) # 1
           /\ Store(r, {}, Ambiguous(c.rec, a), Rest(c))
        \/ \E k \in Seen(c) :
             /\ Seen(c) = {k}
             /\ IF Texts(k) \cap evidence = {} THEN TakeResult(r, Texts(k), k)
                ELSE Store(r, {Text("payout_reconciliation_lookup", a, "conflict")},
                           Ambiguous([c.rec EXCEPT !.attempts[a].tx = k], a), Rest(c))
  /\ UNCHANGED <<rvars, exec, pvars, issued, reads, bounds>>

\* Either read fails.
AskFails(r) ==
  /\ rc[r].pc = "ASK" /\ errors < MaxErrors
  /\ errors' = errors + 1
  /\ LET c == rc[r]
         op == IF AskedAttempt(c).tx # 0 THEN "payout_reconciliation"
               ELSE "payout_reconciliation_lookup"
     IN Store(r, {Text(op, Asked(c), "error")}, Ambiguous(c.rec, Asked(c)), Rest(c))
  /\ UNCHANGED <<rvars, exec, pvars, issued, reads, outages>>

\* Mutant: save instead of saveIfCurrent.
Current_Any(c) == TRUE

\* isCurrentRecord, and the claim test of assertMutationAllowed.
Current(c) == record.rev = c.rev
MaySave(c) == Current(c) /\ (Claimed(c) => OwnsClaim(c))

\* saveIfCurrent at the end of reconcile.
Save(r) ==
  /\ rc[r].pc = "LOOP" /\ rc[r].todo = {}
  /\ IF MaySave(rc[r])
     THEN /\ record' = Bump(Settled(rc[r].rec, rc[r].v))
          /\ lastWriter' = rc[r].token
          /\ Call(r, [rc[r] EXCEPT !.pc = "RELEASE", !.rec = record'])
          /\ UNCHANGED row
     ELSE EndCall(r) /\ UNCHANGED rvars
  /\ UNCHANGED <<exec, pvars, evidence, issued, reads, bounds>>

\* The reservation of a settled plan, or else the claim, is released.
Release(r) ==
  /\ rc[r].pc = "RELEASE"
  /\ IF rc[r].rec.status \in Final
     THEN row' = RowAfterRelease(rc[r].v) /\ Call(r, NoCall)
     ELSE EndCall(r)
  /\ UNCHANGED <<rvars, exec, pvars, evidence, issued, reads, bounds>>

----------------------------------------------------------------------------
(* Time and crashes.                                                       *)

Outage == outages < MaxOutages /\ outages' = outages + 1

\* The call that keeps the lease fresh is still there.
HolderAlive ==
  \/ row.state = "ACTIVE" /\ exec[row.ver] \in InCall
  \/ row.state = "RECONCILING" /\ \E r \in Reconcilers : Claimed(rc[r]) /\ OwnsClaim(rc[r])

\* Two minutes without a heartbeat, which only a lease that is looked at
\* shows: because the holder has died, or because it is slow (an outage).
LeaseExpires ==
  /\ row.state \in {"ACTIVE", "RECONCILING"} /\ row.fresh
  /\ IF HolderAlive THEN Outage ELSE UNCHANGED outages
  /\ row' = [row EXCEPT !.fresh = FALSE]
  /\ UNCHANGED <<rvars, exec, rc, pvars, evidence, issued, reads, errors>>

\* recoverTerminalReservations, when the process starts again.
RecoveredRow ==
  IF row # NoRow /\ record.plans[row.ver].status \in Final THEN NoRow ELSE row

CrashExecutor(v) ==
  /\ exec[v] \in InCall /\ Outage
  /\ At(v, "DONE")
  /\ row' = RecoveredRow
  /\ UNCHANGED <<rvars, rc, pvars, evidence, issued, reads, errors>>

CrashReconciler(r) ==
  /\ rc[r].pc # "IDLE" /\ Outage
  /\ Call(r, NoCall)
  /\ row' = RecoveredRow
  /\ UNCHANGED <<rvars, exec, pvars, evidence, issued, reads, errors>>

----------------------------------------------------------------------------

ExecutorStep(v) ==
  \/ StartAttempt(v) \/ Beat(v) \/ Post(v) \/ PreflightFails(v)
  \/ Rejected(v) \/ NoAnswer(v) \/ Answer(v) \/ Pause(v) \/ ReservationLost(v) \/ HandOver(v)

ReconcilerStep(r) ==
  \/ Claim(r) \/ GoOnUnclaimed(r) \/ ClaimRefused(r) \/ AskProvider(r)
  \/ Observe(r) \/ Lookup(r) \/ AskFails(r) \/ Save(r) \/ Release(r)

ProviderStep ==
  \/ \E q \in sent : Accept(q) \/ Lose(q)
  \/ \E k \in DOMAIN ledger : Decide(k)

Disruption ==
  \/ LeaseExpires
  \/ \E v \in Versions : CrashExecutor(v)
  \/ \E r \in Reconcilers : CrashReconciler(r)

ExecutionNext ==
  \/ \E v \in Versions : ExecutePlan(v) \/ ExecutorStep(v)
  \/ \E r \in Reconcilers : ReadCase(r) \/ ReconcilerStep(r)
  \/ ProviderStep
  \/ Disruption

Spec == Init /\ [][ExecutionNext]_vars

\* The service's event loop keeps running the calls it has begun (an awaited
\* request ends after API_TIMEOUT_MS at the latest), the broker keeps asking
\* for reconciliation, and the lease of a dead call runs out.
FairSpec ==
  /\ Spec
  /\ \A v \in Versions : WF_vars(ExecutorStep(v))
  /\ \A r \in Reconcilers : WF_vars(ReadCase(r)) /\ WF_vars(ReconcilerStep(r))
  /\ WF_vars(~HolderAlive /\ LeaseExpires)

----------------------------------------------------------------------------
(* Refinement mappings.                                                    *)

Accepted(v) == {k \in DOMAIN ledger : ledger[k].v = v}
PaidOf(v) == {k \in Accepted(v) : ledger[k].state = "COMPLETED"}

\* An error stands in the record for the provider's answer to payout i: the
\* attempt is FAILED without a transaction, and no call looks for one.
WrittenOff(v, i) ==
  \E a \in AttemptsOf(record, v) :
    record.attempts[a].i = i /\ record.attempts[a].state = "FAILED" /\ record.attempts[a].tx = 0

\* The provider may still pay payout i.
UnderWay(v, i) == <<v, i>> \in sent \/ \E k \in Accepted(v) : ledger[k].i = i /\ ledger[k].state = "PENDING"

PhaseOf(v) ==
  IF ~HasPlan(record, v) THEN "NEW"
  ELSE CASE record.plans[v].status = "EXECUTING" -> "OPEN"
         [] record.plans[v].status \in Final -> record.plans[v].status
         [] OTHER -> "NEW"

\* What the provider and the broker see of the case's plans.
Promise == INSTANCE SequentialPayouts WITH
  Plans <- Versions, N <- Payouts,
  tried <- [v \in Versions |-> Cardinality(AttemptsOf(record, v))],
  givenUp <- [v \in Versions |-> \E i \in 1..Payouts : WrittenOff(v, i)],
  asked <- [v \in Versions |-> Cardinality(Accepted(v))],
  paid <- [v \in Versions |-> Cardinality(PaidOf(v))],
  refused <- [v \in Versions |-> \E k \in Accepted(v) : ledger[k].state = "FAILED"],
  phase <- [v \in Versions |-> PhaseOf(v)]

ExecutorOf(v) == [w |-> v, c |-> "case", v |-> v]
ClaimOf(r) == [w |-> r, c |-> "case", v |-> rc[r].v, token |-> rc[r].token,
               closed |-> rc[r].pc = "RELEASE" /\ rc[r].rec.status \in Final]

\* The reservation protocol, each call being a worker of its own.
Lock == INSTANCE ExecutionLock WITH
  Cases <- {"case"}, Workers <- Versions \cup Reconcilers,
  row <- [c \in {"case"} |-> row],
  pilot <- IF row = NoRow THEN {} ELSE {<<"case", row.ver>>},
  plan <- [c \in {"case"} |-> [v \in Versions |->
            CASE PhaseOf(v) = "NEW" -> "UNSUBMITTED" [] PhaseOf(v) = "OPEN" -> "EXECUTING"
              [] OTHER -> PhaseOf(v)]],
  executing <- {ExecutorOf(v) : v \in {u \in Versions : exec[u] \in InCall}},
  reconciling <- {ClaimOf(r) : r \in {q \in Reconcilers : Claimed(rc[q])}},
  lastWriter <- [c \in {"case"} |-> lastWriter]

----------------------------------------------------------------------------
(* Properties.                                                             *)

\* Record, row, provider and calls are well formed.
TypeOK ==
  /\ record \in Record
  /\ exec \in [Versions -> {"NONE", "DONE"} \cup InCall]
  /\ sent \subseteq Request /\ ledger \in Seq(Payout)
  /\ \A r \in Reconcilers : rc[r].pc # "IDLE" =>
       rc[r].rec \in Record /\ rc[r].todo \subseteq DOMAIN rc[r].rec.attempts

\* No request is on its way or accepted without a durable attempt from which
\* a restarted service finds it again by its request ID.
WriteAhead ==
  LET recorded == {<<record.attempts[a].v, record.attempts[a].i>> : a \in DOMAIN record.attempts}
  IN sent \cup {<<ledger[k].v, ledger[k].i>> : k \in DOMAIN ledger} \subseteq recorded

\* The record never runs ahead of the provider: an attempt is COMPLETED only
\* if the transaction it names is that payout's and has completed.
CompletedIsPaid ==
  \A a \in DOMAIN record.attempts :
    LET t == record.attempts[a] IN
    t.state = "COMPLETED" =>
      t.tx \in DOMAIN ledger /\ ledger[t.tx] = [v |-> t.v, i |-> t.i, state |-> "COMPLETED"]

\* A RECONCILED plan has been paid in full, each payout once; and of a FAILED
\* one nothing is under way but a payout that its record has written off.
SettledIsDecided ==
  \A v \in DOMAIN record.plans :
    /\ record.plans[v].status = "RECONCILED" =>
         Accepted(v) = PaidOf(v) /\ Cardinality(PaidOf(v)) = Payouts
    /\ record.plans[v].status \in Final =>
         \A i \in 1..Payouts : UnderWay(v, i) => WrittenOff(v, i)

\* What a late, superseded or crashed call may never undo: a settlement, and
\* a payout recorded as completed.
ResultsAreFinal ==
  [][/\ \A v \in Versions : HasPlan(record, v) /\ record.plans[v].status \in Final =>
          HasPlan(record', v) /\ record'.plans[v].status = record.plans[v].status
     /\ \A a \in DOMAIN record.attempts :
          record.attempts[a].state = "COMPLETED" =>
            a \in DOMAIN record'.attempts /\ record'.attempts[a] = record.attempts[a]]_vars

\* The calls of any number of processes do what SequentialPayouts promises.
PayoutsArePromised == Promise!Spec

\* They follow the reservation protocol of ExecutionLock.
FollowsLockProtocol == Lock!Spec

\* Whatever goes wrong, a submission call ends, unless its process dies; and it
\* has given up its reservation by then, not left it to lapse.
SubmissionEnds ==
  \A v \in Versions :
    /\ exec[v] \in InCall ~> exec[v] = "DONE"
    /\ [](exec[v] = "DONE" => ~(row.ver = v /\ row.state = "ACTIVE"))

\* Every payout asked for has been accepted and decided by the provider, and
\* reconciliation is free to start.
Collectable(v) ==
  /\ HasPlan(record, v) /\ record.plans[v].status = "EXECUTING"
  /\ row.state = "READY_TO_RECONCILE"
  /\ \A a \in AttemptsOf(record, v) \cap OpenAttempts(record) :
       \E k \in Accepted(v) : ledger[k].i = record.attempts[a].i /\ ledger[k].state # "PENDING"

\* A plan that can be settled is settled if the broker keeps asking.
CollectableIsSettled ==
  \A v \in Versions :
    Collectable(v) /\ record.status # "QUEUED" ~> record.plans[v].status \in Final

----------------------------------------------------------------------------
(* Promises of the documents and comments that the code does not keep.     *)

\* Once a plan is settled none of its payouts is under way.
SettledIsQuiet ==
  \A v \in DOMAIN record.plans : record.plans[v].status \in Final =>
    ~\E i \in 1..Payouts : UnderWay(v, i)

\* A queued execution does not stay queued.
QueuedEnds == record.status = "QUEUED" ~> record.status # "QUEUED"

=============================================================================
