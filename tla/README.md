# Specifications of the Revolut funding and payment service

TLA+ specifications of the server in `src/`: how a brokered case is taken in,
funded, decided, paid out and reconciled; how transfers between Sandbox accounts
and ordinary payments are prepared, submitted and reconciled; and how the client
that talks to the provider behaves; and how operators log in. TLC checks small
instances; TLAPS proves the safety invariants of every part and the two
refinements for instances of every size. `PROJECT.json` maps every definition to
the lines it models.

File names below are relative to `src/` of the repository. `C` is
`cases/case-service.ts`, `S` is `cases/case-store.ts`.

## 1. The system

One Node process serves an HTTP API over SQLite databases, an encrypted evidence
directory, and the provider's Sandbox. It is single-threaded: code between two
awaits is atomic for every other call of the same process, and nothing else is.
A crash may come between any two durable writes.

| Component | State | Operations | Talks to |
|---|---|---|---|
| Case intake (`C:96-300`, `C:306-415`, `C:1205-1287`, `cases/archive-reader.ts`) | cases, jobs, submission identities, evidence | submit, processSubmission, resumePendingJobs, prepareSandboxWalkthrough, addAmendment | scanner (await), provider (await), store, evidence |
| Package analysis (`cases/intake.ts`) | none | analyzePackage | called by the intake |
| Case lifecycle (`C:306-497`, `C:841-932`, `cases/risk.ts`) | the case record: status, findings, plans, approvals | addAmendment, addReview, decide, createPlan, authorizePlan | store |
| Funding (`C:499-839`) | funding attempts and observations, their lock table | refreshFunding with and without a top-up | provider (await), evidence, store |
| Plan execution (`C:934-984`, `C:1289-1470`) | execution attempts, the lock tables | executePlan, executeSequentially | provider (await), evidence, store |
| Reconciliation (`C:986-1168`) | claims on the lock row | reconcile | provider (await), evidence, store |
| Store (`cases/case-store.ts`) | all tables of the above; revisions, hash chain of events | save, saveIfCurrent, the lock statements, recovery in the constructor | — |
| Evidence store (`cases/evidence-store.ts`) | write-once encrypted objects | put | — |
| Sandbox client (`adapters/revolut-sandbox-client.ts`) | cached token, refresh in flight | request, getAccessToken | provider |
| Sandbox transfers (`services/sandbox-internal-transfer-service.ts`) | table sandbox_transfers, map of submissions in flight | prepare, submit, reconcile | client (await) |
| Payment orchestrator (`services/payment-orchestrator.ts`) | in-memory store of payments | prepareMany, submit, reconcile, applyProviderState | provider interface (await) |
| Operational errors (`operations/operational-error-monitor.ts`) | table operational_errors | capture, report | wraps every provider call |
| Operator authentication (`security/operator-auth.ts`) | sessions and failures (in memory), used codes (SQLite) | login, authenticate, require, logout, the administrator's confirmations | SQLite |
| ISO 20022 import (`iso20022/`, `services/iso20022-import-service.ts`) | none | parse, prepare | orchestrator (await) |
| Domain values (`domain/`, `cases/currency.ts`, `cases/canonical.ts`, the forms of `frontend/src/App.tsx`) | none | conversions | — |
| Routes, server, configuration, front end, scripts | wiring | — | — |

What is hard in it:

- *Read, await, write back.* Nearly every operation reads a whole record, awaits
  the provider or a scanner, and saves the whole record. Some saves compare a
  revision (`saveIfCurrent`), some a lock, some nothing.
- *Leases.* A reservation lapses after two minutes; its holder may still be alive
  and must not write once somebody else has taken over.
- *Requests that may have arrived.* A payout, a top-up or a transfer whose answer
  is lost may have been accepted, be on its way, or be lost.
- *Evidence before state.* Evidence is created exclusively and before the save it
  belongs to; what stops in between cannot be repeated with the same text.
- *Crashes.* Between two durable writes, with recovery in the constructor of the
  store and in the resumption of jobs.
- *Long sequences of legal calls.* Amendments, reviews, decisions, refreshes,
  plans and executions in any order.

- *Texts, numbers and positions.* Amounts pass decimal texts and minor units;
  counts and sums are declared at three levels of a message; results are joined to
  transactions by position.

What makes each part correct: intake — an identity is one package, nothing of an
uncleared package is shown, a case that may be funded was vouched for by a package
or by its broker and stays so while money is on its way, every job ends; lifecycle —
what is executed stands under a current decision, over a receipt that is there, once;
funding — one top-up per expectation, its answer is saved, and no reservation lasts
for ever; execution — payouts in order, each once, with a durable attempt before each;
reconciliation — it only records what the provider has decided, and never undoes it;
transfers and payments — one transfer per client reference, and its result is not lost;
imports — what an answer says of a
transaction is stored as the transaction says, all or nothing where that was asked;
operators — a second factor is used once, attempts are bounded, an ended session
stays ended. Not all of it is kept: section 3 has a table of what is not.

## 2. Modules

```
LockRows ── ExecutionLock                                  (reservation protocol)
   │             ▲
   │             │ implements (Lock!Spec)
CaseRecord ── PlanExecution ── CaseLifecycle               (one case)
                 │
                 │ implements (Promise!Spec)
                 ▼
          SequentialPayouts                                (abstract promise)

Amounts ──┬── PackageAnalysis ── CaseIntake                (a package becomes a case)
          └── Iso20022Message ──┐
          PaymentOrchestrator ──┴── PaymentImport          (a file becomes payments)

FundingAttempts   SandboxTransfers   OperatorAuth
ProviderClient    OperationalErrors                        (stand alone)
```

The proofs are in modules of their own: `ExecutionLock_proofs`,
`CaseLifecycle_proofs` (which is also about `PlanExecution` and both
refinements), `FundingAttempts_proofs`, `CaseIntake_proofs`,
`PaymentImport_proofs` (also about `PaymentOrchestrator`),
`SandboxTransfers_proofs`, `OperatorAuth_proofs` and `ProviderCalls_proofs`
(`OperationalErrors` and `ProviderClient`).

Every `MC` module extends one of them and gives its constants values.

**LockRows, ExecutionLock.** The tables `case_execution_locks` (`row`) and
`sandbox_execution_locks` (`pilot`), one action per store transaction: `Reserve`,
the two heartbeats, the guarded saves, `FinishExecution` (the `finally` block),
`ClaimReady`, `ClaimStale`, `Close`, the two releases, `LeaseExpires` and `Restart`
with `recoverTerminalReservations`. A worker is a service process on the shared
database, so this module, unlike the others, holds for several processes. A lease is
abstracted to `fresh`: younger than two minutes or not. `lastWriter` is the token
of the last guarded write and exists for the property about fencing only.

**CaseRecord.** The durable record cut down to what decides whether money moves,
and the pure functions that read and rewrite it. FAILED stands for FAILED,
REVERTED and DECLINED. Every finding kept in the model blocks, so the risk is LOW
exactly when there is none; findings are told apart by who may clear them.

**PlanExecution.** `executePlan`, `executeSequentially` and `reconcile`, cut at
every await and every store transaction of which another call can see the result.
The provider is external: `sent` are requests on their way, `ledger` those it
accepted, in order. A request may be accepted after its caller has given up. A text
of evidence is identified by the operation, the payout and the result it contains,
which is what makes a second `put` of it conflict. An error after a request was sent is
recorded by its words (`providerFailureFinding`): as AMBIGUOUS, to be looked up, or as
FAILED, and then no call looks for the payout again. The model allows both, whatever
became of the request; `WrittenOff` is such an attempt. `Recycle` lets revisions and
tokens that nothing holds be used again, which keeps the state space finite
without a bound on saves; they are only compared for equality.

**SequentialPayouts.** What a broker is promised: payouts are accepted one at a
time, in order, only while their plan is open or after it was given up, which is what writing
a payout off comes to, and the plan closes as RECONCILED only when all are paid. `PlanExecution` implements it under the mapping `Promise`,
and `ExecutionLock` under the mapping `Lock`, where each call is a worker.

**CaseLifecycle.** Adds the broker's operations and the observing part of
`refreshFunding` to `PlanExecution`. Broker operations read and save without an
await, so each is one action; a refresh is two, with its record in `reads`.
A record carries the state of the Sandbox top-up its credit came from (`topUp`): an
observation updates it and raises and clears the findings that go with it, and an
amendment that replaces the expectation resolves them. A behaviour begins at one of
the `Origins`, a record with what its instance allows: which credits may match and what
becomes of them, which findings a failed observation may leave, which decisions go
against it, how many plans, which reconcile calls. They only keep apart instances that
are too large together; `origin` never changes. Approvals also compare the digest of
the risk snapshot; a snapshot with another digest is one with other findings, so the
guards ask for the findings.

**FundingAttempts.** The other half of `refreshFunding`: reserve, send, save the
answer, and the observation that takes an interrupted reservation over. `fresh`
says that the revision a call has read is still the current one. The execution of a plan
stands beside it with its own row (`exec`), cut down to what funding meets of it:
`ExecutePlan` reserves without a look at the funding lock and saves the case, so that
the copy of a call that is sending a top-up goes stale; and the saves of each are refused while
the other holds its reservation. The branch on the amount limit is left out, and so is
the evidence of an answer, which quotes a request that is made once and can never
conflict; expectations that replace each other have different amounts; `Direct` is a
credit that no top-up brought; all funding findings may be cleared by an observation.

**Amounts.** A decimal text is digits and a scale, or absent, or malformed; the
four conversions keep their range (`MaxSafeInteger`), their treatment of digits
finer than the currency, and their different lists of currencies. `Scales` bounds
the digits after the point at four, one more than the finest currency has.
`AddExact`, `EqualExact` and `AtMost` are exact at every scale; `Total` folds a list of
amounts with `Plus`, which adds what parses and passes over the rest, as the message
checks do.

**PackageAnalysis.** `analyzePackage` as a function from the contents of a package
to an outcome: the profile it is taken for, the findings it leaves and the credit
it declares. Contents are what the functions ask of a package: its entries, which
of them parse, what the manifest declares, whether the signature verifies. Findings
are grouped by the lists that decide who may clear them (`NonAmendable`,
`Diagnostic`, `Reconcilable`).

**CaseIntake.** From an upload to a case that may be funded. A case is named by its
package, because a package is stored once. `SubmitTorn` and `ValidateTorn` stop the
server after each durable write. The verdict of the scanner is a choice. A
walkthrough is cut at its await, so that the validation job, a resumed one included,
runs between its read and its save. Which findings a broker confirms in one
amendment is bounded by `Resolutions`: none, one, or all of them. Amounts are typed
into the console's forms (`Entries`), which refuse some. `Fundable` is the
gate at the head of `refreshFunding`. A case is `reserved` while a top-up or an execution
is under way, and the reservation outlives the process; `assertMutationAllowed` then
refuses every save. A validation that is refused fails in its catch clause as well, which
nobody handles: the process ends and the service is started again (`SaveRefused`), and
the job, still RUNNING, is resumed. `Reserve` and `Release` stand for `FundingAttempts`
and `CaseLifecycle`, where what happens in between is modelled; `MaxReserved` bounds
how many there are.

**ProviderClient.** Callers of `request` with the cached token and the shared
refresh. Each call exchanges as often as the retry rules allow.

**SandboxTransfers.** The service over its table, with `inFlightSubmissions`,
which dies with the process. The route's test of the expiry is the guard of the
submit actions. `failed` stands for failed, reverted and declined.

**PaymentOrchestrator.** Batches, submissions and reconciliations over the
in-memory store, which dies with the server, so there are no restarts. A batch is
grouped by source account and currency; each group, fees included, is compared with the
balance of its account, and in atomic mode one that is not covered takes the others with
it. A balance that is reported for the wrong account is as good as none. The awaits of
quote and balance concern one call only and are part of the step that uses their answer.
The provider is the only one in the repository, `MockBankingProvider`: it ignores the
idempotency key and makes a transfer of every request. `MaxStored` bounds the payments
and transfers together.

**Iso20022Message.** A parsed message as a tree of header, blocks and transactions,
and `parse` over it: the errors of the document, at three levels, those of each
transaction, the request it is mapped to and the reference it is given. Errors are
kept, warnings are not: they decide nothing. A reference is what is hashed, the fields
joined by '|', as a sequence of the pieces between the bars: an id that contains a bar
is several (`Barred`), so that two transactions may have one reference. That the hash
tells different texts apart is assumed.

**PaymentImport.** `prepare` in front of `PaymentOrchestrator`: an upload is refused
as a whole, or its valid transactions become a batch, and the results are joined to
the transactions when the batch has been answered. The day is a parameter, since one
check depends on it.

**OperatorAuth.** Sessions, failures and used codes, with a clock in ticks. A
restart forgets sessions and failures and keeps used codes. The failures of a key
are a set of moments, numbered so that several fit into one. Passwords match or do
not; a supplied code stands for the steps it matches within the skew of one step.
`grants`, `denials` and `ended` are history variables for the properties.

**OperationalErrors.** The table behind `capture` and the health report. `failed`
and `seen` are history variables that the properties compare the table with.

## 3. Runs

Passing runs:

| Run | Question | Bounds, and why they are enough |
|---|---|---|
| MCExecutionLock | Do reservations and claims exclude each other? | 2 cases, 2 versions, 2 processes; 3 claims: a claim, a takeover, a takeover of that |
| MCPlanExecution | Are payouts promised, recorded first, and never undone? Does the code follow the lock protocol? | 2 payouts (a next one exists), errors of either kind, 2 reconcile calls, 3 claims, 2 outages, 1 failed read: two takeovers and a call that comes back after one |
| MCPlanLiveness | Do submissions hand over, and do plans get settled? | as above, no outage, tokens recycled |
| MCCaseLifecycle | Does an authorization stay current, and is one plan under way at a time? | four origins: a validated package up to its first plan, with 2 credits that match alike, replaced expectations and any number of failed observations; the same after a declined top-up, whose credit may be pending first; 2 plans of 1 payout, with 1 reconcile call and 1 refresh, over a completed top-up; and 1 plan whose receipt is reversed |
| MCProviderClient | How often is a request sent, and does every call end? | 2 reads and a post, 3 faults (one more than a call survives), 1 expiry, 1 token replaced from outside; 7 tokens, which never run out |
| MCFundingAttempts | Is an expectation topped up twice, and what may outdate the copy of the call that sends it? | 2 expectations of which 1 is topped up, a direct credit, 2 overlapping calls, any number of executions, reviews and failed listings, a restart between any two writes; 1.5 million states. What a second top-up adds is in MCFundingPromises, and the proofs are for any number |
| MCSandboxTransfers | Does money move once, and does a stored transfer get its result? | 3 overlapping calls on a reference, 2 faults, a restart, 2 ids |
| MCPaymentImport | Does an answer match what is stored, all or nothing, within the declared sums? Is every account covered? Does a record stay with its own transfer? | 2 calls; a file that draws on 2 accounts, one whose first payment cannot be read, one whose header declares its last block only, and one with a payment finer than a cent and two that share a reference by a bar in their ids; a payment entered by hand under a reference of theirs; 3 payments and transfers; balances that cover one payment of a group or all; 1.8 million states |
| MCCaseIntake | Identities, inventories, findings and amounts through restarts; is what is being funded still fundable; do jobs end? | 5 pairs of packages, sound and not, of every profile, sharing a file or not; 1 change by the broker, 1 reservation of a top-up or an execution, a restart between any two writes besides those that refused saves bring about |
| MCOperationalErrors | Does the report follow the outcomes? | 2 operations, a warning and a critical kind, 3 captures, a restart |
| MCOperatorAuth | Are factors used once, attempts bounded, ended sessions ended? | 2 users, 1 with codes, 1 recovery code, 2 sessions, 4 attempts against a limit of 2 in a window of 2 ticks, 3 ticks, a restart: a window slides over a full list of failures, and both time-outs run out |

What they show:

- *Exclusion* (`OneReservation`, `ExecutingIsReserved`, `SingleWriter`,
  `FencedWrites`): the two lock tables agree, one case is reserved in the whole
  system, a plan that executes stays reserved until it is settled, and a holder
  that was superseded writes nothing.
- *Execution* (`WriteAhead`, `CompletedIsPaid`, `SettledIsDecided`,
  `ResultsAreFinal`, `PayoutsArePromised`, `FollowsLockProtocol`): no request is
  out without a durable attempt; the record never runs ahead of the provider; a
  RECONCILED plan is paid in full, each payout once, and of a FAILED one nothing is under
  way but what its record has written off by the words of an error (that it may be is
  the subject of MCLostAnswer); and neither is ever undone by a late call.
- *Lifecycle* (`OnePlanUnderWay`, `AuthorizationIsCurrent`, `BlocksStand`): in
  every order of legal operations. The first leaves payouts aside that are written off,
  the second speaks of the decision and not of the receipt: both halves that are missing
  are broken promises (`NothingElseUnderWay`, `ReversalWithdraws`).
- *Funding* (`TopUpOnce`, `OnlyExecutionOutdates`): whatever the broker does is kept
  out while a top-up is under way; what gets in is an execution.
- *Client* (`SendsBounded`, `CallsEnd`), *transfers* (`MovedOnce`, `OneSender`,
  `SavedIsReconciled`), *errors* (`HealthFollowsOutcomes`).
- *Payments* (`RecordFollowsItsTransfer`, `AggregateCovered`): the calls on one
  payment write whole records back in any order, and still none is left with the id of
  one transfer and the state of another. That a payment makes one transfer is not so.
- *Imports* (`ItemsAreStored`, `AtomicImport`, `WithinDeclaration`): an answer is
  about the right transactions, whatever stood between them; an atomic one prepares all
  or nothing across both levels that may refuse, and across accounts; and the checks at
  three levels add up to what the header declares.
- *Intake* (`IdentityIsOnePackage`, `NoInventoryInQuarantine`, `FundableIsVouched`,
  `AmountsAreExact`, `ReservedIsFundable`, `JobsEnd`): a case that may be funded rests
  on a package that was readable and, where it names its credit itself, whole and
  signed; the amount on it is the one that was declared or typed, to the last digit;
  and from the reservation of a top-up or an execution to its end no copy that was
  read before takes any of this back. A job ends unless a case stays reserved.
- *Operators* (`FactorsAreUsedOnce`, `DenialsAreBounded`, `EndedSessionsStayEnded`).

The type invariants of the other modules (`TypeOK`, `LifecycleTypeOK`) hold in the
same instances and can be added to their configurations; the suite lists those of
the two modules whose proofs or refinements use them.

### Where the code does something else than its documents say

The models also show behaviours that a document, a comment or a message of the
repository rules out. Each is stated as a property under the heading of broken
promises in its module, and `tlc -config <name>.cfg <module>.tla` prints a
shortest behaviour that violates it; the configurations named `...Promises` serve
several promises, of which one is named at a time. MCRevision is one of the runs listed in
`PROJECT.json`; the other configurations are kept beside it.

| Configuration (module) | What happens | What is promised |
|---|---|---|
| MCRevision (MCCaseIntake) | the validation job writes the copy it read before the scan: a review saved meanwhile is gone and a revision names two states | cases/model.ts:216 "Monotonically advanced by the SQLite store on every durable mutation" |
| MCCasePromises (MCCaseLifecycle), `LatestPlanOnly` | an older plan is authorized and executed after a newer one was created | docs/BROKERED_FUNDING_CASES.md:146 "you must review the new plan from the beginning" |
| MCCasePromises (MCCaseLifecycle), `ReceiptPaidOnce` | a closed case is approved again and its receipt allocated in full once more | docs/BROKERED_FUNDING_CASES.md:126 "matched test credit = payouts + fees + reserve or refund" |
| MCCasePromises (MCCaseLifecycle), `ReversalWithdraws` | a failed check, then a reversal: the approval stays valid, and only the tests before each payout stop it | docs/GLOSSARY.md:44 "The earlier authorisation is no longer valid" |
| MCPlanPromises (MCPlanExecution), `QueuedEnds` | a submission that fails with an error text stored before leaves the case QUEUED with no worker | case-service.ts:1007 "wait for the submission worker to finish" |
| MCPlanPromises (MCPlanExecution), `CollectableIsSettled` | a crash between the evidence of a result and its save makes the result unusable | docs/BROKERED_FUNDING_CASES.md:175 "Use **Refresh** or **Reconcile** to check the existing test result" |
| MCCasePromises (MCCaseLifecycle), `NothingElseUnderWay` | a payout that was accepted is written off by the words of an error, its plan fails, and a replacement is executed while it is still pending | docs/REAL_CASE_SANDBOX_PILOT_PLAN.md:474 "reconciliation before a replacement attempt" |
| MCLostAnswer (MCPlanExecution), `SettledIsQuiet` | an error after acceptance whose text mentions an amount, a limit or a currency is recorded as FAILED, and the plan is settled over a payout under way | docs/REAL_CASE_SANDBOX_PILOT_PLAN.md:596 "reconciliation closes only final provider results" |
| MCTokenRace (MCProviderClient) | a late 401 discards a token that another caller has just obtained | docs/ERROR_MONITORING_AND_OUTAGE_ROADMAP.md:56 "This avoids one refresh invalidating a token another caller has just obtained" |
| MCFundingPromises (MCFundingAttempts), `AnswerCanBeSaved` | an execution is reserved while a top-up is under way, and the answer of the top-up is refused as stale | case-service.ts:1524 "blocked while a Sandbox funding submission is still being recorded" |
| MCFundingPromises (MCFundingAttempts), `QueueEnds` | the same execution is refused by the top-up's reservation, its submission ends, and its plan stays queued with no worker | case-service.ts:1007 "wait for the submission worker to finish" |
| MCFundingPromises (MCFundingAttempts), `ReservationEnds` | a stale observation leaves an interrupted top-up, and its case, locked | case-service.ts:784 "instead of leaving the case permanently locked" |
| MCFundingPromises (MCFundingAttempts), `OneTopUpUnderWay` | two top-ups of a case are pending at once | case-service.ts:348 "before a replacement expectation is considered" |
| MCFundingPromises (MCFundingAttempts), `ObservationsAreKept` | a stale observation stores its evidence and not its result, and every later one of the same credit fails on that evidence | docs/BROKERED_FUNDING_CASES.md:105 "Use **Refresh** or **Reconcile** to check the existing" result |
| MCTransferPromises (MCSandboxTransfers), `FinalResultStands` | an older result overwrites a final one | docs/SANDBOX_OPERATIONS_RUNBOOK.md:52 "The final Sandbox result was confirmed" |
| MCTransferPromises (MCSandboxTransfers), `PreparedAgain` | preparing an expired transfer again returns it, still expired | routes/sandbox-internal-transfers.ts "Prepare it again before submitting" |
| MCTransferPromises (MCSandboxTransfers), `ReconciledInTheEnd` | a transfer whose answer was lost cannot be reconciled | docs/SANDBOX_ACCOUNT_TRANSFER_TEST_GUIDE.md:54 "reconciliation can determine what happened without double payment" |
| MCPaymentPromises (MCPaymentImport), `OneTransferPerReference` | two submissions of one payment, overlapping or repeated after a lost answer, make two transfers | docs/ARCHITECTURE.md:37 "Exactly one authorized bank transfer per unique canonical payment request" |
| MCPaymentPromises (MCPaymentImport), `ReferenceIsUnique` | two overlapping preparations store two payments under one reference | docs/ARCHITECTURE.md:74 "Reuse of a client reference for a different request is rejected" |
| MCPaymentPromises (MCPaymentImport), `TransferStaysTraced` | a submission held for review erases a recorded transfer id | docs/ARCHITECTURE.md:37 "with a traceable terminal outcome" |
| MCReimport (MCPaymentImport), `ReimportReturnsExisting` | a file that is sent again after the cut-off day is refused for payments that it prepared | docs/ISO20022_IMPORT.md:90 "Reimporting the same request returns the existing payment" |
| MCReimport (MCPaymentImport), `ReferencesAreDistinct` | two transactions of a file get one reference, because an id of each contains the '|' that joins the fields, and the second is rejected as a repetition | docs/ISO20022_IMPORT.md:90 "Each normalized payment gets a deterministic client reference" |
| MCIntakePromises (MCCaseIntake), `ScansFinish` | a restart after a validation was saved and before its job was; a top-up is reserved, the resumed validation may not save, nor may its catch clause, and the service goes down with every attempt | docs/BROKERED_FUNDING_CASES.md:38 "Wait for scanning to finish" |
| MCIntakePromises (MCCaseIntake), `AttestingFindingsStand` | a walkthrough that began before a resumed validation was saved writes its older record back, and the finding of the scanner is gone | case-service.ts:1586 "They must be superseded by a clean re-upload or a provider reconciliation" |
| MCIntakePromises (MCCaseIntake), `CasesAreScanned` | a restart between a case and its job leaves it unscanned | docs/BROKERED_FUNDING_CASES.md:38 "Wait for scanning to finish" |
| MCIntakePromises (MCCaseIntake), `ClearedIsNotQuarantined` | a cleared package that shares a file ends in quarantine | docs/BROKERED_FUNDING_CASES.md:41 "**Quarantined** means the safety check has not cleared the file" |
| MCEarlyRecovery (MCOperationalErrors) | a check that began before an error resolves it | docs/ERROR_MONITORING_AND_OUTAGE_ROADMAP.md:98 "a subsequent successful check resolves it" |

`ReservationEnds` is found with every failed observation having the same error
text, as a lasting outage has.

Deadlock is not checked where a behaviour legitimately ends: when all calls are
over and a bound (`Max...`) or the last plan version is used up. `MCExecutionLock`
checks it. Symmetry is used for sets of interchangeable calls and credits, in runs without
liveness properties only.

Liveness rests on weak fairness of steps that the event loop schedules: a call that
has begun goes on, because every exchange ends after `API_TIMEOUT_MS` and the
scanner has a timeout of its own; and on an operator who keeps pressing *Refresh*
or *Reconcile* (`ReadCase`, `StartRefresh`, `ReconcileStart`, the last one
strongly fair, since the button is enabled only between other calls). The lease of
a dead holder runs out. `FundingAttempts` also lets a request that was sent arrive
or be refused (`Arrives`); `PlanExecution` assumes nothing of the provider, and
`CollectableIsSettled` speaks of payouts it has decided. Nothing is assumed about
crashes, new submissions or the broker's decisions.

## 4. Proofs

TLC says that a property holds of one instance. The theorems say it for every
value of the constants that the named assumptions of the modules allow: any
number of cases, plans, payouts, calls, packages, files, codes, and so on; and any
number of claims, outages, faults and restarts, since every bound of that kind is
a constant. Where a theorem assumes more, it says so under `ASSUME` and the
paragraph about it here says why. Every safety property of a run that passes is
stated by a theorem.

Few of the properties are inductive. For each part there is one inductive
invariant, which says what the property rests on, and mostly it says of *copies*
what they are: a record read before an await is either outdated, and then no
save accepts it, or it is the record. Each proof has one lemma per action, with
a step for each conjunct that the action can disturb, and a lemma that puts them
together.

**ExecutionLock** (`LockAssumption`: versions are positive numbers).
`TypeCorrect`, `ReservationIsUnique`, `ExecutingStaysReserved` and
`WriterIsUnique` are the invariants of MCExecutionLock, `WritesAreFenced` its
action property. That releasing a reservation leaves no executing plan without
one needs `ClosedIsFinal` (a call marked closed has settled its plan) and
`PlanOfRow`; that two calls are never both the writer needs `OneExecutor` (a plan
is submitted by one call, since its status leaves UNSUBMITTED for good) and
`UniqueTokens`; that writes are fenced needs `WriterBound`, which relates the last
writer to the current holder. `LockInv` is their conjunction.

**PlanExecution and CaseLifecycle** (`RecordAssumption`, `ExecutionAssumption`, in
particular that finitely many reconcile calls run at a time; `LifecycleAssumption`:
a behaviour begins before the first plan of the case). `CaseInv` is
inductive under `Spec` and under `LifecycleSpec`. Its parts:

- `RecordInv` and `Traced`: attempts belong to submitted plans, a later payout has
  an attempt only when those before it are completed, and a plan's status follows
  from its attempts;
- `ProviderInv` and `WriteAhead`: the provider has accepted nothing twice, and
  neither has nor is sent anything without an attempt;
- `RowInv`: an executing plan has the row of the lock table;
- `ExecInv`: where a submission stands, from what it has recorded;
- `CallInv` and `ReadsInv`: the copies that reconcile calls and other operations
  hold. `RevisionIsNew` shows that a revision nobody holds can always be found, so
  an outdated copy stays outdated whether or not revisions are used again.

From it follow `ExecutionTypes`, `RequestsAreRecorded` (`WriteAhead`),
`CompletionIsPaid` and `ResultsStand` (`ResultsAreFinal`), over `Spec`, and the first
two promises once more over `LifecycleSpec` (`CasePromises`), where the broker
acts as well: what TLC checks on two separate instances is proved of the composition.
`LifecycleTypes`, `AuthorizationStaysCurrent` and `BlocksAreKept` need nothing
more than `LifecycleInv`, which is `CaseInv` and one refresh at a time.

Three theorems over the lifecycle have no counterpart among the runs, and assume nothing.
`PayoutsGoOneByOne` says of the provider that no payout is accepted twice or asked
for again once it was accepted, and that one payout of a plan at most is out:
on its way, or accepted and not completed. It follows from `CaseInv`, since what is
out has an attempt of its own that has not completed, and of those a plan has one.
`OnlyOutagesStrand` is the safety part of `SubmissionEnds`: on every path through
its errors a submission gives its reservation up before it is over; it is found
holding it only where a process died or a lease lapsed.
`UnreachedStaysOpen` says what becomes of a payout attempt whose request never
reached the provider, because the preflight failed, the process died before the
call, or the request was lost: it stays open, its plan EXECUTING and the case closed
to every operation of the broker, for ever. Reconciliation takes only a transaction
for a result and never records an attempt as FAILED without one, which has to hold of
every copy that could still be saved (`Unfailed`, inductive beside `LifecycleInv`); the
submission is past its request, and another does not get the row. That is where "no
automatic retry after an ambiguous provider response"
(docs/REAL_CASE_SANDBOX_PILOT_PLAN.md:470) leads, and the reason why
`CollectableIsSettled` speaks only of plans whose requests arrived.

What an error after a request is recorded as is left open, as in the code: AMBIGUOUS or
FAILED, whatever became of the request. `SettlementIsDecided` (`SettledIsDecided`),
`PayoutsKeepPromise` and `OnePlanAtATime` (`OnePlanUnderWay`) therefore leave aside the
payouts that are written off, and nothing else: `AttemptsAreDecided` shows that every
other attempt of a settled plan has the result of its own transaction. `CompletedIsPaid`
speaks of attempts; that a RECONCILED *plan* was paid in full is `SettlementIsDecided`.

- `PayoutsKeepPromise` is the refinement `Spec => PayoutsArePromised`: initial
  states map to initial states, and every step of a submission, a reconcile call or
  the provider to a step of `SequentialPayouts` or to none. The step that is not
  evident is the settlement, which the promise describes by the provider's ledger
  and the code by its record; `SettledAsPaid` says that they agree.
- `FollowsReservationProtocol` is the refinement `Spec => FollowsLockProtocol`,
  step by step. `StagesInv` says what a call holds of the lock at each of its
  stages. It assumes `Recycle = FALSE`, because `ExecutionLock` numbers its tokens
  and the recycled ones are only told apart, and that the names of reconcile calls
  are not plan versions, which the mapping uses as the names of submissions.

The broker and the refreshes run beside all this on the same record, and TLC checks
the two refinements without them. `OthersAreAside` proves that they stay aside:
none of their steps touches the row, the calls, the provider's ledger or the
requests, and none changes what a plan looks like from outside, queued or submitted
and how it was settled (`Aside`); withdrawing an authorization, for one, is not seen
there. Both abstract specifications then see such a step as none at all
(`AsideIsUnseen`), and with `LifecycleInv` in place of `CaseInv` the arguments above go
through for the whole life of a case:

- `SettlementStaysDecided` (`SettledIsDecided`) and `LifecycleKeepsPromise`
  (`PayoutsArePromised`): no amendment, decision or refresh opens, closes or settles a
  plan, and none makes a settlement untrue.
- `LifecycleFollowsProtocol` (`FollowsLockProtocol`).
- `CallsAreFenced` is what the last refinement is good for. `ExecutionLock_proofs` is
  instantiated with the mapping of `PlanExecution` (`Kept`), so that its theorems, proved
  once of the reservation alone, hold of the real calls: `OneHolder`, that two reconcile
  calls are never both accepted and an executing plan has the row, and that while a
  row exists a later claim is never overwritten by an earlier one.

**FundingAttempts** (`FundingAssumption`). `ExpectationToppedUpOnce` (`TopUpOnce`)
rests on `SendsInv`: the text of a request is durable before the request is sent, is
never removed, and bars a second reservation. `ExecutionAloneOutdates`
(`OnlyExecutionOutdates`) is inductive with `FreshInv`, a copy with the current revision
is the record, and `LockInv`, the active reservation is of the current expectation.
Together they are `FundingInv`. The answer cannot always be saved, as `AnswerCanBeSaved`
would have it; the theorem says what alone stands in its way.

**CaseIntake** (`IntakeAssumption`: the forms submit a currency they offer and an
amount of at most four decimals). A record is in its row, in the validation job that
read it and in the walkthrough that read it, and each may write it back late.
`RecordsInv` says the same of all three copies (`Vouched`); from it follow
`QuarantineShowsNothing` (`NoInventoryInQuarantine`), `CreditsAreExact`
(`AmountsAreExact`, with lemmas on the conversions of `Amounts`) and `FundingIsVouched`
(`FundableIsVouched`). `IdentityStandsForOne` (`IdentityIsOnePackage`) is inductive
alone. `ReservedStaysFundable` (`ReservedIsFundable`) adds to its property that only
submitted cases are reserved (`ReservedInv`): a reservation is made over a case that may be
funded, and every save of any copy is refused until its release (`ReservedStep`).

**PaymentOrchestrator and PaymentImport** (`PaymentAssumption`, `ImportAssumption`:
the transactions of a file are a sequence, an amount that parses has at most four
decimals, and what a valid transaction is mapped to is a payment). `FileInv` has two
parts. `PaymentInv` says of each preparation and submission how its batch and its
copies stand to the rows and transfers, which only grow. `ImportsInv` says which
transactions the batch was made of. `RecordsFollowTheirTransfers`
(`RecordFollowsItsTransfer`), `BatchesAreCovered` (`AggregateCovered`),
`AtomicImportsAreWhole` (`AtomicImport`), `AnswersAreStored` (`ItemsAreStored`) and
`PreparedAsDeclared` (`WithinDeclaration`) follow. The first says of every copy that is
still to be saved what it says of the rows. `BatchesAreCovered` sums over a set of
positions that the account picks out. `AnswersAreStored` needs that the n-th result
belongs to the n-th valid transaction: the lemmas about `Nth` and `Rank`.

`PreparedAsDeclared` is about a sum over as many transactions as a file has, which takes
an induction. The induction theorems of the library have an operator as parameter;
`SetInduction` says the same of a *set* of numbers, from the well-foundedness of `<`, and
is cited with the set of the positions up to which a claim holds. `TotalIsRunning` uses it
to show that the fold of `Total` has running sums, `TotalsCompare` that a total grows
with its terms. Sums of texts with different scales are compared by `Worth`, the amount
in units of the finest scale. The rest is the parser's: a file whose
control sum or count does not agree at the header has a document
error and no batch, so what is prepared is a part of what was declared.

**SandboxTransfers** (`TransferAssumption`). `ReferenceMovesOnce` (`MovedOnce`) rests
on `RowsInv`: a client reference has one row, and the provider knows ids of stored
rows only; which is inductive with `CallsInv`: a call past its first read works on a
stored row, and what it writes back has the reference of that row.
`TransferHasOneSender` (`OneSender`) rests on `SendersInv`: the map of submissions in
flight has every id that is being submitted. Together they are `TransferInv`.

**OperatorAuth** (`AuthAssumption`). `FactorUsedOnce` (`FactorsAreUsedOnce`) rests on
`FactorInv`: what was granted and the stored rows agree, because a row and its
grant are one step and a restart keeps the rows. `EndedStaysEnded`
(`EndedSessionsStayEnded`) rests on `SessionInv`: an ended session is out of the map,
and only a login, which opens a session of its own, puts one in.
`DenialsStayBounded` (`DenialsAreBounded`) rests on `DenialInv`: a failure pruned from
its list is too old for every window that is still to come, so that a window
holds at most what the list held when its last failure was counted.

**OperationalErrors and ProviderClient** (`ErrorAssumption`, `ClientAssumption`).
`HealthIsTrue` (`HealthFollowsOutcomes`) rests on `ErrorInv`: the open rows are,
fingerprint by fingerprint, the failures of each operation since its last success.
`ClientSendsBounded` (`SendsBounded`) rests on `ClientInv`: what a call has sent and
still has to send is one more than it has retried.

What only TLC checks:

- liveness (`CallsEnd`, `SubmissionEnds`, `CollectableIsSettled`, `JobsEnd`,
  `SavedIsReconciled`) and whatever speaks of ENABLED: out of the prover's reach;
- the broken promises of section 3, which are counterexamples.

## 5. Not modelled

- IBAN check digits and canonical JSON: pure functions of one value. A wrong IBAN is
  an error of its transaction in `Iso20022Message`, a digest a value of its own.
- XML and its limits, the warnings of an import, and the fields of messages and
  manifests that are copied and never compared.
- The bytes of the ZIP reader, its limits and the signature algorithm: what the
  reader refuses is an input of `CaseIntake`, whether a signature verifies one of
  `PackageAnalysis`.
- How passwords and codes are compared, cookies, the CSRF header and the audit log.
- Severities and wording of findings, the hash chain of events, encryption, the
  audit log, pagination.
- Several server processes on one database, except in `ExecutionLock`: the other
  models take a synchronous read and save as one step, as the one process of the
  deployment does.
- Configuration and scripts, which keep no state that another component reads, and
  the routes and the front end beyond what is named above: a route parses,
  authenticates and calls one operation, and the console shows what the server
  answers and has every decision taken again there. The identity it sends with an
  approval is that of the plan and record it shows; plans are not rewritten, so an
  outdated one is refused by the same tests that `CaseLifecycle` has.

## 6. Plan

Done: every part named in section 2, modelled and checked; the proofs of section 4.

Next, in this order. The suite is kept to a dozen runs that end in minutes, so a
new module replaces a run that asks a similar question, or joins one:

1. `evaluateRisk` as an operator over the findings of `CaseRecord`.
2. The lists of the console, whose refresh may show an older answer over a newer
   one, composed with the routes.
