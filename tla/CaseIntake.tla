------------------------------ MODULE CaseIntake ------------------------------
(***************************************************************************)
(* How a package becomes a case: BrokeredFundingCaseService.submit, the    *)
(* validation job it starts, the jobs that a restart resumes, and the      *)
(* broker's changes meanwhile.  Every save writes back the whole record    *)
(* that its operation read, and the server may stop between two writes.    *)
(* While money is on its way for a case, a reservation refuses its saves;  *)
(* a validation whose save is refused takes the server down with it.       *)
(***************************************************************************)
EXTENDS PackageAnalysis

CONSTANTS
  Packages,
  Contents,    \* what the packages may hold: a set of [package -> contents]
  Entries,     \* amounts a broker may type: [text, currency]
  RequestedIds,\* x-submission-id headers
  MaxChanges,  \* bound: changes by the broker
  MaxReserved, \* bound: top-ups and executions
  MaxCrashes   \* bound: restarts of the server

ASSUME IntakeAssumption ==
  /\ \A c \in Contents : DOMAIN c = Packages
  /\ \A e \in Entries :
       /\ e.currency \in DOMAIN CanonicalCurrencyExponent
       /\ e.text \in {Absent, Malformed} \cup Texts
  /\ {MaxChanges, MaxReserved, MaxCrashes} \subseteq Nat

VARIABLES
  contents,   \* what the packages hold
  evidence,   \* EncryptedEvidenceStore: packages and files
  identities, \* case_submission_identities
  rows,       \* brokered_cases; the case of a package is named by the package
  jobs,       \* case_jobs
  work,       \* processSubmission: where it is and the record it read
  walks,      \* prepareSandboxWalkthrough: the records read, by case
  reserved,   \* the cases with a top-up or an execution under way
  changes, reservations, crashes

vars == <<contents, evidence, identities, rows, jobs, work, walks, reserved, changes, reservations, crashes>>

NoCase == [status |-> None, submission |-> None, format |-> None, artifacts |-> FALSE,
           codes |-> {}, credit |-> NoCredit, changes |-> {}, revision |-> 0]
NewCase == [NoCase EXCEPT !.status = "QUARANTINED", !.submission = "QUEUED", !.format = Generic]
NoWork == [pc |-> "IDLE", rec |-> NoCase]

Cases == {p \in Packages : rows[p] # NoCase}

Init ==
  /\ contents \in Contents
  /\ evidence = {} /\ identities = {}
  /\ rows = [p \in Packages |-> NoCase]
  /\ jobs = [p \in Packages |-> None]
  /\ work = [p \in Packages |-> NoWork] /\ walks = [p \in Packages |-> NoCase]
  /\ reserved = {} /\ changes = 0 /\ reservations = 0 /\ crashes = 0

\* Mutant: a save does not ask whether the case is reserved.
MutationAllowed_Always(p) == TRUE
\* assertMutationAllowed, and requireNoActiveExecution before it.
MutationAllowed(p) == p \notin reserved

\* insertOrUpdate.
Saved(rec) == [rec EXCEPT !.revision = @ + 1]

\* processSubmission up to its first await.
Started(rec) == [pc |-> "SCAN", rec |-> [rec EXCEPT !.submission = "VALIDATING"]]

\* Mutant: only the jobs that never started are resumed.
Unfinished_Queued(job) == job = "QUEUED"
Unfinished(job) == job \in {"QUEUED", "RUNNING"}

\* The process ends, and the next one resumes the pending jobs.
Resumed ==
  /\ walks' = [p \in Packages |-> NoCase]
  /\ work' = [p \in Packages |-> IF Unfinished(jobs'[p]) THEN Started(rows'[p]) ELSE NoWork]
  /\ UNCHANGED <<contents, reserved, reservations>>

Restart == crashes < MaxCrashes /\ crashes' = crashes + 1 /\ Resumed

----------------------------------------------------------------------------
(* submit.                                                                 *)

\* Mutant: an identity may be claimed by a second package.
Bindable_Any(id, p) == TRUE
Bindable(id, p) == \A i \in identities : i.id = id => i.package = p

\* A new package under an identity nobody uses.  Its content is new to the
\* evidence store, or put refuses it: a package has one case.
Acceptable(p, id) ==
  /\ \A i \in identities : i.id # id
  /\ p \notin evidence

Receive(p, id) ==
  /\ evidence' = evidence \cup {p}
  /\ identities' = identities \cup {[id |-> id, package |-> p]}
  /\ rows' = [rows EXCEPT ![p] = Saved(Saved(NewCase))]

Submit(p, id) ==
  /\ Acceptable(p, id)
  /\ Receive(p, id)
  /\ jobs' = [jobs EXCEPT ![p] = "RUNNING"]
  /\ work' = [work EXCEPT ![p] = Started(rows'[p])]
  /\ UNCHANGED <<contents, walks, reserved, changes, reservations, crashes>>

\* The server stops in the middle of submit: after the evidence, after the
\* case is created, or after the job is queued.
SubmitTorn(p, id) ==
  /\ Acceptable(p, id)
  /\ \/ evidence' = evidence \cup {p} /\ UNCHANGED <<identities, rows, jobs>>
     \/ Receive(p, id) /\ UNCHANGED jobs
     \/ Receive(p, id) /\ jobs' = [jobs EXCEPT ![p] = "QUEUED"]
  /\ Restart
  /\ UNCHANGED changes

----------------------------------------------------------------------------
(* processSubmission.                                                      *)

\* inspectArchive.  A file of a wrong type is found out by its name, or by its
\* content once the scanner has cleared the package.
Outcomes(p) ==
  CASE contents[p].refusal = None -> {"CLEAN", "INFECTED", "UNAVAILABLE"}
    [] contents[p].refusal = "UNSUPPORTED_ARTIFACT_TYPE" -> {"REFUSED", "INFECTED", "UNAVAILABLE"}
    [] OTHER -> {"REFUSED"}

Scanned(p) ==
  /\ work[p].pc = "SCAN"
  /\ \E outcome \in Outcomes(p) : work' = [work EXCEPT ![p].pc = outcome]
  /\ UNCHANGED <<contents, evidence, identities, rows, jobs, walks, reserved, changes, reservations, crashes>>

\* Mutant: the inventory does not wait for the scanner.
Inventoried_Always(p) == work[p].pc \notin {"IDLE", "SCAN", "REFUSED"}
Inventoried(p) == work[p].pc = "CLEAN"

Files(p) == {contents[p].entries[path] : path \in DOMAIN contents[p].entries}

\* A file whose content is stored already, for this package or another, is a
\* conflict: the envelope of the second put has another nonce.
Storable(p) ==
  Files(p) \cap evidence = {} /\ Cardinality(Files(p)) = Cardinality(DOMAIN contents[p].entries)

Analyzed(p) == AnalyzePackage(contents[p], work[p].pc)

Conflicts(p) == Analyzed(p).identity # None /\ ~Bindable(Analyzed(p).identity, p)

\* An exception on the way: the archive is refused, a file cannot be stored, or
\* the identity the package claims is taken.
Fails(p) ==
  \/ work[p].pc = "REFUSED" /\ UNCHANGED evidence
  \/ /\ Inventoried(p) /\ ~Storable(p)
     /\ \E S \in SUBSET (Files(p) \ evidence) : evidence' = evidence \cup S
  \/ Inventoried(p) /\ Storable(p) /\ Conflicts(p) /\ evidence' = evidence \cup Files(p)

Rejected(p) ==
  [work[p].rec EXCEPT !.status = "QUARANTINED", !.submission = "FAILED",
                      !.artifacts = @ \/ (Inventoried(p) /\ Storable(p)),
                      !.codes = @ \cup {IF work[p].pc = "REFUSED" THEN contents[p].refusal
                                        ELSE "ARCHIVE_STRUCTURE_INVALID"}]

ValidationFails(p) ==
  /\ Fails(p) /\ MutationAllowed(p)
  /\ rows' = [rows EXCEPT ![p] = Saved(Rejected(p))]
  /\ jobs' = [jobs EXCEPT ![p] = "FAILED"]
  /\ work' = [work EXCEPT ![p] = NoWork]
  /\ UNCHANGED <<contents, identities, walks, reserved, changes, reservations, crashes>>

\* The files are stored and the identity is bound; then the record is saved
\* and the job marked.
Stores(p) ==
  /\ work[p].pc \in {"CLEAN", "INFECTED", "UNAVAILABLE"} /\ (Inventoried(p) => Storable(p))
  /\ ~Conflicts(p)
  /\ evidence' = IF Inventoried(p) THEN evidence \cup Files(p) ELSE evidence
  /\ identities' = IF Analyzed(p).identity # None
                   THEN identities \cup {[id |-> Analyzed(p).identity, package |-> p]} ELSE identities

Validated(p) ==
  LET a == Analyzed(p) IN
  [work[p].rec EXCEPT !.artifacts = Inventoried(p), !.format = a.format, !.codes = a.codes,
     !.credit = IF a.credit # NoCredit THEN a.credit ELSE @,
     !.submission = IF work[p].pc = "CLEAN" THEN "VALIDATED" ELSE "QUARANTINED",
     !.status = CASE work[p].pc # "CLEAN" -> "QUARANTINED"
                  [] a.codes # {} -> "INTAKE_HOLD" [] OTHER -> "AWAITING_BROKER"]

Validate(p) ==
  /\ Stores(p) /\ MutationAllowed(p)
  /\ rows' = [rows EXCEPT ![p] = Saved(Validated(p))]
  /\ jobs' = [jobs EXCEPT ![p] = "COMPLETED"]
  /\ work' = [work EXCEPT ![p] = NoWork]
  /\ UNCHANGED <<contents, walks, reserved, changes, reservations, crashes>>

\* The save is refused, and so is the one of the catch clause: nobody handles the
\* rejection, which ends the process.
SaveRefused(p) ==
  /\ ~MutationAllowed(p)
  /\ Stores(p) \/ (Fails(p) /\ UNCHANGED identities)
  /\ UNCHANGED <<rows, jobs, changes, crashes>>
  /\ Resumed

\* The server stops before the record is saved, or before the job is marked.
ValidateTorn(p) ==
  /\ MutationAllowed(p)
  /\ \/ Stores(p) /\ rows' \in {rows, [rows EXCEPT ![p] = Saved(Validated(p))]}
     \/ Fails(p) /\ rows' \in {rows, [rows EXCEPT ![p] = Saved(Rejected(p))]} /\ UNCHANGED identities
  /\ UNCHANGED <<jobs, changes>>
  /\ Restart

Crash ==
  /\ UNCHANGED <<evidence, identities, rows, jobs, changes>>
  /\ Restart

----------------------------------------------------------------------------
(* The broker.                                                             *)

Change == changes < MaxChanges /\ changes' = changes + 1
Allowed(p) == MutationAllowed(p) /\ Change

\* addReview, or decide other than APPROVE.
BrokerChange(p) ==
  /\ p \in Cases /\ Allowed(p)
  /\ \E s \in {rows[p].status, "REJECTED", "INFORMATION_REQUIRED"} : rows' = [rows EXCEPT ![p] =
       Saved([rows[p] EXCEPT !.status = s, !.changes = @ \cup {changes'}])]
  /\ UNCHANGED <<contents, evidence, identities, jobs, work, walks, reserved, reservations, crashes>>

\* A clean package of no known profile: the broker says what credit to expect.
Confirmable(rec) == rec.submission = "VALIDATED" /\ rec.format = Generic

\* What the console's forms make of a typed amount.
Entered(e) ==
  LET exponent == CanonicalCurrencyExponent[e.currency]
  IN [amount |-> ParseDecimalToMinor(e.text, exponent), currency |-> e.currency, exponent |-> exponent]

\* The credits that the server gets from a form: a refused amount is not sent.
Enterable == {Entered(e) : e \in {f \in Entries : Entered(f).amount # 0}}

Expecting(rec, credit) ==
  [rec EXCEPT !.credit = credit, !.codes = @ \cup {"INCOMING_SETTLEMENT_UNOBSERVED"}]

\* Bound: none of the findings, one, or all of them.
Resolutions(codes) == {{}, codes} \cup {{code} : code \in codes}

\* addAmendment, which may resolve findings and confirm a credit.  Funding has
\* not begun.
Amend(p) ==
  /\ p \in Cases /\ rows[p].status # "REJECTED" /\ Allowed(p)
  /\ \E resolved \in Resolutions(rows[p].codes \ NonAmendable), credit \in Enterable \cup {NoCredit} :
       LET rec == [rows[p] EXCEPT !.codes = @ \ resolved, !.status = "AWAITING_BROKER",
                                  !.changes = @ \cup {changes'}]
       IN /\ credit # NoCredit => Confirmable(rows[p]) /\ ValidMoney(credit)
          /\ rows' = [rows EXCEPT ![p] = Saved(IF credit = NoCredit THEN rec ELSE Expecting(rec, credit))]
  /\ UNCHANGED <<contents, evidence, identities, jobs, work, walks, reserved, reservations, crashes>>

\* prepareSandboxWalkthrough reads the case, fetches the accounts, saves.
WalkthroughStart(p) ==
  /\ p \in Cases /\ walks[p] = NoCase /\ MutationAllowed(p)
  /\ rows[p].status # "REJECTED" /\ rows[p].credit = NoCredit /\ Confirmable(rows[p])
  /\ walks' = [walks EXCEPT ![p] = rows[p]]
  /\ UNCHANGED <<contents, evidence, identities, rows, jobs, work, reserved, changes, reservations, crashes>>

WalkthroughEnd(p) ==
  /\ walks[p] # NoCase /\ walks' = [walks EXCEPT ![p] = NoCase]
  /\ \/ UNCHANGED <<rows, changes>>
     \/ /\ Allowed(p)
        /\ \E credit \in Enterable :
             /\ SandboxCaseAmountFinding(credit) = {}
             /\ rows' = [rows EXCEPT ![p] = Saved(Expecting([walks[p] EXCEPT
                  !.status = "AWAITING_BROKER", !.codes = @ \ Diagnostic,
                  !.changes = @ \cup {changes'}], credit))]
  /\ UNCHANGED <<contents, evidence, identities, jobs, work, reserved, reservations, crashes>>

\* refreshFunding lets the provider be called for the case: it expects a credit
\* within the limits, and no other finding blocks it.
Fundable(rec) ==
  /\ rec.credit # NoCredit /\ SandboxCaseAmountFinding(rec.credit) = {}
  /\ rec.codes \subseteq Reconcilable \cup {"INCOMING_SETTLEMENT_UNOBSERVED"}

\* A top-up is reserved, or the execution of a plan, which is paid from a credit
\* observed before.  The reservation outlives the process; the answer is saved
\* as it ends.  What they do to the record in between is in FundingAttempts and
\* CaseLifecycle: its findings are among those that block nothing here.
Reserve(p) ==
  /\ p \in Cases \ reserved /\ Fundable(rows[p])
  /\ reservations < MaxReserved /\ reservations' = reservations + 1
  /\ reserved' = reserved \cup {p}
  /\ rows' = [rows EXCEPT ![p] = Saved(@)]
  /\ UNCHANGED <<contents, evidence, identities, jobs, work, walks, changes, crashes>>

Release(p) ==
  /\ p \in reserved /\ reserved' = reserved \ {p}
  /\ rows' = [rows EXCEPT ![p] = Saved(@)]
  /\ UNCHANGED <<contents, evidence, identities, jobs, work, walks, changes, reservations, crashes>>

Next ==
  \/ \E p \in Packages :
       \/ \E id \in {p} \cup RequestedIds : Submit(p, id) \/ SubmitTorn(p, id)
       \/ Scanned(p) \/ ValidationFails(p) \/ Validate(p) \/ SaveRefused(p) \/ ValidateTorn(p)
       \/ BrokerChange(p) \/ Amend(p) \/ WalkthroughStart(p) \/ WalkthroughEnd(p)
       \/ Reserve(p) \/ Release(p)
  \/ Crash

Spec == Init /\ [][Next]_vars

\* The scanner answers or times out, and the worker goes on.
FairSpec ==
  /\ Spec
  /\ \A p \in Packages : WF_vars(Scanned(p) \/ ValidationFails(p) \/ Validate(p) \/ SaveRefused(p))

----------------------------------------------------------------------------
(* Properties.                                                             *)

WellFormed(rec) ==
  /\ rec.status \in {"QUARANTINED", "INTAKE_HOLD", "AWAITING_BROKER", "REJECTED", "INFORMATION_REQUIRED"}
  /\ rec.submission \in {"QUEUED", "VALIDATING", "VALIDATED", "QUARANTINED", "FAILED"}
  /\ rec.format \in {Legacy, V1, Generic}

\* The tables are well formed, and a job that is not finished is being worked on.
TypeOK ==
  /\ jobs \in [Packages -> {None, "QUEUED", "RUNNING", "COMPLETED", "FAILED"}]
  /\ \A p \in Packages :
       /\ \A rec \in {rows[p], work[p].rec, walks[p]} : rec = NoCase \/ WellFormed(rec)
       /\ jobs[p] \in {"QUEUED", "RUNNING"} <=> work[p].pc # "IDLE"

\* A submission identity, requested or claimed inside a package, stands for
\* one package, through restarts at any point.
IdentityIsOnePackage ==
  \A i, j \in identities : i.id = j.id => i.package = j.package

\* "Never retain or expose an inventory until the whole package scan has
\* cleared" (case-service.ts): a package that was not cleared shows none, not
\* even one from an earlier attempt.
NoInventoryInQuarantine ==
  \A p \in Cases : rows[p].submission = "QUARANTINED" => ~rows[p].artifacts

\* However the broker amends a case, and whatever runs twice or late, money is
\* moved for a package only if it was readable, is no mere declaration of
\* assets, and, where it names its credit itself, is whole and signed by a key
\* that is trusted.
FundableIsVouched ==
  \A p \in Cases : Fundable(rows[p]) =>
    /\ contents[p].refusal = None /\ RecognizeProfile(contents[p]) # Legacy
    /\ RecognizeProfile(contents[p]) = V1 => contents[p].signed /\ V1Sound(contents[p])

\* A case expects to the last digit what its package declares or what its
\* broker typed, in that currency, and the console shows it as it was typed; an
\* amount finer than the currency is refused and never rounded.
AmountsAreExact ==
  \A p \in Cases : rows[p].credit # NoCredit =>
    LET credit == rows[p].credit IN
    \/ RecognizeProfile(contents[p]) = V1 /\ credit = contents[p].manifest.credit
    \/ \E e \in Entries : /\ e.currency = credit.currency
                          /\ EqualExact(MinorUnitsToDecimal(credit.amount, credit.exponent), e.text)

\* While money is on its way for a case, no validation that is resumed, no
\* walkthrough that was begun before and no broker takes back what allowed it.
ReservedIsFundable == \A p \in reserved : Fundable(rows[p])

Ended(p) == jobs[p] \in {"COMPLETED", "FAILED"}

\* Every job ends, whatever restarts come between, unless some case stays
\* reserved: its own save is refused then, or another's takes the server down.
JobsEnd ==
  \A p \in Packages : (jobs[p] \in {"QUEUED", "RUNNING"}) ~> (Ended(p) \/ reserved # {})

----------------------------------------------------------------------------
(* Promises of the documents and comments that the code does not keep.     *)

\* "Wait for scanning to finish": every job ends.
ScansFinish == \A p \in Packages : (jobs[p] \in {"QUEUED", "RUNNING"}) ~> Ended(p)

\* "Wait for scanning to finish": every case leaves the queue.
CasesAreScanned ==
  \A p \in Packages : rows[p].submission = "QUEUED" ~> rows[p].submission # "QUEUED"

\* "Quarantined means the safety check has not cleared the file": a cleared
\* package is not quarantined when its validation ends.
ClearedIsNotQuarantined ==
  [][\A p \in Packages : work[p].pc = "CLEAN" /\ rows'[p] # rows[p] /\ work'[p].pc = "IDLE"
       => rows'[p].status # "QUARANTINED"]_vars

\* Findings that attest to a package's safety "must be superseded by a clean
\* re-upload or a provider reconciliation, never by an operator-entered
\* amendment" (case-service.ts): no change by the broker removes one.
AttestingFindingsStand ==
  [][changes' # changes =>
       \A p \in Packages : rows[p].codes \cap NonAmendable \subseteq rows'[p].codes]_vars

\* "Monotonically advanced by the SQLite store on every durable mutation"
\* (model.ts): a revision names one state of a case.
RevisionAdvances ==
  [][\A p \in Packages : rows'[p] # rows[p] => rows'[p].revision > rows[p].revision]_vars

=============================================================================
