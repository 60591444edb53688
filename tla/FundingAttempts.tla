--------------------------- MODULE FundingAttempts ---------------------------
(***************************************************************************)
(* The Sandbox top-ups of one case (refreshFunding): a request is reserved *)
(* durably before it is sent, its answer is saved against the revision of  *)
(* the reservation, and a later observation takes over a reservation whose *)
(* worker is gone.  Evidence objects are created once: a second put of the *)
(* same text is an error.  The execution of a plan of the case has a       *)
(* reservation of its own (case_execution_locks): it is made without a     *)
(* look at that of the top-up, and each refuses the saves of the other.    *)
(***************************************************************************)
EXTENDS Naturals, FiniteSets

CONSTANTS
  Expectations,     \* funding expectations the case may have, one at a time
  First,            \* the one it starts with
  Direct,           \* the credit paid for it without a top-up
  Workers,          \* calls of refreshFunding that may overlap
  MaxTopUps,        \* bound: expectations a top-up is reserved for
  MaxCrashes,       \* bound: restarts of the server
  TornSaves         \* it may stop between storing evidence and saving the case

ASSUME FundingAssumption ==
  /\ First \in Expectations
  /\ Direct \notin Expectations
  /\ MaxTopUps \in Nat /\ MaxCrashes \in Nat
  /\ TornSaves \in BOOLEAN

VARIABLES
  record,    \* the case: its expectation, attempts, observations and plan
  lock,      \* case_funding_attempt_locks, by expectation
  exec,      \* the row of the case in case_execution_locks
  evidence,  \* evidence objects stored
  worker,    \* the calls
  topup,     \* the provider's side: the top-up of each expectation, and Direct
  sends,     \* requests sent for each expectation
  crashes

vars == <<record, lock, exec, evidence, worker, topup, sends, crashes>>

Open == {"SUBMITTING", "PENDING", "AMBIGUOUS"}
Listed == {"PENDING", "COMPLETED", "DECLINED", "REVERTED"}
None == "NONE"

Credits == Expectations \cup {Direct}
States == {None, "SUBMITTING", "AMBIGUOUS", "FAILED"} \cup Listed
Fundings == {"AWAITING_FUNDS", "UNMATCHED", "MATCHED", "POSSIBLE_MATCH", "REVERSED"}

\* plan: None until a plan is authorized and once it is settled.
Record ==
  [exp: Expectations,
   funding: Fundings,
   attempts: [Expectations -> States],
   seen: [Credits -> {None} \cup Listed],
   plan: {None, "AUTHORIZED", "QUEUED", "SUBMITTED"}]

Text(kind, e, what) == <<kind, e, what>>
NewCase ==
  [exp |-> First, funding |-> "AWAITING_FUNDS",
   attempts |-> [e \in Expectations |-> None], seen |-> [c \in Credits |-> None],
   plan |-> None]

\* A call and what matters of the copy of the case that it read: a copy that is
\* current is the case, and one that is not will not be saved.
Call(at, simulate, rec) ==
  [pc |-> at, simulate |-> simulate, exp |-> rec.exp, attempt |-> rec.attempts[rec.exp],
   fresh |-> TRUE]
Idle == [Call("IDLE", FALSE, NewCase) EXCEPT !.fresh = FALSE]

Init ==
  /\ record = NewCase
  /\ lock = [e \in Expectations |-> None]
  /\ exec = None
  /\ evidence = {}
  /\ worker = [w \in Workers |-> Idle]
  /\ topup = [c \in Credits |-> None]
  /\ sends = [e \in Expectations |-> 0]
  /\ crashes = 0

----------------------------------------------------------------------------
(* The store.                                                              *)

HasActiveLock == \E e \in Expectations : lock[e] = "ACTIVE"
HasExecutionMutationLock == exec \in {"ACTIVE", "RECONCILING"}

\* fresh stands for "the revision read is still the current one": every save
\* makes the copies of the other calls stale.
Outdated(calls) == [w \in Workers |-> [calls[w] EXCEPT !.fresh = FALSE]]

\* A call that ends, by returning or by throwing.
Ends(w) == worker' = [worker EXCEPT ![w] = Idle]

\* recoverTerminalReservations, in the constructor of the store.
Recovered(rec, locks) ==
  [e \in Expectations |->
     IF locks[e] = "ACTIVE" /\ rec.attempts[e] \notin Open \cup {None} THEN "RECORDED" ELSE locks[e]]

\* The server stops after texts, rec and locks became durable, and starts again.
Dies(texts, rec, locks) ==
  /\ crashes < MaxCrashes /\ crashes' = crashes + 1
  /\ evidence' = evidence \cup texts
  /\ record' = rec
  /\ lock' = Recovered(rec, locks)
  /\ exec' = IF rec.plan = None THEN None ELSE exec
  /\ worker' = [w \in Workers |-> Idle]

DiesTorn(texts) == TornSaves /\ Dies(texts, record, lock)

----------------------------------------------------------------------------
(* Reserving and sending a top-up.                                         *)

\* Mutant: an attempt that ended without a credit may be made again.
MayTopUp_Again(e) == record.attempts[e] \in {None, "FAILED", "DECLINED"}

MayTopUp(e) == record.attempts[e] = None /\ lock[e] = None /\ Text("request", e, None) \notin evidence

Reserve(w) ==
  LET e == record.exp
      rec == [record EXCEPT !.attempts[e] = "SUBMITTING"]
      texts == {Text("request", e, None)}
  IN /\ worker[w].pc = "IDLE" /\ exec # "ACTIVE" /\ MayTopUp(e)
     /\ Cardinality({f \in Expectations \ {e} : lock[f] # None}) < MaxTopUps
     /\ \/ /\ record' = rec
           /\ lock' = [lock EXCEPT ![e] = "ACTIVE"]
           /\ evidence' = evidence \cup texts
           /\ worker' = [Outdated(worker) EXCEPT ![w] = Call("SEND", TRUE, rec)]
           /\ UNCHANGED <<exec, crashes>>
        \/ DiesTorn(texts)
     /\ UNCHANGED <<topup, sends>>

Send(w) ==
  LET e == worker[w].exp IN
  /\ worker[w].pc = "SEND"
  /\ worker' = [worker EXCEPT ![w].pc = "SENT"]
  /\ topup' = [topup EXCEPT ![e] = "SENT"]
  /\ sends' = [sends EXCEPT ![e] = @ + 1]
  /\ UNCHANGED <<record, lock, exec, evidence, crashes>>

\* saveIfCurrent with allowFundingMutation, then markFundingAttemptRecorded: it
\* throws on an outdated copy and under the reservation of an execution.  The
\* evidence of the answer quotes the request, which is made once: it is new.
SaveAnswer(w, rec, goesOn) ==
  LET e == rec.exp
      marked == [lock EXCEPT ![e] = IF @ = "ACTIVE" THEN "RECORDED" ELSE @]
      saves == worker[w].fresh /\ ~HasExecutionMutationLock
  IN \/ /\ IF saves
           THEN /\ record' = rec /\ lock' = marked
                /\ worker' = [Outdated(worker) EXCEPT ![w] =
                     IF goesOn THEN Call("LIST", TRUE, rec) ELSE Idle]
           ELSE UNCHANGED <<record, lock>> /\ Ends(w)
        /\ UNCHANGED <<exec, evidence, crashes>>
     \/ saves /\ Dies({}, rec, lock)

Answered(w) ==
  LET e == worker[w].exp IN
  /\ worker[w].pc = "SENT" /\ topup[e] \in Listed
  /\ SaveAnswer(w, [record EXCEPT
                      !.attempts[e] = topup[e],
                      !.funding = IF topup[e] = "COMPLETED" THEN @ ELSE "UNMATCHED"],
                topup[e] = "COMPLETED")
  /\ UNCHANGED <<topup, sends>>

\* The provider refuses the request, or no answer comes back in time: the words
\* of the error decide, not whether the request arrived.
AnswerLost(w, s) ==
  LET e == worker[w].exp IN
  /\ worker[w].pc = "SENT"
  /\ s \in {"FAILED", "AMBIGUOUS"}
  /\ SaveAnswer(w, [record EXCEPT !.attempts[e] = s, !.funding = "UNMATCHED"], FALSE)
  /\ UNCHANGED <<topup, sends>>

----------------------------------------------------------------------------
(* Observing the provider's transactions.                                  *)

StartRefresh(w) ==
  /\ worker[w].pc = "IDLE" /\ exec # "ACTIVE"
  /\ worker' = [worker EXCEPT ![w] = Call("LIST", FALSE, record)]
  /\ UNCHANGED <<record, lock, exec, evidence, topup, sends, crashes>>

\* Direct is paid for the first expectation, and irrelevant to the others.
Relevant(e) == Expectations \cup (IF e = First THEN {Direct} ELSE {})
Transactions(e) == {c \in Relevant(e) : topup[c] \in Listed}

\* The credits seen that are exact for e.
Candidates(seen, e) == {c \in {e} \cup (IF e = First THEN {Direct} ELSE {}) : seen[c] = "COMPLETED"}

\* Every top-up of the case carries the same reference: the attempt takes the
\* state of whichever comes last in the list.
Observed(rec, listed, last) ==
  LET e == rec.exp
      seen == [c \in Credits |-> IF c \in listed THEN topup[c] ELSE rec.seen[c]]
      found == Cardinality(Candidates(seen, e))
      lost == rec.funding = "MATCHED" /\ found # 1
  IN [rec EXCEPT
       !.seen = seen,
       !.attempts[e] = IF @ # None /\ listed # {} THEN topup[last] ELSE @,
       !.funding = CASE lost -> "REVERSED"
                     [] found = 1 -> "MATCHED"
                     [] ~lost /\ found > 1 -> "POSSIBLE_MATCH"
                     [] OTHER -> "UNMATCHED",
       !.plan = IF lost /\ @ = "AUTHORIZED" THEN None ELSE @]

LockAfter(e) == [lock EXCEPT ![e] = IF @ = "ACTIVE" THEN "RECORDED" ELSE @]

\* Evidence first, then saveObservedFundingRecovery while a reservation is
\* active, else saveIfCurrent; a simulating call may not save over one, and
\* none over the reservation of an execution.
SaveObservation(w, rec, texts) ==
  LET conflict == texts \cap evidence # {}
      allowed == HasActiveLock => ~worker[w].simulate /\ lock[rec.exp] = "ACTIVE"
      saves == ~conflict /\ worker[w].fresh /\ allowed /\ ~HasExecutionMutationLock
  IN \/ /\ \E stored \in IF conflict THEN SUBSET texts ELSE {texts} : evidence' = evidence \cup stored
        /\ IF saves
           THEN record' = rec /\ lock' = LockAfter(rec.exp)
                /\ worker' = [Outdated(worker) EXCEPT ![w] = Idle]
           ELSE UNCHANGED <<record, lock>> /\ Ends(w)
        /\ UNCHANGED <<exec, crashes>>
     \/ ~conflict /\ DiesTorn(texts)

Interrupted(w) == ~worker[w].simulate /\ HasActiveLock

\* No transaction of the reserved request is listed: AMBIGUOUS, with a record.
List(w, last) ==
  LET call == worker[w]
      listed == Transactions(call.exp)
      rec == Observed(record, listed, last)
      lost == /\ Interrupted(w)
              /\ call.attempt = None \/ (call.attempt = "SUBMITTING" /\ listed = {})
      texts == {Text("observation", c, topup[c]) : c \in listed}
                 \cup IF lost THEN {Text("recovery", call.exp, call.attempt)} ELSE {}
  IN /\ call.pc = "LIST"
     /\ last \in listed \/ listed = {}
     /\ SaveObservation(w, IF lost /\ call.attempt # None
                           THEN [rec EXCEPT !.attempts[call.exp] = "AMBIGUOUS"] ELSE rec, texts)
     /\ UNCHANGED <<topup, sends>>

\* Every failure is the same error text.
ListFails(w) ==
  LET e == worker[w].exp IN
  /\ worker[w].pc = "LIST"
  /\ SaveObservation(w,
       [record EXCEPT !.funding = "UNMATCHED",
                      !.attempts[e] = IF Interrupted(w) /\ @ # None THEN "AMBIGUOUS" ELSE @],
       {Text("observation", None, "error")})
  /\ UNCHANGED <<topup, sends>>

----------------------------------------------------------------------------
(* Other operations on the case.                                           *)

\* Mutant: an ordinary save ignores the funding reservation.
MutationAllowed_Always == TRUE
MutationAllowed == ~HasActiveLock

Saved(rec) ==
  /\ record' = rec
  /\ worker' = Outdated(worker)
  /\ UNCHANGED <<lock, evidence, topup, sends, crashes>>

\* requireNoActiveExecution and the store's own check.
BrokerSave(rec) ==
  /\ MutationAllowed /\ ~HasExecutionMutationLock
  /\ record.plan \notin {"QUEUED", "SUBMITTED"}
  /\ Saved(rec)
  /\ UNCHANGED exec

\* Any operation that leaves the funding alone, such as addReview; most withdraw
\* the authorization.
Review == \E p \in {None, record.plan} : BrokerSave([record EXCEPT !.plan = p])

\* createPlan, then authorizePlan.
Authorize ==
  /\ record.funding = "MATCHED" /\ record.plan = None
  /\ BrokerSave([record EXCEPT !.plan = "AUTHORIZED"])

\* addAmendment with another funding expectation.
Replace(e) ==
  /\ e # record.exp
  /\ record.funding # "MATCHED"
  /\ \A f \in Expectations : record.attempts[f] \notin Open \cup {"COMPLETED"}
  /\ record.attempts[e] = None
  /\ BrokerSave([record EXCEPT !.exp = e, !.funding = "AWAITING_FUNDS", !.plan = None])

----------------------------------------------------------------------------
(* The execution of a plan: whether a top-up is under way is not asked.    *)

\* executePlan up to reserveExecution.
ExecutePlan ==
  /\ record.plan = "AUTHORIZED" /\ exec = None
  /\ exec' = "ACTIVE"
  /\ Saved([record EXCEPT !.plan = "QUEUED"])

\* A save of executeSequentially: payouts are on their way, or all have failed.
ExecutionSaves(p) ==
  /\ exec = "ACTIVE" /\ MutationAllowed
  /\ Saved([record EXCEPT !.plan = p])
  /\ UNCHANGED exec

\* The finally clause of executePlan: after its saves, or when the first one throws.
ExecutionEnds ==
  /\ exec = "ACTIVE"
  /\ record.plan # "QUEUED" \/ ~MutationAllowed
  /\ exec' = IF record.plan = None THEN None ELSE "READY"
  /\ UNCHANGED <<record, lock, evidence, worker, topup, sends, crashes>>

\* reconcile claims the row; a QUEUED plan only when its worker is stale.
ReconcileClaims ==
  /\ record.plan # None
  /\ \/ exec = "READY" /\ record.plan # "QUEUED"
     \/ exec = "ACTIVE"
  /\ exec' = "RECONCILING"
  /\ UNCHANGED <<record, lock, evidence, worker, topup, sends, crashes>>

ReconcileSaves(p) ==
  /\ exec = "RECONCILING" /\ MutationAllowed
  /\ exec' = IF p = None THEN None ELSE "READY"
  /\ Saved([record EXCEPT !.plan = p])

ReconcileFails ==
  /\ exec = "RECONCILING" /\ exec' = "READY"
  /\ UNCHANGED <<record, lock, evidence, worker, topup, sends, crashes>>

ExecutionSteps ==
  \/ \E p \in {None, "SUBMITTED"} : ExecutionSaves(p) \/ ReconcileSaves(p)
  \/ ExecutionEnds \/ ReconcileClaims \/ ReconcileFails

----------------------------------------------------------------------------
(* The rest of the system.                                                 *)

Crash == /\ Dies({}, record, lock)
         /\ UNCHANGED <<topup, sends>>

\* The provider (external): a request arrives, is refused or gets lost; a
\* top-up is decided and may be reversed; the direct credit comes by itself.
Arrives(e) ==
  /\ topup[e] = "SENT"
  /\ \E s \in {"PENDING", "COMPLETED", "DECLINED", "REFUSED"} : topup' = [topup EXCEPT ![e] = s]
  /\ UNCHANGED <<record, lock, exec, evidence, worker, sends, crashes>>

Moves(e) ==
  /\ \/ topup[e] = "PENDING" /\ \E s \in {"COMPLETED", "DECLINED"} : topup' = [topup EXCEPT ![e] = s]
     \/ topup[e] = "COMPLETED" /\ topup' = [topup EXCEPT ![e] = "REVERTED"]
  /\ UNCHANGED <<record, lock, exec, evidence, worker, sends, crashes>>

PaidDirectly ==
  /\ topup[Direct] = None
  /\ topup' = [topup EXCEPT ![Direct] = "COMPLETED"]
  /\ UNCHANGED <<record, lock, exec, evidence, worker, sends, crashes>>

CallEnds(w) ==
  \/ Send(w) \/ Answered(w)
  \/ \E s \in {"FAILED", "AMBIGUOUS"} : AnswerLost(w, s)
  \/ \E last \in Credits : List(w, last)
  \/ ListFails(w)

Next ==
  \/ \E w \in Workers : Reserve(w) \/ StartRefresh(w) \/ CallEnds(w)
  \/ \E e \in Expectations : Replace(e) \/ Arrives(e) \/ Moves(e)
  \/ PaidDirectly \/ Review \/ Authorize \/ Crash
  \/ ExecutePlan \/ ExecutionSteps

Spec == Init /\ [][Next]_vars

\* A call that was made ends, the operator presses Refresh again, and what an
\* execution left open is reconciled.
FairSpec ==
  /\ Spec
  /\ \A w \in Workers : WF_vars(CallEnds(w)) /\ WF_vars(StartRefresh(w))
  /\ \A e \in Expectations : WF_vars(Arrives(e))
  /\ WF_vars(ExecutionSteps)

----------------------------------------------------------------------------
(* Properties.                                                             *)

\* The case, its reservations and the calls are well formed.
TypeOK ==
  /\ record \in Record
  /\ lock \in [Expectations -> {None, "ACTIVE", "RECORDED"}]
  /\ exec \in {None, "ACTIVE", "READY", "RECONCILING"}
  /\ worker \in [Workers -> [pc: {"IDLE", "SEND", "SENT", "LIST"}, simulate: BOOLEAN,
                             exp: Expectations, attempt: States, fresh: BOOLEAN]]
  /\ topup \in [Credits -> {None, "SENT", "REFUSED"} \cup Listed]

\* However calls overlap and wherever the server stops, no expectation is
\* topped up twice.
TopUpOnce == \A e \in Expectations : sends[e] <= 1

\* While its reservation is active, the copy of the sending call is outdated by
\* nothing but an execution reserved meanwhile, and that one has not saved since.
OnlyExecutionOutdates ==
  \A w \in Workers :
    worker[w].pc \in {"SEND", "SENT"} /\ lock[worker[w].exp] = "ACTIVE" /\ ~worker[w].fresh
      => record.plan = "QUEUED"

----------------------------------------------------------------------------
(* Promises of the documents and comments that the code does not keep.     *)

\* While its reservation is active the sending call can save its answer.
AnswerCanBeSaved ==
  \A w \in Workers :
    worker[w].pc \in {"SEND", "SENT"} /\ lock[worker[w].exp] = "ACTIVE"
      => worker[w].fresh /\ ~HasExecutionMutationLock

\* A queued plan is submitted, or reconciled once its worker has finished.
QueueEnds == record.plan = "QUEUED" ~> record.plan # "QUEUED"

\* No reservation keeps the case locked for ever.
ReservationEnds == HasActiveLock ~> ~HasActiveLock

\* A replacement is topped up only when every earlier top-up is decided.
OneTopUpUnderWay == Cardinality({e \in Expectations : topup[e] \in {"SENT", "PENDING"}}) <= 1

\* An observation whose evidence was stored is in the case, once no call is
\* under way.
ObservationsAreKept ==
  \A e \in Expectations :
    Text("observation", e, "COMPLETED") \in evidence /\ (\A w \in Workers : worker[w] = Idle)
      => record.seen[e] # None

=============================================================================
