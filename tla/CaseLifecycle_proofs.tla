------------------------ MODULE CaseLifecycle_proofs ------------------------
(***************************************************************************)
(* Proofs about PlanExecution and CaseLifecycle for any plans, payouts,    *)
(* credits, cases, concurrent reconcile calls, outages and read errors.    *)
(*                                                                         *)
(* CaseInv is inductive under both specifications.  It says of the durable *)
(* record that it is consistent with itself (RecordInv), of the provider   *)
(* that it knows nothing the record does not (ProviderInv, WriteAhead) and *)
(* accepted nothing twice, of the lock row that it guards the plan that is *)
(* executing (RowInv), of the submission that holds it where it stands     *)
(* (ExecInv), and of every copy of the record that it is either an older   *)
(* revision, which no save accepts, or what its call made of the record as *)
(* it is (CallInv, ReadsInv).  A revision no copy holds is always found    *)
(* (RevisionIsNew), so a copy that is outdated stays so.                   *)
(*                                                                         *)
(* With it go the two refinements: what the calls do together is what      *)
(* SequentialPayouts promises, which needs that a settlement agrees with   *)
(* the provider's ledger, or that the record has given the payout up       *)
(* (SettledAsPaid), and each of their steps is one                         *)
(* of ExecutionLock, which needs what a call holds of the lock at each of  *)
(* its stages (StagesInv).                                                 *)
(*                                                                         *)
(* The last sections are about the whole life of a case.  What the broker  *)
(* and the refreshes do is Aside: neither abstract specification sees it,  *)
(* so both refinements, and what rests on them, hold with those steps too. *)
(* Kept is the proof module of ExecutionLock under the same mapping; its   *)
(* theorems then speak of the calls.                                       *)
(***************************************************************************)
EXTENDS CaseLifecycle, FiniteSetTheorems, SequenceTheorems, TLAPS

Submitted == {"EXECUTING"} \cup Final

Row == [ver: Versions \cup {0}, state: {"NONE", "ACTIVE", "READY_TO_RECONCILE", "RECONCILING"},
        token: Nat, fresh: BOOLEAN]
CallRecord == [pc: {"CLAIM", "LOOP", "ASK", "RELEASE"}, v: Versions, token: Nat, rev: Nat,
               rec: Record, todo: SUBSET Nat]

----------------------------------------------------------------------------
(* The inductive invariant.                                                *)

\* The payouts of a plan are numbered in the order they were attempted, and
\* only one of them may be other than completed.
InTurn(rec, v) ==
  /\ \A a, b \in AttemptsOf(rec, v) : rec.attempts[a].i = rec.attempts[b].i => a = b
  /\ \A a \in AttemptsOf(rec, v) : rec.attempts[a].i <= Cardinality(AttemptsOf(rec, v))
  /\ Cardinality(AttemptsOf(rec, v)) <= Payouts
  /\ \A a, b \in AttemptsOf(rec, v) \ CompletedOf(rec, v) : a = b

\* A settled plan has no open attempt, and is RECONCILED if all completed.
SettledAs(rec, v) ==
  rec.plans[v].status \in Final =>
    /\ AttemptsOf(rec, v) \cap OpenAttempts(rec) = {}
    /\ rec.plans[v].status = "RECONCILED" <=> AllCompleted(rec, v)

RecordInv(rec) ==
  /\ rec \in Record
  /\ \A a \in DOMAIN rec.attempts :
       /\ HasPlan(rec, rec.attempts[a].v)
       /\ rec.plans[rec.attempts[a].v].status \in Submitted
  /\ \A v \in Versions : InTurn(rec, v)
  /\ \A v \in DOMAIN rec.plans : SettledAs(rec, v)

\* A transaction id names a transaction of its payout, a completed one if the
\* attempt is COMPLETED and a failed one if it is FAILED.
Traced(rec) ==
  \A a \in DOMAIN rec.attempts : LET t == rec.attempts[a] IN
    /\ t.tx # 0 => t.tx \in DOMAIN ledger /\ ledger[t.tx].v = t.v /\ ledger[t.tx].i = t.i
    /\ t.state = "COMPLETED" => t.tx # 0 /\ ledger[t.tx].state = "COMPLETED"
    /\ t.state = "FAILED" /\ t.tx # 0 => ledger[t.tx].state = "FAILED"

IsOf(k, q) == ledger[k].v = q[1] /\ ledger[k].i = q[2]
AskedFor(q) == q \in sent \/ \E k \in DOMAIN ledger : IsOf(k, q)

\* Nothing is accepted twice.
ProviderInv ==
  /\ sent \subseteq Request /\ ledger \in Seq(Payout)
  /\ \A k, l \in DOMAIN ledger : ledger[k].v = ledger[l].v /\ ledger[k].i = ledger[l].i => k = l
  /\ \A q \in sent, k \in DOMAIN ledger : ~IsOf(k, q)

\* The row belongs to a submitted plan, and every executing plan has it.
RowInv ==
  /\ row \in Row
  /\ row # NoRow => /\ row.ver \in Versions /\ HasPlan(record, row.ver)
                    /\ record.plans[row.ver].status \in Submitted
  /\ row.state = "ACTIVE" => row # NoRow /\ record.plans[row.ver].status = "EXECUTING"
  /\ \A v \in DOMAIN record.plans : record.plans[v].status = "EXECUTING" => row # NoRow /\ row.ver = v

\* Where the submission stands that holds the row.
Attempting(v) ==
  /\ LastAttempt \in AttemptsOf(record, v)
  /\ record.attempts[LastAttempt].state = "SUBMITTING" /\ record.attempts[LastAttempt].tx = 0
  /\ record.attempts[LastAttempt].i = Cardinality(AttemptsOf(record, v))

ExecInv(v) == OwnsActive(v) =>
  /\ exec[v] = "LOOP" => AttemptsOf(record, v) = CompletedOf(record, v)
  /\ exec[v] \in {"BEAT", "PREFLIGHT", "WAIT"} => Attempting(v)
  /\ exec[v] \in {"BEAT", "PREFLIGHT"} => ~AskedFor(Req(v))

\* What a call may have made of the record under its claim.
Observes(rec, todo) ==
  /\ rec.plans = record.plans /\ record.findings \subseteq rec.findings
  /\ DOMAIN rec.attempts = DOMAIN record.attempts
  /\ \A a \in DOMAIN record.attempts :
       /\ rec.attempts[a].v = record.attempts[a].v /\ rec.attempts[a].i = record.attempts[a].i
       /\ a \notin OpenAttempts(record) => rec.attempts[a] = record.attempts[a]
       /\ rec.attempts[a].state = "FAILED" /\ rec.attempts[a].tx = 0 => a \notin OpenAttempts(record)
  /\ todo \subseteq OpenAttempts(record)

CallInv(r) == LET c == rc[r] IN c.pc # "IDLE" =>
  /\ c.todo \subseteq DOMAIN c.rec.attempts /\ HasPlan(c.rec, c.v)
  /\ c.pc = "CLAIM" => c.rec.rev = c.rev
  /\ c.pc = "ASK" => c.todo # {}
  /\ Traced(c.rec)
  /\ c.pc = "RELEASE" /\ c.rec.status \in Final =>
       HasPlan(record, c.v) /\ record.plans[c.v].status \in Final
  /\ Current(c) =>
       /\ c.pc # "RELEASE"
       /\ c.pc = "CLAIM" => c.rec = record /\ record.plans[c.v].status = "EXECUTING"
       /\ c.pc # "CLAIM" => Claimed(c) /\ row.state # "ACTIVE" /\ Observes(c.rec, c.todo)

ReadsInv ==
  /\ IsFiniteSet(reads)
  /\ \A rec \in reads : rec \in Record /\ (rec.rev = record.rev => rec = record)

RevInv == ~Recycle => \A rev \in RevsHeld : rev <= record.rev

CaseInv ==
  /\ RecordInv(record) /\ Traced(record)
  /\ ProviderInv /\ WriteAhead
  /\ exec \in [Versions -> {"NONE", "DONE"} \cup InCall]
  /\ rc \in [Reconcilers -> {NoCall} \cup CallRecord]
  /\ RowInv
  /\ \A v \in Versions : ExecInv(v)
  /\ \A r \in Reconcilers : CallInv(r)
  /\ ReadsInv /\ RevInv

\* What a step may not undo.
Stands ==
  /\ \A v \in Versions : HasPlan(record, v) /\ record.plans[v].status \in Final =>
       HasPlan(record', v) /\ record'.plans[v].status = record.plans[v].status
  /\ \A a \in DOMAIN record.attempts :
       record.attempts[a].state = "COMPLETED" =>
         a \in DOMAIN record'.attempts /\ record'.attempts[a] = record.attempts[a]

Upheld == CaseInv' /\ Stands

\* Findings that executing and reconciling raise.
Raised == {"RECONCILABLE", "UNRESOLVABLE"}

\* Executing and reconciling lift no finding and authorize nothing.
Cautious ==
  /\ record.findings \subseteq record'.findings
  /\ \A v \in Versions : Executable(record', v) =>
       /\ Executable(record, v)
       /\ record'.caseStatus = record.caseStatus /\ record'.findings \subseteq record.findings \cup Raised

----------------------------------------------------------------------------
(* Numbers and sequences.                                                  *)

\* A function on 1..n into S is a sequence over S.
LEMMA FunctionIsSeq ==
  ASSUME NEW S, NEW n \in Nat, NEW f, f = [i \in 1..n |-> f[i]], \A i \in 1..n : f[i] \in S
  PROVE  f \in Seq(S)
  <1>1. f \in [1..n -> S]
    OBVIOUS
  <1>2. QED
    BY <1>1, SeqDef

\* Min returns the least member: of the initial segments of Nat that end in S,
\* one contains no other.
LEMMA MinIsLeast ==
  ASSUME NEW S \in SUBSET Nat, S # {}
  PROVE  Min(S) \in S /\ \A n \in S : Min(S) <= n
  <1> DEFINE upTo == {0..n : n \in S}
             order == StrictSubsetOrdering(Nat)
  <1>1. upTo \subseteq FiniteSubsetsOf(Nat)
    <2>1. ASSUME NEW n \in S PROVE 0..n \in FiniteSubsetsOf(Nat)
      BY FS_Interval, 0..n \subseteq Nat, n \in Int, 0 \in Int DEF FiniteSubsetsOf
    <2>2. QED
      BY <2>1
  <1>2. upTo # {}
    OBVIOUS
  <1>3. PICK s \in upTo : \A t \in upTo : <<t, s>> \notin order
    BY <1>1, <1>2, WFMin, FS_StrictSubsetOrderingWellFounded
  <1>4. PICK m \in S : s = 0..m
    OBVIOUS
  <1>5. ASSUME NEW n \in S, n < m PROVE FALSE
    <2>1. 0..n \in upTo /\ 0..n \subseteq 0..m /\ 0..n # 0..m
      BY <1>5
    <2>2. <<0..n, s>> \in order
      BY <1>4, <2>1, 0..n \subseteq Nat, 0..m \subseteq Nat DEF StrictSubsetOrdering
    <2>3. QED
      BY <1>3, <2>1, <2>2
  <1>6. \A n \in S : m <= n
    BY <1>5
  <1>7. QED
    BY <1>6 DEF Min

----------------------------------------------------------------------------
(* Revisions and tokens.                                                   *)

\* One of the first numbers is not held, whatever finite set is.
LEMMA UnusedIsNew ==
  ASSUME NEW held, IsFiniteSet(held)
  PROVE  Unused(held) \in Nat \ {0} /\ Unused(held) \notin held
  <1> DEFINE n == Cardinality(held)
             free == (1..n + 1) \ held
  <1>1. n \in Nat
    BY FS_CardinalityType
  <1>2. IsFiniteSet(1..n + 1) /\ Cardinality(1..n + 1) = n + 1
    BY <1>1, FS_Interval
  <1>3. ~(1..n + 1 \subseteq held)
    BY <1>1, <1>2, FS_Subset
  <1>4. free # {} /\ free \in SUBSET Nat
    BY <1>1, <1>3
  <1>5. Min(free) \in free
    BY <1>4, MinIsLeast
  <1>6. QED
    BY <1>1, <1>5 DEF Unused

\* As many revisions and tokens are held as there are calls and copies.
LEMMA HeldIsFinite ==
  ASSUME CaseInv
  PROVE  IsFiniteSet(RevsHeld) /\ IsFiniteSet(TokensHeld)
  <1> DEFINE R == {q \in Reconcilers : rc[q].pc # "IDLE"}
             revs == {c.rev : c \in Calls}
             tokens == {c.token : c \in Calls}
             copies == {rec.rev : rec \in reads}
  <1>1. IsFiniteSet(R)
    BY ExecutionAssumption, FS_Subset, R \in SUBSET Reconcilers DEF ExecutionAssumption
  <1>2. IsFiniteSet(revs)
    <2> DEFINE f == [r \in R |-> rc[r].rev]
    <2>1. f \in Surjection(R, revs)
      BY DEF Surjection, Calls
    <2>2. QED
      BY <1>1, <2>1, FS_Surjection
  <1>3. IsFiniteSet(tokens)
    <2> DEFINE f == [r \in R |-> rc[r].token]
    <2>1. f \in Surjection(R, tokens)
      BY DEF Surjection, Calls
    <2>2. QED
      BY <1>1, <2>1, FS_Surjection
  <1>4. IsFiniteSet(copies)
    <2> DEFINE f == [rec \in reads |-> rec.rev]
    <2>1. f \in Surjection(reads, copies)
      BY DEF Surjection
    <2>2. IsFiniteSet(reads)
      BY DEF CaseInv, ReadsInv
    <2>3. QED
      BY <2>1, <2>2, FS_Surjection
  <1> HIDE DEF revs, tokens, copies
  <1>5. IsFiniteSet({record.rev} \cup revs) /\ IsFiniteSet({row.token} \cup tokens)
    BY <1>2, <1>3, FS_Singleton, FS_Union
  <1>6. IsFiniteSet(({record.rev} \cup revs) \cup copies)
    BY <1>4, <1>5, FS_Union
  <1>7. QED
    BY <1>5, <1>6 DEF RevsHeld, TokensHeld, revs, tokens, copies

NewRev == IF Recycle THEN Unused(RevsHeld) ELSE record.rev + 1

\* No copy of the record holds the revision that the next save gives it.
LEMMA RevisionIsNew ==
  ASSUME CaseInv
  PROVE  NewRev \in Nat /\ NewRev \notin RevsHeld
  <1>1. record.rev \in Nat
    BY DEF CaseInv, RecordInv, Record
  <1>2. CASE Recycle
    BY <1>2, HeldIsFinite, UnusedIsNew DEF NewRev
  <1>3. CASE ~Recycle
    <2>1. NewRev = record.rev + 1
      BY <1>3 DEF NewRev
    <2>2. \A rev \in RevsHeld : rev <= record.rev
      BY <1>3 DEF CaseInv, RevInv
    <2>3. ~(record.rev + 1 <= record.rev)
      BY <1>1
    <2>4. QED
      BY <1>1, <2>1, <2>2, <2>3
  <1>4. QED
    BY <1>2, <1>3

\* A claim never gets the token 0, which the row has while nobody claimed it.
LEMMA TokenIsNotZero ==
  ASSUME CaseInv, NEW t \in NewTokens
  PROVE  t \in Nat \ {0}
  <1>1. CASE Recycle
    BY <1>1, HeldIsFinite, UnusedIsNew DEF NewTokens
  <1>2. CASE ~Recycle
    BY <1>2 , ExecutionAssumption DEF NewTokens, ExecutionAssumption
  <1>3. QED
    BY <1>1, <1>2

\* Every call and every reader holds its revision.
LEMMA HeldRevisions ==
  /\ record.rev \in RevsHeld
  /\ \A r \in Reconcilers : rc[r].pc # "IDLE" => rc[r].rev \in RevsHeld
  /\ \A rec \in reads : rec.rev \in RevsHeld
  BY DEF RevsHeld, Calls

\* A call of reconcile that has begun has the fields of one.
LEMMA CallsAreTyped ==
  ASSUME CaseInv, NEW r \in Reconcilers, rc[r].pc # "IDLE"
  PROVE  rc[r] \in CallRecord
  BY DEF CaseInv, NoCall

----------------------------------------------------------------------------
(* Records.                                                                *)

\* What a record of the case is made of, for the leaves that follow.
LEMMA AttemptTypes ==
  ASSUME NEW rec \in Record
  PROVE  /\ Len(rec.attempts) \in Nat /\ DOMAIN rec.attempts = 1..Len(rec.attempts)
         /\ \A a \in DOMAIN rec.attempts : rec.attempts[a] \in Attempt
         /\ rec.plans \in Seq(Plan) /\ Len(rec.plans) \in Nat /\ DOMAIN rec.plans = 1..Len(rec.plans)
         /\ \A v \in DOMAIN rec.plans : rec.plans[v] \in Plan
  BY DEF Record

\* The attempts of a plan can be counted.
LEMMA AttemptsAreFinite ==
  ASSUME NEW rec \in Record, NEW v
  PROVE  /\ IsFiniteSet(AttemptsOf(rec, v)) /\ Cardinality(AttemptsOf(rec, v)) \in Nat
         /\ IsFiniteSet(CompletedOf(rec, v)) /\ Cardinality(CompletedOf(rec, v)) \in Nat
         /\ CompletedOf(rec, v) \subseteq AttemptsOf(rec, v)
         /\ Cardinality(CompletedOf(rec, v)) <= Cardinality(AttemptsOf(rec, v))
  <1>1. IsFiniteSet(DOMAIN rec.attempts)
    <2>1. PICK n \in Nat : n = Len(rec.attempts)
      BY AttemptTypes
    <2>2. IsFiniteSet(1..n)
      BY FS_Interval
    <2>3. QED
      BY <2>1, <2>2, AttemptTypes
  <1>2. AttemptsOf(rec, v) \in SUBSET DOMAIN rec.attempts
    BY DEF AttemptsOf
  <1>3. CompletedOf(rec, v) \in SUBSET AttemptsOf(rec, v)
    BY DEF CompletedOf
  <1>4. IsFiniteSet(AttemptsOf(rec, v))
    BY <1>1, <1>2, FS_Subset
  <1>5. IsFiniteSet(CompletedOf(rec, v)) /\ Cardinality(CompletedOf(rec, v)) <= Cardinality(AttemptsOf(rec, v))
    BY <1>3, <1>4, FS_Subset
  <1>6. QED
    BY <1>3, <1>4, <1>5, FS_CardinalityType

\* When all payouts have completed there is no other attempt.
LEMMA CompletedAreAll ==
  ASSUME NEW rec, RecordInv(rec), NEW v \in Versions, AllCompleted(rec, v)
  PROVE  AttemptsOf(rec, v) = CompletedOf(rec, v)
  <1>1. rec \in Record /\ InTurn(rec, v)
    BY DEF RecordInv
  <1>2. Cardinality(CompletedOf(rec, v)) = Cardinality(AttemptsOf(rec, v))
    BY <1>1, AttemptsAreFinite, RecordAssumption DEF InTurn, AllCompleted, RecordAssumption
  <1>3. CompletedOf(rec, v) \in SUBSET AttemptsOf(rec, v)
    BY DEF CompletedOf
  <1>4. QED
    BY <1>1, <1>2, <1>3, AttemptsAreFinite, FS_Subset

\* new keeps every attempt, changing open ones only, and the status of every
\* submitted plan; and submits none.
Keeps(rec, new) ==
  /\ new \in Record
  /\ DOMAIN new.attempts = DOMAIN rec.attempts
  /\ \A a \in DOMAIN rec.attempts :
       /\ new.attempts[a].v = rec.attempts[a].v /\ new.attempts[a].i = rec.attempts[a].i
       /\ a \notin OpenAttempts(rec) => new.attempts[a] = rec.attempts[a]
  /\ \A v \in DOMAIN new.plans : new.plans[v].status \in Submitted =>
       HasPlan(rec, v) /\ rec.plans[v].status = new.plans[v].status
  /\ \A v \in DOMAIN rec.plans : rec.plans[v].status \in Submitted =>
       HasPlan(new, v) /\ new.plans[v].status = rec.plans[v].status

\* The attempts of a plan without open ones are what they were.
LEMMA KeptAttempts ==
  ASSUME NEW rec, RecordInv(rec), NEW new, Keeps(rec, new), NEW v
  PROVE  /\ AttemptsOf(new, v) = AttemptsOf(rec, v)
         /\ CompletedOf(rec, v) \subseteq CompletedOf(new, v)
         /\ AttemptsOf(rec, v) \cap OpenAttempts(rec) = {} =>
              CompletedOf(new, v) = CompletedOf(rec, v) /\ AttemptsOf(new, v) \cap OpenAttempts(new) = {}
  <1>1. AttemptsOf(new, v) = AttemptsOf(rec, v)
    BY DEF Keeps, AttemptsOf
  <1>2. \A a \in AttemptsOf(rec, v) : a \notin OpenAttempts(rec) => new.attempts[a] = rec.attempts[a]
    BY DEF Keeps, AttemptsOf
  <1>3. \A a \in CompletedOf(rec, v) : a \notin OpenAttempts(rec)
    BY DEF CompletedOf, OpenAttempts, OpenStates
  <1>4. CompletedOf(rec, v) \subseteq CompletedOf(new, v)
    BY <1>1, <1>2, <1>3 DEF CompletedOf
  <1>5. ASSUME AttemptsOf(rec, v) \cap OpenAttempts(rec) = {}
        PROVE  CompletedOf(new, v) = CompletedOf(rec, v) /\ AttemptsOf(new, v) \cap OpenAttempts(new) = {}
    <2>1. \A a \in AttemptsOf(rec, v) : new.attempts[a] = rec.attempts[a]
      BY <1>2, <1>5
    <2>2. CompletedOf(new, v) = CompletedOf(rec, v)
      BY <1>1, <2>1 DEF CompletedOf
    <2>3. ASSUME NEW a \in AttemptsOf(new, v), a \in OpenAttempts(new) PROVE FALSE
      <3>1. a \in AttemptsOf(rec, v) /\ new.attempts[a] = rec.attempts[a] /\ a \in DOMAIN rec.attempts
        BY <1>1, <2>1, <2>3 DEF AttemptsOf
      <3>2. a \in OpenAttempts(rec)
        BY <2>3, <3>1 DEF OpenAttempts
      <3>3. QED
        BY <1>5, <3>1, <3>2
    <2>4. QED
      BY <2>2, <2>3
  <1>6. QED
    BY <1>1, <1>4, <1>5

\* A record that keeps plans, attempts and results of a consistent one is
\* consistent.
LEMMA KeepsRecordInv ==
  ASSUME NEW rec, RecordInv(rec), NEW new, Keeps(rec, new)
  PROVE  RecordInv(new)
  <1>1. ASSUME NEW a \in DOMAIN new.attempts
        PROVE  HasPlan(new, new.attempts[a].v) /\ new.plans[new.attempts[a].v].status \in Submitted
    <2>1. a \in DOMAIN rec.attempts /\ new.attempts[a].v = rec.attempts[a].v
      BY DEF Keeps
    <2>2. HasPlan(rec, rec.attempts[a].v) /\ rec.plans[rec.attempts[a].v].status \in Submitted
      BY <2>1 DEF RecordInv
    <2>3. QED
      BY <2>1, <2>2 DEF Keeps, HasPlan
  <1>2. ASSUME NEW v \in Versions PROVE InTurn(new, v)
    <2>1. InTurn(rec, v)
      BY DEF RecordInv
    <2>2. \A a \in AttemptsOf(rec, v) : new.attempts[a].i = rec.attempts[a].i
      BY DEF Keeps, AttemptsOf
    <2>3. AttemptsOf(new, v) = AttemptsOf(rec, v) /\ CompletedOf(rec, v) \subseteq CompletedOf(new, v)
      BY KeptAttempts
    <2>4. QED
      BY <2>1, <2>2, <2>3 DEF InTurn
  <1>3. ASSUME NEW v \in DOMAIN new.plans PROVE SettledAs(new, v)
    <2>1. SUFFICES ASSUME new.plans[v].status \in Final
                   PROVE  /\ AttemptsOf(new, v) \cap OpenAttempts(new) = {}
                          /\ new.plans[v].status = "RECONCILED" <=> AllCompleted(new, v)
      BY DEF SettledAs
    <2>2. v \in DOMAIN rec.plans /\ rec.plans[v].status = new.plans[v].status
      BY <2>1 DEF Keeps, Submitted, HasPlan
    <2>3. /\ AttemptsOf(rec, v) \cap OpenAttempts(rec) = {}
          /\ rec.plans[v].status = "RECONCILED" <=> AllCompleted(rec, v)
      BY <2>1, <2>2 DEF RecordInv, SettledAs
    <2>4. QED
      BY <2>2, <2>3, KeptAttempts DEF AllCompleted
  <1>4. QED
    BY <1>1, <1>2, <1>3 DEF RecordInv, Keeps

\* Only the revision changes.
LEMMA BumpIs ==
  ASSUME NEW rec \in Record, CaseInv
  PROVE  /\ Bump(rec) \in Record /\ Bump(rec).rev = NewRev
         /\ Bump(rec).caseStatus = rec.caseStatus /\ Bump(rec).funding = rec.funding
         /\ Bump(rec).credits = rec.credits /\ Bump(rec).status = rec.status
         /\ Bump(rec).findings = rec.findings
         /\ Bump(rec).plans = rec.plans /\ Bump(rec).attempts = rec.attempts
  <1>1. Bump(rec) = [rec EXCEPT !.rev = NewRev]
    BY DEF Bump, NewRev
  <1>2. NewRev \in Nat
    BY RevisionIsNew
  <1>3. QED
    BY <1>1, <1>2 DEF Record

\* What is said of a record's plans and attempts does not depend on the rest.
LEMMA SamePlansAndAttempts ==
  ASSUME NEW rec, NEW new \in Record, new.plans = rec.plans, new.attempts = rec.attempts
  PROVE  /\ RecordInv(rec) => RecordInv(new)
         /\ Traced(rec) <=> Traced(new)
         /\ \A v : /\ AttemptsOf(new, v) = AttemptsOf(rec, v) /\ CompletedOf(new, v) = CompletedOf(rec, v)
                   /\ HasPlan(new, v) <=> HasPlan(rec, v)
         /\ OpenAttempts(new) = OpenAttempts(rec)
  <1>1. \A v : AttemptsOf(new, v) = AttemptsOf(rec, v) /\ CompletedOf(new, v) = CompletedOf(rec, v)
    BY DEF AttemptsOf, CompletedOf
  <1>2. OpenAttempts(new) = OpenAttempts(rec) /\ \A v : HasPlan(new, v) <=> HasPlan(rec, v)
    BY DEF OpenAttempts, HasPlan
  <1>3. Traced(rec) <=> Traced(new)
    BY DEF Traced
  <1>4. ASSUME RecordInv(rec) PROVE RecordInv(new)
    BY <1>1, <1>2, <1>4 DEF RecordInv, InTurn, SettledAs, AllCompleted
  <1>5. QED
    BY <1>1, <1>2, <1>3, <1>4

----------------------------------------------------------------------------
(* The rewrites of a record that executing and reconciling make.           *)

\* Attempt a gets a state and a transaction; findings are added, and the status
\* may fall to one that stops the submission.
Marks(rec, new, a, s, tx) ==
  /\ new \in Record
  /\ new.plans = rec.plans /\ new.caseStatus = rec.caseStatus
  /\ rec.findings \subseteq new.findings /\ new.findings \subseteq rec.findings \cup Raised
  /\ new.status \in {rec.status, "PARTIAL", "BLOCKED"}
  /\ DOMAIN new.attempts = DOMAIN rec.attempts
  /\ \A b \in DOMAIN rec.attempts \ {a} : new.attempts[b] = rec.attempts[b]
  /\ new.attempts[a].v = rec.attempts[a].v /\ new.attempts[a].i = rec.attempts[a].i
  /\ new.attempts[a].state = s /\ new.attempts[a].tx = tx

States == OpenStates \cup {"COMPLETED", "FAILED"}

\* What an attempt is after its state, or its transaction too, was set.
LEMMA AttemptIs ==
  ASSUME NEW t \in Attempt, NEW s \in States, NEW tx \in Nat
  PROVE  /\ [t EXCEPT !.state = s, !.tx = tx] \in Attempt
         /\ [t EXCEPT !.state = s, !.tx = tx].v = t.v /\ [t EXCEPT !.state = s, !.tx = tx].i = t.i
         /\ [t EXCEPT !.state = s, !.tx = tx].state = s /\ [t EXCEPT !.state = s, !.tx = tx].tx = tx
         /\ [t EXCEPT !.state = s] \in Attempt
         /\ [t EXCEPT !.state = s].v = t.v /\ [t EXCEPT !.state = s].i = t.i
         /\ [t EXCEPT !.state = s].state = s /\ [t EXCEPT !.state = s].tx = t.tx
  BY DEF Attempt, States

\* One attempt is replaced, and the record stays well formed.
LEMMA ReplacedAttempt ==
  ASSUME NEW rec \in Record, NEW a \in DOMAIN rec.attempts, NEW t \in Attempt
  PROVE  LET new == [rec.attempts EXCEPT ![a] = t] IN
         /\ new \in Seq(Attempt) /\ DOMAIN new = DOMAIN rec.attempts /\ new[a] = t
         /\ \A b \in DOMAIN rec.attempts \ {a} : new[b] = rec.attempts[b]
  BY DEF Record

\* Storing the provider's answer marks one attempt and leaves the case's status.
LEMMA WithResultIs ==
  ASSUME NEW rec \in Record, NEW a \in DOMAIN rec.attempts, NEW s \in ProviderStates, NEW tx \in Nat,
         NEW found \in ResultFindings(s)
  PROVE  /\ Marks(rec, WithResult(rec, a, s, tx, found), a, s, tx)
         /\ WithResult(rec, a, s, tx, found).status = rec.status
  <1> DEFINE new == WithResult(rec, a, s, tx, found)
             t == [rec.attempts[a] EXCEPT !.state = s, !.tx = tx]
  <1>1. rec.attempts[a] \in Attempt /\ s \in States
    BY AttemptTypes DEF ProviderStates, States, OpenStates
  <1>2. new.attempts = [rec.attempts EXCEPT ![a] = t]
    BY <1>1 DEF WithResult, Record
  <1>3. new.findings = rec.findings \cup found /\ found \subseteq Raised
    BY DEF WithResult, Record, ResultFindings, ProviderStates, Raised
  <1>4. new = [rec EXCEPT !.attempts = new.attempts, !.findings = new.findings]
    BY DEF WithResult, Record
  <1>5. t \in Attempt /\ t.v = rec.attempts[a].v /\ t.i = rec.attempts[a].i /\ t.state = s /\ t.tx = tx
    BY <1>1 DEF Attempt, States
  <1> HIDE DEF t
  <1>6. /\ new.attempts \in Seq(Attempt) /\ DOMAIN new.attempts = DOMAIN rec.attempts
        /\ new.attempts[a] = t /\ \A b \in DOMAIN rec.attempts \ {a} : new.attempts[b] = rec.attempts[b]
    BY <1>2, <1>5, ReplacedAttempt
  <1>7. new.findings \in SUBSET Findings
    BY <1>3 DEF Record, Findings, Raised
  <1> HIDE DEF new
  <1>8. new \in Record /\ new.plans = rec.plans /\ new.status = rec.status /\ new.caseStatus = rec.caseStatus
    BY <1>4, <1>6, <1>7 DEF Record
  <1>9. QED
    BY <1>3, <1>5, <1>6, <1>8 DEF Marks, new

\* A plan that pauses is PARTIAL or BLOCKED.
LEMMA PausedStatusIs == \A rec, v : PausedStatus(rec, v) \in {"PARTIAL", "BLOCKED"}
  BY DEF PausedStatus

\* Storing an error marks one attempt and keeps its transaction.
LEMMA WithErrorIs ==
  ASSUME NEW rec \in Record, NEW v, NEW a \in DOMAIN rec.attempts, NEW s \in States, NEW f \in Raised
  PROVE  Marks(rec, WithError(rec, v, a, s, f), a, s, rec.attempts[a].tx)
  <1> DEFINE new == WithError(rec, v, a, s, f)
             t == [rec.attempts[a] EXCEPT !.state = s]
  <1>1. rec.attempts[a] \in Attempt
    BY AttemptTypes
  <1>2. new.attempts = [rec.attempts EXCEPT ![a] = t]
    BY <1>1 DEF WithError, Record
  <1>3. new.findings = rec.findings \cup {f} /\ new.status \in {"PARTIAL", "BLOCKED"}
    BY PausedStatusIs DEF WithError, Record
  <1>4. new = [rec EXCEPT !.attempts = new.attempts, !.findings = new.findings, !.status = new.status]
    BY DEF WithError, Record
  <1>5. /\ t \in Attempt /\ t.v = rec.attempts[a].v /\ t.i = rec.attempts[a].i
        /\ t.state = s /\ t.tx = rec.attempts[a].tx
    BY <1>1, AttemptIs, 0 \in Nat
  <1> HIDE DEF t
  <1>6. /\ new.attempts \in Seq(Attempt) /\ DOMAIN new.attempts = DOMAIN rec.attempts
        /\ new.attempts[a] = t /\ \A b \in DOMAIN rec.attempts \ {a} : new.attempts[b] = rec.attempts[b]
    BY <1>2, <1>5, ReplacedAttempt
  <1>7. new.findings \in SUBSET Findings
    BY <1>3 DEF Record, Findings, Raised
  <1> HIDE DEF new
  <1>8. new \in Record /\ new.plans = rec.plans /\ new.caseStatus = rec.caseStatus
    BY <1>3, <1>4, <1>6, <1>7 DEF Record
  <1>9. QED
    BY <1>3, <1>5, <1>6, <1>8 DEF Marks, new

\* Storing that no answer came marks the attempt AMBIGUOUS.
LEMMA AmbiguousIs ==
  ASSUME NEW rec \in Record, NEW a \in DOMAIN rec.attempts
  PROVE  Marks(rec, Ambiguous(rec, a), a, "AMBIGUOUS", rec.attempts[a].tx)
  <1> DEFINE new == Ambiguous(rec, a)
             t == [rec.attempts[a] EXCEPT !.state = "AMBIGUOUS"]
  <1>1. rec.attempts[a] \in Attempt /\ "AMBIGUOUS" \in States
    BY AttemptTypes DEF States, OpenStates
  <1>2. new.attempts = [rec.attempts EXCEPT ![a] = t]
    BY <1>1 DEF Ambiguous, Record
  <1>3. new.findings = rec.findings \cup {"RECONCILABLE"}
    BY DEF Ambiguous, Record
  <1>4. new = [rec EXCEPT !.attempts = new.attempts, !.findings = new.findings]
    BY DEF Ambiguous, Record
  <1>5. /\ t \in Attempt /\ t.v = rec.attempts[a].v /\ t.i = rec.attempts[a].i
        /\ t.state = "AMBIGUOUS" /\ t.tx = rec.attempts[a].tx
    BY <1>1, AttemptIs, 0 \in Nat
  <1> HIDE DEF t
  <1>6. /\ new.attempts \in Seq(Attempt) /\ DOMAIN new.attempts = DOMAIN rec.attempts
        /\ new.attempts[a] = t /\ \A b \in DOMAIN rec.attempts \ {a} : new.attempts[b] = rec.attempts[b]
    BY <1>2, <1>5, ReplacedAttempt
  <1>7. new.findings \in SUBSET Findings
    BY <1>3 DEF Record, Findings
  <1> HIDE DEF new
  <1>8. new \in Record /\ new.plans = rec.plans /\ new.status = rec.status /\ new.caseStatus = rec.caseStatus
    BY <1>4, <1>6, <1>7 DEF Record
  <1>9. QED
    BY <1>3, <1>5, <1>6, <1>8 DEF Marks, new, Raised

\* A transaction id is noted; the attempt is otherwise left as it is.
LEMMA NotedIs ==
  ASSUME NEW rec \in Record, NEW a \in DOMAIN rec.attempts, NEW k \in Nat
  PROVE  Marks(rec, [rec EXCEPT !.attempts[a].tx = k], a, rec.attempts[a].state, k)
  <1> DEFINE new == [rec EXCEPT !.attempts[a].tx = k]
             t == [rec.attempts[a] EXCEPT !.tx = k]
  <1>1. rec.attempts[a] \in Attempt
    BY AttemptTypes
  <1>2. new.attempts = [rec.attempts EXCEPT ![a] = t]
    BY <1>1 DEF Record
  <1>3. new = [rec EXCEPT !.attempts = new.attempts]
    BY DEF Record
  <1>4. /\ t \in Attempt /\ t.v = rec.attempts[a].v /\ t.i = rec.attempts[a].i
        /\ t.state = rec.attempts[a].state /\ t.tx = k
    BY <1>1 DEF Attempt
  <1> HIDE DEF t
  <1>5. /\ new.attempts \in Seq(Attempt) /\ DOMAIN new.attempts = DOMAIN rec.attempts
        /\ new.attempts[a] = t /\ \A b \in DOMAIN rec.attempts \ {a} : new.attempts[b] = rec.attempts[b]
    BY <1>2, <1>4, ReplacedAttempt
  <1> HIDE DEF new
  <1>6. /\ new \in Record /\ new.plans = rec.plans /\ new.status = rec.status
        /\ new.caseStatus = rec.caseStatus /\ new.findings = rec.findings
    BY <1>3, <1>5 DEF Record
  <1>7. QED
    BY <1>4, <1>5, <1>6 DEF Marks, new

\* To mark an open attempt keeps all that must stand of the record.
LEMMA MarksKeeps ==
  ASSUME NEW rec, NEW new, NEW a \in OpenAttempts(rec), NEW s, NEW tx, Marks(rec, new, a, s, tx)
  PROVE  Keeps(rec, new)
  BY DEF Marks, Keeps, HasPlan

\* Marking with a transaction of the payout leaves a record traced.
LEMMA MarksTraced ==
  ASSUME NEW rec, NEW new, NEW a \in DOMAIN rec.attempts, NEW s, NEW tx, Marks(rec, new, a, s, tx),
         Traced(rec),
         tx # 0 => tx \in DOMAIN ledger /\ IsOf(tx, <<rec.attempts[a].v, rec.attempts[a].i>>),
         s = "COMPLETED" => tx # 0 /\ ledger[tx].state = "COMPLETED",
         s = "FAILED" /\ tx # 0 => ledger[tx].state = "FAILED"
  PROVE  Traced(new)
  <1> SUFFICES ASSUME NEW b \in DOMAIN new.attempts
               PROVE  LET t == new.attempts[b] IN
                 /\ t.tx # 0 => t.tx \in DOMAIN ledger /\ ledger[t.tx].v = t.v /\ ledger[t.tx].i = t.i
                 /\ t.state = "COMPLETED" => t.tx # 0 /\ ledger[t.tx].state = "COMPLETED"
                 /\ t.state = "FAILED" /\ t.tx # 0 => ledger[t.tx].state = "FAILED"
    BY DEF Traced
  <1>1. CASE b = a
    BY <1>1 DEF Marks, IsOf
  <1>2. CASE b # a
    <2>1. new.attempts[b] = rec.attempts[b] /\ b \in DOMAIN rec.attempts
      BY <1>2 DEF Marks
    <2>2. QED
      BY <2>1 DEF Traced
  <1>3. QED
    BY <1>1, <1>2

\* A step that leaves the record alone undoes no result.
LEMMA SameStands ==
  ASSUME record' = record
  PROVE  Stands /\ Cautious
  BY DEF Stands, Cautious
----------------------------------------------------------------------------
(* What kinds of steps leave of the invariant.                             *)

\* The revisions that record and copies hold are numbers, so a new one is found.
LEMMA RevisionsAreNumbers ==
  ASSUME CaseInv
  PROVE  RevsHeld \subseteq Nat
  <1>1. record.rev \in Nat /\ \A rec \in reads : rec.rev \in Nat
    BY DEF CaseInv, RecordInv, ReadsInv, Record
  <1>2. \A r \in Reconcilers : rc[r].pc # "IDLE" => rc[r].rev \in Nat
    BY CallsAreTyped DEF CallRecord
  <1>3. QED
    BY <1>1, <1>2 DEF RevsHeld, Calls

\* A save outdates every copy there is.
LEMMA SaveOutdates ==
  ASSUME CaseInv, record'.rev = NewRev, reads' \subseteq reads,
         \A r \in Reconcilers : rc'[r].pc # "IDLE" => rc[r].pc # "IDLE" /\ rc'[r].rev = rc[r].rev
  PROVE  /\ \A r \in Reconcilers : rc'[r].pc # "IDLE" => record'.rev # rc'[r].rev
         /\ ReadsInv' /\ RevInv'
  <1>1. \A r \in Reconcilers : rc'[r].pc # "IDLE" => record'.rev # rc'[r].rev
    BY RevisionIsNew, HeldRevisions
  <1>2. IsFiniteSet(reads')
    BY FS_Subset DEF CaseInv, ReadsInv
  <1>3. \A rec \in reads' : rec \in Record /\ rec.rev # record'.rev
    BY RevisionIsNew, HeldRevisions DEF CaseInv, ReadsInv
  <1>4. ASSUME ~Recycle, NEW rev \in RevsHeld' PROVE rev <= record'.rev
    <2>1. record'.rev = record.rev + 1 /\ record.rev \in Nat
      BY <1>4 DEF NewRev, CaseInv, RecordInv, Record
    <2>2. rev = record'.rev \/ rev \in RevsHeld
      BY HeldRevisions DEF RevsHeld, Calls
    <2>3. rev \in RevsHeld => rev \in Nat /\ rev <= record.rev
      BY <1>4, RevisionsAreNumbers DEF CaseInv, RevInv
    <2>4. QED
      BY <2>1, <2>2, <2>3
  <1>5. QED
    BY <1>1, <1>2, <1>3, <1>4 DEF ReadsInv, RevInv

\* What is recorded, traced and asked for does not change with the record's
\* other fields.
LEMMA KeptKeys ==
  ASSUME CaseInv, NEW new, Keeps(record, new), record' = Bump(new),
         ledger' = ledger, sent' \subseteq sent
  PROVE  WriteAhead' /\ ProviderInv'
  <1>1. record'.attempts = new.attempts
    BY BumpIs DEF Keeps
  <1>2. ProviderInv'
    BY DEF CaseInv, ProviderInv, IsOf
  <1>3. {<<record.attempts[a].v, record.attempts[a].i>> : a \in DOMAIN record.attempts}
          \subseteq {<<record'.attempts[a].v, record'.attempts[a].i>> : a \in DOMAIN record'.attempts}
    BY <1>1 DEF Keeps
  <1>4. WriteAhead'
    BY <1>3 DEF CaseInv, WriteAhead
  <1>5. QED
    BY <1>2, <1>4

\* A call whose copy is outdated is only asked for what does not depend on the
\* record being current.
LEMMA OutdatedCall ==
  ASSUME CaseInv, NEW r \in Reconcilers, CallInv(r), rc'[r] = rc[r], ledger' = ledger,
         record'.rev # rc'[r].rev,
         \A v \in DOMAIN record.plans : record.plans[v].status \in Final =>
           HasPlan(record', v) /\ record'.plans[v].status \in Final
  PROVE  CallInv(r)'
  BY DEF CallInv, Traced, Current, HasPlan

\* A save that submits no plan and touches open attempts alone.
LEMMA SaveStep ==
  ASSUME CaseInv, NEW new, Keeps(record, new), Traced(new), record' = Bump(new),
         UNCHANGED <<row, rc, ledger>>, reads' \subseteq reads, sent' \subseteq sent,
         exec' \in [Versions -> {"NONE", "DONE"} \cup InCall],
         \A v \in Versions : ExecInv(v)'
  PROVE  CaseInv' /\ Stands
  <1>1. new \in Record /\ RecordInv(new)
    BY KeepsRecordInv DEF Keeps, CaseInv
  <1>2. record' \in Record /\ record'.plans = new.plans /\ record'.attempts = new.attempts /\ record'.rev = NewRev
    BY <1>1, BumpIs
  <1>3. RecordInv(record)' /\ Traced(record)'
    BY <1>1, <1>2, SamePlansAndAttempts DEF Traced
  <1>4. WriteAhead' /\ ProviderInv'
    BY KeptKeys
  <1>5. RowInv'
    BY <1>2 DEF CaseInv, RowInv, Keeps, HasPlan, Submitted
  <1>6. /\ \A r \in Reconcilers : rc'[r].pc # "IDLE" => record'.rev # rc'[r].rev
        /\ ReadsInv' /\ RevInv'
    BY <1>2, SaveOutdates
  <1>7. ASSUME NEW r \in Reconcilers PROVE CallInv(r)'
    <2>1. CASE rc[r].pc = "IDLE"
      BY <2>1 DEF CallInv
    <2>2. CASE rc[r].pc # "IDLE"
      <3>1. CallInv(r)
        BY DEF CaseInv
      <3>2. \A v \in DOMAIN record.plans : record.plans[v].status \in Final =>
              HasPlan(record', v) /\ record'.plans[v].status \in Final
        BY <1>2 DEF Keeps, HasPlan, Submitted
      <3>3. record'.rev # rc'[r].rev
        BY <1>6, <2>2
      <3>4. QED
        BY <3>1, <3>2, <3>3, OutdatedCall
    <2>3. QED
      BY <2>1, <2>2
  <1>8. rc' \in [Reconcilers -> {NoCall} \cup CallRecord]
    BY DEF CaseInv
  <1>9. Stands
    BY <1>2 DEF Stands, Keeps, HasPlan, Submitted, OpenAttempts, OpenStates
  <1>11. QED
    BY <1>3, <1>4, <1>5, <1>6, <1>7, <1>8, <1>9 DEF CaseInv

\* The row may fall to another call or be dropped, but no submission gets it.
NotTaken == row'.state = "ACTIVE" => row.state = "ACTIVE" /\ row'.ver = row.ver

\* A submission stays where ExecInv says while the record stays and the row is
\* not taken.
LEMMA ExecStays ==
  ASSUME CaseInv, NotTaken, UNCHANGED <<record, ledger>>, sent' \subseteq sent,
         NEW v \in Versions,
         exec'[v] \in {exec[v], "PAUSE", "FINALLY", "DONE"} \/ (exec[v] = "BEAT" /\ exec'[v] = "PREFLIGHT")
  PROVE  ExecInv(v)'
  <1> SUFFICES ASSUME OwnsActive(v)'
               PROVE  /\ exec'[v] = "LOOP" => AttemptsOf(record', v) = CompletedOf(record', v)
                      /\ exec'[v] \in {"BEAT", "PREFLIGHT", "WAIT"} => Attempting(v)'
                      /\ exec'[v] \in {"BEAT", "PREFLIGHT"} => ~AskedFor(Req(v))'
    BY DEF ExecInv
  <1>1. OwnsActive(v) /\ ExecInv(v)
    BY DEF NotTaken, OwnsActive, CaseInv
  <1>2. Attempting(v)' <=> Attempting(v)
    BY DEF Attempting, LastAttempt
  <1>3. AskedFor(Req(v))' => AskedFor(Req(v))
    BY DEF AskedFor, Req, IsOf
  <1>4. QED
    BY <1>1, <1>2, <1>3 DEF ExecInv

\* A call that takes no step keeps its place.
LEMMA CallStays ==
  ASSUME CaseInv, NotTaken, UNCHANGED <<record, ledger>>, NEW r \in Reconcilers, rc'[r] = rc[r]
  PROVE  CallInv(r)'
  <1>1. CallInv(r)
    BY DEF CaseInv
  <1>2. QED
    BY <1>1 DEF CallInv, Traced, Current, Claimed, NotTaken, Observes

\* Calls may end, the row fall or be renewed, a submission move on to its end;
\* nothing durable is written.
LEMMA QuietStep ==
  ASSUME CaseInv, NotTaken, RowInv', UNCHANGED <<record, ledger, reads>>, sent' \subseteq sent,
         exec' \in [Versions -> {"NONE", "DONE"} \cup InCall],
         \A v \in Versions : \/ exec'[v] \in {exec[v], "PAUSE", "FINALLY", "DONE"}
                             \/ exec[v] = "BEAT" /\ exec'[v] = "PREFLIGHT",
         rc' \in [Reconcilers -> {NoCall} \cup CallRecord],
         \A r \in Reconcilers : rc'[r] = NoCall \/ rc'[r] = rc[r]
  PROVE  Upheld
  <1>1. RecordInv(record)' /\ Traced(record)' /\ WriteAhead' /\ ProviderInv'
    BY DEF CaseInv, Traced, WriteAhead, ProviderInv, IsOf
  <1>2. \A v \in Versions : ExecInv(v)'
    BY ExecStays
  <1>3. ASSUME NEW r \in Reconcilers PROVE CallInv(r)'
    <2>1. CASE rc'[r] = NoCall
      BY <2>1 DEF CallInv, NoCall
    <2>2. CASE rc'[r] = rc[r]
      BY <2>2, CallStays
    <2>3. QED
      BY <2>1, <2>2
  <1>4. ReadsInv'
    BY DEF CaseInv, ReadsInv
  <1>5. RevInv'
    <2>1. RevsHeld' \subseteq RevsHeld
      BY DEF RevsHeld, Calls, NoCall
    <2>2. QED
      BY <2>1 DEF CaseInv, RevInv
  <1>7. QED
    BY <1>1, <1>2, <1>3, <1>4, <1>5, SameStands DEF CaseInv, Upheld

\* One reconcile call moves on, the row with it.
LEMMA CallStep ==
  ASSUME CaseInv, NotTaken, RowInv', UNCHANGED <<record, ledger, reads, sent, exec>>,
         NEW r \in Reconcilers, NEW c \in CallRecord, rc' = [rc EXCEPT ![r] = c],
         c.rev \in RevsHeld, CallInv(r)'
  PROVE  Upheld
  <1>1. RecordInv(record)' /\ Traced(record)' /\ WriteAhead' /\ ProviderInv'
    BY DEF CaseInv, Traced, WriteAhead, ProviderInv, IsOf
  <1>2. \A v \in Versions : ExecInv(v)'
    BY ExecStays
  <1>3. ASSUME NEW q \in Reconcilers PROVE CallInv(q)'
    <2>1. CASE q = r
      BY <2>1
    <2>2. CASE q # r
      BY <2>2, CallStays, rc'[q] = rc[q]
    <2>3. QED
      BY <2>1, <2>2
  <1>4. ReadsInv'
    BY DEF CaseInv, ReadsInv
  <1>5. RevInv'
    <2>1. rc'[r] = c /\ \A q \in Reconcilers \ {r} : rc'[q] = rc[q]
      BY DEF CaseInv
    <2>2. RevsHeld' \subseteq RevsHeld
      BY <2>1 DEF RevsHeld, Calls
    <2>3. QED
      BY <2>2 DEF CaseInv, RevInv
  <1>6. rc' \in [Reconcilers -> {NoCall} \cup CallRecord]
    BY DEF CaseInv
  <1>8. QED
    BY <1>1, <1>2, <1>3, <1>4, <1>5, <1>6, SameStands DEF CaseInv, Upheld

----------------------------------------------------------------------------
(* The lock row.                                                           *)

\* The rows that reserve, release and claim write are rows, never the empty one.
LEMMA RowsAreTyped ==
  ASSUME NEW v \in Versions, NEW t \in Nat
  PROVE  /\ NoRow \in Row /\ NewRow(v) \in Row /\ ReadyRow(v) \in Row /\ ClaimedRow(v, t) \in Row
         /\ NewRow(v) # NoRow /\ ReadyRow(v) # NoRow /\ ClaimedRow(v, t) # NoRow
  BY DEF NoRow, NewRow, ReadyRow, ClaimedRow, Row

\* The row of plan v is renewed, handed over or claimed.
LEMMA RowMoves ==
  ASSUME CaseInv, record' = record, row # NoRow, NEW t \in Nat, NEW b \in BOOLEAN,
         \/ row' = ReadyRow(row.ver)
         \/ row' = ClaimedRow(row.ver, t)
         \/ row' = [row EXCEPT !.fresh = b]
  PROVE  RowInv' /\ NotTaken
  <1>1. RowInv /\ row.ver \in Versions /\ row \in Row
    BY DEF CaseInv, RowInv
  <1>2. row' \in Row /\ row' # NoRow /\ row'.ver = row.ver /\ (row'.state = "ACTIVE" => row.state = "ACTIVE")
    <2>1. CASE row' \in {ReadyRow(row.ver), ClaimedRow(row.ver, t)}
      <3>1. row' \in Row /\ row' # NoRow
        BY <1>1, <2>1, RowsAreTyped
      <3>2. QED
        BY <2>1, <3>1 DEF ReadyRow, ClaimedRow
    <2>2. CASE row' = [row EXCEPT !.fresh = b]
      <3>1. row' \in Row /\ row'.ver = row.ver /\ row'.state = row.state
        BY <1>1, <2>2 DEF Row
      <3>2. row' # NoRow
        BY <1>1, <3>1, RecordAssumption DEF NoRow, RecordAssumption
      <3>3. QED
        BY <3>1, <3>2
    <2>3. QED
      BY <2>1, <2>2
  <1>3. QED
    BY <1>1, <1>2 DEF RowInv, NotTaken

\* The row of a plan that is not executing is dropped.
LEMMA RowDropped ==
  ASSUME CaseInv, record' = record, row' = NoRow,
         row = NoRow \/ record.plans[row.ver].status # "EXECUTING"
  PROVE  RowInv' /\ NotTaken
  <1>1. RowInv
    BY DEF CaseInv
  <1>2. row' \in Row /\ row'.state # "ACTIVE"
    BY DEF NoRow, Row
  <1>3. QED
    BY <1>1, <1>2 DEF RowInv, NotTaken

\* With the record and the row unchanged RowInv stays and nothing is taken.
LEMMA RowStays ==
  ASSUME CaseInv, UNCHANGED <<record, row>>
  PROVE  RowInv' /\ NotTaken
  BY DEF CaseInv, RowInv, NotTaken, HasPlan

\* A holder's row is a row.
LEMMA HeldRow ==
  ASSUME CaseInv, row.state # "NONE" \/ row.ver \in Versions
  PROVE  /\ row # NoRow /\ row.ver \in Versions /\ HasPlan(record, row.ver)
         /\ record.plans[row.ver].status \in Submitted
  <1>1. row # NoRow
    BY RecordAssumption DEF NoRow, RecordAssumption
  <1>2. QED
    BY <1>1 DEF CaseInv, RowInv

----------------------------------------------------------------------------
(* The steps of a submission.                                              *)

\* A submission moves on, and the record is left alone.
LEMMA ExecutorMoves ==
  ASSUME CaseInv, NotTaken, RowInv', UNCHANGED <<record, ledger, reads, sent, rc>>, NEW v \in Versions,
         NEW pc, At(v, pc), pc \in {"PAUSE", "FINALLY", "DONE"} \/ (exec[v] = "BEAT" /\ pc = "PREFLIGHT")
  PROVE  Upheld
  <1>1. exec \in [Versions -> {"NONE", "DONE"} \cup InCall] /\ rc \in [Reconcilers -> {NoCall} \cup CallRecord]
    BY DEF CaseInv
  <1>2. exec' \in [Versions -> {"NONE", "DONE"} \cup InCall]
    BY <1>1 DEF At, InCall, Submitting
  <1>3. \A w \in Versions : \/ exec'[w] \in {exec[w], "PAUSE", "FINALLY", "DONE"}
                            \/ exec[w] = "BEAT" /\ exec'[w] = "PREFLIGHT"
    BY <1>1 DEF At
  <1>4. QED
    BY <1>1, <1>2, <1>3, QuietStep

\* A heartbeat that finds its reservation changes only where the submission is.
LEMMA BeatStep ==
  ASSUME CaseInv, NEW v \in Versions, Beat(v)
  PROVE  Upheld
  <1>1. row # NoRow /\ row' = [row EXCEPT !.fresh = TRUE]
    BY HeldRow DEF Beat, OwnsActive
  <1>2. RowInv' /\ NotTaken
    BY <1>1, RowMoves, 0 \in Nat DEF Beat, rvars
  <1>3. QED
    BY <1>2, ExecutorMoves DEF Beat, rvars, pvars

\* A submission that lost its reservation goes to its finally.
LEMMA ReservationLostStep ==
  ASSUME CaseInv, NEW v \in Versions, ReservationLost(v)
  PROVE  Upheld
  BY RowStays, ExecutorMoves DEF ReservationLost, rvars, pvars

\* A submission that ends releases its row or hands it over to reconcile.
LEMMA HandOverStep ==
  ASSUME CaseInv, NEW v \in Versions, HandOver(v)
  PROVE  Upheld
  <1>1. RowInv' /\ NotTaken
    <2>1. CASE row' = row
      BY <2>1, RowStays DEF HandOver, rvars
    <2>2. CASE row' = ReadyRow(v) /\ OwnsActive(v)
      BY <2>2, HeldRow, RowMoves, 0 \in Nat, TRUE \in BOOLEAN DEF HandOver, rvars, OwnsActive
    <2>3. CASE row' = NoRow /\ row.ver = v /\ ~NeedsReconciliation(record, v)
      BY <2>3, RowDropped DEF HandOver, rvars, NeedsReconciliation
    <2>4. QED
      BY <2>1, <2>2, <2>3 DEF HandOver, RowAfterRelease
  <1>2. QED
    BY <1>1, ExecutorMoves DEF HandOver, rvars, pvars

\* The holder of the row saves what it made of the record.
LEMMA HolderSaves ==
  ASSUME CaseInv, NEW v \in Versions, OwnsActive(v), NEW new, Keeps(record, new), Traced(new),
         ExecutorSave(new), UNCHANGED <<row, rc, ledger, reads>>, sent' \subseteq sent, NEW pc, At(v, pc),
         pc \in {"PAUSE", "FINALLY"} \/ (pc = "LOOP" /\ AttemptsOf(new, v) = CompletedOf(new, v))
  PROVE  CaseInv' /\ Stands
  <1>1. exec \in [Versions -> {"NONE", "DONE"} \cup InCall]
    BY DEF CaseInv
  <1>2. exec' \in [Versions -> {"NONE", "DONE"} \cup InCall] /\ exec'[v] = pc
    BY <1>1 DEF At, InCall, Submitting
  <1>3. record' = Bump(new)
    BY DEF ExecutorSave
  <1>4. record'.attempts = new.attempts
    BY <1>3, BumpIs DEF Keeps
  <1>5. AttemptsOf(record', v) = AttemptsOf(new, v) /\ CompletedOf(record', v) = CompletedOf(new, v)
    BY <1>4 DEF AttemptsOf, CompletedOf
  <1>6. ASSUME NEW w \in Versions PROVE ExecInv(w)'
    <2>1. CASE w = v
      BY <1>2, <1>5, <2>1 DEF ExecInv
    <2>2. CASE w # v
      BY <2>2 DEF ExecInv, OwnsActive
    <2>3. QED
      BY <2>1, <2>2
  <1>7. QED
    BY <1>2, <1>3, <1>6, SaveStep

\* Marking an attempt under way leaves results, findings and authority alone.
LEMMA MarksStand ==
  ASSUME CaseInv, NEW new, NEW a \in OpenAttempts(record), NEW s, NEW tx, Marks(record, new, a, s, tx),
         record' = Bump(new)
  PROVE  Cautious
  <1>1. /\ record'.plans = new.plans /\ record'.status = new.status /\ record'.findings = new.findings
        /\ record'.caseStatus = new.caseStatus
    BY BumpIs DEF Marks
  <1>2. QED
    BY <1>1 DEF Marks, Cautious, Executable, HasPlan

\* An error ends the submission: the attempt is marked, without a transaction,
\* or nothing is saved.
LEMMA CaughtStep ==
  ASSUME CaseInv, NEW v \in Versions, exec[v] \in {"PREFLIGHT", "WAIT"}, Caught(v), sent' \subseteq sent
  PROVE  Upheld /\ Cautious
  <1>1. OwnsActive(v) /\ record \in Record /\ Traced(record)
    BY DEF Caught, CaseInv, RecordInv
  <1>2. CASE SubmitError \in evidence
    <2>1. RowInv' /\ NotTaken
      BY <1>2, RowStays DEF Caught, rvars
    <2>2. exec' \in [Versions -> {"NONE", "DONE"} \cup InCall]
      BY <1>2 DEF Caught, At, CaseInv, InCall
    <2>3. \A w \in Versions : exec'[w] \in {exec[w], "FINALLY"}
      BY <1>2 DEF Caught, At, CaseInv
    <2>4. QED
      BY <1>2, <2>1, <2>2, <2>3, QuietStep, SameStands DEF Caught, rvars, CaseInv
  <1>3. CASE SubmitError \notin evidence
    <2>s. PICK s \in {"AMBIGUOUS", "FAILED"} : \E f \in ErrorFindings(s) : ExecutorSave(WithError(record, v, LastAttempt, s, f))
      BY <1>3 DEF Caught
    <2>1. PICK f \in ErrorFindings(s) : ExecutorSave(WithError(record, v, LastAttempt, s, f))
      BY <2>s
    <2>new. PICK new : new = WithError(record, v, LastAttempt, s, f)
      OBVIOUS
    <2>2. LastAttempt \in OpenAttempts(record)
      BY <1>1 DEF CaseInv, ExecInv, Attempting, AttemptsOf, OpenAttempts, OpenStates
    <2>3. LastAttempt \in DOMAIN record.attempts
      BY <2>2 DEF OpenAttempts
    <2>4. s \in States /\ s # "COMPLETED" /\ f \in Raised
      BY <2>1 DEF States, OpenStates, ErrorFindings, Raised
    <2>5. Marks(record, new, LastAttempt, s, record.attempts[LastAttempt].tx)
      BY <1>1, <2>3, <2>4, <2>new, WithErrorIs
    <2>6. Keeps(record, new)
      BY <2>2, <2>5, MarksKeeps
    <2>7. Traced(new)
      <3>1. record.attempts[LastAttempt].tx = 0
        BY <1>1 DEF CaseInv, ExecInv, Attempting
      <3>2. Marks(record, new, LastAttempt, s, 0)
        BY <2>5, <3>1
      <3>3. QED
        BY <1>1, <2>3, <2>4, <3>2, MarksTraced
    <2>9. CaseInv' /\ Stands
      BY <1>1, <1>3, <2>1, <2>6, <2>7, <2>new, HolderSaves DEF Caught
    <2>10. record' = Bump(new)
      BY <2>1, <2>new DEF ExecutorSave
    <2>11. Cautious
      BY <2>2, <2>5, <2>10, MarksStand
    <2>12. QED
      BY <2>9, <2>11 DEF Upheld
  <1>4. QED
    BY <1>2, <1>3

\* So does a preflight that failed.
LEMMA PreflightFailsStep ==
  ASSUME CaseInv, NEW v \in Versions, PreflightFails(v)
  PROVE  Upheld /\ Cautious
  BY CaughtStep DEF PreflightFails

\* So does a refused request.
LEMMA RejectedStep ==
  ASSUME CaseInv, NEW v \in Versions, Rejected(v)
  PROVE  Upheld /\ Cautious
  BY CaughtStep DEF Rejected

\* So does an answer that did not come.
LEMMA NoAnswerStep ==
  ASSUME CaseInv, NEW v \in Versions, NoAnswer(v)
  PROVE  Upheld /\ Cautious
  BY CaughtStep DEF NoAnswer

\* The provider's answer to a payout is stored with its transaction.
LEMMA AnswerStep ==
  ASSUME CaseInv, NEW v \in Versions, Answer(v)
  PROVE  Upheld /\ Cautious
  <1>1. PICK k, s, found :
          /\ k \in DOMAIN ledger /\ s \in {"PENDING", ledger[k].state} /\ found \in ResultFindings(s)
          /\ <<ledger[k].v, ledger[k].i>> = Req(v)
          /\ ExecutorSave(WithResult(record, LastAttempt, s, k, found))
          /\ At(v, AfterAnswer(s))
    BY DEF Answer
  <1> DEFINE a == LastAttempt
  <1>new. PICK new : new = WithResult(record, a, s, k, found)
    OBVIOUS
  <1>2. /\ OwnsActive(v) /\ record \in Record /\ Traced(record) /\ Attempting(v)
        /\ InTurn(record, v) /\ ledger \in Seq(Payout)
    BY DEF Answer, CaseInv, RecordInv, ExecInv, ProviderInv
  <1>3. a \in DOMAIN record.attempts /\ a \in OpenAttempts(record) /\ a \in AttemptsOf(record, v)
    BY <1>2 DEF Attempting, AttemptsOf, OpenAttempts, OpenStates
  <1>4. k \in Nat \ {0} /\ ledger[k] \in Payout /\ s \in ProviderStates
    <2>1. k \in DOMAIN ledger /\ s \in {"PENDING", ledger[k].state}
      BY <1>1
    <2>2. k \in Nat \ {0} /\ ledger[k] \in Payout
      BY <1>2, <2>1
    <2>3. QED
      BY <2>1, <2>2 DEF Payout, ProviderStates
  <1>5. Marks(record, new, a, s, k)
    BY <1>1, <1>2, <1>3, <1>4, <1>new, WithResultIs
  <1>6. IsOf(k, <<record.attempts[a].v, record.attempts[a].i>>)
    BY <1>1, <1>2, <1>3 DEF IsOf, Req, Attempting, AttemptsOf
  <1>7. s \in {"COMPLETED", "FAILED"} => ledger[k].state = s
    BY <1>1
  <1> HIDE DEF a
  <1>8. Keeps(record, new)
    BY <1>3, <1>5, MarksKeeps
  <1>9. Traced(new)
    BY <1>1, <1>2, <1>3, <1>4, <1>5, <1>6, <1>7, MarksTraced
  <1>10. s = "COMPLETED" => AttemptsOf(new, v) = CompletedOf(new, v)
    <2>1. SUFFICES ASSUME s = "COMPLETED", NEW b \in AttemptsOf(new, v) PROVE new.attempts[b].state = "COMPLETED"
      BY DEF CompletedOf, AttemptsOf
    <2>2. b \in AttemptsOf(record, v) /\ b \in DOMAIN record.attempts
      <3>1. RecordInv(record)
        BY DEF CaseInv
      <3>2. AttemptsOf(new, v) = AttemptsOf(record, v)
        BY <1>8, <3>1, KeptAttempts
      <3>3. QED
        BY <2>1, <3>2 DEF AttemptsOf
    <2>3. CASE b = a
      BY <1>5, <2>1, <2>3 DEF Marks
    <2>4. CASE b # a
      <3>1. a \notin CompletedOf(record, v)
        BY <1>3 DEF CompletedOf, OpenAttempts, OpenStates
      <3>2. b \in CompletedOf(record, v)
        BY <1>2, <1>3, <2>2, <2>4, <3>1 DEF InTurn
      <3>3. QED
        BY <1>5, <2>2, <2>4, <3>2 DEF Marks, CompletedOf
    <2>5. QED
      BY <2>3, <2>4
  <1>11. AfterAnswer(s) \in {"PAUSE", "FINALLY"} \/ (AfterAnswer(s) = "LOOP" /\ AttemptsOf(new, v) = CompletedOf(new, v))
    BY <1>10 DEF AfterAnswer
  <1>12. ExecutorSave(new) /\ At(v, AfterAnswer(s)) /\ UNCHANGED <<row, rc, ledger, reads, sent>>
    BY <1>1, <1>new DEF Answer, pvars, a
  <1>13. CaseInv' /\ Stands
    BY <1>2, <1>8, <1>9, <1>11, <1>12, HolderSaves
  <1>15. Cautious
    BY <1>3, <1>5, <1>12, MarksStand DEF ExecutorSave
  <1>16. QED
    BY <1>13, <1>15 DEF Upheld

\* Only the status of the record changes.
LEMMA PauseStep ==
  ASSUME CaseInv, NEW v \in Versions, Pause(v)
  PROVE  Upheld /\ Cautious
  <1>new. PICK new : new = Paused(record, v)
    OBVIOUS
  <1>1. record \in Record /\ OwnsActive(v)
    BY DEF Pause, CaseInv, RecordInv
  <1>2. new = [record EXCEPT !.status = new.status] /\ new.status \in {"RECONCILING", "PARTIAL", "BLOCKED"}
    BY <1>1, <1>new, PausedStatusIs DEF Paused, Record
  <1>3. /\ new \in Record /\ new.plans = record.plans /\ new.attempts = record.attempts
        /\ new.findings = record.findings /\ new.status # "AUTHORIZED"
    BY <1>1, <1>2 DEF Record
  <1>4. Keeps(record, new) /\ Traced(new)
    BY <1>3, SamePlansAndAttempts DEF Keeps, HasPlan, CaseInv
  <1>5. ExecutorSave(new) /\ At(v, "FINALLY") /\ UNCHANGED <<row, rc, ledger, reads, sent>>
    BY <1>new DEF Pause, pvars
  <1>6. CaseInv' /\ Stands
    BY <1>1, <1>4, <1>5, HolderSaves
  <1>8. record'.findings = record.findings /\ record'.status # "AUTHORIZED"
    BY <1>3, <1>5, BumpIs DEF ExecutorSave
  <1>9. QED
    BY <1>6, <1>8 DEF Upheld, Cautious, Executable

\* The request is sent that no one has sent before.
LEMMA PostStep ==
  ASSUME CaseInv, NEW v \in Versions, Post(v)
  PROVE  Upheld
  <1>1. /\ OwnsActive(v) /\ Attempting(v) /\ ~AskedFor(Req(v))
        /\ UNCHANGED <<record, lastWriter, rc, ledger, evidence, reads>> /\ sent' = sent \cup {Req(v)}
    BY DEF Post, MayPost, CaseInv, ExecInv, rvars
  <1>2. RowInv' /\ NotTaken
    <2>1. row # NoRow /\ row' = [row EXCEPT !.fresh = TRUE]
      BY <1>1, HeldRow DEF Post, OwnsActive
    <2>2. QED
      BY <1>1, <2>1, RowMoves, 0 \in Nat
  <1>3. /\ LastAttempt \in DOMAIN record.attempts /\ record.attempts[LastAttempt].v = v
        /\ record.attempts[LastAttempt].i = Cardinality(AttemptsOf(record, v))
        /\ record.attempts[LastAttempt] \in Attempt
    BY <1>1, AttemptTypes DEF Attempting, AttemptsOf, CaseInv, RecordInv
  <1>4. Req(v) \in Request /\ Req(v) = <<record.attempts[LastAttempt].v, record.attempts[LastAttempt].i>>
    BY <1>3 DEF Req, Request, Attempt
  <1>5. ProviderInv'
    <2>1. \A q \in sent', k \in DOMAIN ledger : ~IsOf(k, q)
      BY <1>1 DEF CaseInv, ProviderInv, AskedFor
    <2>2. QED
      BY <1>1, <1>4, <2>1 DEF CaseInv, ProviderInv, IsOf
  <1>6. WriteAhead'
    BY <1>1, <1>3, <1>4 DEF CaseInv, WriteAhead
  <1>7. /\ exec' \in [Versions -> {"NONE", "DONE"} \cup InCall] /\ exec'[v] = "WAIT"
        /\ \A w \in Versions \ {v} : exec'[w] = exec[w]
    BY DEF Post, At, CaseInv, InCall, Submitting
  <1>8. ASSUME NEW w \in Versions PROVE ExecInv(w)'
    <2>1. CASE w = v
      BY <1>1, <1>7, <2>1 DEF ExecInv, Attempting, LastAttempt
    <2>2. CASE w # v
      <3>1. ~OwnsActive(w)'
        BY <1>1, <1>2, <2>2 DEF NotTaken, OwnsActive
      <3>2. QED
        BY <3>1 DEF ExecInv
    <2>3. QED
      BY <2>1, <2>2
  <1>9. \A r \in Reconcilers : CallInv(r)'
    BY <1>1, <1>2, CallStays
  <1>10. RecordInv(record)' /\ Traced(record)' /\ ReadsInv' /\ RevInv'
    BY <1>1 DEF CaseInv, Traced, ReadsInv, RevInv, RevsHeld, Calls
  <1>11. rc' \in [Reconcilers -> {NoCall} \cup CallRecord]
    BY <1>1 DEF CaseInv
  <1>14. CaseInv'
    BY <1>2, <1>5, <1>6, <1>7, <1>8, <1>9, <1>10, <1>11 DEF CaseInv
  <1>15. QED
    BY <1>1, <1>14, SameStands DEF Upheld

\* What a save leaves of the copies, whatever it does to attempts and plans
\* that are not settled.
LEMMA CopiesOutdated ==
  ASSUME CaseInv, record'.rev = NewRev, UNCHANGED <<rc, ledger, reads>>,
         \A v \in DOMAIN record.plans : record.plans[v].status \in Final =>
           HasPlan(record', v) /\ record'.plans[v].status \in Final
  PROVE  /\ ReadsInv' /\ RevInv' /\ \A r \in Reconcilers : CallInv(r)'
         /\ rc' \in [Reconcilers -> {NoCall} \cup CallRecord]
  <1>1. /\ \A r \in Reconcilers : rc'[r].pc # "IDLE" => record'.rev # rc'[r].rev
        /\ ReadsInv' /\ RevInv'
    BY SaveOutdates
  <1>2. ASSUME NEW r \in Reconcilers PROVE CallInv(r)'
    <2>1. CASE rc[r].pc = "IDLE"
      BY <2>1 DEF CallInv
    <2>2. CASE rc[r].pc # "IDLE"
      <3>1. CallInv(r) /\ record'.rev # rc'[r].rev
        BY <1>1, <2>2 DEF CaseInv
      <3>2. QED
        BY <3>1, OutdatedCall
    <2>3. QED
      BY <2>1, <2>2
  <1>4. QED
    BY <1>1, <1>2 DEF CaseInv

\* One plan is replaced, and the record stays well formed.
LEMMA ReplacedPlan ==
  ASSUME NEW rec \in Record, NEW v \in DOMAIN rec.plans, NEW p \in Plan
  PROVE  LET new == [rec.plans EXCEPT ![v] = p] IN
         /\ new \in Seq(Plan) /\ DOMAIN new = DOMAIN rec.plans /\ new[v] = p
         /\ \A w \in DOMAIN rec.plans \ {v} : new[w] = rec.plans[w]
  BY DEF Record

\* A plan is submitted that has no attempts, while no other is executing.
LEMMA ExecutePlanStep ==
  ASSUME CaseInv, NEW v \in Versions, ExecutePlan(v)
  PROVE  Upheld /\ Cautious
  <1> DEFINE p == [record.plans[v] EXCEPT !.status = "EXECUTING"]
             new == [record EXCEPT !.plans[v].status = "EXECUTING", !.status = "QUEUED"]
  <1>1. /\ record \in Record /\ RecordInv(record) /\ Traced(record) /\ ProviderInv /\ WriteAhead /\ RowInv
        /\ exec \in [Versions -> {"NONE", "DONE"} \cup InCall]
    BY DEF CaseInv, RecordInv
  <1>2. /\ v \in DOMAIN record.plans /\ record.plans[v].status = "AUTHORIZED"
        /\ row = NoRow /\ row' = NewRow(v) /\ record' = Bump(new) /\ At(v, "LOOP")
        /\ UNCHANGED <<rc, sent, ledger, reads>>
    BY DEF ExecutePlan, Executable, HasPlan, ExecutorSave, pvars
  <1>3. record.plans[v] \in Plan
    BY <1>1, <1>2, AttemptTypes
  <1>4. /\ new.plans = [record.plans EXCEPT ![v] = p] /\ new.attempts = record.attempts
        /\ new = [record EXCEPT !.plans = new.plans, !.status = "QUEUED"]
    BY <1>1, <1>3 DEF Record
  <1>5. p \in Plan /\ p.status = "EXECUTING"
    BY <1>3 DEF Plan
  <1> HIDE DEF p
  <1>6. /\ new.plans \in Seq(Plan) /\ DOMAIN new.plans = DOMAIN record.plans /\ new.plans[v] = p
        /\ \A w \in DOMAIN record.plans \ {v} : new.plans[w] = record.plans[w]
    BY <1>1, <1>2, <1>4, <1>5, ReplacedPlan
  <1> HIDE DEF new
  <1>7. new \in Record
    BY <1>1, <1>4, <1>6 DEF Record
  <1>8. /\ record' \in Record /\ record'.plans = new.plans /\ record'.attempts = new.attempts
        /\ record'.rev = NewRev /\ record'.status = "QUEUED" /\ record'.findings = record.findings
    BY <1>1, <1>2, <1>4, <1>7, BumpIs DEF Record
  <1>9. AttemptsOf(record, v) = {}
    BY <1>1, <1>2 DEF RecordInv, AttemptsOf, Submitted, Final
  <1>10. \A w : AttemptsOf(new, w) = AttemptsOf(record, w) /\ CompletedOf(new, w) = CompletedOf(record, w)
    BY <1>4 DEF AttemptsOf, CompletedOf
  <1>11. RecordInv(new)
    <2>1. \A a \in DOMAIN new.attempts : /\ HasPlan(new, new.attempts[a].v)
                                         /\ new.plans[new.attempts[a].v].status \in Submitted
      BY <1>1, <1>4, <1>5, <1>6 DEF RecordInv, HasPlan, Submitted
    <2>2. \A w \in Versions : InTurn(new, w)
      BY <1>1, <1>4, <1>10 DEF RecordInv, InTurn
    <2>3. OpenAttempts(new) = OpenAttempts(record)
      BY <1>4 DEF OpenAttempts
    <2>4. \A w \in DOMAIN new.plans : SettledAs(new, w)
      BY <1>1, <1>5, <1>6, <1>10, <2>3 DEF RecordInv, SettledAs, AllCompleted, Final
    <2>5. QED
      BY <1>7, <2>1, <2>2, <2>4 DEF RecordInv
  <1>12. RecordInv(record)' /\ Traced(record)'
    <2>1. RecordInv(record)'
      BY <1>8, <1>11, SamePlansAndAttempts
    <2>2. QED
      BY <1>1, <1>2, <1>4, <1>8, <2>1 DEF Traced
  <1>13. ProviderInv' /\ WriteAhead'
    BY <1>1, <1>2, <1>4, <1>8 DEF ProviderInv, WriteAhead, IsOf
  <1>14. RowInv'
    <2>1. NewRow(v) \in Row /\ NewRow(v) # NoRow /\ NewRow(v).ver = v
      BY RowsAreTyped, 0 \in Nat DEF NewRow
    <2>2. \A w \in DOMAIN record.plans : record.plans[w].status # "EXECUTING"
      BY <1>1, <1>2 DEF RowInv
    <2>3. QED
      BY <1>2, <1>5, <1>6, <1>8, <2>1, <2>2 DEF RowInv, HasPlan, Submitted
  <1>15. exec' \in [Versions -> {"NONE", "DONE"} \cup InCall] /\ exec'[v] = "LOOP"
    BY <1>1, <1>2 DEF At, InCall, Submitting
  <1>16. ASSUME NEW w \in Versions PROVE ExecInv(w)'
    <2>1. CASE w = v
      <3>1. AttemptsOf(record', v) = {} /\ CompletedOf(record', v) = {}
        BY <1>4, <1>8, <1>9 DEF AttemptsOf, CompletedOf
      <3>2. QED
        BY <1>15, <2>1, <3>1 DEF ExecInv
    <2>2. CASE w # v
      BY <1>2, <2>2 DEF ExecInv, OwnsActive, NewRow
    <2>3. QED
      BY <2>1, <2>2
  <1>17. \A w \in DOMAIN record.plans : record.plans[w].status \in Final =>
           HasPlan(record', w) /\ record'.plans[w].status \in Final
    BY <1>2, <1>6, <1>8 DEF HasPlan, Final
  <1>18. /\ ReadsInv' /\ RevInv' /\ \A r \in Reconcilers : CallInv(r)'
         /\ rc' \in [Reconcilers -> {NoCall} \cup CallRecord]
    BY <1>2, <1>8, <1>17, CopiesOutdated
  <1>20. Stands /\ Cautious
    BY <1>2, <1>4, <1>6, <1>8 DEF Stands, Cautious, Executable, HasPlan, Final
  <1>21. QED
    BY <1>12, <1>13, <1>14, <1>15, <1>16, <1>18, <1>20 DEF CaseInv, Upheld

\* The next payout's attempt is added when all before it have completed.
LEMMA StartAttemptStep ==
  ASSUME CaseInv, NEW v \in Versions, StartAttempt(v)
  PROVE  Upheld /\ Cautious
  <1> DEFINE t == [v |-> v, i |-> NextPayout(record, v), state |-> "SUBMITTING", tx |-> 0]
             new == StartedAttempt(record, v)
             n == Len(record.attempts)
             last == Len(record.attempts) + 1
             held == Cardinality(AttemptsOf(record, v))
  <1>1. /\ record \in Record /\ RecordInv(record) /\ Traced(record) /\ ProviderInv /\ WriteAhead /\ RowInv
        /\ exec \in [Versions -> {"NONE", "DONE"} \cup InCall]
    BY DEF CaseInv, RecordInv
  <1>2. /\ OwnsActive(v) /\ record' = Bump(new) /\ At(v, "BEAT")
        /\ UNCHANGED <<row, rc, sent, ledger, reads>>
        /\ AttemptsOf(record, v) = CompletedOf(record, v)
    BY DEF StartAttempt, ExecutorSave, pvars, CaseInv, ExecInv
  <1>3. held \in Nat /\ IsFiniteSet(AttemptsOf(record, v))
    BY <1>1, AttemptsAreFinite
  <1>4. NextPayout(record, v) = held + 1 /\ held + 1 <= Payouts
    BY DEF StartAttempt, NextPayout
  <1>5. t \in Attempt
    BY <1>3, <1>4, RecordAssumption DEF Attempt, OpenStates, RecordAssumption
  <1>6. new = [record EXCEPT !.attempts = Append(record.attempts, t)]
    BY <1>1 DEF StartedAttempt, Record
  <1>7. t.v = v /\ t.i = held + 1 /\ t.state = "SUBMITTING" /\ t.tx = 0
    BY <1>4
  <1> HIDE DEF t
  <1>8. n \in Nat /\ DOMAIN record.attempts = 1..n
    BY <1>1, AttemptTypes
  <1>9. /\ new \in Record /\ new.plans = record.plans /\ new.attempts = Append(record.attempts, t)
        /\ new.status = record.status /\ new.caseStatus = record.caseStatus /\ new.findings = record.findings
    <2>1. Append(record.attempts, t) \in Seq(Attempt)
      BY <1>1, <1>5 DEF Record
    <2> DEFINE appended == Append(record.attempts, t)
    <2>2. new = [record EXCEPT !.attempts = appended] /\ appended \in Seq(Attempt)
      BY <1>6, <2>1
    <2> HIDE DEF appended, new
    <2>3. /\ new \in Record /\ new.plans = record.plans /\ new.attempts = appended
          /\ new.status = record.status /\ new.caseStatus = record.caseStatus /\ new.findings = record.findings
      BY <1>1, <2>2 DEF Record
    <2>4. QED
      BY <2>3 DEF appended
  <1> HIDE DEF new
  <1>10. /\ DOMAIN new.attempts = DOMAIN record.attempts \cup {last} /\ last \notin DOMAIN record.attempts
         /\ new.attempts[last] = t /\ \A a \in DOMAIN record.attempts : new.attempts[a] = record.attempts[a]
         /\ Len(new.attempts) = last
    BY <1>1, <1>5, <1>8, <1>9 DEF Record
  <1>11. /\ record' \in Record /\ record'.plans = record.plans /\ record'.attempts = new.attempts
         /\ record'.rev = NewRev /\ record'.status = record.status
         /\ record'.caseStatus = record.caseStatus /\ record'.findings = record.findings
    BY <1>2, <1>9, BumpIs
  <1> HIDE DEF last, n
  <1>12. /\ AttemptsOf(new, v) = AttemptsOf(record, v) \cup {last}
         /\ \A w \in Versions \ {v} : AttemptsOf(new, w) = AttemptsOf(record, w)
         /\ \A w : CompletedOf(new, w) = CompletedOf(record, w)
    BY <1>7, <1>10 DEF AttemptsOf, CompletedOf
  <1>13. Cardinality(AttemptsOf(new, v)) = held + 1
    BY <1>3, <1>10, <1>12, FS_AddElement DEF AttemptsOf
  <1> HIDE DEF held
  <1>14. HasPlan(record, v) /\ record.plans[v].status = "EXECUTING"
    BY <1>1, <1>2 DEF RowInv, OwnsActive
  <1>15. RecordInv(new)
    <2>1. ASSUME NEW a \in DOMAIN new.attempts
          PROVE  HasPlan(new, new.attempts[a].v) /\ new.plans[new.attempts[a].v].status \in Submitted
      BY <1>1, <1>7, <1>9, <1>10, <1>14 DEF RecordInv, HasPlan, Submitted
    <2>2. ASSUME NEW w \in Versions PROVE InTurn(new, w)
      <3>1. InTurn(record, w)
        BY <1>1 DEF RecordInv
      <3>2. CASE w # v
        <4>1. \A a \in AttemptsOf(record, w) : new.attempts[a] = record.attempts[a]
          BY <1>10 DEF AttemptsOf
        <4>2. AttemptsOf(new, w) = AttemptsOf(record, w) /\ CompletedOf(new, w) = CompletedOf(record, w)
          BY <1>12, <3>2
        <4>3. QED
          BY <3>1, <4>1, <4>2 DEF InTurn
      <3>3. CASE w = v
        <4>1. \A a \in AttemptsOf(record, v) : new.attempts[a].i = record.attempts[a].i
          BY <1>10 DEF AttemptsOf
        <4>2. \A a \in AttemptsOf(record, v) : record.attempts[a].i <= held /\ record.attempts[a].i \in Nat
          BY <1>1, <3>1, <3>3, AttemptTypes DEF InTurn, AttemptsOf, Attempt, held
        <4>3. \A a \in AttemptsOf(new, v) : new.attempts[a].i <= held + 1
          BY <1>3, <1>7, <1>10, <1>12, <4>1, <4>2
        <4>4. \A a, b \in AttemptsOf(new, v) : new.attempts[a].i = new.attempts[b].i => a = b
          BY <1>3, <1>7, <1>10, <1>12, <3>1, <3>3, <4>1, <4>2 DEF InTurn
        <4>5. \A a, b \in AttemptsOf(new, v) \ CompletedOf(new, v) : a = b
          BY <1>2, <1>12
        <4>6. QED
          BY <1>4, <1>13, <3>3, <4>3, <4>4, <4>5 DEF InTurn
      <3>4. QED
        BY <3>2, <3>3
    <2>3. ASSUME NEW w \in DOMAIN new.plans PROVE SettledAs(new, w)
      <3>1. SUFFICES ASSUME record.plans[w].status \in Final PROVE SettledAs(new, w)
        BY <1>9 DEF SettledAs
      <3>2. w # v /\ SettledAs(record, w)
        BY <1>1, <1>9, <1>14, <3>1 DEF Final, RecordInv
      <3>3. AttemptsOf(new, w) = AttemptsOf(record, w)
        BY <1>7, <1>10, <3>2 DEF AttemptsOf
      <3>4. AttemptsOf(record, w) \cap OpenAttempts(new) = AttemptsOf(record, w) \cap OpenAttempts(record)
        BY <1>10 DEF AttemptsOf, OpenAttempts
      <3>5. QED
        BY <1>9, <1>12, <3>1, <3>2, <3>3, <3>4 DEF SettledAs, AllCompleted
    <2>4. QED
      BY <1>9, <2>1, <2>2, <2>3 DEF RecordInv
  <1>16. RecordInv(record)' /\ Traced(record)'
    <2>1. RecordInv(record)'
      BY <1>9, <1>11, <1>15, SamePlansAndAttempts
    <2>2. Traced(new)
      BY <1>1, <1>7, <1>10 DEF Traced
    <2>3. QED
      BY <1>2, <1>11, <2>1, <2>2 DEF Traced
  <1>17. ProviderInv'
    BY <1>1, <1>2 DEF ProviderInv, IsOf
  <1>18. WriteAhead'
    <2>1. {<<record.attempts[a].v, record.attempts[a].i>> : a \in DOMAIN record.attempts}
            \subseteq {<<record'.attempts[a].v, record'.attempts[a].i>> : a \in DOMAIN record'.attempts}
      BY <1>10, <1>11
    <2>2. QED
      BY <1>1, <1>2, <2>1 DEF WriteAhead
  <1>19. RowInv'
    BY <1>1, <1>2, <1>11 DEF RowInv, HasPlan
  <1>20. exec' \in [Versions -> {"NONE", "DONE"} \cup InCall] /\ exec'[v] = "BEAT"
    BY <1>1, <1>2 DEF At, InCall, Submitting
  <1>21. Attempting(v)'
    <2>1. AttemptsOf(record', v) = AttemptsOf(new, v) /\ Len(record'.attempts) = last
      BY <1>10, <1>11 DEF AttemptsOf
    <2>2. QED
      BY <1>7, <1>10, <1>11, <1>12, <1>13, <2>1 DEF Attempting, LastAttempt
  <1>22. ~AskedFor(Req(v))'
    <2>1. SUFFICES ASSUME AskedFor(<<v, held + 1>>) PROVE FALSE
      <3>1. Req(v)' = <<v, held + 1>>
        BY <1>11, <1>13 DEF Req, AttemptsOf
      <3>2. QED
        BY <1>2, <3>1 DEF AskedFor, IsOf
    <2>2. \E a \in DOMAIN record.attempts : record.attempts[a].v = v /\ record.attempts[a].i = held + 1
      <3>1. <<v, held + 1>> \in sent \cup {<<ledger[k].v, ledger[k].i>> : k \in DOMAIN ledger}
        BY <2>1 DEF AskedFor, IsOf
      <3>2. <<v, held + 1>> \in {<<record.attempts[a].v, record.attempts[a].i>> : a \in DOMAIN record.attempts}
        BY <1>1, <3>1 DEF WriteAhead
      <3>3. QED
        BY <3>2
    <2>3. \A a \in AttemptsOf(record, v) : record.attempts[a].i <= held /\ record.attempts[a].i \in Nat
      <3>1. InTurn(record, v)
        BY <1>1 DEF RecordInv
      <3>2. \A a \in AttemptsOf(record, v) : record.attempts[a] \in Attempt
        BY <1>1, AttemptTypes DEF AttemptsOf
      <3>3. QED
        BY <3>1, <3>2 DEF InTurn, Attempt, held
    <2>4. QED
      BY <1>3, <2>2, <2>3 DEF AttemptsOf
  <1>23. ASSUME NEW w \in Versions PROVE ExecInv(w)'
    <2>1. CASE w = v
      BY <1>20, <1>21, <1>22, <2>1 DEF ExecInv
    <2>2. CASE w # v
      BY <1>2, <2>2 DEF ExecInv, OwnsActive
    <2>3. QED
      BY <2>1, <2>2
  <1>24. \A w \in DOMAIN record.plans : record.plans[w].status \in Final =>
           HasPlan(record', w) /\ record'.plans[w].status \in Final
    BY <1>11 DEF HasPlan
  <1>25. /\ ReadsInv' /\ RevInv' /\ \A r \in Reconcilers : CallInv(r)'
         /\ rc' \in [Reconcilers -> {NoCall} \cup CallRecord]
    BY <1>2, <1>11, <1>24, CopiesOutdated
  <1>27. Stands /\ Cautious
    BY <1>10, <1>11 DEF Stands, Cautious, Executable, HasPlan
  <1>28. QED
    BY <1>16, <1>17, <1>18, <1>19, <1>20, <1>23, <1>25, <1>27 DEF CaseInv, Upheld

----------------------------------------------------------------------------
(* The provider, time and crashes.                                         *)

\* The ledger only grows, what has completed stays so, and no request comes
\* from nowhere.
LEMMA ProviderMoves ==
  ASSUME CaseInv, UNCHANGED <<record, row, exec, rc, reads>>, ProviderInv', WriteAhead',
         \A k \in DOMAIN ledger :
           /\ k \in DOMAIN ledger' /\ ledger'[k].v = ledger[k].v /\ ledger'[k].i = ledger[k].i
           /\ ledger[k].state # "PENDING" => ledger'[k].state = ledger[k].state,
         sent' \subseteq sent,
         \A k \in DOMAIN ledger' : k \in DOMAIN ledger \/ <<ledger'[k].v, ledger'[k].i>> \in sent
  PROVE  Upheld
  <1>2. RecordInv(record)' /\ Traced(record)'
    <2>1. Traced(record)
      BY DEF CaseInv
    <2>2. QED
      BY <2>1 DEF CaseInv, Traced
  <1>3. RowInv' /\ ReadsInv' /\ RevInv'
    BY DEF CaseInv, RowInv, ReadsInv, RevInv, RevsHeld, Calls, HasPlan
  <1>4. ASSUME NEW v \in Versions PROVE ExecInv(v)'
    <2>1. ExecInv(v)
      BY DEF CaseInv
    <2>2. (OwnsActive(v)' <=> OwnsActive(v)) /\ (Attempting(v)' <=> Attempting(v))
      BY DEF OwnsActive, Attempting, LastAttempt
    <2>3. AskedFor(Req(v))' => AskedFor(Req(v))
      BY DEF Req, AskedFor, IsOf
    <2>4. QED
      BY <2>1, <2>2, <2>3 DEF ExecInv
  <1>5. ASSUME NEW r \in Reconcilers PROVE CallInv(r)'
    <2>1. CallInv(r)
      BY DEF CaseInv
    <2>2. rc[r].pc # "IDLE" => Traced(rc[r].rec)'
      BY <2>1 DEF CallInv, Traced
    <2>3. QED
      BY <2>1, <2>2 DEF CallInv, Current, Claimed, Observes, Traced
  <1>6. CaseInv'
    BY <1>2, <1>3, <1>4, <1>5 DEF CaseInv
  <1>8. QED
    BY <1>6, SameStands DEF Upheld

\* A request that the provider accepts was recorded before.
LEMMA AcceptStep ==
  ASSUME CaseInv, NEW q \in sent, Accept(q)
  PROVE  Upheld
  <1>1. PICK s \in ProviderStates : ledger' = Append(ledger, [v |-> q[1], i |-> q[2], state |-> s])
    BY DEF Accept
  <1> DEFINE e == [v |-> q[1], i |-> q[2], state |-> s]
             last == Len(ledger) + 1
  <1>2. /\ sent' = sent \ {q} /\ UNCHANGED <<record, row, exec, rc, reads>>
        /\ ProviderInv /\ WriteAhead /\ q \in Request /\ ledger \in Seq(Payout)
    BY DEF Accept, CaseInv, ProviderInv, rvars
  <1>3. e \in Payout /\ q = <<e.v, e.i>> /\ e.state = s
    BY <1>2 DEF Payout, Request
  <1>4. e.v = q[1] /\ e.i = q[2]
    OBVIOUS
  <1>5. ledger' = Append(ledger, e)
    BY <1>1
  <1> HIDE DEF e
  <1>6. /\ ledger' \in Seq(Payout) /\ DOMAIN ledger' = DOMAIN ledger \cup {last}
        /\ last \notin DOMAIN ledger /\ ledger'[last] = e
        /\ \A k \in DOMAIN ledger : ledger'[k] = ledger[k]
    BY <1>2, <1>3, <1>5
  <1> HIDE DEF last
  <1>7. ProviderInv'
    <2>1. \A k, l \in DOMAIN ledger' : ledger'[k].v = ledger'[l].v /\ ledger'[k].i = ledger'[l].i => k = l
      BY <1>2, <1>4, <1>6 DEF ProviderInv, IsOf
    <2>2. \A x \in sent', k \in DOMAIN ledger' : ~(ledger'[k].v = x[1] /\ ledger'[k].i = x[2])
      <3>1. \A x \in sent' : x # q /\ x \in sent /\ x = <<x[1], x[2]>>
        BY <1>2 DEF ProviderInv, Request
      <3>2. QED
        BY <1>2, <1>3, <1>6, <3>1 DEF ProviderInv, IsOf
    <2>3. sent' \subseteq Request
      BY <1>2 DEF ProviderInv
    <2>4. QED
      BY <1>6, <2>1, <2>2, <2>3 DEF ProviderInv, IsOf
  <1>8. WriteAhead'
    <2>1. {<<ledger'[k].v, ledger'[k].i>> : k \in DOMAIN ledger'}
            \subseteq {<<ledger[k].v, ledger[k].i>> : k \in DOMAIN ledger} \cup {q}
      BY <1>3, <1>6
    <2>2. QED
      BY <1>2, <2>1 DEF WriteAhead
  <1>9. \A k \in DOMAIN ledger' : k \in DOMAIN ledger \/ <<ledger'[k].v, ledger'[k].i>> \in sent
    BY <1>3, <1>6
  <1>10. QED
    BY <1>2, <1>6, <1>7, <1>8, <1>9, ProviderMoves

\* A request that never arrives leaves nothing.
LEMMA LoseStep ==
  ASSUME CaseInv, NEW q \in sent, Lose(q)
  PROVE  Upheld
  <1>1. sent' = sent \ {q} /\ UNCHANGED <<record, row, exec, rc, reads, ledger>>
    BY DEF Lose, rvars
  <1>2. ProviderInv' /\ WriteAhead'
    BY <1>1 DEF CaseInv, ProviderInv, WriteAhead, IsOf
  <1>3. QED
    BY <1>1, <1>2, ProviderMoves

\* The provider settles a transaction that was pending.
LEMMA DecideStep ==
  ASSUME CaseInv, NEW k \in DOMAIN ledger, Decide(k)
  PROVE  Upheld
  <1>1. PICK s \in {"COMPLETED", "FAILED"} : ledger' = [ledger EXCEPT ![k].state = s]
    BY DEF Decide
  <1>2. /\ ledger[k].state = "PENDING" /\ UNCHANGED <<record, row, exec, rc, reads, sent>>
        /\ ProviderInv /\ WriteAhead /\ ledger \in Seq(Payout)
    BY DEF Decide, CaseInv, ProviderInv, rvars
  <1>3. ledger[k] \in Payout
    BY <1>2
  <1>4. /\ ledger' \in Seq(Payout) /\ DOMAIN ledger' = DOMAIN ledger
        /\ \A l \in DOMAIN ledger : /\ ledger'[l].v = ledger[l].v /\ ledger'[l].i = ledger[l].i
                                    /\ l # k => ledger'[l] = ledger[l]
    <2> DEFINE e == [ledger[k] EXCEPT !.state = s]
    <2>1. e \in Payout /\ e.v = ledger[k].v /\ e.i = ledger[k].i
      BY <1>3 DEF Payout, ProviderStates
    <2>2. ledger' = [ledger EXCEPT ![k] = e]
      BY <1>1
    <2> HIDE DEF e
    <2>3. QED
      BY <1>2, <2>1, <2>2
  <1>5. ProviderInv'
    BY <1>2, <1>4 DEF ProviderInv, IsOf
  <1>6. WriteAhead'
    <2>1. {<<ledger'[l].v, ledger'[l].i>> : l \in DOMAIN ledger'} = {<<ledger[l].v, ledger[l].i>> : l \in DOMAIN ledger}
      BY <1>4
    <2>2. QED
      BY <1>2, <2>1 DEF WriteAhead
  <1>7. \A l \in DOMAIN ledger : ledger[l].state # "PENDING" => ledger'[l].state = ledger[l].state
    BY <1>2, <1>4
  <1>8. QED
    BY <1>2, <1>4, <1>5, <1>6, <1>7, ProviderMoves

\* A lease that expires only makes the row old.
LEMMA LeaseExpiresStep ==
  ASSUME CaseInv, LeaseExpires
  PROVE  Upheld
  <1>1. row # NoRow /\ row' = [row EXCEPT !.fresh = FALSE] /\ UNCHANGED <<record, exec, rc, sent, ledger, reads>>
    BY HeldRow DEF LeaseExpires, rvars, pvars
  <1>2. RowInv' /\ NotTaken
    BY <1>1, RowMoves, 0 \in Nat
  <1>3. QED
    BY <1>1, <1>2, QuietStep DEF CaseInv

\* A restart drops the row of a settled plan.
LEMMA RecoveredRowIs ==
  ASSUME CaseInv, row' = RecoveredRow, record' = record
  PROVE  RowInv' /\ NotTaken
  <1>1. CASE row' = row
    BY <1>1, RowStays
  <1>2. CASE row' = NoRow /\ record.plans[row.ver].status \in Final
    BY <1>2, RowDropped DEF Final
  <1>3. QED
    BY <1>1, <1>2 DEF RecoveredRow

\* A submission that a crash cut off leaves record and provider as they are.
LEMMA CrashExecutorStep ==
  ASSUME CaseInv, NEW v \in Versions, CrashExecutor(v)
  PROVE  Upheld
  <1>1. RowInv' /\ NotTaken
    BY RecoveredRowIs DEF CrashExecutor, rvars
  <1>2. QED
    BY <1>1, ExecutorMoves DEF CrashExecutor, rvars, pvars

\* A call ends; the row is kept, handed on, or dropped.
LEMMA CallEnds ==
  ASSUME CaseInv, NotTaken, RowInv', UNCHANGED <<record, ledger, reads, sent, exec>>,
         NEW r \in Reconcilers, Call(r, NoCall)
  PROVE  Upheld
  <1>1. rc' \in [Reconcilers -> {NoCall} \cup CallRecord] /\ \A q \in Reconcilers : rc'[q] = NoCall \/ rc'[q] = rc[q]
    BY DEF Call, CaseInv
  <1>2. QED
    BY <1>1, QuietStep DEF CaseInv

\* So does a reconcile call that a crash cut off.
LEMMA CrashReconcilerStep ==
  ASSUME CaseInv, NEW r \in Reconcilers, CrashReconciler(r)
  PROVE  Upheld
  <1>1. RowInv' /\ NotTaken
    BY RecoveredRowIs DEF CrashReconciler, rvars
  <1>2. QED
    BY <1>1, CallEnds DEF CrashReconciler, rvars, pvars

----------------------------------------------------------------------------
(* The steps of a reconcile call.                                          *)

\* A call that ends without a save keeps everything.
LEMMA CallEndsAnd ==
  ASSUME CaseInv, NEW r \in Reconcilers, rc[r].pc # "IDLE", EndCall(r), UNCHANGED <<record, ledger, reads, sent, exec>>
  PROVE  Upheld
  <1>1. rc[r].v \in Versions
    BY CallsAreTyped DEF CallRecord
  <1>2. RowInv' /\ NotTaken
    <2>1. CASE row' = row
      BY <2>1, RowStays
    <2>2. CASE row' = ReadyRow(rc[r].v) /\ OwnsClaim(rc[r])
      <3>1. row # NoRow /\ row.ver = rc[r].v
        BY <2>2, HeldRow DEF OwnsClaim
      <3>2. QED
        BY <2>2, <3>1, RowMoves, 0 \in Nat, TRUE \in BOOLEAN
    <2>3. QED
      BY <2>1, <2>2 DEF EndCall
  <1>3. QED
    BY <1>2, CallEnds DEF EndCall

\* A call takes what it has on, asking or about to.
LEMMA CallMoves ==
  ASSUME CaseInv, NotTaken, RowInv', UNCHANGED <<record, ledger, reads, sent, exec>>,
         NEW r \in Reconcilers, NEW c \in CallRecord, Call(r, c), c.rev \in RevsHeld,
         c.pc \in {"LOOP", "ASK"}, c.pc = "ASK" => c.todo # {},
         c.todo \subseteq DOMAIN c.rec.attempts, HasPlan(c.rec, c.v), Traced(c.rec),
         record.rev = c.rev =>
           c.token # 0 /\ row'.state # "ACTIVE" /\ Observes(c.rec, c.todo)
  PROVE  Upheld
  <1>1. rc' = [rc EXCEPT ![r] = c] /\ rc'[r] = c
    BY DEF Call, CaseInv
  <1>2. Traced(c.rec)' /\ (Observes(c.rec, c.todo) => Observes(c.rec, c.todo)')
    BY DEF Traced, Observes
  <1>3. CallInv(r)'
    BY <1>1, <1>2 DEF CallInv, Current, Claimed, Traced, Observes
  <1>4. QED
    BY <1>1, <1>3, CallStep

\* A reconcile call begins with a copy of the record as it is.
LEMMA ReadCaseStep ==
  ASSUME CaseInv, NEW r \in Reconcilers, ReadCase(r)
  PROVE  Upheld
  <1> DEFINE v == Latest(record)
             c == [pc |-> "CLAIM", v |-> v, token |-> 0, rev |-> record.rev, rec |-> record, todo |-> {}]
  <1>1. /\ record \in Record /\ v > 0 /\ record.plans[v].status = "EXECUTING"
        /\ UNCHANGED <<record, row, exec, sent, ledger, reads>> /\ Traced(record)
        /\ rc \in [Reconcilers -> {NoCall} \cup CallRecord]
    BY DEF ReadCase, CaseInv, RecordInv, rvars, pvars
  <1>2. rc' = [rc EXCEPT ![r] = c]
    BY DEF ReadCase, Call
  <1>3. v \in DOMAIN record.plans
    BY <1>1, AttemptTypes DEF Latest
  <1> HIDE DEF v
  <1>4. v \in Versions
    BY <1>1, <1>3 DEF CaseInv, RowInv
  <1>5. /\ c \in CallRecord /\ c.pc = "CLAIM" /\ c.v = v /\ c.rev = record.rev /\ c.rec = record /\ c.todo = {}
    BY <1>1, <1>4 DEF CallRecord, Record
  <1> HIDE DEF c
  <1>6. rc'[r] = c
    BY <1>1, <1>2
  <1>7. CallInv(r)'
    BY <1>1, <1>3, <1>5, <1>6 DEF CallInv, HasPlan, Current, Traced
  <1>9. QED
    BY <1>1, <1>2, <1>5, <1>7, RowStays, CallStep, HeldRevisions

\* What a call has that goes on to ask, with the record as rec shows it.
LEMMA ObservingIs ==
  ASSUME CaseInv, NEW r \in Reconcilers, rc[r].pc # "IDLE", NEW rec \in Record, NEW t \in Nat
  PROVE  LET c == Observing(rc[r], rec, t) IN
         /\ c \in CallRecord /\ c.pc = "LOOP" /\ c.v = rc[r].v /\ c.token = t /\ c.rev = rec.rev
         /\ c.rec.plans = rec.plans /\ c.rec.attempts = rec.attempts /\ c.rec.findings = rec.findings
         /\ c.rec.caseStatus = rec.caseStatus /\ c.rec.status = "RECONCILING"
         /\ c.todo = OpenAttempts(rec)
  <1> DEFINE new == [rec EXCEPT !.status = "RECONCILING"]
  <1>1. new \in Record
    BY DEF Record
  <1>2. rec.rev \in Nat /\ OpenAttempts(rec) \in SUBSET Nat
    BY AttemptTypes DEF OpenAttempts, Record
  <1>3. rc[r].v \in Versions
    BY CallsAreTyped DEF CallRecord
  <1>4. /\ new.plans = rec.plans /\ new.attempts = rec.attempts /\ new.findings = rec.findings
        /\ new.caseStatus = rec.caseStatus /\ new.status = "RECONCILING"
    BY DEF Record
  <1> HIDE DEF new
  <1>5. Observing(rc[r], rec, t) = [pc |-> "LOOP", v |-> rc[r].v, token |-> t, rev |-> rec.rev,
                                    rec |-> new, todo |-> OpenAttempts(rec)]
    BY DEF Observing, new
  <1>6. QED
    BY <1>1, <1>2, <1>3, <1>4, <1>5 DEF CallRecord

\* A claim takes a row that is ready or whose lease has passed.
LEMMA ClaimStep ==
  ASSUME CaseInv, NEW r \in Reconcilers, Claim(r)
  PROVE  Upheld
  <1>1. PICK t \in NewTokens : row' = ClaimedRow(rc[r].v, t) /\ Call(r, Observing(rc[r], record, t))
    BY DEF Claim
  <1>2. /\ rc[r].pc = "CLAIM" /\ row.ver = rc[r].v /\ row.state # "NONE"
        /\ UNCHANGED <<record, exec, sent, ledger, reads>>
        /\ record \in Record /\ RecordInv(record) /\ Traced(record)
    BY DEF Claim, ClaimableReady, ClaimableStale, rvars, pvars, CaseInv, RecordInv
  <1>3. t \in Nat \ {0}
    BY TokenIsNotZero
  <1>4. row # NoRow /\ rc[r].v \in Versions /\ HasPlan(record, rc[r].v)
    BY <1>2, HeldRow
  <1>5. RowInv' /\ NotTaken
    BY <1>1, <1>2, <1>3, <1>4, RowMoves, TRUE \in BOOLEAN
  <1>6. PICK c \in CallRecord :
          /\ Call(r, c) /\ c.pc = "LOOP" /\ c.v = rc[r].v /\ c.token = t /\ c.rev = record.rev
          /\ c.rec.plans = record.plans /\ c.rec.attempts = record.attempts /\ c.rec.findings = record.findings
          /\ c.todo = OpenAttempts(record)
    BY <1>1, <1>2, <1>3, ObservingIs
  <1>7. row'.state = "RECONCILING"
    BY <1>1 DEF ClaimedRow
  <1>8. c.todo \subseteq DOMAIN c.rec.attempts /\ HasPlan(c.rec, c.v) /\ Traced(c.rec)
    BY <1>2, <1>4, <1>6 DEF OpenAttempts, HasPlan, Traced
  <1>9. Observes(c.rec, c.todo)
    BY <1>6 DEF Observes, OpenAttempts, OpenStates
  <1>10. QED
    BY <1>2, <1>3, <1>5, <1>6, <1>7, <1>8, <1>9, CallMoves, HeldRevisions

\* The row was dropped since the read, so the copy is outdated.
LEMMA GoOnUnclaimedStep ==
  ASSUME CaseInv, NEW r \in Reconcilers, GoOnUnclaimed(r)
  PROVE  Upheld
  <1>1. /\ rc[r].pc = "CLAIM" /\ row.ver # rc[r].v /\ Call(r, Observing(rc[r], rc[r].rec, 0))
        /\ UNCHANGED <<record, row, exec, sent, ledger, reads>> /\ CallInv(r) /\ RowInv
    BY DEF GoOnUnclaimed, rvars, pvars, CaseInv
  <1>2. PICK rec \in Record : rec = rc[r].rec
    BY <1>1, CallsAreTyped DEF CallRecord
  <1>3. rec.rev = rc[r].rev /\ HasPlan(rec, rc[r].v) /\ Traced(rec)
    BY <1>1, <1>2 DEF CallInv
  <1>4. record.rev # rec.rev
    <2>1. SUFFICES ASSUME Current(rc[r]) PROVE FALSE
      BY <1>3 DEF Current
    <2>2. HasPlan(record, rc[r].v) /\ record.plans[rc[r].v].status = "EXECUTING"
      BY <1>1, <1>2, <1>3, <2>1 DEF CallInv
    <2>3. QED
      BY <1>1, <2>2 DEF RowInv, HasPlan
  <1>5. PICK c \in CallRecord :
          /\ Call(r, c) /\ c.pc = "LOOP" /\ c.v = rc[r].v /\ c.rev = rec.rev
          /\ c.rec.plans = rec.plans /\ c.rec.attempts = rec.attempts /\ c.todo = OpenAttempts(rec)
    BY <1>1, <1>2, ObservingIs, 0 \in Nat
  <1>6. c.todo \subseteq DOMAIN c.rec.attempts /\ HasPlan(c.rec, c.v) /\ Traced(c.rec)
    BY <1>3, <1>5 DEF OpenAttempts, HasPlan, Traced
  <1>7. c.rev \in RevsHeld
    BY <1>1, <1>3, <1>5, HeldRevisions
  <1>8. QED
    BY <1>1, <1>4, <1>5, <1>6, <1>7, RowStays, CallMoves

\* A refused claim changes nothing but the call.
LEMMA ClaimRefusedStep ==
  ASSUME CaseInv, NEW r \in Reconcilers, ClaimRefused(r)
  PROVE  Upheld
  BY RowStays, CallEnds DEF ClaimRefused, rvars, pvars

\* A call asks on only while it holds its claim, which it renews.
LEMMA AskProviderStep ==
  ASSUME CaseInv, NEW r \in Reconcilers, AskProvider(r)
  PROVE  Upheld
  <1>1. /\ rc[r].pc = "LOOP" /\ rc[r].todo # {} /\ UNCHANGED <<record, exec, sent, ledger, reads>> /\ CallInv(r)
    BY DEF AskProvider, rvars, pvars, CaseInv
  <1>2. CASE EndCall(r)
    BY <1>1, <1>2, CallEndsAnd
  <1>3. ASSUME Call(r, [rc[r] EXCEPT !.pc = "ASK"]),
               row' = row \/ (OwnsClaim(rc[r]) /\ row' = [row EXCEPT !.fresh = TRUE])
        PROVE  Upheld
    <2>1. RowInv' /\ NotTaken /\ row'.state = row.state
      <3>1. CASE row' = row
        BY <1>1, <3>1, RowStays
      <3>2. CASE OwnsClaim(rc[r]) /\ row' = [row EXCEPT !.fresh = TRUE]
        <4>1. row # NoRow /\ row \in Row
          BY <3>2, HeldRow DEF OwnsClaim, CaseInv, RowInv
        <4>2. row'.state = row.state
          BY <3>2, <4>1 DEF Row
        <4>3. QED
          BY <1>1, <3>2, <4>1, <4>2, RowMoves, 0 \in Nat
      <3>3. QED
        BY <1>3, <3>1, <3>2
    <2>2. rc[r] \in CallRecord
      BY <1>1, CallsAreTyped
    <2>3. PICK c \in CallRecord :
            /\ Call(r, c) /\ c.pc = "ASK" /\ c.v = rc[r].v /\ c.token = rc[r].token /\ c.rev = rc[r].rev
            /\ c.rec = rc[r].rec /\ c.todo = rc[r].todo
      BY <1>3, <2>2 DEF CallRecord
    <2>4. c.todo \subseteq DOMAIN c.rec.attempts /\ HasPlan(c.rec, c.v) /\ Traced(c.rec)
      BY <1>1, <2>3 DEF CallInv
    <2>5. record.rev = c.rev =>
            c.token # 0 /\ row'.state # "ACTIVE" /\ Observes(c.rec, c.todo)
      BY <1>1, <2>1, <2>3 DEF CallInv, Current, Claimed
    <2>6. c.rev \in RevsHeld
      BY <1>1, <2>3, HeldRevisions
    <2>7. QED
      BY <1>1, <2>1, <2>3, <2>4, <2>5, <2>6, CallMoves
  <1>4. CASE ~Claimed(rc[r])
    <2>1. Call(r, [rc[r] EXCEPT !.pc = "ASK"])
      BY <1>4 DEF AskProvider
    <2>2. row' = row
      BY <1>4 DEF AskProvider
    <2>3. QED
      BY <1>3, <2>1, <2>2
  <1>5. CASE Claimed(rc[r]) /\ OwnsClaim(rc[r])
    BY <1>3, <1>5 DEF AskProvider
  <1>6. CASE Claimed(rc[r]) /\ ~OwnsClaim(rc[r])
    BY <1>2, <1>6 DEF AskProvider
  <1>7. QED
    BY <1>4, <1>5, <1>6

\* The attempt that is asked about is one the call has still to ask about.
LEMMA AskedIs ==
  ASSUME CaseInv, NEW r \in Reconcilers, rc[r].pc = "ASK"
  PROVE  /\ rc[r].rec \in Record /\ Traced(rc[r].rec)
         /\ Asked(rc[r]) \in rc[r].todo /\ Asked(rc[r]) \in DOMAIN rc[r].rec.attempts
         /\ AskedAttempt(rc[r]) \in Attempt
  <1>1. rc[r] \in CallRecord /\ CallInv(r)
    BY CallsAreTyped DEF CaseInv
  <1>2. /\ rc[r].todo \in SUBSET Nat /\ rc[r].todo # {} /\ rc[r].rec \in Record /\ Traced(rc[r].rec)
        /\ rc[r].todo \subseteq DOMAIN rc[r].rec.attempts
    BY <1>1 DEF CallRecord, CallInv
  <1>3. Asked(rc[r]) \in rc[r].todo
    BY <1>2, MinIsLeast DEF Asked
  <1>4. QED
    BY <1>2, <1>3, AttemptTypes DEF AskedAttempt

\* What the provider says of the attempt is noted, or the call ends.
LEMMA Noting ==
  ASSUME CaseInv, NEW r \in Reconcilers, rc[r].pc = "ASK", NEW texts, NEW rec, NEW todo \in SUBSET rc[r].todo,
         NEW s, NEW tx, Marks(rc[r].rec, rec, Asked(rc[r]), s, tx), Traced(rec), s = "FAILED" => tx # 0,
         Store(r, texts, rec, todo), UNCHANGED <<record, exec, sent, ledger, reads>>
  PROVE  Upheld
  <1>1. CASE EndCall(r)
    BY <1>1, CallEndsAnd
  <1>2. CASE Call(r, [rc[r] EXCEPT !.pc = "LOOP", !.rec = rec, !.todo = todo]) /\ UNCHANGED row
    <2>1. rc[r] \in CallRecord /\ CallInv(r)
      BY CallsAreTyped DEF CaseInv
    <2>2. rec \in Record /\ rec.plans = rc[r].rec.plans /\ DOMAIN rec.attempts = DOMAIN rc[r].rec.attempts
      BY DEF Marks
    <2>3. todo \in SUBSET Nat
      BY <2>1 DEF CallRecord
    <2>d. PICK d \in CallRecord : d = rc[r]
      BY <2>1
    <2>c. PICK c : c = [d EXCEPT !.pc = "LOOP", !.rec = rec, !.todo = todo]
      OBVIOUS
    <2>4. /\ c \in CallRecord /\ Call(r, c) /\ c.pc = "LOOP" /\ c.v = rc[r].v /\ c.token = rc[r].token
          /\ c.rev = rc[r].rev /\ c.rec = rec /\ c.todo = todo
      <3>1. Call(r, c)
        BY <1>2, <2>c, <2>d
      <3>2. /\ c \in CallRecord /\ c.pc = "LOOP" /\ c.v = d.v /\ c.token = d.token /\ c.rev = d.rev
            /\ c.rec = rec /\ c.todo = todo
        BY <2>2, <2>3, <2>c DEF CallRecord
      <3>3. QED
        BY <2>d, <3>1, <3>2
    <2>5. ASSUME Current(rc[r]) PROVE rc[r].token # 0 /\ row.state # "ACTIVE" /\ Observes(rec, todo)
      <3>1. Claimed(rc[r]) /\ row.state # "ACTIVE" /\ Observes(rc[r].rec, rc[r].todo)
        BY <2>1, <2>5 DEF CallInv
      <3>2. Asked(rc[r]) \in OpenAttempts(record)
        BY <3>1, AskedIs DEF Observes
      <3>3. Observes(rec, todo)
        BY <3>1, <3>2 DEF Observes, Marks
      <3>4. QED
        BY <3>1, <3>3 DEF Claimed
    <2>6. record.rev = c.rev =>
            c.token # 0 /\ row'.state # "ACTIVE" /\ Observes(c.rec, c.todo)
      BY <1>2, <2>4, <2>5 DEF Current
    <2>7. HasPlan(c.rec, c.v) /\ c.todo \subseteq DOMAIN c.rec.attempts /\ Traced(c.rec)
      BY <2>1, <2>2, <2>4 DEF CallInv, HasPlan
    <2>8. c.rev \in RevsHeld
      BY <2>4, HeldRevisions
    <2>9. QED
      BY <1>2, <2>4, <2>6, <2>7, <2>8, RowStays, CallMoves
  <1>3. QED
    BY <1>1, <1>2 DEF Store

\* What is not asked about again.
LEMMA RestIs ==
  ASSUME NEW c
  PROVE  Rest(c) \in SUBSET c.todo /\ {} \in SUBSET c.todo
  BY DEF Rest

\* A listed or fetched transaction of the payout gives its state.
LEMMA TakeResultStep ==
  ASSUME CaseInv, NEW r \in Reconcilers, rc[r].pc = "ASK", NEW texts, NEW k \in DOMAIN ledger,
         IsOf(k, <<AskedAttempt(rc[r]).v, AskedAttempt(rc[r]).i>>), TakeResult(r, texts, k),
         UNCHANGED <<record, exec, sent, ledger, reads>>
  PROVE  Upheld
  <1> DEFINE s == ledger[k].state
             a == Asked(rc[r])
             todo == IF s = "COMPLETED" THEN Rest(rc[r]) ELSE {}
  <1>0. PICK found \in ResultFindings(s) : Store(r, texts, WithResult(rc[r].rec, a, s, k, found), todo)
    BY DEF TakeResult
  <1>1. PICK rec : rec = WithResult(rc[r].rec, a, s, k, found)
    OBVIOUS
  <1>2. k \in Nat \ {0} /\ s \in ProviderStates
    <2>1. ledger \in Seq(Payout)
      BY DEF CaseInv, ProviderInv
    <2>2. k \in Nat \ {0} /\ ledger[k] \in Payout
      BY <2>1
    <2>3. QED
      BY <2>2 DEF Payout
  <1>3. rc[r].rec \in Record /\ Traced(rc[r].rec) /\ a \in DOMAIN rc[r].rec.attempts
    BY AskedIs
  <1>4. Marks(rc[r].rec, rec, a, s, k)
    BY <1>1, <1>2, <1>3, WithResultIs
  <1>5. Traced(rec)
    BY <1>2, <1>3, <1>4, MarksTraced DEF AskedAttempt
  <1>6. todo \in SUBSET rc[r].todo
    BY RestIs
  <1>7. Store(r, texts, rec, todo)
    BY <1>0, <1>1
  <1> HIDE DEF todo, s, a
  <1>8. PICK t \in SUBSET rc[r].todo : t = todo
    BY <1>6
  <1>9. PICK x : x = s
    OBVIOUS
  <1>10. Marks(rc[r].rec, rec, Asked(rc[r]), x, k) /\ Store(r, texts, rec, t)
    BY <1>4, <1>7, <1>8, <1>9 DEF a
  <1>11. k # 0
    BY DEF CaseInv, ProviderInv
  <1>12. x = "FAILED" => k # 0
    BY <1>11
  <1>13. QED
    BY <1>2, <1>5, <1>10, <1>12, Noting

\* The state of a known transaction is stored in the call's copy.
LEMMA ObserveStep ==
  ASSUME CaseInv, NEW r \in Reconcilers, Observe(r)
  PROVE  Upheld
  <1>1. /\ rc[r].pc = "ASK" /\ AskedAttempt(rc[r]).tx # 0
        /\ UNCHANGED <<record, exec, sent, ledger, reads>>
    BY DEF Observe, rvars, pvars
  <1>2. PICK k : k = AskedAttempt(rc[r]).tx
    OBVIOUS
  <1>3. k \in DOMAIN ledger /\ IsOf(k, <<AskedAttempt(rc[r]).v, AskedAttempt(rc[r]).i>>)
    BY <1>1, <1>2, AskedIs DEF Traced, IsOf, AskedAttempt
  <1>4. TakeResult(r, {Text("payout_reconciliation", Asked(rc[r]), ledger[k].state)}, k)
    BY <1>2 DEF Observe
  <1>5. QED
    BY <1>1, <1>3, <1>4, TakeResultStep

\* No answer that names the transaction: the attempt is ambiguous.
LEMMA AmbiguousStep ==
  ASSUME CaseInv, NEW r \in Reconcilers, rc[r].pc = "ASK", NEW texts,
         Store(r, texts, Ambiguous(rc[r].rec, Asked(rc[r])), Rest(rc[r])),
         UNCHANGED <<record, exec, sent, ledger, reads>>
  PROVE  Upheld
  <1>1. PICK rec : rec = Ambiguous(rc[r].rec, Asked(rc[r]))
    OBVIOUS
  <1>2. PICK todo \in SUBSET rc[r].todo : todo = Rest(rc[r])
    BY RestIs
  <1>3. PICK tx : tx = rc[r].rec.attempts[Asked(rc[r])].tx
    OBVIOUS
  <1>4. rc[r].rec \in Record /\ Traced(rc[r].rec) /\ Asked(rc[r]) \in DOMAIN rc[r].rec.attempts
    BY AskedIs
  <1>5. Marks(rc[r].rec, rec, Asked(rc[r]), "AMBIGUOUS", tx)
    BY <1>1, <1>3, <1>4, AmbiguousIs
  <1>6. Traced(rec)
    <2>1. tx # 0 => /\ tx \in DOMAIN ledger
                    /\ IsOf(tx, <<rc[r].rec.attempts[Asked(rc[r])].v, rc[r].rec.attempts[Asked(rc[r])].i>>)
      BY <1>3, <1>4 DEF Traced, IsOf
    <2>2. QED
      BY <1>4, <1>5, <2>1, MarksTraced
  <1>7. "AMBIGUOUS" = "FAILED" => tx # 0
    OBVIOUS
  <1>8. QED
    BY <1>1, <1>2, <1>5, <1>6, <1>7, Noting

\* A question that fails leaves the attempt AMBIGUOUS in the call's copy.
LEMMA AskFailsStep ==
  ASSUME CaseInv, NEW r \in Reconcilers, AskFails(r)
  PROVE  Upheld
  <1>1. PICK texts : Store(r, texts, Ambiguous(rc[r].rec, Asked(rc[r])), Rest(rc[r]))
    BY DEF AskFails
  <1>2. rc[r].pc = "ASK" /\ UNCHANGED <<record, exec, sent, ledger, reads>>
    BY DEF AskFails, rvars, pvars
  <1>3. QED
    BY <1>1, <1>2, AmbiguousStep

\* A look-up stores the one transaction that it finds, or leaves the attempt
\* AMBIGUOUS.
LEMMA LookupStep ==
  ASSUME CaseInv, NEW r \in Reconcilers, Lookup(r)
  PROVE  Upheld
  <1> DEFINE Texts(k) == {Text("payout_reconciliation_lookup", Asked(rc[r]), ledger[k].state),
                          Text("payout_reconciliation/listed", Asked(rc[r]), ledger[k].state)}
             noted(k) == [rc[r].rec EXCEPT !.attempts[Asked(rc[r])].tx = k]
  <1>1. rc[r].pc = "ASK" /\ UNCHANGED <<record, exec, sent, ledger, reads>>
    BY DEF Lookup, rvars, pvars
  <1>2. CASE Store(r, {}, Ambiguous(rc[r].rec, Asked(rc[r])), Rest(rc[r]))
    BY <1>1, <1>2, AmbiguousStep
  <1>3. ASSUME NEW k \in Seen(rc[r]), TakeResult(r, Texts(k), k) PROVE Upheld
    <2>1. k \in DOMAIN ledger /\ IsOf(k, <<AskedAttempt(rc[r]).v, AskedAttempt(rc[r]).i>>)
      BY DEF Seen, IsOf
    <2>2. QED
      BY <1>1, <1>3, <2>1, TakeResultStep
  <1>4. ASSUME NEW k \in Seen(rc[r]),
               Store(r, {Text("payout_reconciliation_lookup", Asked(rc[r]), "conflict")},
                     Ambiguous(noted(k), Asked(rc[r])), Rest(rc[r]))
        PROVE  Upheld
    <2> DEFINE a == Asked(rc[r])
    <2>1. k \in DOMAIN ledger /\ IsOf(k, <<rc[r].rec.attempts[a].v, rc[r].rec.attempts[a].i>>)
      BY DEF Seen, IsOf, AskedAttempt
    <2>2. rc[r].rec \in Record /\ Traced(rc[r].rec) /\ a \in DOMAIN rc[r].rec.attempts
      BY <1>1, AskedIs
    <2>3. k \in Nat
      BY <2>1 DEF CaseInv, ProviderInv
    <2>4. Marks(rc[r].rec, noted(k), a, rc[r].rec.attempts[a].state, k)
      BY <2>2, <2>3, NotedIs
    <2>5. PICK n : n = noted(k)
      OBVIOUS
    <2>6. PICK rec : rec = Ambiguous(n, a)
      OBVIOUS
    <2> HIDE DEF noted
    <2>7. n \in Record /\ a \in DOMAIN n.attempts /\ n.attempts[a].tx = k
      BY <2>2, <2>4, <2>5 DEF Marks
    <2>8. Marks(n, rec, a, "AMBIGUOUS", k)
      BY <2>6, <2>7, AmbiguousIs
    <2>9. Marks(rc[r].rec, rec, a, "AMBIGUOUS", k)
      BY <2>4, <2>5, <2>8 DEF Marks
    <2>10. Traced(rec)
      BY <2>1, <2>2, <2>9, MarksTraced
    <2>11. PICK todo \in SUBSET rc[r].todo : todo = Rest(rc[r])
      BY RestIs
    <2>12. PICK texts : Store(r, texts, rec, todo)
      BY <1>4, <2>5, <2>6, <2>11
    <2>13. "AMBIGUOUS" = "FAILED" => k # 0
      OBVIOUS
    <2>14. QED
      BY <1>1, <2>9, <2>10, <2>12, <2>13, Noting
  <1>5. QED
    BY <1>2, <1>3, <1>4 DEF Lookup

\* A call that saved releases its row, or leaves it ready for the next.
LEMMA ReleaseStep ==
  ASSUME CaseInv, NEW r \in Reconcilers, Release(r)
  PROVE  Upheld
  <1>1. rc[r].pc = "RELEASE" /\ UNCHANGED <<record, exec, sent, ledger, reads>> /\ CallInv(r)
    BY DEF Release, rvars, pvars, CaseInv
  <1>2. CASE EndCall(r)
    BY <1>1, <1>2, CallEndsAnd
  <1>3. CASE rc[r].rec.status \in Final /\ row' = RowAfterRelease(rc[r].v) /\ Call(r, NoCall)
    <2>1. record.plans[rc[r].v].status \in Final
      BY <1>1, <1>3 DEF CallInv
    <2>2. RowInv' /\ NotTaken
      <3>1. CASE row' = row
        BY <1>1, <3>1, RowStays
      <3>2. CASE row' = NoRow /\ row.ver = rc[r].v
        BY <1>1, <2>1, <3>2, RowDropped DEF Final
      <3>3. QED
        BY <1>3, <3>1, <3>2 DEF RowAfterRelease
    <2>3. QED
      BY <1>1, <1>3, <2>2, CallEnds
  <1>4. QED
    BY <1>2, <1>3 DEF Release

----------------------------------------------------------------------------
(* The save that ends a reconcile call.                                    *)

\* No open attempt is left behind by a settlement: the one that may be other
\* than completed is the one that failed.
LEMMA SettlementIs ==
  ASSUME NEW rec, RecordInv(rec), NEW v \in Versions
  PROVE  LET s == SettlementStatus(rec, v) IN
         /\ s \in Final \cup {"PARTIAL", "BLOCKED"}
         /\ s = "RECONCILED" <=> AllCompleted(rec, v)
         /\ s \in Final => AttemptsOf(rec, v) \cap OpenAttempts(rec) = {}
  <1> DEFINE s == SettlementStatus(rec, v)
  <1>1. CASE AllCompleted(rec, v)
    <2>1. s = "RECONCILED"
      BY <1>1 DEF SettlementStatus
    <2>2. AttemptsOf(rec, v) = CompletedOf(rec, v)
      BY <1>1, CompletedAreAll
    <2>3. \A a \in CompletedOf(rec, v) : a \notin OpenAttempts(rec)
      BY DEF CompletedOf, OpenAttempts, OpenStates
    <2> HIDE DEF s
    <2>4. QED
      BY <1>1, <2>1, <2>2, <2>3 DEF Final, s
  <1>2. CASE ~AllCompleted(rec, v) /\ FailedOf(rec, v) # {}
    <2>1. s = "FAILED"
      BY <1>2 DEF SettlementStatus
    <2>2. PICK f \in FailedOf(rec, v) : TRUE
      BY <1>2
    <2>3. f \in AttemptsOf(rec, v) \ CompletedOf(rec, v) /\ f \notin OpenAttempts(rec)
      BY DEF FailedOf, CompletedOf, OpenAttempts, OpenStates
    <2>4. \A a \in OpenAttempts(rec) : a \notin CompletedOf(rec, v)
      BY DEF CompletedOf, OpenAttempts, OpenStates
    <2>5. InTurn(rec, v)
      BY DEF RecordInv
    <2>6. AttemptsOf(rec, v) \cap OpenAttempts(rec) = {}
      BY <2>3, <2>4, <2>5 DEF InTurn
    <2> HIDE DEF s
    <2>7. QED
      BY <1>2, <2>1, <2>6 DEF Final, s
  <1>3. CASE ~AllCompleted(rec, v) /\ FailedOf(rec, v) = {} /\ AttemptsOf(rec, v) \cap OpenAttempts(rec) = {}
    <2>1. s = "FAILED"
      BY <1>3 DEF SettlementStatus
    <2> HIDE DEF s
    <2>2. QED
      BY <1>3, <2>1 DEF Final, s
  <1>4. CASE ~AllCompleted(rec, v) /\ FailedOf(rec, v) = {} /\ AttemptsOf(rec, v) \cap OpenAttempts(rec) # {}
    <2>1. s \in {"PARTIAL", "BLOCKED"}
      BY <1>4, PausedStatusIs DEF SettlementStatus
    <2> HIDE DEF s
    <2>2. QED
      BY <1>4, <2>1 DEF Final, s
  <1>5. QED
    BY <1>1, <1>2, <1>3, <1>4

\* The plan takes the status if that is final, and is left alone if not.
LEMMA SettledIs ==
  ASSUME NEW rec \in Record, RecordInv(rec), NEW v \in Versions, HasPlan(rec, v)
  PROVE  LET new == Settled(rec, v)
             s == SettlementStatus(rec, v)
         IN /\ new \in Record /\ new.status = s /\ new.attempts = rec.attempts
            /\ DOMAIN new.plans = DOMAIN rec.plans
            /\ \A w \in DOMAIN rec.plans : new.plans[w].approval = rec.plans[w].approval
            /\ \A w \in DOMAIN rec.plans \ {v} : new.plans[w] = rec.plans[w]
            /\ new.plans[v].status = IF s \in Final THEN s ELSE rec.plans[v].status
            /\ rec.findings \subseteq new.findings
  <1> DEFINE new == Settled(rec, v)
  <1>1. PICK s : s = SettlementStatus(rec, v)
    OBVIOUS
  <1>2. s \in Final \cup {"PARTIAL", "BLOCKED"}
    BY <1>1, SettlementIs
  <1>3. v \in DOMAIN rec.plans /\ rec.plans[v] \in Plan
    BY AttemptTypes DEF HasPlan
  <1>4. CASE s \in Final
    <2> DEFINE p == [rec.plans[v] EXCEPT !.status = s]
    <2>1. p \in Plan /\ p.status = s /\ p.approval = rec.plans[v].approval
      BY <1>3, <1>4 DEF Plan
    <2>2. new.plans = [rec.plans EXCEPT ![v] = p]
      BY <1>1, <1>3, <1>4 DEF Settled, Record
    <2>3. new.caseStatus \in {rec.caseStatus, "CLOSED"}
      BY <1>1, <1>4 DEF Settled, Record
    <2>4. new = [rec EXCEPT !.status = s, !.plans = new.plans, !.caseStatus = new.caseStatus]
      BY <1>1, <1>4 DEF Settled, Record
    <2> HIDE DEF p, new
    <2>5. /\ new.plans \in Seq(Plan) /\ DOMAIN new.plans = DOMAIN rec.plans /\ new.plans[v] = p
          /\ \A w \in DOMAIN rec.plans \ {v} : new.plans[w] = rec.plans[w]
      BY <1>3, <2>1, <2>2, ReplacedPlan
    <2>6. new \in Record /\ new.status = s /\ new.attempts = rec.attempts /\ new.findings = rec.findings
      BY <1>4, <2>3, <2>4, <2>5 DEF Record, Final
    <2>7. QED
      BY <1>1, <1>4, <2>1, <2>5, <2>6 DEF new
  <1>5. CASE s \notin Final
    <2>1. new.findings \in {rec.findings, rec.findings \cup {"UNRESOLVABLE"}}
      BY <1>1, <1>5 DEF Settled, Record
    <2>2. new = [rec EXCEPT !.status = s, !.findings = new.findings]
      BY <1>1, <1>5 DEF Settled, Record
    <2> HIDE DEF new
    <2>3. new.findings \in SUBSET Findings
      BY <2>1 DEF Record, Findings
    <2>4. /\ new \in Record /\ new.status = s /\ new.attempts = rec.attempts /\ new.plans = rec.plans
          /\ rec.findings \subseteq new.findings
      BY <1>2, <1>5, <2>1, <2>2, <2>3 DEF Record
    <2>5. QED
      BY <1>1, <1>5, <2>4 DEF new
  <1>6. QED
    BY <1>4, <1>5

\* A settlement is sound, and settling again changes nothing.
LEMMA SettledKeepsInv ==
  ASSUME NEW rec \in Record, RecordInv(rec), NEW v \in Versions, HasPlan(rec, v),
         rec.plans[v].status \in Submitted
  PROVE  /\ RecordInv(Settled(rec, v))
         /\ \A w \in DOMAIN rec.plans : rec.plans[w].status \in Final =>
              Settled(rec, v).plans[w].status = rec.plans[w].status
  <1>1. PICK new, s : new = Settled(rec, v) /\ s = SettlementStatus(rec, v)
    OBVIOUS
  <1>2. /\ new \in Record /\ new.status = s /\ new.attempts = rec.attempts
        /\ DOMAIN new.plans = DOMAIN rec.plans
        /\ \A w \in DOMAIN rec.plans \ {v} : new.plans[w] = rec.plans[w]
        /\ new.plans[v].status = IF s \in Final THEN s ELSE rec.plans[v].status
    BY <1>1, SettledIs
  <1>3. /\ s = "RECONCILED" <=> AllCompleted(rec, v)
        /\ s \in Final => AttemptsOf(rec, v) \cap OpenAttempts(rec) = {}
        /\ s \in Final \cup {"PARTIAL", "BLOCKED"}
    BY <1>1, SettlementIs
  <1>4. v \in DOMAIN rec.plans /\ SettledAs(rec, v)
    BY DEF RecordInv, HasPlan
  <1>5. rec.plans[v].status \in Final => s = rec.plans[v].status
    <2>1. SUFFICES ASSUME rec.plans[v].status \in Final PROVE s = rec.plans[v].status
      OBVIOUS
    <2>2. s \in Final
      <3>1. AttemptsOf(rec, v) \cap OpenAttempts(rec) = {}
        BY <1>4, <2>1 DEF SettledAs
      <3>2. QED
        BY <1>1, <3>1 DEF SettlementStatus, Final
    <2>3. QED
      BY <1>3, <1>4, <2>1, <2>2 DEF SettledAs, Final
  <1>6. /\ \A w : AttemptsOf(new, w) = AttemptsOf(rec, w) /\ CompletedOf(new, w) = CompletedOf(rec, w)
        /\ OpenAttempts(new) = OpenAttempts(rec)
    BY <1>2 DEF AttemptsOf, CompletedOf, OpenAttempts
  <1>7. \A a \in DOMAIN new.attempts : /\ HasPlan(new, new.attempts[a].v)
                                       /\ new.plans[new.attempts[a].v].status \in Submitted
    BY <1>2 DEF RecordInv, HasPlan, Submitted
  <1>8. \A w \in Versions : InTurn(new, w)
    BY <1>2, <1>6 DEF RecordInv, InTurn
  <1>9. ASSUME NEW w \in DOMAIN new.plans PROVE SettledAs(new, w)
    <2>1. CASE w # v
      BY <1>2, <1>6, <2>1 DEF RecordInv, SettledAs, AllCompleted
    <2>2. CASE w = v
      BY <1>2, <1>3, <1>4, <1>5, <1>6, <2>2 DEF SettledAs, AllCompleted
    <2>3. QED
      BY <2>1, <2>2
  <1>10. RecordInv(new)
    BY <1>2, <1>7, <1>8, <1>9 DEF RecordInv
  <1>11. QED
    BY <1>1, <1>2, <1>4, <1>5, <1>10

\* A save of a reconcile call is refused, or its copy is of the record as it is.
LEMMA SaveCallStep ==
  ASSUME CaseInv, NEW r \in Reconcilers, Save(r)
  PROVE  Upheld /\ Cautious
  <1>1. /\ rc[r].pc = "LOOP" /\ rc[r] \in CallRecord /\ CallInv(r) /\ RowInv
        /\ UNCHANGED <<exec, sent, ledger, reads>>
    BY CallsAreTyped DEF Save, pvars, CaseInv
  <1>2. CASE EndCall(r) /\ UNCHANGED rvars
    BY <1>1, <1>2, CallEndsAnd, SameStands DEF rvars
  <1>3. CASE /\ MaySave(rc[r]) /\ record' = Bump(Settled(rc[r].rec, rc[r].v)) /\ UNCHANGED row
             /\ Call(r, [rc[r] EXCEPT !.pc = "RELEASE", !.rec = record'])
    <2>1. PICK v \in Versions, rec \in Record : v = rc[r].v /\ rec = rc[r].rec
      BY <1>1 DEF CallRecord
    <2>2. /\ record.rev = rc[r].rev /\ row.ver = v /\ row.state = "RECONCILING"
          /\ Observes(rec, rc[r].todo) /\ Traced(rec) /\ HasPlan(rec, v)
      BY <1>1, <1>3, <2>1 DEF MaySave, Current, CallInv, OwnsClaim
    <2>3. Keeps(record, rec) /\ rec.plans = record.plans
      BY <2>2 DEF Observes, Keeps, HasPlan
    <2>4. RecordInv(rec)
      BY <2>3, KeepsRecordInv DEF CaseInv
    <2>5. record.plans[v].status \in Submitted
      BY <2>2, HeldRow
    <2>6. PICK new : new = Settled(rec, v)
      OBVIOUS
    <2>7. /\ new \in Record /\ new.attempts = rec.attempts /\ DOMAIN new.plans = DOMAIN rec.plans
          /\ \A w \in DOMAIN rec.plans \ {v} : new.plans[w] = rec.plans[w]
          /\ new.plans[v].status \in {rec.plans[v].status} \cup Final
          /\ new.status \in Final => new.plans[v].status = new.status
      BY <2>2, <2>4, <2>6, SettledIs
    <2>8. /\ RecordInv(new)
          /\ \A w \in DOMAIN rec.plans : rec.plans[w].status \in Final => new.plans[w].status = rec.plans[w].status
      BY <2>2, <2>3, <2>4, <2>5, <2>6, SettledKeepsInv
    <2>9. record' = Bump(new)
      BY <1>3, <2>1, <2>6
    <2>10. /\ record' \in Record /\ record'.plans = new.plans /\ record'.attempts = new.attempts
           /\ record'.rev = NewRev /\ record'.status = new.status
      BY <2>7, <2>9, BumpIs
    <2>11. RecordInv(record)' /\ Traced(record)'
      <3>1. RecordInv(record)'
        BY <2>7, <2>8, <2>10, SamePlansAndAttempts
      <3>2. QED
        BY <1>1, <2>2, <2>7, <2>10, <3>1 DEF Traced
    <2>12. ProviderInv' /\ WriteAhead'
      <3>1. {<<record.attempts[a].v, record.attempts[a].i>> : a \in DOMAIN record.attempts}
              \subseteq {<<record'.attempts[a].v, record'.attempts[a].i>> : a \in DOMAIN record'.attempts}
        BY <2>3, <2>7, <2>10 DEF Keeps
      <3>2. QED
        BY <1>1, <3>1 DEF CaseInv, ProviderInv, WriteAhead, IsOf
    <2>13. RowInv'
      <3>1. \A w \in DOMAIN record'.plans : record'.plans[w].status = "EXECUTING" => record.plans[w].status = "EXECUTING"
        BY <2>3, <2>7, <2>10 DEF Final
      <3>2. record'.plans[v].status \in Submitted
        BY <2>3, <2>5, <2>7, <2>10 DEF Submitted
      <3>3. row' = row /\ DOMAIN record'.plans = DOMAIN record.plans
        BY <1>3, <2>3, <2>7, <2>10
      <3>4. QED
        BY <1>1, <2>2, <3>1, <3>2, <3>3 DEF RowInv, HasPlan
    <2>14. \A w \in Versions : ExecInv(w)'
      BY <1>3, <2>2 DEF ExecInv, OwnsActive
    <2>15. PICK c : c = [rc[r] EXCEPT !.pc = "RELEASE", !.rec = record']
      OBVIOUS
    <2>16. c \in CallRecord /\ c.pc = "RELEASE" /\ c.v = v /\ c.rec = record' /\ c.todo = rc[r].todo /\ c.rev = rc[r].rev
      BY <1>1, <2>1, <2>10, <2>15 DEF CallRecord
    <2>17. rc' = [rc EXCEPT ![r] = c]
      BY <1>3, <2>15 DEF Call
    <2>18. /\ rc' \in [Reconcilers -> {NoCall} \cup CallRecord] /\ rc'[r] = c
           /\ \A q \in Reconcilers \ {r} : rc'[q] = rc[q]
      BY <2>16, <2>17 DEF CaseInv
    <2>19. /\ \A q \in Reconcilers : rc'[q].pc # "IDLE" => record'.rev # rc'[q].rev
           /\ ReadsInv' /\ RevInv'
      BY <1>1, <2>10, <2>16, <2>18, SaveOutdates
    <2>20. ASSUME NEW q \in Reconcilers PROVE CallInv(q)'
      <3>1. CASE q = r
        <4>1. c.todo \subseteq DOMAIN c.rec.attempts
          BY <1>1, <2>1, <2>7, <2>10, <2>16 DEF CallInv
        <4>2. HasPlan(c.rec, c.v)
          BY <2>2, <2>7, <2>10, <2>16 DEF HasPlan
        <4>3. c.rec.status \in Final => record'.plans[c.v].status \in Final
          BY <2>7, <2>10, <2>16
        <4>4. Traced(c.rec)'
          BY <2>11, <2>16, <2>18 DEF Traced
        <4>5. QED
          BY <2>11, <2>16, <2>18, <2>19, <3>1, <4>1, <4>2, <4>3, <4>4 DEF CallInv, Current, HasPlan, Traced
      <3>2. CASE q # r /\ rc[q].pc = "IDLE"
        BY <2>18, <3>2 DEF CallInv
      <3>3. CASE q # r /\ rc[q].pc # "IDLE"
        <4>1. CallInv(q) /\ rc'[q] = rc[q] /\ record'.rev # rc'[q].rev
          BY <2>18, <2>19, <3>3 DEF CaseInv
        <4>2. \A w \in DOMAIN record.plans : record.plans[w].status \in Final =>
                HasPlan(record', w) /\ record'.plans[w].status \in Final
          BY <2>3, <2>7, <2>8, <2>10 DEF HasPlan
        <4>3. QED
          BY <1>1, <4>1, <4>2, OutdatedCall
      <3>4. QED
        BY <3>1, <3>2, <3>3
    <2>21. exec' \in [Versions -> {"NONE", "DONE"} \cup InCall]
      BY <1>1 DEF CaseInv
    <2>22. CaseInv'
      BY <2>11, <2>12, <2>13, <2>14, <2>18, <2>19, <2>20, <2>21 DEF CaseInv
    <2>23. Stands
      <3>1. \A a \in DOMAIN record.attempts : record.attempts[a].state = "COMPLETED" =>
              a \in DOMAIN record'.attempts /\ record'.attempts[a] = record.attempts[a]
        BY <2>3, <2>7, <2>10 DEF Keeps, OpenAttempts, OpenStates
      <3>2. \A w \in Versions : HasPlan(record, w) /\ record.plans[w].status \in Final =>
              HasPlan(record', w) /\ record'.plans[w].status = record.plans[w].status
        BY <2>3, <2>7, <2>8, <2>10 DEF HasPlan
      <3>3. QED
        BY <3>1, <3>2 DEF Stands
    <2>25. Cautious
      <3>1. new.status # "AUTHORIZED" /\ rec.findings \subseteq new.findings
        <4>1. new.status = SettlementStatus(rec, v) /\ rec.findings \subseteq new.findings
          BY <2>2, <2>4, <2>6, SettledIs
        <4>2. SettlementStatus(rec, v) \in Final \cup {"PARTIAL", "BLOCKED"}
          BY <2>4, SettlementIs
        <4>3. QED
          BY <4>1, <4>2 DEF Final
      <3>2. record'.findings = new.findings /\ record'.status # "AUTHORIZED"
        BY <2>7, <2>9, <3>1, BumpIs
      <3>3. record.findings \subseteq rec.findings
        BY <2>2 DEF Observes
      <3>4. QED
        BY <3>1, <3>2, <3>3 DEF Cautious, Executable
    <2>26. QED
      BY <2>22, <2>23, <2>25 DEF Upheld
  <1>4. QED
    BY <1>2, <1>3 DEF Save

----------------------------------------------------------------------------
(* All steps of PlanExecution.                                             *)

\* Every step of the execution keeps CaseInv and undoes no result.
LEMMA ExecutionStep ==
  ASSUME CaseInv, ExecutionNext
  PROVE  Upheld /\ Cautious
  <1>1. ASSUME NEW v \in Versions, ExecutePlan(v) PROVE Upheld /\ Cautious
    BY <1>1, ExecutePlanStep
  <1>2. ASSUME NEW v \in Versions, ExecutorStep(v) PROVE Upheld /\ Cautious
    <2>1. CASE StartAttempt(v) \/ Answer(v) \/ Pause(v)
      BY <2>1, StartAttemptStep, AnswerStep, PauseStep
    <2>2. CASE PreflightFails(v) \/ Rejected(v) \/ NoAnswer(v)
      BY <2>2, PreflightFailsStep, RejectedStep, NoAnswerStep
    <2>3. CASE Beat(v) \/ Post(v) \/ ReservationLost(v) \/ HandOver(v)
      <3>1. Upheld
        BY <2>3, BeatStep, PostStep, ReservationLostStep, HandOverStep
      <3>2. record' = record
        BY <2>3 DEF Beat, Post, ReservationLost, HandOver, rvars
      <3>3. QED
        BY <3>1, <3>2, SameStands
    <2>4. QED
      BY <1>2, <2>1, <2>2, <2>3 DEF ExecutorStep
  <1>3. ASSUME NEW r \in Reconcilers, ReadCase(r) \/ ReconcilerStep(r) PROVE Upheld /\ Cautious
    <2>1. CASE Save(r)
      BY <2>1, SaveCallStep
    <2>2. CASE ReadCase(r) \/ Claim(r) \/ GoOnUnclaimed(r) \/ ClaimRefused(r) \/ AskProvider(r)
      <3>1. Upheld
        BY <2>2, ReadCaseStep, ClaimStep, GoOnUnclaimedStep, ClaimRefusedStep, AskProviderStep
      <3>2. record' = record
        BY <2>2 DEF ReadCase, Claim, GoOnUnclaimed, ClaimRefused, AskProvider, rvars
      <3>3. QED
        BY <3>1, <3>2, SameStands
    <2>3. CASE Observe(r) \/ Lookup(r) \/ AskFails(r) \/ Release(r)
      <3>1. Upheld
        BY <2>3, ObserveStep, LookupStep, AskFailsStep, ReleaseStep
      <3>2. record' = record
        BY <2>3 DEF Observe, Lookup, AskFails, Release, rvars
      <3>3. QED
        BY <3>1, <3>2, SameStands
    <2>4. QED
      BY <1>3, <2>1, <2>2, <2>3 DEF ReconcilerStep
  <1>4. CASE ProviderStep
    <2>1. ASSUME NEW q \in sent, Accept(q) \/ Lose(q) PROVE Upheld /\ Cautious
      <3>1. record' = record
        BY <2>1 DEF Accept, Lose, rvars
      <3>2. QED
        BY <2>1, <3>1, AcceptStep, LoseStep, SameStands
    <2>2. ASSUME NEW k \in DOMAIN ledger, Decide(k) PROVE Upheld /\ Cautious
      <3>1. record' = record
        BY <2>2 DEF Decide, rvars
      <3>2. QED
        BY <2>2, <3>1, DecideStep, SameStands
    <2>3. QED
      BY <1>4, <2>1, <2>2 DEF ProviderStep
  <1>5. CASE Disruption
    <2>1. Upheld
      BY <1>5, LeaseExpiresStep, CrashExecutorStep, CrashReconcilerStep DEF Disruption
    <2>2. record' = record
      BY <1>5 DEF Disruption, LeaseExpires, CrashExecutor, CrashReconciler, rvars
    <2>3. QED
      BY <2>1, <2>2, SameStands
  <1>6. QED
    BY <1>1, <1>2, <1>3, <1>4, <1>5 DEF ExecutionNext

\* A step that changes nothing.
LEMMA StutterStep ==
  ASSUME CaseInv, UNCHANGED vars
  PROVE  Upheld /\ Cautious
  <1>1. UNCHANGED <<record, row, exec, rc, reads, sent, ledger>>
    BY DEF vars
  <1>2. exec' \in [Versions -> {"NONE", "DONE"} \cup InCall] /\ rc' \in [Reconcilers -> {NoCall} \cup CallRecord]
    BY <1>1 DEF CaseInv
  <1>3. RowInv' /\ NotTaken
    BY <1>1, RowStays
  <1>4. QED
    BY <1>1, <1>2, <1>3, QuietStep, SameStands

----------------------------------------------------------------------------
(* The broker's operations.                                                *)

\* What a step does with the broker's decisions: it makes no plan executable
\* that the case as it is does not bear, and lifts a block only to send the
\* case back to review.
Governed ==
  /\ AuthorizationIsCurrent => AuthorizationIsCurrent'
  /\ "BROKER" \in record.findings \ record'.findings =>
       record'.caseStatus = "AWAITING_BROKER" /\ ~\E v \in Versions : Executable(record', v)

\* What the execution changes of a record leaves authorizations as they are.
LEMMA CautiousGoverns == Cautious => Governed
  BY DEF Cautious, Governed, AuthorizationIsCurrent, Raised

\* What the broker's operations and the observations leave to the calls of
\* executePlan and reconcile: the reservation, the provider, where every plan
\* stands between its submission and its settlement, and the attempts, which
\* are those of the record before or of a new revision of it.
Aside ==
  /\ UNCHANGED <<row, exec, rc, pvars, issued, lastWriter>>
  /\ record' = record \/ (record'.attempts = record.attempts /\ record'.rev = NewRev)
  /\ \A v \in Versions : PhaseOf(v)' = PhaseOf(v)

\* An operation saves while nobody holds the row, and touches neither attempts
\* nor submitted plans.
LEMMA BrokerSaves ==
  ASSUME CaseInv, NEW new, Keeps(record, new), new.attempts = record.attempts,
         MutationAllowed, record' = Bump(new), UNCHANGED <<row, exec, rc, pvars, issued, lastWriter>>,
         reads' \subseteq reads
  PROVE  Upheld /\ Aside
  <1>1. Traced(new)
    BY SamePlansAndAttempts DEF CaseInv, Keeps, Traced
  <1>2. \A v \in Versions : ExecInv(v)'
    BY DEF MutationAllowed, ExecInv, OwnsActive
  <1>3. exec' \in [Versions -> {"NONE", "DONE"} \cup InCall]
    BY DEF CaseInv
  <1>4. CaseInv' /\ Stands
    BY <1>1, <1>2, <1>3, SaveStep DEF pvars
  <1>6. record'.plans = new.plans /\ record'.attempts = record.attempts /\ record'.rev = NewRev
    BY BumpIs DEF Keeps
  <1>7. ASSUME NEW v \in Versions PROVE PhaseOf(v)' = PhaseOf(v)
    <2>1. CASE HasPlan(record, v) /\ record.plans[v].status \in Submitted
      <3>1. HasPlan(new, v) /\ new.plans[v].status = record.plans[v].status
        BY <2>1 DEF Keeps, HasPlan
      <3>2. QED
        BY <1>6, <2>1, <3>1 DEF PhaseOf, HasPlan
    <2>2. CASE ~(HasPlan(record, v) /\ record.plans[v].status \in Submitted)
      <3>1. ~(HasPlan(new, v) /\ new.plans[v].status \in Submitted)
        BY <2>2 DEF Keeps, HasPlan
      <3>2. QED
        BY <1>6, <2>2, <3>1 DEF PhaseOf, HasPlan, Submitted
    <2>3. QED
      BY <2>1, <2>2
  <1>8. QED
    BY <1>4, <1>6, <1>7 DEF Upheld, Aside

\* The authorization of every plan is withdrawn; submitted plans stand.
Withdrawn(rec, new) ==
  /\ new \in Record /\ new.attempts = rec.attempts
  /\ DOMAIN new.plans = DOMAIN rec.plans
  /\ \A v \in DOMAIN rec.plans :
       new.plans[v].status = IF rec.plans[v].status = "AUTHORIZED" THEN "STALE" ELSE rec.plans[v].status

\* To withdraw the authorizations keeps plans, attempts and results.
LEMMA WithdrawnKeeps ==
  ASSUME NEW rec, NEW new, Withdrawn(rec, new)
  PROVE  Keeps(rec, new) /\ \A v : ~Executable(new, v)
  <1>1. \A v \in DOMAIN new.plans : new.plans[v].status \in Submitted => rec.plans[v].status = new.plans[v].status
    BY DEF Withdrawn, Submitted, Final
  <1>2. \A v \in DOMAIN rec.plans : rec.plans[v].status \in Submitted => rec.plans[v].status = new.plans[v].status
    BY DEF Withdrawn, Submitted, Final
  <1>3. \A v \in DOMAIN new.plans : new.plans[v].status # "AUTHORIZED"
    BY DEF Withdrawn
  <1>4. QED
    BY <1>1, <1>2, <1>3 DEF Withdrawn, Keeps, HasPlan, Executable

\* invalidateAuthorization withdraws what may be executed, and nothing else.
LEMMA InvalidateAuthorizationIs ==
  ASSUME NEW rec \in Record
  PROVE  LET new == InvalidateAuthorization(rec) IN
         /\ Withdrawn(rec, new) /\ new.findings = rec.findings /\ new.caseStatus = rec.caseStatus
         /\ new.funding = rec.funding /\ new.credits = rec.credits /\ new.topUp = rec.topUp
  <1> DEFINE p(v) == [status |-> IF rec.plans[v].status = "AUTHORIZED" THEN "STALE" ELSE rec.plans[v].status,
                      approval |-> IF rec.plans[v].approval = "VALID" THEN "INVALIDATED"
                                   ELSE rec.plans[v].approval]
             plans == [v \in DOMAIN rec.plans |-> p(v)]
             lapsed == \E v \in DOMAIN rec.plans : rec.plans[v].approval = "VALID"
  <1>1. PICK n \in Nat : n = Len(rec.plans) /\ DOMAIN rec.plans = 1..n /\ \A v \in 1..n : rec.plans[v] \in Plan
    BY AttemptTypes
  <1>2. \A v \in 1..n : p(v) \in Plan
    BY <1>1 DEF Plan, Final
  <1>3. plans = [v \in 1..n |-> p(v)]
    BY <1>1
  <1>4. \A v \in DOMAIN rec.plans :
          plans[v].status = IF rec.plans[v].status = "AUTHORIZED" THEN "STALE" ELSE rec.plans[v].status
    OBVIOUS
  <1> HIDE DEF p
  <1>5. plans \in Seq(Plan)
    <2>1. \A v \in 1..n : plans[v] \in Plan
      BY <1>2, <1>3
    <2>2. plans = [v \in 1..n |-> plans[v]]
      BY <1>3
    <2> HIDE DEF plans
    <2>3. QED
      BY <2>1, <2>2, FunctionIsSeq
  <1>6. DOMAIN plans = DOMAIN rec.plans
    OBVIOUS
  <1>7. InvalidateAuthorization(rec) =
          [rec EXCEPT !.plans = plans, !.status = IF lapsed THEN "AWAITING_AUTHORIZATION" ELSE @]
    BY DEF InvalidateAuthorization, p
  <1> HIDE DEF plans, lapsed
  <1>new. PICK new : new = InvalidateAuthorization(rec)
    OBVIOUS
  <1>8. /\ new \in Record /\ new.plans = plans /\ new.attempts = rec.attempts /\ new.findings = rec.findings
        /\ new.caseStatus = rec.caseStatus /\ new.funding = rec.funding /\ new.credits = rec.credits
        /\ new.topUp = rec.topUp
    BY <1>5, <1>7, <1>new DEF Record
  <1>9. QED
    BY <1>4, <1>6, <1>8, <1>new DEF Withdrawn

\* Other fields of a record are rewritten.
LEMMA WithdrawnEdited ==
  ASSUME NEW rec, NEW base, Withdrawn(rec, base), NEW new \in Record,
         new.plans = base.plans, new.attempts = base.attempts
  PROVE  Withdrawn(rec, new)
  BY DEF Withdrawn

\* An operation that withdraws the authorization.
LEMMA WithdrawnSaves ==
  ASSUME CaseInv, NEW new, Withdrawn(record, new), BrokerSave(new),
         "BROKER" \in record.findings \ new.findings => new.caseStatus = "AWAITING_BROKER"
  PROVE  Upheld /\ Governed /\ Aside
  <1>1. Keeps(record, new) /\ \A v : ~Executable(new, v)
    BY WithdrawnKeeps
  <1>2. Upheld /\ Aside
    BY <1>1, BrokerSaves DEF Withdrawn, BrokerSave, pvars
  <1>3. /\ record'.plans = new.plans /\ record'.status = new.status /\ record'.findings = new.findings
        /\ record'.caseStatus = new.caseStatus
    BY BumpIs DEF Withdrawn, BrokerSave
  <1>4. \A v : ~Executable(record', v)
    BY <1>1, <1>3 DEF Executable, HasPlan
  <1>5. QED
    BY <1>2, <1>3, <1>4 DEF Governed, AuthorizationIsCurrent

\* An amendment withdraws the authorizations and resolves findings of the broker.
LEMMA AmendedIs ==
  ASSUME CaseInv, NEW resolved \in SUBSET {"BROKER"}
  PROVE  LET new == Amended(resolved) IN
         /\ Withdrawn(record, new) /\ new.caseStatus = "AWAITING_BROKER"
         /\ new.findings = record.findings \ resolved
  <1>1. record \in Record
    BY DEF CaseInv, RecordInv
  <1>2. PICK base : base = InvalidateAuthorization(record)
    OBVIOUS
  <1>3. Withdrawn(record, base) /\ base.findings = record.findings /\ base \in Record
    BY <1>1, <1>2, InvalidateAuthorizationIs DEF Withdrawn
  <1>4. PICK new : new = [base EXCEPT !.findings = @ \ resolved, !.caseStatus = "AWAITING_BROKER"]
    OBVIOUS
  <1>5. /\ new \in Record /\ new.plans = base.plans /\ new.attempts = base.attempts
        /\ new.caseStatus = "AWAITING_BROKER" /\ new.findings = base.findings \ resolved
    BY <1>3, <1>4 DEF Record
  <1>6. new = Amended(resolved)
    BY <1>2, <1>4 DEF Amended
  <1>7. QED
    BY <1>3, <1>5, <1>6, WithdrawnEdited

\* addAmendment keeps the invariant and leaves provider, rows and calls alone.
LEMMA AddAmendmentStep ==
  ASSUME CaseInv, NEW resolved \in SUBSET {"BROKER"}, AddAmendment(resolved)
  PROVE  Upheld /\ Governed /\ Aside
  BY AmendedIs, WithdrawnSaves DEF AddAmendment

\* So does replacing the expected credit, whether it is the same one or not.
LEMMA ReplaceExpectationStep ==
  ASSUME CaseInv, NEW resolved \in SUBSET {"BROKER"}, NEW same \in BOOLEAN,
         ReplaceExpectation(resolved, same)
  PROVE  Upheld /\ Governed /\ Aside
  <1>1. PICK base : base = Amended(resolved)
    OBVIOUS
  <1>2. Withdrawn(record, base) /\ base \in Record /\ base.caseStatus = "AWAITING_BROKER"
    BY <1>1, AmendedIs DEF Withdrawn
  <1>3. PICK credits, topUp : /\ credits = IF same THEN base.credits ELSE {}
                              /\ topUp = IF same \/ base.topUp = "NONE" THEN base.topUp ELSE "EARLIER"
    OBVIOUS
  <1>4. credits \in SUBSET Credits /\ topUp \in TopUps
    BY <1>2, <1>3 DEF Record, TopUps
  <1>5. PICK replaced \in SUBSET {"RECONCILABLE"} :
          BrokerSave([Amended(resolved) EXCEPT
            !.findings = (@ \ replaced) \cup {"UNOBSERVED"}, !.funding = "AWAITING_FUNDS",
            !.credits = IF same THEN @ ELSE {},
            !.topUp = IF same \/ @ = "NONE" THEN @ ELSE "EARLIER"])
    BY DEF ReplaceExpectation
  <1>6. PICK findings : findings = (base.findings \ replaced) \cup {"UNOBSERVED"}
    OBVIOUS
  <1>7. findings \in SUBSET Findings
    BY <1>2, <1>6 DEF Record, Findings
  <1>8. PICK new : new = [base EXCEPT !.findings = findings, !.funding = "AWAITING_FUNDS",
                                      !.credits = credits, !.topUp = topUp]
    OBVIOUS
  <1>9. /\ new \in Record /\ new.plans = base.plans /\ new.attempts = base.attempts
        /\ new.caseStatus = base.caseStatus
    BY <1>2, <1>4, <1>7, <1>8 DEF Record
  <1>10. BrokerSave(new)
    BY <1>1, <1>2, <1>3, <1>5, <1>6, <1>8 DEF Record
  <1>11. QED
    BY <1>2, <1>9, <1>10, WithdrawnEdited, WithdrawnSaves

\* So does a review, whether it blocks or not.
LEMMA AddReviewStep ==
  ASSUME CaseInv, NEW blocks \in BOOLEAN, AddReview(blocks)
  PROVE  Upheld /\ Governed /\ Aside
  <1>1. record \in Record
    BY DEF CaseInv, RecordInv
  <1>2. PICK base : base = InvalidateAuthorization(record)
    OBVIOUS
  <1>3. Withdrawn(record, base) /\ base.findings = record.findings /\ base \in Record
    BY <1>1, <1>2, InvalidateAuthorizationIs DEF Withdrawn
  <1>4. PICK new : new = [base EXCEPT !.findings = @ \cup IF blocks THEN {"BROKER"} ELSE {}]
    OBVIOUS
  <1>5. new.findings = base.findings \cup IF blocks THEN {"BROKER"} ELSE {}
    BY <1>3, <1>4 DEF Record
  <1>6. new.findings \in SUBSET Findings
    BY <1>3, <1>5 DEF Record, Findings
  <1>7. new \in Record /\ new.plans = base.plans /\ new.attempts = base.attempts
    BY <1>3, <1>4, <1>5, <1>6 DEF Record
  <1>8. BrokerSave(new)
    BY <1>2, <1>4 DEF AddReview
  <1>9. QED
    BY <1>3, <1>5, <1>7, <1>8, WithdrawnEdited, WithdrawnSaves

\* So does a decision to reject the case or to ask for information.
LEMMA DeclineStep ==
  ASSUME CaseInv, NEW status \in {"REJECTED", "INFORMATION_REQUIRED"}, Decline(status)
  PROVE  Upheld /\ Governed /\ Aside
  <1>1. record \in Record
    BY DEF CaseInv, RecordInv
  <1>2. PICK base : base = InvalidateAuthorization(record)
    OBVIOUS
  <1>3. Withdrawn(record, base) /\ base.findings = record.findings /\ base \in Record
    BY <1>1, <1>2, InvalidateAuthorizationIs DEF Withdrawn
  <1>4. PICK new : new = [base EXCEPT !.caseStatus = status]
    OBVIOUS
  <1>5. new \in Record /\ new.plans = base.plans /\ new.attempts = base.attempts /\ new.findings = base.findings
    BY <1>3, <1>4 DEF Record
  <1>6. BrokerSave(new)
    BY <1>2, <1>4 DEF Decline
  <1>7. QED
    BY <1>3, <1>5, <1>6, WithdrawnEdited, WithdrawnSaves

\* So does an approval.
LEMMA ApproveStep ==
  ASSUME CaseInv, Approve
  PROVE  Upheld /\ Governed /\ Aside
  <1>1. record \in Record /\ record.findings = {}
    BY DEF CaseInv, RecordInv, Approve, Low
  <1>2. PICK new : new = [record EXCEPT !.caseStatus = "APPROVED"]
    OBVIOUS
  <1>3. /\ new \in Record /\ new.plans = record.plans /\ new.attempts = record.attempts
        /\ new.findings = {} /\ new.caseStatus = "APPROVED" /\ new.status = record.status
    BY <1>1, <1>2 DEF Record
  <1>4. Keeps(record, new)
    BY <1>3 DEF Keeps, HasPlan
  <1>5. BrokerSave(new)
    BY <1>2 DEF Approve
  <1>6. Upheld /\ Aside
    BY <1>3, <1>4, <1>5, BrokerSaves DEF BrokerSave, pvars
  <1>7. record'.findings = {} /\ record'.caseStatus = "APPROVED"
    BY <1>3, <1>5, BumpIs DEF BrokerSave
  <1>8. QED
    BY <1>1, <1>6, <1>7 DEF Governed, AuthorizationIsCurrent

\* A plan is added that is not submitted.
LEMMA CreatePlanStep ==
  ASSUME CaseInv, CreatePlan
  PROVE  Upheld /\ Governed /\ Aside
  <1> DEFINE p == [status |-> "AWAITING_AUTHORIZATION", approval |-> "NONE"]
  <1>1. record \in Record
    BY DEF CaseInv, RecordInv
  <1>2. PICK base : base = InvalidateAuthorization(record)
    OBVIOUS
  <1>3. Withdrawn(record, base) /\ base.findings = record.findings /\ base \in Record
    BY <1>1, <1>2, InvalidateAuthorizationIs DEF Withdrawn
  <1>4. Keeps(record, base) /\ \A v : ~Executable(base, v)
    BY <1>3, WithdrawnKeeps
  <1>5. PICK new : new = [base EXCEPT !.plans = Append(@, p), !.status = "AWAITING_AUTHORIZATION"]
    OBVIOUS
  <1>6. p \in Plan
    BY DEF Plan
  <1>7. p.status = "AWAITING_AUTHORIZATION"
    OBVIOUS
  <1>8. BrokerSave(new)
    BY <1>2, <1>5 DEF CreatePlan
  <1> HIDE DEF p
  <1>9. PICK n \in Nat : n = Len(base.plans) /\ DOMAIN base.plans = 1..n /\ base.plans \in Seq(Plan)
    BY <1>3, AttemptTypes
  <1>10. PICK plans : plans = Append(base.plans, p)
    OBVIOUS
  <1>11. /\ plans \in Seq(Plan) /\ DOMAIN plans = 1..n + 1 /\ plans[n + 1] = p
         /\ \A v \in 1..n : plans[v] = base.plans[v]
    BY <1>6, <1>9, <1>10
  <1>12. /\ new \in Record /\ new.plans = plans /\ new.attempts = base.attempts
         /\ new.findings = base.findings /\ new.status = "AWAITING_AUTHORIZATION"
    BY <1>3, <1>5, <1>10, <1>11 DEF Record
  <1>13. \A v \in 1..n + 1 : v \in 1..n \/ v = n + 1
    BY <1>9
  <1>14. Keeps(record, new)
    <2>1. \A v \in DOMAIN new.plans : new.plans[v].status \in Submitted =>
            HasPlan(base, v) /\ new.plans[v].status = base.plans[v].status
      BY <1>7, <1>9, <1>11, <1>12, <1>13 DEF Submitted, Final, HasPlan
    <2>2. \A v \in DOMAIN base.plans : HasPlan(new, v) /\ new.plans[v].status = base.plans[v].status
      BY <1>9, <1>11, <1>12 DEF HasPlan
    <2>3. \A v \in DOMAIN new.plans : new.plans[v].status \in Submitted =>
            HasPlan(record, v) /\ record.plans[v].status = new.plans[v].status
      BY <1>4, <2>1 DEF Keeps, HasPlan
    <2>4. \A v \in DOMAIN record.plans : record.plans[v].status \in Submitted =>
            HasPlan(new, v) /\ new.plans[v].status = record.plans[v].status
      BY <1>4, <2>2 DEF Keeps, HasPlan
    <2>5. QED
      BY <1>4, <1>12, <2>3, <2>4 DEF Keeps
  <1>15. Upheld /\ Aside
    BY <1>3, <1>8, <1>12, <1>14, BrokerSaves DEF BrokerSave, Withdrawn, pvars
  <1>16. record'.findings = record.findings /\ record'.status = "AWAITING_AUTHORIZATION"
    BY <1>3, <1>8, <1>12, BumpIs DEF BrokerSave
  <1>17. QED
    BY <1>15, <1>16 DEF Governed, AuthorizationIsCurrent, Executable

\* So does the authorization of a plan.
LEMMA AuthorizePlanStep ==
  ASSUME CaseInv, NEW v \in Versions, AuthorizePlan(v)
  PROVE  Upheld /\ Governed /\ Aside
  <1> DEFINE p == [status |-> "AUTHORIZED", approval |-> "VALID"]
  <1>1. /\ record \in Record /\ record.findings = {} /\ record.caseStatus = "APPROVED"
        /\ v \in DOMAIN record.plans /\ record.plans[v].status = "AWAITING_AUTHORIZATION"
    BY DEF CaseInv, RecordInv, AuthorizePlan, Low, HasPlan
  <1>2. PICK new : new = [record EXCEPT !.plans[v] = p, !.status = "AUTHORIZED"]
    OBVIOUS
  <1>3. p \in Plan
    BY DEF Plan
  <1>4. p.status = "AUTHORIZED"
    OBVIOUS
  <1>5. BrokerSave(new)
    BY <1>2 DEF AuthorizePlan
  <1> HIDE DEF p
  <1>6. PICK plans : plans = [record.plans EXCEPT ![v] = p]
    OBVIOUS
  <1>7. /\ plans \in Seq(Plan) /\ DOMAIN plans = DOMAIN record.plans /\ plans[v] = p
        /\ \A w \in DOMAIN record.plans \ {v} : plans[w] = record.plans[w]
    BY <1>1, <1>3, <1>6, ReplacedPlan
  <1>8. /\ new \in Record /\ new.plans = plans /\ new.attempts = record.attempts
        /\ new.findings = {} /\ new.caseStatus = "APPROVED"
    BY <1>1, <1>2, <1>6, <1>7 DEF Record
  <1>9. Keeps(record, new)
    BY <1>1, <1>4, <1>7, <1>8 DEF Keeps, HasPlan, Submitted, Final
  <1>10. Upheld /\ Aside
    BY <1>5, <1>8, <1>9, BrokerSaves DEF BrokerSave, pvars
  <1>11. record'.findings = {} /\ record'.caseStatus = "APPROVED"
    BY <1>5, <1>8, BumpIs DEF BrokerSave
  <1>12. QED
    BY <1>1, <1>10, <1>11 DEF Governed, AuthorizationIsCurrent

\* Every operation of the broker keeps the invariant and is Aside.
LEMMA BrokerStepIs ==
  ASSUME CaseInv, origin \in Origins, BrokerStep
  PROVE  Upheld /\ Governed /\ Aside
  <1>1. origin.declines \subseteq {"REJECTED", "INFORMATION_REQUIRED"}
    BY LifecycleAssumption DEF LifecycleAssumption
  <1>2. QED
    BY <1>1, AddAmendmentStep, ReplaceExpectationStep, AddReviewStep, ApproveStep, DeclineStep,
       CreatePlanStep, AuthorizePlanStep
    DEF BrokerStep

----------------------------------------------------------------------------
(* Observing the funding.                                                  *)

\* A call reads the record, or drops what it has read.
LEMMA ReadsStep ==
  ASSUME CaseInv, UNCHANGED <<record, row, exec, rc, pvars>>, reads' \in {{}, {record}}
  PROVE  Upheld
  <1>1. RecordInv(record)' /\ Traced(record)' /\ WriteAhead' /\ ProviderInv' /\ RowInv' /\ NotTaken
    BY RowStays DEF CaseInv, Traced, WriteAhead, ProviderInv, IsOf, pvars
  <1>2. \A v \in Versions : ExecInv(v)'
    BY <1>1, ExecStays DEF pvars
  <1>3. \A r \in Reconcilers : CallInv(r)'
    BY <1>1, CallStays DEF pvars
  <1>4. ReadsInv'
    <2>1. IsFiniteSet({}) /\ IsFiniteSet({record})
      BY FS_EmptySet, FS_Singleton
    <2>2. record \in Record
      BY DEF CaseInv, RecordInv
    <2>3. IsFiniteSet(reads')
      BY <2>1
    <2>4. QED
      BY <2>2, <2>3 DEF ReadsInv
  <1>5. RevInv'
    <2>1. RevsHeld' \subseteq RevsHeld
      BY DEF RevsHeld, Calls
    <2>2. QED
      BY <2>1 DEF CaseInv, RevInv
  <1>7. QED
    BY <1>1, <1>2, <1>3, <1>4, <1>5, SameStands DEF CaseInv, Upheld

\* What an observation makes of the record: no plan is submitted, none becomes
\* executable, and the broker's blocks and decision stand.
LEMMA ObservedIs ==
  ASSUME NEW rec \in Record, NEW listed \in SUBSET Credits, NEW last
  PROVE  LET new == Observed(rec, listed, last) IN
         /\ Keeps(rec, new) /\ new.attempts = rec.attempts
         /\ new.findings \subseteq rec.findings \cup Raised /\ rec.findings \cap {"BROKER"} \subseteq new.findings
         /\ new.caseStatus # rec.caseStatus => rec.caseStatus = "INTAKE_HOLD"
         /\ \A v : Executable(new, v) => Executable(rec, v)
  <1>1. PICK credits : credits = (rec.credits \ listed) \cup {t \in listed : funds[t] = "COMPLETED"}
    OBVIOUS
  <1>2. PICK unique : unique = (Cardinality(credits) = 1)
    OBVIOUS
  <1>t. PICK topUp : topUp = TopUpSeen(rec, listed, last)
    OBVIOUS
  <1>u. topUp \in TopUps
    BY <1>t DEF TopUpSeen, TopUps, Record
  <1>3. PICK findings :
          findings = (rec.findings \cup Reported(rec, listed)) \
            IF unique THEN {"UNOBSERVED"} \cup IF topUp = "COMPLETED" THEN {"RECONCILABLE"} ELSE {} ELSE {}
    OBVIOUS
  <1>4. PICK funding : funding = CASE unique -> "MATCHED"
                         [] ~unique /\ rec.funding = "MATCHED" -> "REVERSED"
                         [] ~unique /\ rec.funding # "MATCHED" ->
                              IF credits = {} THEN "UNMATCHED" ELSE "POSSIBLE_MATCH"
    OBVIOUS
  <1>5. PICK status : status = IF unique /\ rec.caseStatus = "INTAKE_HOLD" /\ findings = {}
                               THEN "AWAITING_BROKER" ELSE rec.caseStatus
    OBVIOUS
  <1>6. PICK base : base = [rec EXCEPT !.credits = credits, !.findings = findings, !.topUp = topUp,
                                       !.funding = funding, !.caseStatus = status]
    OBVIOUS
  <1>7. Observed(rec, listed, last) =
          IF ~unique /\ rec.funding = "MATCHED" THEN InvalidateAuthorization(base) ELSE base
    BY <1>1, <1>2, <1>t, <1>3, <1>4, <1>5, <1>6 DEF Observed, Record
  <1>8. credits \in SUBSET Credits
    BY <1>1 DEF Record
  <1>r. Reported(rec, listed) \subseteq Raised
    BY DEF Reported, Raised
  <1>9. findings \in SUBSET Findings /\ findings \subseteq rec.findings \cup Raised
        /\ rec.findings \cap {"BROKER"} \subseteq findings
    BY <1>3, <1>r DEF Record, Findings, Raised
  <1>10. funding \in {"AWAITING_FUNDS", "UNMATCHED", "POSSIBLE_MATCH", "MATCHED", "REVERSED"}
    BY <1>2, <1>4
  <1>11. /\ status \in {"AWAITING_BROKER", "INTAKE_HOLD", "INFORMATION_REQUIRED", "APPROVED", "REJECTED", "CLOSED"}
         /\ status # rec.caseStatus => rec.caseStatus = "INTAKE_HOLD"
    BY <1>5 DEF Record
  <1>12. /\ base \in Record /\ base.plans = rec.plans /\ base.attempts = rec.attempts
         /\ base.findings = findings /\ base.caseStatus = status /\ base.status = rec.status
    BY <1>6, <1>8, <1>9, <1>10, <1>11, <1>u DEF Record
  <1>13. CASE Observed(rec, listed, last) = base
    <2>1. Keeps(rec, base)
      BY <1>12 DEF Keeps, HasPlan
    <2>2. \A v : Executable(base, v) => Executable(rec, v)
      BY <1>12 DEF Executable, HasPlan
    <2>3. QED
      BY <1>9, <1>11, <1>12, <1>13, <2>1, <2>2
  <1>14. CASE Observed(rec, listed, last) = InvalidateAuthorization(base)
    <2>1. PICK new : new = InvalidateAuthorization(base)
      OBVIOUS
    <2>2. Withdrawn(base, new) /\ new.findings = base.findings /\ new.caseStatus = base.caseStatus
      BY <1>12, <2>1, InvalidateAuthorizationIs
    <2>3. Keeps(base, new) /\ \A v : ~Executable(new, v)
      BY <2>2, WithdrawnKeeps
    <2>4. Keeps(rec, new)
      BY <1>12, <2>3 DEF Keeps, HasPlan, OpenAttempts
    <2>5. new.attempts = rec.attempts
      BY <1>12, <2>2 DEF Withdrawn
    <2>6. QED
      BY <1>9, <1>11, <1>12, <1>14, <2>1, <2>2, <2>3, <2>4, <2>5
  <1>15. QED
    BY <1>7, <1>13, <1>14

\* What changes nothing that the calls read is aside.
LEMMA SameIsAside ==
  ASSUME UNCHANGED <<record, row, exec, rc, pvars, issued, lastWriter>>
  PROVE  Aside
  BY DEF Aside, PhaseOf, HasPlan, pvars

\* The observation is saved over the record it was made from, or not at all.
LEMMA RefreshSaveIs ==
  ASSUME CaseInv, NEW read \in reads, NEW texts, NEW rec, RefreshSave(read, texts, rec),
         read = record =>
           /\ Keeps(read, rec) /\ rec.attempts = read.attempts
           /\ rec.findings \subseteq read.findings \cup Raised
           /\ read.findings \cap {"BROKER"} \subseteq rec.findings
           /\ rec.caseStatus # read.caseStatus => read.caseStatus = "INTAKE_HOLD"
           /\ \A v : Executable(rec, v) => Executable(read, v)
  PROVE  Upheld /\ Governed /\ Aside
  <1>1. UNCHANGED <<row, exec, rc, pvars, issued, lastWriter>> /\ reads' = {}
    BY DEF RefreshSave
  <1>2. CASE record' = record
    BY <1>1, <1>2, ReadsStep, SameStands, CautiousGoverns, SameIsAside
  <1>3. CASE RefreshCurrent(read) /\ MutationAllowed /\ record' = Bump(rec)
    <2>1. read = record
      BY <1>3 DEF RefreshCurrent, CaseInv, ReadsInv
    <2>2. Upheld /\ Aside
      BY <1>1, <1>3, <2>1, BrokerSaves
    <2>3. /\ record'.plans = rec.plans /\ record'.status = rec.status /\ record'.findings = rec.findings
          /\ record'.caseStatus = rec.caseStatus
      BY <1>3, <2>1, BumpIs DEF Keeps
    <2>4. \A v : Executable(record', v) => Executable(record, v)
      BY <2>1, <2>3 DEF Executable, HasPlan
    <2>5. AuthorizationIsCurrent => AuthorizationIsCurrent'
      BY <2>1, <2>3, <2>4 DEF AuthorizationIsCurrent, Raised
    <2>6. "BROKER" \notin record.findings \ record'.findings
      BY <2>1, <2>3
    <2>7. QED
      BY <2>2, <2>5, <2>6 DEF Governed
  <1>4. QED
    BY <1>2, <1>3 DEF RefreshSave

\* A refresh that saves what the provider listed keeps the invariant: its copy
\* is of the record as it is, or the save is refused.
LEMMA RefreshEndStep ==
  ASSUME CaseInv, origin \in Origins, NEW read \in reads, NEW listed \in SUBSET origin.credits,
         NEW last \in Credits, RefreshEnd(read, listed, last)
  PROVE  Upheld /\ Governed /\ Aside
  <1>1. listed \in SUBSET Credits /\ read \in Record
    BY LifecycleAssumption DEF LifecycleAssumption, CaseInv, ReadsInv
  <1>2. PICK texts, rec : rec = Observed(read, listed, last) /\ RefreshSave(read, texts, rec)
    BY DEF RefreshEnd
  <1>3. /\ Keeps(read, rec) /\ rec.attempts = read.attempts
        /\ rec.findings \subseteq read.findings \cup Raised
        /\ read.findings \cap {"BROKER"} \subseteq rec.findings
        /\ rec.caseStatus # read.caseStatus => read.caseStatus = "INTAKE_HOLD"
        /\ \A v : Executable(rec, v) => Executable(read, v)
    BY <1>1, <1>2, ObservedIs
  <1>4. QED
    BY <1>2, <1>3, RefreshSaveIs

\* So does a refresh that could not list.
LEMMA RefreshFailsStep ==
  ASSUME CaseInv, origin \in Origins, NEW read \in reads, RefreshFails(read)
  PROVE  Upheld /\ Governed /\ Aside
  <1>1. PICK f, texts :
          /\ f \in origin.failures
          /\ RefreshSave(read, texts, [read EXCEPT !.findings = @ \cup {f}, !.funding = "UNMATCHED"])
    BY DEF RefreshFails
  <1>2. f \in Raised /\ read \in Record
    BY <1>1, LifecycleAssumption DEF LifecycleAssumption, CaseInv, ReadsInv, Raised
  <1>3. PICK rec : rec = [read EXCEPT !.findings = @ \cup {f}, !.funding = "UNMATCHED"]
    OBVIOUS
  <1>4. rec.findings = read.findings \cup {f} /\ rec.findings \in SUBSET Findings
    BY <1>2, <1>3 DEF Record, Findings, Raised
  <1>5. /\ rec \in Record /\ rec.plans = read.plans /\ rec.attempts = read.attempts
        /\ rec.caseStatus = read.caseStatus /\ rec.status = read.status
    BY <1>2, <1>3, <1>4 DEF Record
  <1>6. Keeps(read, rec) /\ \A v : Executable(rec, v) => Executable(read, v)
    BY <1>5 DEF Keeps, HasPlan, Executable
  <1>7. QED
    BY <1>1, <1>2, <1>3, <1>4, <1>5, <1>6, RefreshSaveIs

\* Every step of a refresh keeps the invariant and is Aside.
LEMMA FundingStepIs ==
  ASSUME CaseInv, origin \in Origins, FundingStep
  PROVE  Upheld /\ Governed /\ Aside
  <1>1. CASE RefreshStart
    <2>1. UNCHANGED <<record, row, exec, rc, pvars, issued, lastWriter>> /\ reads' = {record}
      BY <1>1 DEF RefreshStart, rvars
    <2>2. QED
      BY <2>1, ReadsStep, SameStands, CautiousGoverns, SameIsAside
  <1>2. ASSUME NEW t \in origin.credits, CreditMoves(t) PROVE Upheld /\ Governed /\ Aside
    BY <1>2, StutterStep, CautiousGoverns, SameIsAside DEF CreditMoves, vars, pvars
  <1>3. QED
    BY <1>1, <1>2, RefreshEndStep, RefreshFailsStep DEF FundingStep

----------------------------------------------------------------------------
(* The invariants and what follows from them.                              *)

\* A case without attempts and submitted plans, before any call has begun.
LEMMA InitIs ==
  ASSUME NEW rec \in Record, NEW texts, InitWith(rec, texts), rec.attempts = <<>>,
         \A v \in DOMAIN rec.plans : rec.plans[v].status \notin Submitted
  PROVE  CaseInv
  <1>1. /\ record = rec /\ row = NoRow /\ exec = [v \in Versions |-> "NONE"]
        /\ rc = [r \in Reconcilers |-> NoCall] /\ reads = {} /\ sent = {} /\ ledger = <<>>
    BY DEF InitWith
  <1>2. DOMAIN record.attempts = {} /\ DOMAIN ledger = {}
    BY <1>1
  <1>3. \A v : AttemptsOf(record, v) = {} /\ CompletedOf(record, v) = {}
    BY <1>2 DEF AttemptsOf, CompletedOf
  <1>4. RecordInv(record)
    <2>1. Cardinality({}) = 0 /\ 0 <= Payouts
      BY FS_EmptySet, RecordAssumption DEF RecordAssumption
    <2>2. \A v \in Versions : InTurn(record, v)
      BY <1>3, <2>1 DEF InTurn
    <2>3. \A v \in DOMAIN record.plans : SettledAs(record, v)
      BY <1>1 DEF SettledAs, Submitted
    <2>4. QED
      BY <1>1, <1>2, <2>2, <2>3 DEF RecordInv
  <1>5. Traced(record) /\ WriteAhead
    BY <1>1, <1>2 DEF Traced, WriteAhead
  <1>6. ProviderInv
    BY <1>1, <1>2 DEF ProviderInv
  <1>7. RowInv
    <2>1. NoRow \in Row /\ NoRow.state # "ACTIVE"
      BY DEF NoRow, Row
    <2>2. QED
      BY <1>1, <2>1 DEF RowInv, Submitted
  <1>8. \A v \in Versions : ExecInv(v)
    BY <1>1 DEF ExecInv
  <1>9. \A r \in Reconcilers : rc[r] = NoCall
    BY <1>1
  <1>10. \A r \in Reconcilers : CallInv(r)
    BY <1>9 DEF CallInv, NoCall
  <1>11. ReadsInv
    BY <1>1, FS_EmptySet DEF ReadsInv
  <1>12. RevInv
    <2>1. record.rev \in Nat /\ RevsHeld = {record.rev}
      BY <1>1, <1>9 DEF Record, RevsHeld, Calls, NoCall
    <2>2. QED
      BY <2>1 DEF RevInv
  <1>13. QED
    BY <1>1, <1>4, <1>5, <1>6, <1>7, <1>8, <1>10, <1>11, <1>12 DEF CaseInv

\* The invariant holds of the cases the execution starts from.
LEMMA AuthorizedInit ==
  ASSUME Init
  PROVE  CaseInv
  <1>1. PICK texts : InitWith(Authorized, texts)
    BY DEF Init
  <1> DEFINE p == [status |-> "AUTHORIZED", approval |-> "VALID"]
  <1>2. p \in Plan
    BY DEF Plan
  <1>3. p.status = "AUTHORIZED"
    OBVIOUS
  <1>4. Authorized.plans = <<p>> /\ Authorized.attempts = <<>>
    BY DEF Authorized
  <1> HIDE DEF p
  <1>5. <<p>> \in Seq(Plan) /\ DOMAIN <<p>> = {1} /\ <<p>>[1] = p
    BY <1>2
  <1>6. Authorized \in Record
    BY <1>4, <1>5, 1 \in Nat DEF Authorized, Record, TopUps, p
  <1>7. \A v \in DOMAIN Authorized.plans : Authorized.plans[v].status \notin Submitted
    BY <1>3, <1>4, <1>5 DEF Submitted, Final
  <1>8. QED
    BY <1>1, <1>4, <1>6, <1>7, InitIs

\* TypeOK is part of the invariant.
LEMMA TypeFollows ==
  ASSUME CaseInv
  PROVE  TypeOK
  <1>1. \A r \in Reconcilers : rc[r].pc # "IDLE" => rc[r].rec \in Record
    BY CallsAreTyped DEF CallRecord
  <1>2. \A r \in Reconcilers : rc[r].pc # "IDLE" => rc[r].todo \subseteq DOMAIN rc[r].rec.attempts
    BY DEF CaseInv, CallInv
  <1>3. QED
    BY <1>1, <1>2 DEF TypeOK, CaseInv, RecordInv, ProviderInv

\* A completed payout is paid, by RecordInv and Traced.
LEMMA CompletedIsPaidFollows ==
  ASSUME CaseInv
  PROVE  CompletedIsPaid
  <1> SUFFICES ASSUME NEW a \in DOMAIN record.attempts, record.attempts[a].state = "COMPLETED"
               PROVE  /\ record.attempts[a].tx \in DOMAIN ledger
                      /\ ledger[record.attempts[a].tx] =
                           [v |-> record.attempts[a].v, i |-> record.attempts[a].i, state |-> "COMPLETED"]
    BY DEF CompletedIsPaid
  <1>1. PICK t : t = record.attempts[a]
    OBVIOUS
  <1>2. /\ t.tx \in DOMAIN ledger /\ ledger[t.tx].v = t.v /\ ledger[t.tx].i = t.i
        /\ ledger[t.tx].state = "COMPLETED"
    BY <1>1 DEF CaseInv, Traced
  <1>3. ledger[t.tx] \in Payout
    BY <1>2 DEF CaseInv, ProviderInv
  <1>4. QED
    BY <1>1, <1>2, <1>3 DEF Payout

\* The accepted payouts of a plan can be counted.
LEMMA AcceptedAreFinite ==
  ASSUME CaseInv, NEW v
  PROVE  /\ IsFiniteSet(Accepted(v)) /\ Cardinality(Accepted(v)) \in Nat
         /\ IsFiniteSet(PaidOf(v)) /\ Cardinality(PaidOf(v)) \in Nat
         /\ PaidOf(v) \in SUBSET Accepted(v)
  <1>1. ledger \in Seq(Payout)
    BY DEF CaseInv, ProviderInv
  <1>2. PICK n \in Nat : n = Len(ledger)
    BY <1>1
  <1>3. DOMAIN ledger = 1..n /\ IsFiniteSet(1..n)
    BY <1>1, <1>2, FS_Interval
  <1>4. Accepted(v) \in SUBSET (1..n) /\ PaidOf(v) \in SUBSET Accepted(v)
    BY <1>3 DEF Accepted, PaidOf
  <1>5. IsFiniteSet(Accepted(v))
    BY <1>3, <1>4, FS_Subset
  <1>6. IsFiniteSet(PaidOf(v))
    BY <1>4, <1>5, FS_Subset
  <1>7. QED
    BY <1>4, <1>5, <1>6, FS_CardinalityType

\* The attempt that a request on its way, or an accepted one, belongs to.
LEMMA AttemptFor ==
  ASSUME CaseInv, NEW v \in Versions, NEW i, <<v, i>> \in sent \/ \E k \in Accepted(v) : ledger[k].i = i
  PROVE  \E a \in AttemptsOf(record, v) : record.attempts[a].i = i
  <1>1. <<v, i>> \in sent \cup {<<ledger[k].v, ledger[k].i>> : k \in DOMAIN ledger}
    BY DEF Accepted
  <1>2. PICK a \in DOMAIN record.attempts : <<v, i>> = <<record.attempts[a].v, record.attempts[a].i>>
    BY <1>1 DEF CaseInv, WriteAhead
  <1>3. record.attempts[a].v = v /\ record.attempts[a].i = i
    BY <1>2
  <1>4. QED
    BY <1>3 DEF AttemptsOf

\* A completed attempt was paid for.
LEMMA CompletedArePaid ==
  ASSUME CaseInv, NEW v \in Versions, NEW a \in CompletedOf(record, v)
  PROVE  /\ record.attempts[a].tx \in PaidOf(v)
         /\ ledger[record.attempts[a].tx].i = record.attempts[a].i
         /\ \A k \in Accepted(v) : ledger[k].i = record.attempts[a].i => k = record.attempts[a].tx
  <1>1. PICK t : t = record.attempts[a]
    OBVIOUS
  <1>2. a \in DOMAIN record.attempts /\ t.v = v /\ t.state = "COMPLETED"
    BY <1>1 DEF CompletedOf, AttemptsOf
  <1>3. t.tx \in DOMAIN ledger /\ ledger[t.tx].v = v /\ ledger[t.tx].i = t.i /\ ledger[t.tx].state = "COMPLETED"
    BY <1>1, <1>2 DEF CaseInv, Traced
  <1>4. \A k \in Accepted(v) : ledger[k].i = t.i => k = t.tx
    BY <1>3 DEF CaseInv, ProviderInv, Accepted
  <1>5. QED
    BY <1>1, <1>3, <1>4 DEF PaidOf, Accepted

\* While an attempt has not completed, everything else asked for is paid.
LEMMA OthersArePaid ==
  ASSUME CaseInv, NEW v \in Versions, NEW a \in AttemptsOf(record, v) \ CompletedOf(record, v),
         NEW k \in Accepted(v), ledger[k].i # record.attempts[a].i
  PROVE  k \in PaidOf(v)
  <1>1. PICK b \in AttemptsOf(record, v) : record.attempts[b].i = ledger[k].i
    BY AttemptFor
  <1>2. InTurn(record, v)
    BY DEF CaseInv, RecordInv
  <1>3. b \in CompletedOf(record, v)
    BY <1>1, <1>2 DEF InTurn
  <1>4. QED
    BY <1>1, <1>3, CompletedArePaid

\* As many payouts are paid as attempts have completed, if no others are paid;
\* and what is accepted are attempts.
LEMMA PaidCount ==
  ASSUME CaseInv, NEW v \in Versions
  PROVE  /\ Cardinality(CompletedOf(record, v)) <= Cardinality(PaidOf(v))
         /\ Cardinality(PaidOf(v)) <= Payouts
         /\ (\A k \in PaidOf(v) : \E a \in CompletedOf(record, v) : record.attempts[a].i = ledger[k].i)
              => Cardinality(PaidOf(v)) = Cardinality(CompletedOf(record, v))
  <1> DEFINE done == CompletedOf(record, v)
             all == AttemptsOf(record, v)
             paid == PaidOf(v)
  <1>1. record \in Record /\ InTurn(record, v) /\ ledger \in Seq(Payout)
    BY DEF CaseInv, RecordInv, ProviderInv
  <1>2. /\ IsFiniteSet(all) /\ IsFiniteSet(done) /\ IsFiniteSet(paid) /\ done \subseteq all
        /\ Cardinality(all) \in Nat /\ Cardinality(done) \in Nat /\ Cardinality(paid) \in Nat
    BY <1>1, AttemptsAreFinite, AcceptedAreFinite
  <1>3. Cardinality(done) <= Cardinality(paid)
    <2> DEFINE f == [a \in done |-> record.attempts[a].tx]
    <2>1. \A a \in done : f[a] \in paid
      BY CompletedArePaid
    <2>2. \A a, b \in done : f[a] = f[b] => a = b
      <3>1. \A a \in done : ledger[f[a]].i = record.attempts[a].i
        BY CompletedArePaid
      <3>2. QED
        BY <1>1, <1>2, <3>1 DEF InTurn
    <2>3. f \in Injection(done, paid)
      BY <2>1, <2>2 DEF Injection, IsInjective
    <2>4. QED
      BY <1>2, <2>3, FS_Injection
  <1>4. \A k \in paid : \E a \in all : record.attempts[a].i = ledger[k].i
    BY AttemptFor, AcceptedAreFinite
  <1>5. \A k, l \in paid : ledger[k].i = ledger[l].i => k = l
    BY DEF PaidOf, Accepted, CaseInv, ProviderInv
  <1>6. Cardinality(paid) <= Payouts
    <2> DEFINE f == [k \in paid |-> CHOOSE a \in all : record.attempts[a].i = ledger[k].i]
    <2>1. \A k \in paid : f[k] \in all /\ record.attempts[f[k]].i = ledger[k].i
      BY <1>4
    <2> HIDE DEF f
    <2>x. f \in [paid -> all]
      BY <2>1 DEF f
    <2>2. f \in Injection(paid, all)
      BY <2>x, <1>5, <2>1 DEF Injection, IsInjective
    <2>3. Cardinality(paid) <= Cardinality(all)
      BY <1>2, <2>2, FS_Injection
    <2>4. QED
      BY <1>1, <1>2, <2>3, RecordAssumption DEF InTurn, RecordAssumption
  <1>7. ASSUME \A k \in paid : \E a \in done : record.attempts[a].i = ledger[k].i
        PROVE  Cardinality(paid) <= Cardinality(done)
    <2> DEFINE f == [k \in paid |-> CHOOSE a \in done : record.attempts[a].i = ledger[k].i]
    <2>1. \A k \in paid : f[k] \in done /\ record.attempts[f[k]].i = ledger[k].i
      BY <1>7
    <2> HIDE DEF f
    <2>x. f \in [paid -> done]
      BY <2>1 DEF f
    <2>2. f \in Injection(paid, done)
      BY <2>x, <1>5, <2>1 DEF Injection, IsInjective
    <2>3. QED
      BY <1>2, <2>2, FS_Injection
  <1>8. QED
    BY <1>2, <1>3, <1>6, <1>7

\* A settled plan's attempts have completed or failed, as the provider has
\* decided unless an error stands for its answer.
LEMMA AttemptsAreDecided ==
  ASSUME CaseInv, NEW v \in DOMAIN record.plans, record.plans[v].status \in Final,
         NEW a \in AttemptsOf(record, v)
  PROVE  LET t == record.attempts[a] IN
         /\ t.state \in {"COMPLETED", "FAILED"} /\ t.v = v /\ t.tx \in Nat
         /\ t.tx # 0 => t.tx \in DOMAIN ledger /\ ledger[t.tx].v = v /\ ledger[t.tx].i = t.i
                        /\ ledger[t.tx].state = t.state
         /\ t.tx = 0 => t.state = "FAILED"
  <1>1. record \in Record /\ SettledAs(record, v) /\ Traced(record)
    BY DEF CaseInv, RecordInv
  <1>2. a \in DOMAIN record.attempts /\ a \notin OpenAttempts(record) /\ record.attempts[a].v = v
    BY <1>1 DEF SettledAs, AttemptsOf
  <1>3. record.attempts[a] \in Attempt
    BY <1>1, <1>2, AttemptTypes
  <1>4. record.attempts[a].state \in {"COMPLETED", "FAILED"}
    BY <1>2, <1>3 DEF OpenAttempts, Attempt
  <1>5. QED
    BY <1>1, <1>2, <1>3, <1>4 DEF Traced, Attempt

\* If all attempts of a plan have completed, that many payouts are paid; and
\* all have if as many have as the plan has payouts.
LEMMA AllAttemptsPaid ==
  ASSUME CaseInv, NEW v \in Versions
  PROVE  /\ AllCompleted(record, v) => AttemptsOf(record, v) = CompletedOf(record, v)
         /\ AttemptsOf(record, v) = CompletedOf(record, v) =>
              /\ Accepted(v) = PaidOf(v)
              /\ Cardinality(PaidOf(v)) = Cardinality(CompletedOf(record, v))
  <1>1. record \in Record /\ InTurn(record, v)
    BY DEF CaseInv, RecordInv
  <1>2. ASSUME AllCompleted(record, v) PROVE AttemptsOf(record, v) = CompletedOf(record, v)
    BY <1>2, CompletedAreAll DEF CaseInv
  <1>3. ASSUME AttemptsOf(record, v) = CompletedOf(record, v)
        PROVE  /\ Accepted(v) = PaidOf(v)
               /\ Cardinality(PaidOf(v)) = Cardinality(CompletedOf(record, v))
    <2>1. ASSUME NEW k \in Accepted(v)
          PROVE  \E a \in CompletedOf(record, v) : record.attempts[a].i = ledger[k].i
      <3>1. PICK a \in AttemptsOf(record, v) : record.attempts[a].i = ledger[k].i
        BY AttemptFor
      <3>2. QED
        BY <1>3, <3>1
    <2>2. \A k \in Accepted(v) : k \in PaidOf(v)
      BY <2>1, CompletedArePaid
    <2>3. Accepted(v) = PaidOf(v)
      BY <2>2 DEF PaidOf
    <2>4. QED
      BY <2>1, <2>3, PaidCount
  <1>4. QED
    BY <1>2, <1>3

\* A payout that the provider may still make has an attempt, and if its plan is
\* settled that attempt is written off.
LEMMA UnderWayIsAttempted ==
  ASSUME CaseInv, NEW v \in Versions, NEW i, UnderWay(v, i)
  PROVE  /\ HasPlan(record, v) /\ record.plans[v].status \in Submitted
         /\ record.plans[v].status \in Final => WrittenOff(v, i)
  <1>1. PICK a \in AttemptsOf(record, v) : record.attempts[a].i = i
    BY AttemptFor DEF UnderWay
  <1>2. HasPlan(record, v) /\ record.plans[v].status \in Submitted
    BY <1>1 DEF CaseInv, RecordInv, AttemptsOf
  <1>3. ASSUME record.plans[v].status \in Final PROVE WrittenOff(v, i)
    <2>1. PICK t : t = record.attempts[a]
      OBVIOUS
    <2>2. /\ t.state \in {"COMPLETED", "FAILED"} /\ t.v = v /\ t.i = i /\ (t.tx = 0 => t.state = "FAILED")
          /\ t.tx # 0 => t.tx \in DOMAIN ledger /\ ledger[t.tx].v = v /\ ledger[t.tx].i = i
                         /\ ledger[t.tx].state = t.state
      BY <1>1, <1>2, <1>3, <2>1, AttemptsAreDecided DEF HasPlan
    <2>3. CASE t.tx = 0
      BY <1>1, <2>1, <2>2, <2>3 DEF WrittenOff
    <2>4. CASE t.tx # 0
      <3>1. ~ \E k \in Accepted(v) : ledger[k].i = i /\ ledger[k].state = "PENDING"
        BY <2>2, <2>4 DEF CaseInv, ProviderInv, Accepted
      <3>2. <<v, i>> \notin sent
        BY <2>2, <2>4 DEF CaseInv, ProviderInv, IsOf
      <3>3. QED
        BY <3>1, <3>2 DEF UnderWay
    <2>5. QED
      BY <2>3, <2>4
  <1>4. QED
    BY <1>2, <1>3

\* Requests and payouts are those of plans.
LEMMA UnderWayIsTyped ==
  ASSUME CaseInv, NEW v, NEW i, UnderWay(v, i)
  PROVE  v \in Versions
  <1>1. sent \subseteq Request /\ ledger \in Seq(Payout)
    BY DEF CaseInv, ProviderInv
  <1>2. CASE <<v, i>> \in sent
    BY <1>1, <1>2 DEF Request
  <1>3. ASSUME NEW k \in Accepted(v) PROVE v \in Versions
    <2>1. k \in DOMAIN ledger /\ ledger[k].v = v
      BY <1>3 DEF Accepted
    <2>2. ledger[k] \in Payout
      BY <1>1, <2>1
    <2>3. QED
      BY <2>1, <2>2 DEF Payout
  <1>4. QED
    BY <1>2, <1>3 DEF UnderWay

\* What a settlement says is what the provider has decided.
LEMMA DecidedFollows ==
  ASSUME CaseInv
  PROVE  SettledIsDecided
  <1> SUFFICES ASSUME NEW v \in DOMAIN record.plans
               PROVE  /\ record.plans[v].status = "RECONCILED" =>
                           Accepted(v) = PaidOf(v) /\ Cardinality(PaidOf(v)) = Payouts
                      /\ record.plans[v].status \in Final =>
                           \A i \in 1..Payouts : UnderWay(v, i) => WrittenOff(v, i)
    BY DEF SettledIsDecided
  <1>1. ASSUME record.plans[v].status = "RECONCILED"
        PROVE  Accepted(v) = PaidOf(v) /\ Cardinality(PaidOf(v)) = Payouts
    <2>1. AllCompleted(record, v)
      BY <1>1 DEF CaseInv, RecordInv, SettledAs, Final
    <2>2. v \in Versions
      <3>1. SUFFICES ASSUME v \notin Versions PROVE FALSE
        OBVIOUS
      <3>2. CompletedOf(record, v) = {}
        BY <3>1, AttemptTypes DEF CaseInv, RecordInv, CompletedOf, AttemptsOf, Attempt
      <3>3. QED
        BY <2>1, <3>2, FS_EmptySet, RecordAssumption DEF AllCompleted, RecordAssumption
    <2>3. QED
      BY <2>1, <2>2, AllAttemptsPaid DEF AllCompleted
  <1>2. ASSUME record.plans[v].status \in Final, NEW i \in 1..Payouts, UnderWay(v, i)
        PROVE  WrittenOff(v, i)
    <2>1. v \in Versions
      BY <1>2, UnderWayIsTyped
    <2>2. QED
      BY <1>2, <2>1, UnderWayIsAttempted
  <1>3. QED
    BY <1>1, <1>2

\* What the record still counts on belongs to the plan that is executing, and
\* only one is.
LEMMA OneFollows ==
  ASSUME CaseInv
  PROVE  OnePlanUnderWay
  <1>1. ASSUME NEW u, NEW i, Awaited(u, i) PROVE row.ver = u
    <2>1. u \in Versions
      BY <1>1, UnderWayIsTyped DEF Awaited
    <2>2. HasPlan(record, u) /\ record.plans[u].status = "EXECUTING"
      BY <1>1, <2>1, UnderWayIsAttempted DEF Awaited, Submitted
    <2>3. QED
      BY <2>2 DEF CaseInv, RowInv, HasPlan
  <1>2. \A v \in DOMAIN record.plans : record.plans[v].status = "EXECUTING" => row.ver = v
    BY DEF CaseInv, RowInv
  <1>3. QED
    BY <1>1, <1>2 DEF OnePlanUnderWay

\* The invariant of the submissions, reconcile calls and their provider.
THEOREM ExecutionInvariant == Spec => []CaseInv
  <1>1. Init => CaseInv
    BY AuthorizedInit
  <1>2. CaseInv /\ [ExecutionNext]_vars => CaseInv'
    BY ExecutionStep, StutterStep DEF Upheld
  <1>3. QED
    BY <1>1, <1>2, PTL DEF Spec

\* Record, row, provider and calls stay well formed, whatever plans, calls and
\* payouts there are (model.ts, case-store.ts).
THEOREM ExecutionTypes == Spec => []TypeOK
  <1>1. CaseInv => TypeOK
    BY TypeFollows
  <1>2. QED
    BY <1>1, ExecutionInvariant, PTL

\* Every request that left the service is found again from the record: the
\* attempt is saved before the call (executeSequentially) and never dropped.
THEOREM RequestsAreRecorded == Spec => []WriteAhead
  <1>1. CaseInv => WriteAhead
    BY DEF CaseInv
  <1>2. QED
    BY <1>1, ExecutionInvariant, PTL

\* The record calls a payout COMPLETED only if the provider has completed it,
\* whichever submission, reconcile call and crash wrote it.
THEOREM CompletionIsPaid == Spec => []CompletedIsPaid
  <1>1. CaseInv => CompletedIsPaid
    BY CompletedIsPaidFollows
  <1>2. QED
    BY <1>1, ExecutionInvariant, PTL

\* No late, superseded or crashed call undoes a settlement or a completed
\* payout (saveIfCurrent and the claim test of assertMutationAllowed).
THEOREM ResultsStand == Spec => ResultsAreFinal
  <1>1. CaseInv /\ [ExecutionNext]_vars => Stands
    BY ExecutionStep, StutterStep DEF Upheld
  <1>2. CaseInv /\ [ExecutionNext]_vars => [Stands]_vars
    BY <1>1
  <1>3. Spec => [][Stands]_vars
    BY <1>2, ExecutionInvariant, PTL DEF Spec
  <1>4. QED
    BY <1>3 DEF ResultsAreFinal, Stands

\* A RECONCILED plan has been paid in full, and of a settled one nothing is
\* under way but payouts that the record has written off, whatever the catch
\* clause of executeSequentially makes of an error and whichever call settles.
THEOREM SettlementIsDecided == Spec => []SettledIsDecided
  <1>1. CaseInv => SettledIsDecided
    BY DecidedFollows
  <1>2. QED
    BY <1>1, ExecutionInvariant, PTL

----------------------------------------------------------------------------
(* What the broker was promised: the refinement of SequentialPayouts.      *)

Refused(v) == \E k \in Accepted(v) : ledger[k].state = "FAILED"
GivenUp(v) == \E i \in 1..Payouts : WrittenOff(v, i)

\* The variables of SequentialPayouts under the mapping Promise.
TriedOf == [v \in Versions |-> Cardinality(AttemptsOf(record, v))]
AskedOf == [v \in Versions |-> Cardinality(Accepted(v))]
PaidBy == [v \in Versions |-> Cardinality(PaidOf(v))]
RefusedOf == [v \in Versions |-> Refused(v)]
GivenUpOf == [v \in Versions |-> GivenUp(v)]
Phases == [v \in Versions |-> PhaseOf(v)]

\* A settlement says of the plan what the provider has made of it, or that the
\* record has given a payout up.
SettledAsPaid ==
  \A v \in Versions :
    /\ PhaseOf(v) = "RECONCILED" => Cardinality(PaidOf(v)) = Payouts /\ ~GivenUp(v)
    /\ PhaseOf(v) = "FAILED" =>
         \/ Refused(v) \/ GivenUp(v)
         \/ /\ Cardinality(AttemptsOf(record, v)) = Cardinality(PaidOf(v))
            /\ Cardinality(PaidOf(v)) < Payouts

\* A payout is given up when one of its attempts is FAILED without a transaction.
LEMMA GivenUpIs ==
  ASSUME CaseInv, NEW v \in Versions
  PROVE  GivenUp(v) <=> \E a \in AttemptsOf(record, v) :
           record.attempts[a].state = "FAILED" /\ record.attempts[a].tx = 0
  <1>1. \A a \in AttemptsOf(record, v) : record.attempts[a].i \in 1..Payouts
    BY AttemptTypes DEF CaseInv, RecordInv, AttemptsOf, Attempt
  <1>2. QED
    BY <1>1 DEF GivenUp, WrittenOff

\* A settled plan's payouts are all paid, or the last was refused or given up,
\* or the one after it never made.
LEMMA SettledAsPaidFollows ==
  ASSUME CaseInv
  PROVE  SettledAsPaid
  <1> SUFFICES ASSUME NEW v \in Versions, PhaseOf(v) \in Final
               PROVE  /\ PhaseOf(v) = "RECONCILED" => Cardinality(PaidOf(v)) = Payouts /\ ~GivenUp(v)
                      /\ PhaseOf(v) = "FAILED" =>
                           \/ Refused(v) \/ GivenUp(v)
                           \/ /\ Cardinality(AttemptsOf(record, v)) = Cardinality(PaidOf(v))
                              /\ Cardinality(PaidOf(v)) < Payouts
    BY DEF SettledAsPaid, Final
  <1>1. v \in DOMAIN record.plans /\ record.plans[v].status = PhaseOf(v)
    BY DEF PhaseOf, HasPlan, Final
  <1>2. record \in Record /\ InTurn(record, v) /\ SettledAs(record, v)
    BY <1>1 DEF CaseInv, RecordInv
  <1>3. CASE PhaseOf(v) = "RECONCILED"
    <2>1. AllCompleted(record, v)
      BY <1>1, <1>2, <1>3 DEF SettledAs, Final
    <2>2. AttemptsOf(record, v) = CompletedOf(record, v) /\ Cardinality(PaidOf(v)) = Payouts
      BY <2>1, AllAttemptsPaid DEF AllCompleted
    <2>3. ~GivenUp(v)
      BY <2>2, GivenUpIs DEF CompletedOf
    <2>4. QED
      BY <1>3, <2>2, <2>3
  <1>4. CASE PhaseOf(v) = "FAILED"
    <2>1. CASE \E a \in AttemptsOf(record, v) : record.attempts[a].state = "FAILED"
      <3>1. PICK a \in AttemptsOf(record, v) : record.attempts[a].state = "FAILED"
        BY <2>1
      <3>2. CASE record.attempts[a].tx = 0
        BY <1>4, <3>1, <3>2, GivenUpIs
      <3>3. CASE record.attempts[a].tx # 0
        BY <1>1, <1>4, <3>1, <3>3, AttemptsAreDecided DEF Refused, Accepted, Final
      <3>4. QED
        BY <3>2, <3>3
    <2>2. CASE \A a \in AttemptsOf(record, v) : record.attempts[a].state # "FAILED"
      <3>1. \A a \in AttemptsOf(record, v) : record.attempts[a].state = "COMPLETED"
        BY <1>1, <1>4, <2>2, AttemptsAreDecided DEF Final
      <3>2. AttemptsOf(record, v) = CompletedOf(record, v)
        BY <3>1 DEF CompletedOf
      <3>3. Cardinality(PaidOf(v)) = Cardinality(CompletedOf(record, v))
        BY <3>2, AllAttemptsPaid
      <3>4. Cardinality(CompletedOf(record, v)) # Payouts
        BY <1>1, <1>2, <1>4 DEF SettledAs, AllCompleted, Final
      <3>5. Cardinality(PaidOf(v)) <= Payouts /\ Cardinality(PaidOf(v)) \in Nat
        BY PaidCount, AcceptedAreFinite
      <3>6. QED
        BY <1>4, <3>2, <3>3, <3>4, <3>5, RecordAssumption DEF RecordAssumption
    <2>3. QED
      BY <2>1, <2>2
  <1>5. QED
    BY <1>3, <1>4 DEF Final

\* The records have the same attempts, the same ones written off.
SameTries(rec, new) ==
  /\ DOMAIN new.attempts = DOMAIN rec.attempts
  /\ \A a \in DOMAIN rec.attempts :
       /\ new.attempts[a].v = rec.attempts[a].v /\ new.attempts[a].i = rec.attempts[a].i
       /\ new.attempts[a].state = "FAILED" /\ new.attempts[a].tx = 0 <=>
            rec.attempts[a].state = "FAILED" /\ rec.attempts[a].tx = 0

\* What is tried and given up stays so when the attempts do.
LEMMA TriesStay ==
  ASSUME SameTries(record, record')
  PROVE  UNCHANGED <<TriedOf, GivenUpOf>> /\ \A v : GivenUp(v)' = GivenUp(v)
  <1>1. \A v : AttemptsOf(record', v) = AttemptsOf(record, v)
    BY DEF SameTries, AttemptsOf
  <1>2. ASSUME NEW v, NEW i PROVE WrittenOff(v, i)' <=> WrittenOff(v, i)
    <2>1. \A a \in AttemptsOf(record, v) : a \in DOMAIN record.attempts
      BY DEF AttemptsOf
    <2>2. QED
      BY <1>1, <2>1 DEF SameTries, WrittenOff
  <1>3. \A v : (GivenUp(v)' <=> GivenUp(v))
    BY <1>2 DEF GivenUp
  <1>4. \A v : GivenUp(v)' = GivenUp(v)
    BY <1>3 DEF GivenUp
  <1>5. TriedOf' = TriedOf
    BY <1>1 DEF TriedOf
  <1>6. GivenUpOf' = GivenUpOf
    BY <1>4, Zenon DEF GivenUpOf
  <1>7. QED
    BY <1>4, <1>5, <1>6

\* A step that leaves the ledger alone: the broker sees the tries and the status
\* of plans only.
LEMMA LedgerStays ==
  ASSUME ledger' = ledger
  PROVE  /\ UNCHANGED <<AskedOf, PaidBy, RefusedOf>>
         /\ \A v : Accepted(v)' = Accepted(v) /\ PaidOf(v)' = PaidOf(v) /\ (Refused(v)' <=> Refused(v))
  <1>1. \A v : Accepted(v)' = Accepted(v) /\ PaidOf(v)' = PaidOf(v) /\ (Refused(v)' <=> Refused(v))
    BY DEF Accepted, PaidOf, Refused
  <1>2. AskedOf' = AskedOf /\ PaidBy' = PaidBy
    BY <1>1 DEF AskedOf, PaidBy
  <1>3. RefusedOf' = RefusedOf
    BY ledger' = ledger, Zenon DEF RefusedOf, Refused, Accepted
  <1>4. QED
    BY <1>1, <1>2, <1>3

\* The phases stay as long as the plans do.
LEMMA PhasesStay ==
  ASSUME record'.plans = record.plans
  PROVE  Phases' = Phases
  <1>1. \A v \in Versions : PhaseOf(v)' = PhaseOf(v)
    BY DEF PhaseOf, HasPlan
  <1>2. QED
    BY <1>1 DEF Phases

\* A step that the broker cannot see.
LEMMA Unseen ==
  ASSUME ledger' = ledger, record'.plans = record.plans, SameTries(record, record')
  PROVE  UNCHANGED Promise!pvars
  <1>1. UNCHANGED <<TriedOf, AskedOf, PaidBy, RefusedOf, GivenUpOf, Phases>>
    BY TriesStay, LedgerStays, PhasesStay
  <1>2. QED
    BY <1>1 DEF Promise!pvars, TriedOf, AskedOf, PaidBy, RefusedOf, Refused, GivenUpOf, GivenUp, Phases

\* The status of one plan changes, and nothing else that the broker sees.
LEMMA PhaseMoves ==
  ASSUME NEW v \in Versions, ledger' = ledger, SameTries(record, record'),
         DOMAIN record'.plans = DOMAIN record.plans,
         \A w \in DOMAIN record.plans \ {v} : record'.plans[w].status = record.plans[w].status
  PROVE  /\ UNCHANGED <<TriedOf, AskedOf, PaidBy, RefusedOf, GivenUpOf>>
         /\ Phases' = [Phases EXCEPT ![v] = PhaseOf(v)']
  <1>1. \A w \in Versions \ {v} : PhaseOf(w)' = PhaseOf(w)
    BY DEF PhaseOf, HasPlan
  <1>2. Phases' = [Phases EXCEPT ![v] = PhaseOf(v)']
    BY <1>1 DEF Phases
  <1>3. QED
    BY <1>2, TriesStay, LedgerStays

\* The attempt a submission is on is open and has no transaction.
LEMMA AttemptedIsOpen ==
  ASSUME CaseInv, NEW v \in Versions, OwnsActive(v), exec[v] \in {"BEAT", "PREFLIGHT", "WAIT"}
  PROVE  /\ record \in Record /\ LastAttempt \in DOMAIN record.attempts
         /\ LastAttempt \in AttemptsOf(record, v)
         /\ record.attempts[LastAttempt].state = "SUBMITTING" /\ record.attempts[LastAttempt].tx = 0
  BY DEF CaseInv, RecordInv, ExecInv, Attempting, AttemptsOf

\* The catch clause marks the attempt with the state that the error gave, or
\* saves nothing.
LEMMA CaughtIs ==
  ASSUME CaseInv, NEW v \in Versions, exec[v] \in {"PREFLIGHT", "WAIT"}, Caught(v)
  PROVE  \/ record' = record
         \/ \E s \in {"AMBIGUOUS", "FAILED"} : \E new :
              Marks(record, new, LastAttempt, s, 0) /\ record' = Bump(new)
  <1>1. CASE SubmitError \in evidence
    BY <1>1 DEF Caught, rvars
  <1>2. CASE SubmitError \notin evidence
    <2>1. PICK s \in {"AMBIGUOUS", "FAILED"} :
            \E f \in ErrorFindings(s) : ExecutorSave(WithError(record, v, LastAttempt, s, f))
      BY <1>2 DEF Caught
    <2>2. PICK f \in ErrorFindings(s) : ExecutorSave(WithError(record, v, LastAttempt, s, f))
      BY <2>1
    <2>3. PICK new : new = WithError(record, v, LastAttempt, s, f)
      OBVIOUS
    <2>4. s \in States /\ f \in Raised
      BY <2>2 DEF States, OpenStates, ErrorFindings, Raised
    <2>5. /\ record \in Record /\ LastAttempt \in DOMAIN record.attempts
          /\ record.attempts[LastAttempt].tx = 0
      BY AttemptedIsOpen DEF Caught
    <2>6. Marks(record, new, LastAttempt, s, record.attempts[LastAttempt].tx)
      BY <2>3, <2>4, <2>5, WithErrorIs
    <2>7. Marks(record, new, LastAttempt, s, 0) /\ record' = Bump(new)
      BY <2>2, <2>3, <2>5, <2>6 DEF ExecutorSave
    <2>8. QED
      BY <2>7
  <1>3. QED
    BY <1>1, <1>2

\* The provider's answer marks the attempt with a transaction.
LEMMA AnswerIs ==
  ASSUME CaseInv, NEW v \in Versions, Answer(v)
  PROVE  \E s, new : \E k \in Nat \ {0} : Marks(record, new, LastAttempt, s, k) /\ record' = Bump(new)
  <1>1. PICK k, s, found :
          /\ k \in DOMAIN ledger /\ s \in {"PENDING", ledger[k].state} /\ found \in ResultFindings(s)
          /\ ExecutorSave(WithResult(record, LastAttempt, s, k, found))
    BY DEF Answer
  <1>2. PICK new : new = WithResult(record, LastAttempt, s, k, found)
    OBVIOUS
  <1>3. record \in Record /\ LastAttempt \in DOMAIN record.attempts
    BY AttemptedIsOpen DEF Answer
  <1>4. k \in Nat \ {0} /\ s \in ProviderStates
    <2>1. ledger \in Seq(Payout)
      BY DEF CaseInv, ProviderInv
    <2>2. k \in Nat \ {0} /\ ledger[k] \in Payout
      BY <1>1, <2>1
    <2>3. QED
      BY <1>1, <2>2 DEF Payout, ProviderStates
  <1>5. Marks(record, new, LastAttempt, s, k)
    BY <1>1, <1>2, <1>3, <1>4, WithResultIs
  <1>6. QED
    BY <1>1, <1>2, <1>4, <1>5 DEF ExecutorSave

\* A new attempt is added, and nothing else of the record is touched.
LEMMA StartIs ==
  ASSUME CaseInv, NEW v \in Versions, StartAttempt(v)
  PROVE  LET t == [v |-> v, i |-> NextPayout(record, v), state |-> "SUBMITTING", tx |-> 0] IN
         record'.attempts = Append(record.attempts, t) /\ record'.plans = record.plans /\ ledger' = ledger
  <1>1. record \in Record
    BY DEF CaseInv, RecordInv
  <1>2. QED
    BY <1>1 DEF StartAttempt, ExecutorSave, Bump, StartedAttempt, Record, pvars

\* The saves of a submission leave the plans alone.
LEMMA SubmissionKeepsPlans ==
  ASSUME CaseInv, NEW v \in Versions, ExecutorStep(v)
  PROVE  record'.plans = record.plans /\ ledger' = ledger
  <1>1. record \in Record
    BY DEF CaseInv, RecordInv
  <1>2. CASE StartAttempt(v)
    BY <1>2, StartIs
  <1>3. ASSUME exec[v] \in {"PREFLIGHT", "WAIT"}, Caught(v)
        PROVE  record'.plans = record.plans /\ ledger' = ledger
    <2>1. record' = record \/ \E s, new : Marks(record, new, LastAttempt, s, 0) /\ record' = Bump(new)
      BY <1>3, CaughtIs
    <2>2. record'.plans = record.plans
      BY <2>1, BumpIs DEF Marks
    <2>3. QED
      BY <1>3, <2>2 DEF Caught
  <1>4. CASE Answer(v)
    BY <1>4, AnswerIs, BumpIs DEF Answer, Marks, pvars
  <1>5. CASE Pause(v)
    BY <1>1, <1>5 DEF Pause, ExecutorSave, Bump, Paused, Record, pvars
  <1>6. CASE Beat(v) \/ Post(v) \/ ReservationLost(v) \/ HandOver(v)
    BY <1>6 DEF Beat, Post, ReservationLost, HandOver, rvars, pvars
  <1>7. CASE PreflightFails(v) \/ Rejected(v) \/ NoAnswer(v)
    BY <1>3, <1>7 DEF PreflightFails, Rejected, NoAnswer
  <1>8. QED
    BY <1>2, <1>4, <1>5, <1>6, <1>7 DEF ExecutorStep

\* A payout is tried when all before it are paid.
LEMMA TryIsPromised ==
  ASSUME CaseInv, NEW v \in Versions, StartAttempt(v)
  PROVE  Promise!Try(v)
  <1> DEFINE t == [v |-> v, i |-> NextPayout(record, v), state |-> "SUBMITTING", tx |-> 0]
             last == Len(record.attempts) + 1
             tried == Cardinality(AttemptsOf(record, v))
  <1>1. record \in Record /\ row \in Row /\ RowInv /\ ExecInv(v)
    BY DEF CaseInv, RecordInv, RowInv
  <1>2. record'.attempts = Append(record.attempts, t) /\ record'.plans = record.plans /\ ledger' = ledger
    BY StartIs
  <1>3. t.v = v /\ t.state = "SUBMITTING"
    OBVIOUS
  <1> HIDE DEF t
  <1>4. /\ DOMAIN record'.attempts = DOMAIN record.attempts \cup {last} /\ last \notin DOMAIN record.attempts
        /\ record'.attempts[last] = t
        /\ \A a \in DOMAIN record.attempts : record'.attempts[a] = record.attempts[a]
    <2>1. record.attempts \in Seq(Attempt)
      BY <1>1 DEF Record
    <2>2. QED
      BY <1>2, <2>1
  <1> HIDE DEF last
  <1>5. /\ AttemptsOf(record', v) = AttemptsOf(record, v) \cup {last} /\ last \notin AttemptsOf(record, v)
        /\ \A w \in Versions \ {v} : AttemptsOf(record', w) = AttemptsOf(record, w)
    BY <1>3, <1>4 DEF AttemptsOf
  <1>6. IsFiniteSet(AttemptsOf(record, v)) /\ tried \in Nat
    BY <1>1, AttemptsAreFinite
  <1>7. TriedOf' = [TriedOf EXCEPT ![v] = @ + 1]
    <2>1. Cardinality(AttemptsOf(record', v)) = tried + 1
      BY <1>5, <1>6, FS_AddElement
    <2>2. QED
      BY <1>5, <2>1 DEF TriedOf
  <1>8. GivenUpOf' = GivenUpOf
    <2>1. ASSUME NEW w \in Versions, NEW i PROVE WrittenOff(w, i)' <=> WrittenOff(w, i)
      <3>1. AttemptsOf(record, w) \subseteq AttemptsOf(record', w)
            /\ AttemptsOf(record', w) \subseteq AttemptsOf(record, w) \cup {last}
        BY <1>5
      <3>2. \A a \in AttemptsOf(record, w) : record'.attempts[a] = record.attempts[a]
        BY <1>4 DEF AttemptsOf
      <3>3. record'.attempts[last].state # "FAILED"
        BY <1>3, <1>4
      <3>4. QED
        BY <3>1, <3>2, <3>3 DEF WrittenOff
    <2>2. \A w \in Versions : GivenUp(w)' = GivenUp(w)
      BY <2>1 DEF GivenUp
    <2>3. QED
      BY <2>2, Zenon DEF GivenUpOf
  <1>9. OwnsActive(v) /\ exec[v] = "LOOP" /\ NextPayout(record, v) <= Payouts
    BY DEF StartAttempt
  <1>10. PhaseOf(v) = "OPEN"
    BY <1>1, <1>9 DEF RowInv, OwnsActive, PhaseOf, Final
  <1>11. AttemptsOf(record, v) = CompletedOf(record, v)
    BY <1>1, <1>9 DEF ExecInv
  <1>12. ~GivenUp(v)
    BY <1>11, GivenUpIs DEF CompletedOf
  <1>13. tried = Cardinality(PaidOf(v))
    BY <1>11, AllAttemptsPaid
  <1>14. tried < Payouts
    BY <1>6, <1>9, RecordAssumption DEF NextPayout, RecordAssumption
  <1>15. UNCHANGED <<AskedOf, PaidBy, RefusedOf, Phases>>
    BY <1>2, LedgerStays, PhasesStay
  <1>16. /\ Phases[v] = "OPEN" /\ ~GivenUpOf[v] /\ TriedOf[v] = PaidBy[v] /\ TriedOf[v] < Payouts
    BY <1>10, <1>12, <1>13, <1>14 DEF Phases, GivenUpOf, TriedOf, PaidBy
  <1>17. QED
    BY <1>7, <1>8, <1>15, <1>16
    DEF Promise!Try, TriedOf, AskedOf, PaidBy, RefusedOf, Refused, GivenUpOf, GivenUp, Phases

\* An error gives the payout up, or is not seen by the broker.
LEMMA CaughtIsPromised ==
  ASSUME CaseInv, NEW v \in Versions, exec[v] \in {"PREFLIGHT", "WAIT"}, Caught(v)
  PROVE  Promise!GiveUp(v) \/ UNCHANGED Promise!pvars
  <1>1. OwnsActive(v) /\ ledger' = ledger
    BY DEF Caught
  <1>2. /\ record \in Record /\ LastAttempt \in DOMAIN record.attempts
        /\ LastAttempt \in AttemptsOf(record, v) /\ record.attempts[LastAttempt].state = "SUBMITTING"
    BY <1>1, AttemptedIsOpen
  <1>3. CASE record' = record
    BY <1>1, <1>3, Unseen DEF SameTries
  <1>4. ASSUME NEW s \in {"AMBIGUOUS", "FAILED"}, NEW new,
               Marks(record, new, LastAttempt, s, 0), record' = Bump(new)
        PROVE  Promise!GiveUp(v) \/ UNCHANGED Promise!pvars
    <2>1. record'.plans = record.plans /\ record'.attempts = new.attempts
      BY <1>4, BumpIs DEF Marks
    <2>2. /\ DOMAIN record'.attempts = DOMAIN record.attempts
          /\ \A b \in DOMAIN record.attempts \ {LastAttempt} : record'.attempts[b] = record.attempts[b]
          /\ record'.attempts[LastAttempt].v = record.attempts[LastAttempt].v
          /\ record'.attempts[LastAttempt].i = record.attempts[LastAttempt].i
          /\ record'.attempts[LastAttempt].state = s /\ record'.attempts[LastAttempt].tx = 0
      BY <1>4, <2>1 DEF Marks
    <2>3. CASE s = "AMBIGUOUS"
      <3>1. SameTries(record, record')
        BY <1>2, <2>2, <2>3 DEF SameTries
      <3>2. QED
        BY <1>1, <2>1, <3>1, Unseen
    <2>4. CASE s = "FAILED"
      <3>1. \A w : AttemptsOf(record', w) = AttemptsOf(record, w)
        BY <1>2, <2>2 DEF AttemptsOf
      <3>2. TriedOf' = TriedOf
        BY <3>1 DEF TriedOf
      <3>3. record.attempts[LastAttempt].i \in 1..Payouts /\ record.attempts[LastAttempt].v = v
        BY <1>2, AttemptTypes DEF Attempt, AttemptsOf
      <3>4. GivenUp(v)'
        BY <1>2, <2>2, <2>4, <3>1, <3>3 DEF GivenUp, WrittenOff
      <3>5. \A w \in Versions \ {v} : GivenUp(w)' = GivenUp(w)
        <4>1. SUFFICES ASSUME NEW w \in Versions \ {v} PROVE GivenUp(w)' = GivenUp(w)
          OBVIOUS
        <4>2. \A a \in AttemptsOf(record, w) : record'.attempts[a] = record.attempts[a]
          BY <1>2, <2>2 DEF AttemptsOf
        <4>3. \A i : WrittenOff(w, i)' <=> WrittenOff(w, i)
          BY <3>1, <4>2 DEF WrittenOff
        <4>4. QED
          BY <4>3 DEF GivenUp
      <3>6. GivenUpOf' = [GivenUpOf EXCEPT ![v] = TRUE]
        <4>1. GivenUp(v)' = TRUE
          BY <3>4 DEF GivenUp
        <4>2. QED
          BY <3>5, <4>1 DEF GivenUpOf
      <3>7. PhaseOf(v) = "OPEN"
        BY <1>1 DEF CaseInv, RowInv, OwnsActive, PhaseOf, Final
      <3>8. Cardinality(AttemptsOf(record, v)) > 0
        <4>1. IsFiniteSet(AttemptsOf(record, v)) /\ Cardinality(AttemptsOf(record, v)) \in Nat
          BY <1>2, AttemptsAreFinite
        <4>2. Cardinality(AttemptsOf(record, v)) # 0
          BY <1>2, <4>1, FS_EmptySet
        <4>3. QED
          BY <4>1, <4>2
      <3>9. Phases[v] = "OPEN" /\ TriedOf[v] > 0
        BY <3>7, <3>8 DEF Phases, TriedOf
      <3>10. UNCHANGED <<AskedOf, PaidBy, RefusedOf, Phases>>
        BY <1>1, <2>1, LedgerStays, PhasesStay
      <3>11. Promise!GiveUp(v)
        BY <3>2, <3>6, <3>9, <3>10
        DEF Promise!GiveUp, TriedOf, AskedOf, PaidBy, RefusedOf, Refused, GivenUpOf, GivenUp, Phases
      <3>12. QED
        BY <3>11
    <2>5. QED
      BY <2>3, <2>4
  <1>5. QED
    BY <1>3, <1>4, CaughtIs

\* A step of a submission tries a payout, gives it up, or is not seen.
LEMMA SubmissionIsPromised ==
  ASSUME CaseInv, NEW v \in Versions, ExecutorStep(v)
  PROVE  Promise!Next \/ UNCHANGED Promise!pvars
  <1>0. record'.plans = record.plans /\ ledger' = ledger /\ record \in Record
    BY SubmissionKeepsPlans DEF CaseInv, RecordInv
  <1>1. CASE StartAttempt(v)
    BY <1>1, TryIsPromised DEF Promise!Next
  <1>2. CASE PreflightFails(v) \/ Rejected(v) \/ NoAnswer(v)
    BY <1>2, CaughtIsPromised DEF Promise!Next, PreflightFails, Rejected, NoAnswer
  <1>3. CASE Answer(v)
    <2>1. PICK s, new, k : k # 0 /\ Marks(record, new, LastAttempt, s, k) /\ record' = Bump(new)
      BY <1>3, AnswerIs
    <2>2. record'.attempts = new.attempts
      BY <2>1, BumpIs DEF Marks
    <2>3. LastAttempt \in DOMAIN record.attempts /\ record.attempts[LastAttempt].state = "SUBMITTING"
      BY <1>3, AttemptedIsOpen DEF Answer
    <2>4. SameTries(record, record')
      BY <2>1, <2>2, <2>3 DEF SameTries, Marks
    <2>5. QED
      BY <1>0, <2>4, Unseen
  <1>4. CASE Pause(v)
    <2>1. record'.attempts = record.attempts
      BY <1>0, <1>4 DEF Pause, ExecutorSave, Bump, Paused, Record
    <2>2. QED
      BY <1>0, <2>1, Unseen DEF SameTries
  <1>5. CASE Beat(v) \/ Post(v) \/ ReservationLost(v) \/ HandOver(v)
    <2>1. record' = record
      BY <1>5 DEF Beat, Post, ReservationLost, HandOver, rvars
    <2>2. QED
      BY <1>0, <2>1, Unseen DEF SameTries
  <1>6. QED
    BY <1>1, <1>2, <1>3, <1>4, <1>5 DEF ExecutorStep

\* The save of a reconcile call settles its plan or leaves it executing.
LEMMA SavedPlans ==
  ASSUME CaseInv, NEW r \in Reconcilers, Save(r), MaySave(rc[r])
  PROVE  LET v == rc[r].v IN
         /\ v \in Versions /\ Claimed(rc[r]) /\ OwnsClaim(rc[r])
         /\ v \in DOMAIN record.plans /\ DOMAIN record'.plans = DOMAIN record.plans
         /\ \A w \in DOMAIN record.plans \ {v} : record'.plans[w].status = record.plans[w].status
         /\ record'.status \in Final =>
              /\ record'.plans[v].status = record'.status
              /\ record.plans[v].status \in {"EXECUTING", record'.status}
         /\ record'.status \notin Final =>
              record'.plans[v].status = "EXECUTING" /\ record.plans[v].status = "EXECUTING"
  <1>1. /\ rc[r].pc = "LOOP" /\ rc[r] \in CallRecord /\ CallInv(r)
        /\ record' = Bump(Settled(rc[r].rec, rc[r].v))
    BY CallsAreTyped DEF Save, CaseInv
  <1>2. PICK v \in Versions, rec \in Record : v = rc[r].v /\ rec = rc[r].rec
    BY <1>1 DEF CallRecord
  <1>3. /\ Claimed(rc[r]) /\ OwnsClaim(rc[r]) /\ row.ver = v
        /\ Observes(rec, rc[r].todo) /\ HasPlan(rec, v)
    BY <1>1, <1>2 DEF MaySave, CallInv, OwnsClaim
  <1>4. Keeps(record, rec) /\ rec.plans = record.plans
    BY <1>3 DEF Observes, Keeps, HasPlan
  <1>5. RecordInv(rec)
    BY <1>4, KeepsRecordInv DEF CaseInv
  <1>6. record.plans[v].status \in Submitted /\ v \in DOMAIN record.plans
    BY <1>3, <1>4, HeldRow DEF HasPlan
  <1>7. PICK new, s : new = Settled(rec, v) /\ s = SettlementStatus(rec, v)
    OBVIOUS
  <1>8. /\ new \in Record /\ new.status = s /\ DOMAIN new.plans = DOMAIN rec.plans
        /\ \A w \in DOMAIN rec.plans \ {v} : new.plans[w] = rec.plans[w]
        /\ new.plans[v].status = IF s \in Final THEN s ELSE rec.plans[v].status
    BY <1>3, <1>5, <1>7, SettledIs
  <1>9. \A w \in DOMAIN rec.plans : rec.plans[w].status \in Final => new.plans[w].status = rec.plans[w].status
    BY <1>3, <1>4, <1>5, <1>6, <1>7, SettledKeepsInv
  <1>10. record.plans[v].status \in Final => s \in Final
    <2>1. SUFFICES ASSUME record.plans[v].status \in Final PROVE s \in Final
      OBVIOUS
    <2>2. AttemptsOf(rec, v) \cap OpenAttempts(rec) = {}
      BY <1>4, <1>5, <1>6, <2>1 DEF RecordInv, SettledAs
    <2>3. QED
      BY <1>7, <2>2 DEF SettlementStatus, Final
  <1>11. record'.plans = new.plans /\ record'.status = s
    BY <1>1, <1>2, <1>7, <1>8, BumpIs
  <1>12. QED
    BY <1>2, <1>3, <1>4, <1>6, <1>8, <1>9, <1>10, <1>11 DEF Submitted, Final

\* A save that is accepted has the attempts that the call observed.
LEMMA SavedIs ==
  ASSUME CaseInv, NEW r \in Reconcilers, Save(r), MaySave(rc[r])
  PROVE  /\ record'.rev = NewRev /\ record'.attempts = rc[r].rec.attempts
         /\ Current(rc[r]) /\ rc[r].pc # "IDLE"
         /\ Observes(rc[r].rec, rc[r].todo) /\ Traced(rc[r].rec)
  <1>1. /\ rc[r].pc = "LOOP" /\ rc[r] \in CallRecord /\ CallInv(r)
        /\ record' = Bump(Settled(rc[r].rec, rc[r].v))
    BY CallsAreTyped DEF Save, CaseInv
  <1>2. PICK v \in Versions, rec \in Record : v = rc[r].v /\ rec = rc[r].rec
    BY <1>1 DEF CallRecord
  <1>3. Current(rc[r]) /\ Observes(rec, rc[r].todo) /\ HasPlan(rec, v) /\ Traced(rec)
    BY <1>1, <1>2 DEF MaySave, CallInv
  <1>4. Keeps(record, rec)
    BY <1>3 DEF Observes, Keeps, HasPlan
  <1>5. RecordInv(rec)
    BY <1>4, KeepsRecordInv DEF CaseInv
  <1>6. PICK new : new = Settled(rec, v)
    OBVIOUS
  <1>7. new \in Record /\ new.attempts = rec.attempts
    BY <1>3, <1>5, <1>6, SettledIs
  <1>8. record'.attempts = rec.attempts /\ record'.rev = NewRev
    BY <1>1, <1>2, <1>6, <1>7, BumpIs
  <1>9. QED
    BY <1>1, <1>2, <1>3, <1>8

\* A save that is accepted writes no attempt off.
LEMMA SavedTries ==
  ASSUME CaseInv, NEW r \in Reconcilers, Save(r), MaySave(rc[r])
  PROVE  SameTries(record, record') /\ ledger' = ledger
  <1>1. record'.attempts = rc[r].rec.attempts /\ Observes(rc[r].rec, rc[r].todo)
    BY SavedIs
  <1>2. \A a \in DOMAIN record.attempts :
          a \in OpenAttempts(record) => record.attempts[a].state # "FAILED"
    BY DEF OpenAttempts, OpenStates
  <1>3. SameTries(record, record')
    BY <1>1, <1>2 DEF Observes, SameTries
  <1>4. QED
    BY <1>3 DEF Save, pvars

\* Only a save that is accepted changes the record.
LEMMA ReconcilersKeepPlans ==
  ASSUME CaseInv, NEW r \in Reconcilers, ReadCase(r) \/ ReconcilerStep(r), ~(Save(r) /\ MaySave(rc[r]))
  PROVE  record' = record /\ ledger' = ledger
  BY DEF ReadCase, ReconcilerStep, Claim, GoOnUnclaimed, ClaimRefused, AskProvider, Observe, Lookup, AskFails,
         Save, Release, rvars, pvars

\* executePlan opens a plan.
LEMMA PlanIsOpened ==
  ASSUME CaseInv, NEW v \in Versions, ExecutePlan(v)
  PROVE  /\ v \in DOMAIN record.plans /\ record.plans[v].status = "AUTHORIZED"
         /\ DOMAIN record'.plans = DOMAIN record.plans
         /\ \A w \in DOMAIN record.plans \ {v} : record'.plans[w].status = record.plans[w].status
         /\ record'.plans[v].status = "EXECUTING"
        /\ SameTries(record, record') /\ ledger' = ledger
  <1> DEFINE new == [record EXCEPT !.plans[v].status = "EXECUTING", !.status = "QUEUED"]
  <1>1. record \in Record /\ v \in DOMAIN record.plans /\ record.plans[v].status = "AUTHORIZED"
    BY DEF CaseInv, RecordInv, ExecutePlan, Executable, HasPlan
  <1>2. record' = Bump(new)
    BY DEF ExecutePlan, ExecutorSave
  <1>3. new.plans = [record.plans EXCEPT ![v] = [record.plans[v] EXCEPT !.status = "EXECUTING"]]
    BY <1>1 DEF Record
  <1>4. record'.plans = new.plans
    BY <1>1, <1>2 DEF Bump, Record
  <1>5. record.plans[v] \in Plan
    BY <1>1, AttemptTypes
  <1>6. record'.attempts = record.attempts /\ ledger' = ledger
    BY <1>1, <1>2 DEF Bump, Record, ExecutePlan, pvars
  <1> HIDE DEF new
  <1>7. SameTries(record, record')
    BY <1>6 DEF SameTries
  <1>8. QED
    BY <1>1, <1>3, <1>4, <1>5, <1>6, <1>7 DEF Plan

\* The start of executePlan opens the plan.
LEMMA OpenIsPromised ==
  ASSUME CaseInv, NEW v \in Versions, ExecutePlan(v)
  PROVE  Promise!Open(v)
  <1>1. /\ v \in DOMAIN record.plans /\ record.plans[v].status = "AUTHORIZED"
        /\ DOMAIN record'.plans = DOMAIN record.plans
        /\ \A w \in DOMAIN record.plans \ {v} : record'.plans[w].status = record.plans[w].status
        /\ record'.plans[v].status = "EXECUTING"
        /\ SameTries(record, record') /\ ledger' = ledger
    BY PlanIsOpened
  <1>2. PhaseOf(v) = "NEW" /\ PhaseOf(v)' = "OPEN"
    BY <1>1 DEF PhaseOf, HasPlan, Final
  <1>3. /\ UNCHANGED <<TriedOf, AskedOf, PaidBy, RefusedOf, GivenUpOf>> /\ Phases[v] = "NEW"
        /\ Phases' = [Phases EXCEPT ![v] = "OPEN"]
    BY <1>1, <1>2, PhaseMoves DEF Phases
  <1>4. QED
    BY <1>3 DEF Promise!Open, TriedOf, AskedOf, PaidBy, RefusedOf, Refused, GivenUpOf, GivenUp, Phases

\* A reconcile call settles a plan as the provider has decided, or as its record
\* has given up.
LEMMA CloseIsPromised ==
  ASSUME CaseInv, SettledAsPaid', Stands, NEW r \in Reconcilers, Save(r), MaySave(rc[r]),
         NEW v \in Versions, v = rc[r].v, PhaseOf(v)' # PhaseOf(v)
  PROVE  Promise!Close(v)
  <1>1. /\ v \in DOMAIN record.plans /\ DOMAIN record'.plans = DOMAIN record.plans
        /\ \A w \in DOMAIN record.plans \ {v} : record'.plans[w].status = record.plans[w].status
        /\ record'.plans[v].status \in {record.plans[v].status} \cup Final
        /\ record.plans[v].status \in {"EXECUTING"} \cup Final
    BY SavedPlans
  <1>2. record.plans[v].status = "EXECUTING" /\ record'.plans[v].status \in Final
    <2>1. record'.plans[v].status # record.plans[v].status
      BY <1>1 DEF PhaseOf, HasPlan
    <2>2. record.plans[v].status \notin Final
      BY <1>1, <2>1 DEF Stands, HasPlan
    <2>3. QED
      BY <1>1, <2>1, <2>2
  <1>3. PhaseOf(v) = "OPEN" /\ PhaseOf(v)' \in Final
    BY <1>1, <1>2 DEF PhaseOf, HasPlan, Final
  <1>4. ledger' = ledger /\ SameTries(record, record')
    BY SavedTries
  <1>5. /\ UNCHANGED <<TriedOf, AskedOf, PaidBy, RefusedOf, GivenUpOf>> /\ Phases[v] = "OPEN"
        /\ Phases' = [Phases EXCEPT ![v] = PhaseOf(v)']
    BY <1>1, <1>3, <1>4, PhaseMoves DEF Phases
  <1>6. /\ PhaseOf(v)' = "RECONCILED" => PaidBy[v] = Payouts /\ ~GivenUpOf[v]
        /\ PhaseOf(v)' = "FAILED" =>
             RefusedOf[v] \/ GivenUpOf[v] \/ (TriedOf[v] = PaidBy[v] /\ PaidBy[v] < Payouts)
    <2>1. /\ PhaseOf(v)' = "RECONCILED" => Cardinality(PaidOf(v)') = Payouts /\ ~GivenUp(v)'
          /\ PhaseOf(v)' = "FAILED" =>
               \/ Refused(v)' \/ GivenUp(v)'
               \/ /\ Cardinality(AttemptsOf(record', v)) = Cardinality(PaidOf(v)')
                  /\ Cardinality(PaidOf(v)') < Payouts
      BY <1>1 DEF SettledAsPaid
    <2>2. /\ PaidOf(v)' = PaidOf(v) /\ (Refused(v)' <=> Refused(v)) /\ GivenUp(v)' = GivenUp(v)
          /\ AttemptsOf(record', v) = AttemptsOf(record, v)
      BY <1>4, LedgerStays, TriesStay DEF SameTries, AttemptsOf
    <2>3. /\ PaidBy[v] = Cardinality(PaidOf(v)) /\ TriedOf[v] = Cardinality(AttemptsOf(record, v))
          /\ RefusedOf[v] = Refused(v) /\ GivenUpOf[v] = GivenUp(v)
      BY <1>1 DEF PaidBy, TriedOf, RefusedOf, GivenUpOf
    <2>4. QED
      BY <2>1, <2>2, <2>3
  <1>7. \/ PaidBy[v] = Payouts /\ ~GivenUpOf[v] /\ Phases' = [Phases EXCEPT ![v] = "RECONCILED"]
        \/ /\ RefusedOf[v] \/ GivenUpOf[v] \/ (TriedOf[v] = PaidBy[v] /\ PaidBy[v] < Payouts)
           /\ Phases' = [Phases EXCEPT ![v] = "FAILED"]
    BY <1>3, <1>5, <1>6 DEF Final
  <1>8. QED
    BY <1>5, <1>7 DEF Promise!Close, TriedOf, AskedOf, PaidBy, RefusedOf, Refused, GivenUpOf, GivenUp, Phases

\* What the provider does to one payout of plan v, as the broker sees it.
LEMMA ProviderActs ==
  ASSUME CaseInv, record' = record, NEW v \in Versions, NEW k, NEW s \in ProviderStates,
         NEW paid, NEW asked,
         Accepted(v)' = asked, PaidOf(v)' = paid,
         asked \in {Accepted(v), Accepted(v) \cup {k}}, paid \in {PaidOf(v), PaidOf(v) \cup {k}},
         k \notin PaidOf(v),
         \A w \in Versions \ {v} : Accepted(w)' = Accepted(w) /\ PaidOf(w)' = PaidOf(w) /\ Refused(w)' = Refused(w)
  PROVE  /\ AskedOf' = [AskedOf EXCEPT ![v] = IF k \in asked \ Accepted(v) THEN @ + 1 ELSE @]
         /\ PaidBy' = [PaidBy EXCEPT ![v] = IF k \in paid THEN @ + 1 ELSE @]
         /\ RefusedOf' = [RefusedOf EXCEPT ![v] = Refused(v)']
         /\ UNCHANGED <<TriedOf, GivenUpOf, Phases>>
         /\ TriedOf[v] = Cardinality(AttemptsOf(record, v)) /\ GivenUpOf[v] = GivenUp(v)
         /\ AskedOf[v] = Cardinality(Accepted(v)) /\ PaidBy[v] = Cardinality(PaidOf(v))
         /\ RefusedOf[v] = Refused(v) /\ Phases[v] = PhaseOf(v)
  <1>1. Cardinality(asked) = IF k \in asked \ Accepted(v) THEN Cardinality(Accepted(v)) + 1 ELSE Cardinality(Accepted(v))
    BY AcceptedAreFinite, FS_AddElement
  <1>2. Cardinality(paid) = IF k \in paid THEN Cardinality(PaidOf(v)) + 1 ELSE Cardinality(PaidOf(v))
    BY AcceptedAreFinite, FS_AddElement
  <1>3. AskedOf' = [AskedOf EXCEPT ![v] = IF k \in asked \ Accepted(v) THEN @ + 1 ELSE @]
    BY <1>1 DEF AskedOf
  <1>4. PaidBy' = [PaidBy EXCEPT ![v] = IF k \in paid THEN @ + 1 ELSE @]
    BY <1>2 DEF PaidBy
  <1>5. RefusedOf' = [RefusedOf EXCEPT ![v] = Refused(v)']
    BY DEF RefusedOf
  <1>6. UNCHANGED <<TriedOf, GivenUpOf, Phases>>
    BY TriesStay, PhasesStay DEF SameTries
  <1>7. QED
    BY <1>3, <1>4, <1>5, <1>6 DEF TriedOf, AskedOf, PaidBy, RefusedOf, GivenUpOf, Phases

\* A request that is accepted is for the payout that was tried last, of a plan
\* that executes or has given it up.
LEMMA AskIsPromised ==
  ASSUME CaseInv, NEW q \in sent, Accept(q)
  PROVE  \E v \in Versions : Promise!Ask(v)
  <1>1. PICK s \in ProviderStates : ledger' = Append(ledger, [v |-> q[1], i |-> q[2], state |-> s])
    BY DEF Accept
  <1>2. PICK e : e = [v |-> q[1], i |-> q[2], state |-> s]
    OBVIOUS
  <1>3. PICK last : last = Len(ledger) + 1
    OBVIOUS
  <1>4. /\ ledger \in Seq(Payout) /\ q \in Request /\ record' = record /\ e \in Payout
        /\ e.v = q[1] /\ e.i = q[2] /\ e.state = s
    BY <1>2 DEF Accept, rvars, CaseInv, ProviderInv, Request, Payout
  <1>5. /\ DOMAIN ledger' = DOMAIN ledger \cup {last} /\ last \notin DOMAIN ledger
        /\ ledger'[last] = e /\ \A k \in DOMAIN ledger : ledger'[k] = ledger[k]
    BY <1>1, <1>2, <1>3, <1>4
  <1>6. PICK v \in Versions, i \in 1..Payouts : q = <<v, i>>
    BY <1>4 DEF Request
  <1>7. PICK a \in AttemptsOf(record, v) : record.attempts[a].i = i
    BY <1>6, AttemptFor
  <1>8. \A k \in Accepted(v) : ledger[k].i # i
    BY <1>6 DEF CaseInv, ProviderInv, IsOf, Accepted
  <1>9. a \notin CompletedOf(record, v)
    BY <1>7, <1>8, CompletedArePaid, AcceptedAreFinite
  <1>10. Accepted(v) = PaidOf(v)
    <2>1. \A k \in Accepted(v) : k \in PaidOf(v)
      BY <1>7, <1>8, <1>9, OthersArePaid
    <2>2. QED
      BY <2>1 DEF PaidOf
  <1>11. Cardinality(Accepted(v)) < Cardinality(AttemptsOf(record, v))
    <2> DEFINE rest == AttemptsOf(record, v) \ {a}
               f == [k \in Accepted(v) |-> CHOOSE b \in rest : record.attempts[b].i = ledger[k].i]
    <2>1. \A k \in Accepted(v) : \E b \in rest : record.attempts[b].i = ledger[k].i
      <3>1. SUFFICES ASSUME NEW k \in Accepted(v) PROVE \E b \in rest : record.attempts[b].i = ledger[k].i
        OBVIOUS
      <3>2. PICK b \in AttemptsOf(record, v) : record.attempts[b].i = ledger[k].i
        BY AttemptFor
      <3>3. b # a
        BY <1>7, <1>8, <3>2
      <3>4. QED
        BY <3>2, <3>3
    <2>2. \A k \in Accepted(v) : f[k] \in rest /\ record.attempts[f[k]].i = ledger[k].i
      BY <2>1
    <2>3. \A k, l \in Accepted(v) : ledger[k].i = ledger[l].i => k = l
      BY DEF CaseInv, ProviderInv, Accepted
    <2>4. f \in [Accepted(v) -> rest]
      BY <2>2
    <2> HIDE DEF f
    <2>5. f \in Injection(Accepted(v), rest)
      BY <2>2, <2>3, <2>4 DEF Injection, IsInjective
    <2>6. /\ IsFiniteSet(AttemptsOf(record, v)) /\ Cardinality(AttemptsOf(record, v)) \in Nat
      BY AttemptsAreFinite DEF CaseInv, RecordInv
    <2>7. IsFiniteSet(rest) /\ Cardinality(rest) = Cardinality(AttemptsOf(record, v)) - 1
      BY <1>7, <2>6, FS_RemoveElement
    <2> HIDE DEF rest
    <2>8. Cardinality(Accepted(v)) <= Cardinality(rest)
      BY <2>5, <2>7, FS_Injection
    <2>9. Cardinality(Accepted(v)) \in Nat
      BY AcceptedAreFinite
    <2>10. QED
      BY <2>6, <2>7, <2>8, <2>9
  <1>12. PhaseOf(v) = "OPEN" \/ GivenUp(v)
    BY <1>6, UnderWayIsAttempted DEF UnderWay, GivenUp, PhaseOf, Submitted
  <1>13. ~Refused(v)
    BY <1>10 DEF Refused, PaidOf
  <1>14. /\ Accepted(v)' = Accepted(v) \cup {last} /\ last \notin Accepted(v)
         /\ PaidOf(v)' = IF s = "COMPLETED" THEN PaidOf(v) \cup {last} ELSE PaidOf(v)
         /\ Refused(v)' <=> s = "FAILED"
    <2>1. Accepted(v)' = Accepted(v) \cup {last} /\ last \notin Accepted(v)
      BY <1>4, <1>5, <1>6 DEF Accepted
    <2>2. PaidOf(v)' = IF s = "COMPLETED" THEN PaidOf(v) \cup {last} ELSE PaidOf(v)
      BY <1>4, <1>5, <2>1 DEF PaidOf, Accepted
    <2>3. Refused(v)' <=> s = "FAILED"
      BY <1>4, <1>5, <1>13, <2>1 DEF Refused, Accepted
    <2>4. QED
      BY <2>1, <2>2, <2>3
  <1>15. \A w \in Versions \ {v} : Accepted(w)' = Accepted(w) /\ PaidOf(w)' = PaidOf(w) /\ (Refused(w)' <=> Refused(w))
    BY <1>4, <1>5, <1>6 DEF Accepted, PaidOf, Refused
  <1>16. PICK asked, paid : asked = Accepted(v)' /\ paid = PaidOf(v)'
    OBVIOUS
  <1>17. /\ AskedOf' = [AskedOf EXCEPT ![v] = IF last \in asked \ Accepted(v) THEN @ + 1 ELSE @]
         /\ PaidBy' = [PaidBy EXCEPT ![v] = IF last \in paid THEN @ + 1 ELSE @]
         /\ RefusedOf' = [RefusedOf EXCEPT ![v] = Refused(v)']
         /\ UNCHANGED <<TriedOf, GivenUpOf, Phases>>
         /\ TriedOf[v] = Cardinality(AttemptsOf(record, v)) /\ GivenUpOf[v] = GivenUp(v)
         /\ AskedOf[v] = Cardinality(Accepted(v)) /\ PaidBy[v] = Cardinality(PaidOf(v))
         /\ RefusedOf[v] = Refused(v) /\ Phases[v] = PhaseOf(v)
    <2>1. last \notin PaidOf(v)
      BY <1>10, <1>14
    <2>2. /\ asked \in {Accepted(v), Accepted(v) \cup {last}} /\ paid \in {PaidOf(v), PaidOf(v) \cup {last}}
          /\ Accepted(v)' = asked /\ PaidOf(v)' = paid
      BY <1>14, <1>16
    <2>3. \A w \in Versions \ {v} : Accepted(w)' = Accepted(w) /\ PaidOf(w)' = PaidOf(w) /\ Refused(w)' = Refused(w)
      BY <1>15 DEF Refused
    <2>4. QED
      BY <1>4, <2>1, <2>2, <2>3, ProviderActs
  <1>18. AskedOf' = [AskedOf EXCEPT ![v] = @ + 1]
    BY <1>14, <1>16, <1>17
  <1>19. last \in paid <=> s = "COMPLETED"
    BY <1>10, <1>14, <1>16
  <1>20. (Phases[v] = "OPEN" \/ GivenUpOf[v]) /\ AskedOf[v] < TriedOf[v]
    BY <1>11, <1>12, <1>17
  <1>21. \/ PaidBy' = PaidBy /\ RefusedOf' = RefusedOf
         \/ PaidBy' = [PaidBy EXCEPT ![v] = @ + 1] /\ RefusedOf' = RefusedOf
         \/ RefusedOf' = [RefusedOf EXCEPT ![v] = TRUE] /\ PaidBy' = PaidBy
    <2>1. CASE s = "FAILED"
      <3>1. Refused(v)' /\ last \notin paid
        BY <1>14, <1>19, <2>1
      <3>2. RefusedOf' = [RefusedOf EXCEPT ![v] = TRUE]
        BY <1>17, <3>1
      <3>3. PaidBy' = PaidBy
        BY <1>17, <3>1 DEF PaidBy
      <3>4. QED
        BY <3>2, <3>3
    <2>2. CASE s # "FAILED"
      <3>1. Refused(v)' = Refused(v)
        BY <1>13, <1>14, <2>2 DEF Refused
      <3>2. RefusedOf' = RefusedOf
        BY <1>17, <3>1 DEF RefusedOf
      <3>3. PaidBy' = PaidBy \/ PaidBy' = [PaidBy EXCEPT ![v] = @ + 1]
        BY <1>17 DEF PaidBy
      <3>4. QED
        BY <3>2, <3>3
    <2>3. QED
      BY <2>1, <2>2
  <1>22. Promise!Ask(v)
    BY <1>17, <1>18, <1>20, <1>21 DEF Promise!Ask, TriedOf, AskedOf, PaidBy, RefusedOf, Refused, GivenUpOf, GivenUp, Phases
  <1>23. QED
    BY <1>22

\* The provider decides a payout: the last one of its plan, and only once.
LEMMA DecideIsPromised ==
  ASSUME CaseInv, NEW k \in DOMAIN ledger, Decide(k)
  PROVE  \E v \in Versions : Promise!Complete(v) \/ Promise!Refuse(v)
  <1>1. PICK s \in {"COMPLETED", "FAILED"} : ledger' = [ledger EXCEPT ![k].state = s]
    BY DEF Decide
  <1>2. /\ ledger[k].state = "PENDING" /\ record' = record /\ ledger \in Seq(Payout) /\ ledger[k] \in Payout
    BY DEF Decide, rvars, CaseInv, ProviderInv
  <1>3. /\ DOMAIN ledger' = DOMAIN ledger /\ ledger'[k].v = ledger[k].v /\ ledger'[k].state = s
        /\ \A l \in DOMAIN ledger : l # k => ledger'[l] = ledger[l]
    <2> DEFINE e == [ledger[k] EXCEPT !.state = s]
    <2>1. e.v = ledger[k].v /\ e.state = s
      BY <1>2 DEF Payout
    <2>2. ledger' = [ledger EXCEPT ![k] = e]
      BY <1>1
    <2> HIDE DEF e
    <2>3. QED
      BY <1>2, <2>1, <2>2
  <1>4. PICK v \in Versions : v = ledger[k].v
    BY <1>2 DEF Payout
  <1>5. k \in Accepted(v) /\ k \notin PaidOf(v)
    BY <1>2, <1>4 DEF Accepted, PaidOf
  <1>6. PICK a \in AttemptsOf(record, v) : record.attempts[a].i = ledger[k].i
    BY <1>5, AttemptFor
  <1>7. a \notin CompletedOf(record, v)
    BY <1>5, <1>6, CompletedArePaid
  <1>8. \A l \in Accepted(v) \ {k} : l \in PaidOf(v)
    <2>1. \A l \in Accepted(v) \ {k} : ledger[l].i # record.attempts[a].i
      BY <1>5, <1>6 DEF CaseInv, ProviderInv, Accepted
    <2>2. QED
      BY <1>6, <1>7, <2>1, OthersArePaid
  <1>9. Accepted(v) = PaidOf(v) \cup {k}
    BY <1>5, <1>8 DEF PaidOf
  <1>10. Cardinality(Accepted(v)) = Cardinality(PaidOf(v)) + 1
    BY <1>5, <1>9, AcceptedAreFinite, FS_AddElement
  <1>11. ~Refused(v)
    BY <1>2, <1>9 DEF Refused, PaidOf
  <1>12. /\ Accepted(v)' = Accepted(v)
         /\ PaidOf(v)' = IF s = "COMPLETED" THEN PaidOf(v) \cup {k} ELSE PaidOf(v)
         /\ Refused(v)' <=> s = "FAILED"
    <2>1. Accepted(v)' = Accepted(v) /\ Accepted(v) \subseteq DOMAIN ledger
      BY <1>3 DEF Accepted
    <2>2. PaidOf(v)' = IF s = "COMPLETED" THEN PaidOf(v) \cup {k} ELSE PaidOf(v)
      BY <1>2, <1>3, <1>5, <2>1 DEF PaidOf
    <2>3. Refused(v)' <=> s = "FAILED"
      BY <1>3, <1>5, <1>11, <2>1 DEF Refused
    <2>4. QED
      BY <2>1, <2>2, <2>3
  <1>13. \A w \in Versions \ {v} : Accepted(w)' = Accepted(w) /\ PaidOf(w)' = PaidOf(w) /\ Refused(w)' = Refused(w)
    <2>1. SUFFICES ASSUME NEW w \in Versions \ {v}
                   PROVE  Accepted(w)' = Accepted(w) /\ PaidOf(w)' = PaidOf(w) /\ Refused(w)' = Refused(w)
      OBVIOUS
    <2>2. Accepted(w)' = Accepted(w) /\ k \notin Accepted(w)
      BY <1>3, <1>4 DEF Accepted
    <2>3. PaidOf(w)' = PaidOf(w) /\ (Refused(w)' <=> Refused(w))
      BY <1>3, <2>2 DEF PaidOf, Refused, Accepted
    <2>4. QED
      BY <2>2, <2>3 DEF Refused
  <1>14. PICK asked, paid : asked = Accepted(v)' /\ paid = PaidOf(v)'
    OBVIOUS
  <1>15. /\ AskedOf' = [AskedOf EXCEPT ![v] = IF k \in asked \ Accepted(v) THEN @ + 1 ELSE @]
         /\ PaidBy' = [PaidBy EXCEPT ![v] = IF k \in paid THEN @ + 1 ELSE @]
         /\ RefusedOf' = [RefusedOf EXCEPT ![v] = Refused(v)']
         /\ UNCHANGED <<TriedOf, GivenUpOf, Phases>>
         /\ GivenUpOf[v] = GivenUp(v) /\ Phases[v] = PhaseOf(v)
         /\ AskedOf[v] = Cardinality(Accepted(v)) /\ PaidBy[v] = Cardinality(PaidOf(v))
         /\ RefusedOf[v] = Refused(v)
    <2>1. asked = Accepted(v) /\ paid \in {PaidOf(v), PaidOf(v) \cup {k}} /\ s \in ProviderStates
      BY <1>12, <1>14 DEF ProviderStates
    <2>2. QED
      BY <1>2, <1>5, <1>13, <1>14, <2>1, ProviderActs
  <1>d. PhaseOf(v) = "OPEN" \/ GivenUp(v)
    <2>1. ledger[k].i \in 1..Payouts /\ UnderWay(v, ledger[k].i)
      BY <1>2, <1>5 DEF UnderWay, Payout
    <2>2. QED
      BY <2>1, UnderWayIsAttempted DEF GivenUp, PhaseOf, Submitted
  <1>16. AskedOf' = AskedOf /\ Promise!Undecided(v)
    <2>1. AskedOf' = AskedOf
      BY <1>12, <1>14, <1>15 DEF AskedOf
    <2>2. AskedOf[v] = PaidBy[v] + 1 /\ ~RefusedOf[v] /\ (Phases[v] = "OPEN" \/ GivenUpOf[v])
      BY <1>10, <1>11, <1>15, <1>d
    <2>3. QED
      BY <2>1, <2>2 DEF Promise!Undecided, TriedOf, AskedOf, PaidBy, RefusedOf, Refused, GivenUpOf, GivenUp, Phases
  <1>17. CASE s = "COMPLETED"
    <2>1. PaidBy' = [PaidBy EXCEPT ![v] = @ + 1]
      BY <1>12, <1>14, <1>15, <1>17
    <2>2. Refused(v)' = Refused(v)
      BY <1>11, <1>12, <1>17 DEF Refused
    <2>3. RefusedOf' = RefusedOf
      BY <1>15, <2>2 DEF RefusedOf
    <2>4. Promise!Complete(v)
      BY <1>15, <1>16, <2>1, <2>3 DEF Promise!Complete, TriedOf, AskedOf, PaidBy, RefusedOf, Refused, GivenUpOf, GivenUp, Phases
    <2>5. QED
      BY <2>4
  <1>18. CASE s = "FAILED"
    <2>1. k \notin paid
      BY <1>5, <1>12, <1>14, <1>18
    <2>2. PaidBy' = PaidBy
      BY <1>15, <2>1 DEF PaidBy
    <2>3. Refused(v)'
      BY <1>12, <1>18
    <2>4. RefusedOf' = [RefusedOf EXCEPT ![v] = TRUE]
      BY <1>15, <2>3
    <2>5. Promise!Refuse(v)
      BY <1>15, <1>16, <2>2, <2>4 DEF Promise!Refuse, TriedOf, AskedOf, PaidBy, RefusedOf, Refused, GivenUpOf, GivenUp, Phases
    <2>6. QED
      BY <2>5
  <1>19. QED
    BY <1>17, <1>18

\* The case that PlanExecution starts from has one plan, not yet submitted.
LEMMA AuthorizedUnsubmitted ==
  ASSUME Init
  PROVE  \E rec, texts : /\ InitWith(rec, texts) /\ rec.attempts = <<>>
                         /\ \A v \in DOMAIN rec.plans : rec.plans[v].status \notin Submitted
  <1>1. \E texts : InitWith(Authorized, texts)
    BY DEF Init
  <1>2. /\ \A v \in DOMAIN Authorized.plans : Authorized.plans[v].status \notin Submitted
        /\ Authorized.attempts = <<>>
    BY DEF Authorized, Submitted, Final
  <1>3. QED
    BY <1>1, <1>2

\* Nothing is promised before a plan is submitted.
LEMMA PromiseInit ==
  ASSUME NEW rec, NEW texts, InitWith(rec, texts), rec.attempts = <<>>,
         \A v \in DOMAIN rec.plans : rec.plans[v].status \notin Submitted
  PROVE  Promise!Init
  <1>1. ledger = <<>> /\ record = rec
    BY DEF InitWith
  <1>2. \A v \in Versions : Accepted(v) = {} /\ PaidOf(v) = {} /\ AttemptsOf(record, v) = {}
    BY <1>1 DEF Accepted, PaidOf, AttemptsOf
  <1>3. \A v \in Versions : /\ Cardinality(Accepted(v)) = 0 /\ Cardinality(PaidOf(v)) = 0
                            /\ Cardinality(AttemptsOf(record, v)) = 0
                            /\ Refused(v) = FALSE /\ GivenUp(v) = FALSE
    BY <1>2, FS_EmptySet DEF Refused, GivenUp, WrittenOff
  <1>4. \A v \in Versions : PhaseOf(v) = "NEW"
    BY <1>1 DEF PhaseOf, HasPlan, Submitted
  <1>5. /\ TriedOf = [v \in Versions |-> 0] /\ AskedOf = [v \in Versions |-> 0]
        /\ PaidBy = [v \in Versions |-> 0] /\ Phases = [v \in Versions |-> "NEW"]
    BY <1>3, <1>4 DEF TriedOf, AskedOf, PaidBy, Phases
  <1>6. RefusedOf = [v \in Versions |-> FALSE] /\ GivenUpOf = [v \in Versions |-> FALSE]
    BY <1>3 DEF RefusedOf, GivenUpOf
  <1>7. QED
    BY <1>5, <1>6 DEF Promise!Init, TriedOf, AskedOf, PaidBy, RefusedOf, Refused, GivenUpOf, GivenUp, Phases

\* Every step of the execution is one of SequentialPayouts, or none it sees.
LEMMA PromiseStep ==
  ASSUME CaseInv, SettledAsPaid', Stands, [ExecutionNext]_vars
  PROVE  [Promise!Next]_(Promise!pvars)
  <1>1. ASSUME record' = record, ledger' = ledger PROVE UNCHANGED Promise!pvars
    BY <1>1, Unseen DEF SameTries
  <1>2. ASSUME NEW v \in Versions, ExecutePlan(v) PROVE Promise!Next
    BY <1>2, OpenIsPromised DEF Promise!Next
  <1>3. ASSUME NEW v \in Versions, ExecutorStep(v) PROVE Promise!Next \/ UNCHANGED Promise!pvars
    BY <1>3, SubmissionIsPromised
  <1>4. ASSUME NEW r \in Reconcilers, Save(r), MaySave(rc[r]) PROVE Promise!Next \/ UNCHANGED Promise!pvars
    <2>1. PICK v \in Versions : v = rc[r].v
      BY <1>4, SavedPlans
    <2>2. CASE PhaseOf(v)' # PhaseOf(v)
      BY <1>4, <2>1, <2>2, CloseIsPromised DEF Promise!Next
    <2>3. CASE PhaseOf(v)' = PhaseOf(v)
      <3>1. /\ ledger' = ledger /\ SameTries(record, record') /\ DOMAIN record'.plans = DOMAIN record.plans
            /\ \A w \in DOMAIN record.plans \ {v} : record'.plans[w].status = record.plans[w].status
        BY <1>4, <2>1, SavedPlans, SavedTries
      <3>2. /\ UNCHANGED <<TriedOf, AskedOf, PaidBy, RefusedOf, GivenUpOf>>
            /\ Phases' = [Phases EXCEPT ![v] = PhaseOf(v)']
        BY <3>1, PhaseMoves
      <3>3. Phases' = Phases
        BY <2>3, <3>2 DEF Phases
      <3>4. QED
        BY <3>2, <3>3 DEF Promise!pvars, TriedOf, AskedOf, PaidBy, RefusedOf, Refused, GivenUpOf, GivenUp, Phases
    <2>4. QED
      BY <2>2, <2>3
  <1>5. ASSUME NEW r \in Reconcilers, ReadCase(r) \/ ReconcilerStep(r) PROVE Promise!Next \/ UNCHANGED Promise!pvars
    BY <1>1, <1>4, <1>5, ReconcilersKeepPlans
  <1>6. CASE ProviderStep
    <2>1. ASSUME NEW q \in sent, Accept(q) PROVE Promise!Next
      BY <2>1, AskIsPromised DEF Promise!Next
    <2>2. ASSUME NEW q \in sent, Lose(q) PROVE UNCHANGED Promise!pvars
      BY <1>1, <2>2 DEF Lose, rvars
    <2>3. ASSUME NEW k \in DOMAIN ledger, Decide(k) PROVE Promise!Next
      BY <2>3, DecideIsPromised DEF Promise!Next
    <2>4. QED
      BY <1>6, <2>1, <2>2, <2>3 DEF ProviderStep
  <1>7. CASE Disruption
    BY <1>1, <1>7 DEF Disruption, LeaseExpires, CrashExecutor, CrashReconciler, rvars, pvars
  <1>8. CASE UNCHANGED vars
    BY <1>1, <1>8 DEF vars
  <1>9. QED
    BY <1>2, <1>3, <1>5, <1>6, <1>7, <1>8 DEF ExecutionNext

\* What the calls of executePlan and reconcile do together, overlapping,
\* superseded and cut off, is what SequentialPayouts promises: payouts are tried
\* one at a time, in order and once, while their plan is open, and only after
\* the one before was paid; and the plan closes as the provider has decided, or
\* as FAILED with its last payout given up by the catch clause.
THEOREM PayoutsKeepPromise == Spec => PayoutsArePromised
  <1>1. Init => CaseInv /\ Promise!Init
    <2>1. Init => CaseInv
      BY AuthorizedInit
    <2>2. Init => Promise!Init
      BY AuthorizedUnsubmitted, PromiseInit
    <2>3. QED
      BY <2>1, <2>2
  <1>2. CaseInv /\ [ExecutionNext]_vars => CaseInv' /\ Stands
    BY ExecutionStep, StutterStep DEF Upheld
  <1>3. CaseInv => SettledAsPaid
    BY SettledAsPaidFollows
  <1>4. CaseInv /\ SettledAsPaid' /\ Stands /\ [ExecutionNext]_vars => [Promise!Next]_(Promise!pvars)
    BY PromiseStep
  <1>5. QED
    BY <1>1, <1>2, <1>3, <1>4, PTL DEF Spec, PayoutsArePromised, Promise!Spec

----------------------------------------------------------------------------
(* The reservation protocol: the refinement of ExecutionLock.              *)

\* The variables of ExecutionLock under the mapping Lock.
RowOf == [c \in {"case"} |-> row]
PilotOf == IF row = NoRow THEN {} ELSE {<<"case", row.ver>>}
PlanOf == [c \in {"case"} |-> [v \in Versions |->
            CASE PhaseOf(v) = "NEW" -> "UNSUBMITTED" [] PhaseOf(v) = "OPEN" -> "EXECUTING"
              [] OTHER -> PhaseOf(v)]]
ExecutingCalls == {ExecutorOf(v) : v \in {u \in Versions : exec[u] \in InCall}}
ClaimingCalls == {ClaimOf(r) : r \in {q \in Reconcilers : Claimed(rc[q])}}
WriterOf == [c \in {"case"} |-> lastWriter]

Closed(c) == c.pc = "RELEASE" /\ c.rec.status \in Final

\* What a call has of the lock at each of its stages.
StagesInv ==
  /\ \A v \in Versions : exec[v] # "NONE" => HasPlan(record, v) /\ record.plans[v].status \in Submitted
  /\ \A r \in Reconcilers : /\ rc[r].pc = "CLAIM" => rc[r].token = 0
                            /\ rc[r].pc = "RELEASE" => rc[r].token # 0
  /\ row.state = "NONE" => row = NoRow
  /\ issued \in Nat

\* No call has reached a stage at first.
LEMMA StagesInit ==
  ASSUME NEW rec, NEW texts, InitWith(rec, texts)
  PROVE  StagesInv
  BY DEF InitWith, StagesInv, NoCall, NoRow

\* A submission moves on.
LEMMA ExecutorGoesOn ==
  ASSUME CaseInv, NEW v \in Versions, NEW pc \in InCall, At(v, pc), exec[v] \in InCall
  PROVE  ExecutingCalls' = ExecutingCalls /\ ExecutorOf(v) \in ExecutingCalls
  <1>1. exec \in [Versions -> {"NONE", "DONE"} \cup InCall]
    BY DEF CaseInv
  <1>2. \A u \in Versions : exec'[u] \in InCall <=> exec[u] \in InCall
    BY <1>1 DEF At
  <1>3. QED
    BY <1>2 DEF ExecutingCalls, ExecutorOf

\* A submission is over.
LEMMA ExecutorEnds ==
  ASSUME CaseInv, NEW v \in Versions, At(v, "DONE"), exec[v] \in InCall
  PROVE  /\ ExecutingCalls' = {e \in ExecutingCalls : e.w # v}
         /\ ExecutingCalls' = ExecutingCalls \ {ExecutorOf(v)}
         /\ ExecutorOf(v) \in ExecutingCalls
  <1>1. exec \in [Versions -> {"NONE", "DONE"} \cup InCall]
    BY DEF CaseInv
  <1>2. \A u \in Versions : exec'[u] \in InCall <=> exec[u] \in InCall /\ u # v
    BY <1>1 DEF At, InCall, Submitting
  <1>3. QED
    BY <1>2 DEF ExecutingCalls, ExecutorOf

\* A submission begins.
LEMMA ExecutorBegins ==
  ASSUME CaseInv, NEW v \in Versions, At(v, "LOOP"), exec[v] = "NONE"
  PROVE  /\ ExecutingCalls' = ExecutingCalls \cup {ExecutorOf(v)}
         /\ \A e \in ExecutingCalls : e.w # v
  <1>1. exec \in [Versions -> {"NONE", "DONE"} \cup InCall]
    BY DEF CaseInv
  <1>2. \A u \in Versions : exec'[u] \in InCall <=> exec[u] \in InCall \/ u = v
    BY <1>1 DEF At, InCall, Submitting
  <1>3. exec[v] \notin InCall
    BY DEF InCall, Submitting
  <1>4. QED
    BY <1>2, <1>3 DEF ExecutingCalls, ExecutorOf

\* A reconcile call moves on, with the claim it had or without one.
LEMMA ClaimGoesOn ==
  ASSUME CaseInv, NEW r \in Reconcilers, NEW c, Call(r, c), Claimed(c) <=> Claimed(rc[r]),
         Claimed(c) => c.v = rc[r].v /\ c.token = rc[r].token /\ (Closed(c) <=> Closed(rc[r]))
  PROVE  ClaimingCalls' = ClaimingCalls
  <1>1. /\ rc'[r] = c /\ \A q \in Reconcilers \ {r} : rc'[q] = rc[q]
    BY DEF Call, CaseInv
  <1>2. \A q \in Reconcilers : Claimed(rc'[q]) <=> Claimed(rc[q])
    BY <1>1
  <1>3. \A q \in Reconcilers : Claimed(rc[q]) => ClaimOf(q)' = ClaimOf(q)
    BY <1>1 DEF ClaimOf, Closed
  <1>4. QED
    BY <1>2, <1>3 DEF ClaimingCalls

\* A reconcile call is over.
LEMMA ClaimEnds ==
  ASSUME CaseInv, NEW r \in Reconcilers, Call(r, NoCall)
  PROVE  /\ ClaimingCalls' = {x \in ClaimingCalls : x.w # r}
         /\ Claimed(rc[r]) => /\ ClaimingCalls' = ClaimingCalls \ {ClaimOf(r)}
                              /\ ClaimOf(r) \in ClaimingCalls
         /\ ~Claimed(rc[r]) => ClaimingCalls' = ClaimingCalls
  <1>1. /\ rc'[r] = NoCall /\ \A q \in Reconcilers \ {r} : rc'[q] = rc[q]
    BY DEF Call, CaseInv
  <1>2. \A q \in Reconcilers : Claimed(rc'[q]) <=> Claimed(rc[q]) /\ q # r
    BY <1>1 DEF Claimed, NoCall
  <1>3. \A q \in Reconcilers \ {r} : ClaimOf(q)' = ClaimOf(q)
    BY <1>1 DEF ClaimOf
  <1>4. \A q \in Reconcilers : ClaimOf(q).w = q
    BY DEF ClaimOf
  <1>5. ClaimingCalls' = {x \in ClaimingCalls : x.w # r}
    <2>1. \A x \in ClaimingCalls' : x \in ClaimingCalls /\ x.w # r
      BY <1>2, <1>3, <1>4 DEF ClaimingCalls
    <2>2. \A x \in ClaimingCalls : x.w # r => x \in ClaimingCalls'
      BY <1>2, <1>3, <1>4 DEF ClaimingCalls
    <2>3. QED
      BY <2>1, <2>2
  <1>6. \A x \in ClaimingCalls : x.w = r => Claimed(rc[r]) /\ x = ClaimOf(r)
    BY <1>4 DEF ClaimingCalls
  <1>7. Claimed(rc[r]) => ClaimOf(r) \in ClaimingCalls
    BY DEF ClaimingCalls
  <1>8. QED
    BY <1>4, <1>5, <1>6, <1>7

\* Where plans are submitted and settled decides what the protocol sees.
LEMMA PlanStays ==
  ASSUME \A v \in Versions : PhaseOf(v)' = PhaseOf(v)
  PROVE  PlanOf' = PlanOf
  BY DEF PlanOf

\* The lock sees a submitted plan with the status that the record has.
LEMMA PlansMap ==
  ASSUME NEW v \in Versions, HasPlan(record, v), record.plans[v].status \in Submitted
  PROVE  PlanOf["case"][v] = record.plans[v].status
  BY DEF PlanOf, PhaseOf, Submitted, Final

\* What the protocol's variables are made of.
Mapped == <<RowOf, PilotOf, PlanOf, ExecutingCalls, ClaimingCalls, issued, WriterOf>>

\* A step that the protocol does not see.
LEMMA LockUnseen ==
  ASSUME UNCHANGED Mapped
  PROVE  UNCHANGED Lock!vars
  BY DEF Mapped, Lock!vars, RowOf, PilotOf, PlanOf, ExecutingCalls, ClaimingCalls, WriterOf

\* executePlan reserves.
LEMMA ReserveIsLocked ==
  ASSUME CaseInv, NEW v \in Versions, ExecutePlan(v)
  PROVE  Lock!Reserve(v, "case", v)
  <1>1. Promise!Open(v)
    BY OpenIsPromised
  <1>2. PhaseOf(v) = "NEW" /\ PhaseOf(v)' = "OPEN" /\ \A u \in Versions \ {v} : PhaseOf(u)' = PhaseOf(u)
    <2>1. Phases[v] = "NEW" /\ Phases' = [Phases EXCEPT ![v] = "OPEN"]
      BY <1>1 DEF Promise!Open, Phases
    <2>2. QED
      BY <2>1 DEF Phases
  <1>3. /\ row = NoRow /\ row' = NewRow(v) /\ exec[v] = "NONE" /\ At(v, "LOOP")
        /\ UNCHANGED <<rc, issued>> /\ lastWriter' = 0
    BY DEF ExecutePlan, ExecutorSave
  <1>4. ExecutingCalls' = ExecutingCalls \cup {ExecutorOf(v)} /\ \A e \in ExecutingCalls : e.w # v
    BY <1>3, ExecutorBegins
  <1>5. ClaimingCalls' = ClaimingCalls
    BY <1>3 DEF ClaimingCalls, ClaimOf
  <1>6. PlanOf["case"][v] = "UNSUBMITTED" /\ PlanOf' = [PlanOf EXCEPT !["case"][v] = "EXECUTING"]
    BY <1>2 DEF PlanOf
  <1>7. RowOf["case"] = NoRow /\ RowOf' = [RowOf EXCEPT !["case"] = NewRow(v)]
    BY <1>3 DEF RowOf
  <1>8. PilotOf = {} /\ PilotOf' = {<<"case", v>>}
    <2>1. row' # NoRow /\ row'.ver = v
      BY <1>3 DEF NewRow, NoRow
    <2>2. QED
      BY <1>3, <2>1 DEF PilotOf
  <1>9. WriterOf' = [WriterOf EXCEPT !["case"] = 0]
    BY <1>3 DEF WriterOf
  <1>10. NoRow.state = "NONE"
    BY DEF NoRow
  <1>11. /\ PlanOf["case"][v] = "UNSUBMITTED"
         /\ \A e \in ExecutingCalls : e.w # v
         /\ RowOf["case"].state = "NONE" /\ PilotOf = {}
         /\ RowOf' = [RowOf EXCEPT !["case"] = [ver |-> v, state |-> "ACTIVE", token |-> 0, fresh |-> TRUE]]
         /\ PilotOf' = PilotOf \cup {<<"case", v>>}
         /\ PlanOf' = [PlanOf EXCEPT !["case"][v] = "EXECUTING"]
         /\ ExecutingCalls' = ExecutingCalls \cup {[w |-> v, c |-> "case", v |-> v]}
         /\ WriterOf' = [WriterOf EXCEPT !["case"] = 0]
         /\ UNCHANGED <<ClaimingCalls, issued>>
    BY <1>3, <1>4, <1>5, <1>6, <1>7, <1>8, <1>9, <1>10 DEF NewRow, ExecutorOf
  <1>12. QED
    BY <1>11 DEF Lock!Reserve, Lock!Reserved, Lock!PilotFree, Lock!NewRow, RowOf, PilotOf, PlanOf, ExecutingCalls,
                 ClaimingCalls, WriterOf

\* The phases of the plans while a submission runs.
LEMMA SubmissionKeepsPhases ==
  ASSUME CaseInv, record'.plans = record.plans
  PROVE  PlanOf' = PlanOf
  <1>1. \A v \in Versions : PhaseOf(v)' = PhaseOf(v)
    BY DEF PhaseOf, HasPlan
  <1>2. QED
    BY <1>1, PlanStays

\* Its saves and heartbeats.
LEMMA SubmissionIsLocked ==
  ASSUME CaseInv, NEW v \in Versions, ExecutorStep(v), ~HandOver(v)
  PROVE  Lock!Next \/ UNCHANGED Lock!vars
  <1>1. /\ record'.plans = record.plans /\ exec[v] \in InCall /\ UNCHANGED <<rc, issued>>
        /\ \E pc \in InCall : At(v, pc)
    <2>1. record'.plans = record.plans
      BY SubmissionKeepsPlans
    <2>2. ASSUME Caught(v) PROVE UNCHANGED <<rc, issued>> /\ \E pc \in InCall : At(v, pc)
      BY <2>2 DEF Caught, InCall, Submitting
    <2>3. exec[v] \in InCall
      BY DEF ExecutorStep, StartAttempt, Beat, Post, PreflightFails, Rejected, NoAnswer, Answer, Pause,
             ReservationLost, InCall, Submitting
    <2>4. CASE PreflightFails(v) \/ Rejected(v) \/ NoAnswer(v)
      BY <2>1, <2>2, <2>3, <2>4 DEF PreflightFails, Rejected, NoAnswer
    <2>5. CASE StartAttempt(v) \/ Beat(v) \/ Post(v) \/ Answer(v) \/ Pause(v) \/ ReservationLost(v)
      BY <2>1, <2>3, <2>5 DEF StartAttempt, Beat, Post, Answer, AfterAnswer, Pause, ReservationLost, InCall, Submitting
    <2>6. QED
      BY <2>4, <2>5 DEF ExecutorStep
  <1>2. /\ PlanOf' = PlanOf /\ ClaimingCalls' = ClaimingCalls
        /\ ExecutingCalls' = ExecutingCalls /\ ExecutorOf(v) \in ExecutingCalls
    <2>1. ClaimingCalls' = ClaimingCalls
      BY <1>1 DEF ClaimingCalls, ClaimOf
    <2>2. QED
      BY <1>1, <2>1, SubmissionKeepsPhases, ExecutorGoesOn
  <1>3. CASE UNCHANGED <<row, lastWriter>>
    <2>1. UNCHANGED Mapped
      BY <1>1, <1>2, <1>3 DEF Mapped, RowOf, PilotOf, WriterOf
    <2>2. QED
      BY <2>1, LockUnseen
  <1>4. CASE OwnsActive(v) /\ row' = row /\ lastWriter' = 0
    <2>1. UNCHANGED <<RowOf, PilotOf>> /\ WriterOf' = [WriterOf EXCEPT !["case"] = 0]
      BY <1>4 DEF RowOf, PilotOf, WriterOf
    <2>2. RowOf["case"] = row
      BY DEF RowOf
    <2>3. Lock!SaveByExecutor(ExecutorOf(v))
      BY <1>1, <1>2, <1>4, <2>1, <2>2 DEF Lock!SaveByExecutor, Lock!OwnsActive, OwnsActive, ExecutorOf, RowOf, PilotOf,
         PlanOf, ExecutingCalls, ClaimingCalls, WriterOf
    <2>4. QED
      BY <1>2, <2>3 DEF Lock!Next, Lock!ExecutorStep, ExecutingCalls
  <1>5. CASE OwnsActive(v) /\ row' = [row EXCEPT !.fresh = TRUE] /\ lastWriter' = lastWriter
    <2>1. row \in Row
      BY DEF CaseInv, RowInv
    <2>2. PilotOf' = PilotOf
      BY <1>5, <2>1 DEF PilotOf, OwnsActive, NoRow, Row
    <2>3. RowOf' = [RowOf EXCEPT !["case"].fresh = TRUE] /\ RowOf["case"] = row /\ WriterOf' = WriterOf
      BY <1>5 DEF RowOf, WriterOf
    <2>4. Lock!HeartbeatExecution(ExecutorOf(v))
      BY <1>1, <1>2, <1>5, <2>2, <2>3 DEF Lock!HeartbeatExecution, Lock!OwnsActive, OwnsActive, ExecutorOf, RowOf, PilotOf,
         PlanOf, ExecutingCalls, ClaimingCalls, WriterOf
    <2>5. QED
      BY <1>2, <2>4 DEF Lock!Next, Lock!ExecutorStep, ExecutingCalls
  <1>6. ASSUME Caught(v)
        PROVE  UNCHANGED <<row, lastWriter>> \/ (OwnsActive(v) /\ row' = row /\ lastWriter' = 0)
    BY <1>6 DEF Caught, ExecutorSave, rvars
  <1>7. CASE PreflightFails(v) \/ Rejected(v) \/ NoAnswer(v)
    BY <1>3, <1>4, <1>6, <1>7 DEF PreflightFails, Rejected, NoAnswer
  <1>8. CASE StartAttempt(v) \/ Answer(v) \/ Pause(v)
    BY <1>4, <1>8 DEF StartAttempt, Answer, Pause, ExecutorSave
  <1>9. CASE Beat(v) \/ Post(v)
    BY <1>5, <1>9 DEF Beat, Post, MayPost, rvars
  <1>10. CASE ReservationLost(v)
    BY <1>3, <1>10 DEF ReservationLost, rvars
  <1>11. QED
    BY <1>7, <1>8, <1>9, <1>10 DEF ExecutorStep

\* The row when it is dropped by whoever is done with plan v.
LEMMA Dropped ==
  ASSUME CaseInv, NEW v \in Versions, row' = RowAfterRelease(v)
  PROVE  /\ RowOf' = IF RowOf["case"].ver = v THEN [RowOf EXCEPT !["case"] = NoRow] ELSE RowOf
         /\ PilotOf' = PilotOf \ {<<"case", v>>}
  <1>1. v # 0
    BY RecordAssumption DEF RecordAssumption
  <1>2. CASE row.ver = v
    <2>1. row' = NoRow /\ row # NoRow
      BY <1>1, <1>2 DEF RowAfterRelease, NoRow
    <2>2. QED
      BY <1>2, <2>1 DEF RowOf, PilotOf
  <1>3. CASE row.ver # v
    <2>1. row' = row
      BY <1>3 DEF RowAfterRelease
    <2>2. QED
      BY <1>3, <2>1 DEF RowOf, PilotOf
  <1>4. QED
    BY <1>2, <1>3

\* The finally block of executePlan.
LEMMA HandOverIsLocked ==
  ASSUME CaseInv, StagesInv, NEW v \in Versions, HandOver(v)
  PROVE  Lock!Next
  <1>1. /\ exec[v] \in InCall /\ At(v, "DONE") /\ UNCHANGED <<record, lastWriter, rc, issued>>
        /\ row' = IF ~NeedsReconciliation(record, v) THEN RowAfterRelease(v)
                  ELSE IF OwnsActive(v) THEN ReadyRow(v) ELSE row
    BY DEF HandOver, InCall, rvars
  <1>2. HasPlan(record, v) /\ record.plans[v].status \in Submitted
    BY <1>1 DEF StagesInv, InCall, Submitting
  <1>3. PlanOf["case"][v] = record.plans[v].status
    BY <1>2, PlansMap
  <1>4. /\ ExecutingCalls' = ExecutingCalls \ {ExecutorOf(v)} /\ ExecutorOf(v) \in ExecutingCalls
        /\ PlanOf' = PlanOf /\ ClaimingCalls' = ClaimingCalls /\ WriterOf' = WriterOf
    <2>1. PlanOf' = PlanOf
      BY <1>1, SubmissionKeepsPhases
    <2>2. ClaimingCalls' = ClaimingCalls /\ WriterOf' = WriterOf
      BY <1>1 DEF ClaimingCalls, ClaimOf, WriterOf
    <2>3. QED
      BY <1>1, <2>1, <2>2, ExecutorEnds
  <1>5. RowOf["case"] = row
    BY DEF RowOf
  <1>6. CASE ~NeedsReconciliation(record, v)
    <2>1. PlanOf["case"][v] \in Final
      BY <1>2, <1>3, <1>6 DEF NeedsReconciliation, Submitted
    <2>2. /\ RowOf' = IF RowOf["case"].ver = v THEN [RowOf EXCEPT !["case"] = NoRow] ELSE RowOf
          /\ PilotOf' = PilotOf \ {<<"case", v>>}
      BY <1>1, <1>6, Dropped
    <2>3. Lock!HandOver(ExecutorOf(v))
      BY <2>1, <2>2 DEF Lock!HandOver, Lock!RowAfterRelease, Lock!PilotAfterRelease, Lock!Final, Final, Lock!NoRow, NoRow,
         ExecutorOf, RowOf, PilotOf, PlanOf
    <2>4. Lock!FinishExecution(ExecutorOf(v))
      BY <1>1, <1>4, <2>3 DEF Lock!FinishExecution, PlanOf, ExecutingCalls, ClaimingCalls, WriterOf
    <2>5. QED
      BY <1>4, <2>4 DEF Lock!Next, Lock!ExecutorStep, ExecutingCalls
  <1>7. CASE NeedsReconciliation(record, v)
    <2>1. PilotOf' = PilotOf
      <3>1. CASE OwnsActive(v)
        <4>1. row # NoRow /\ row.ver = v /\ row' # NoRow /\ row'.ver = v
          BY <1>1, <1>7, <3>1 DEF OwnsActive, ReadyRow, NoRow
        <4>2. QED
          BY <4>1 DEF PilotOf
      <3>2. CASE ~OwnsActive(v)
        BY <1>1, <1>7, <3>2 DEF PilotOf
      <3>3. QED
        BY <3>1, <3>2
    <2>2. RowOf' = IF OwnsActive(v) THEN [RowOf EXCEPT !["case"] = ReadyRow(v)] ELSE RowOf
      BY <1>1, <1>7 DEF RowOf
    <2>3. Lock!HandOver(ExecutorOf(v))
      BY <1>5, <2>1, <2>2 DEF Lock!HandOver, Lock!OwnsActive, OwnsActive, Lock!ReadyRow, ReadyRow, ExecutorOf, RowOf, PilotOf
    <2>4. Lock!FinishExecution(ExecutorOf(v))
      BY <1>1, <1>4, <2>3 DEF Lock!FinishExecution, PlanOf, ExecutingCalls, ClaimingCalls, WriterOf
    <2>5. QED
      BY <1>4, <2>4 DEF Lock!Next, Lock!ExecutorStep, ExecutingCalls
  <1>8. QED
    BY <1>6, <1>7

\* A reconcile call ends, and releases the claim that is still its own.
LEMMA EndIsLocked ==
  ASSUME CaseInv, NEW r \in Reconcilers, rc[r].pc # "IDLE", ~Closed(rc[r]), EndCall(r),
         record'.plans = record.plans, UNCHANGED <<exec, issued, lastWriter>>
  PROVE  Lock!Next \/ UNCHANGED Lock!vars
  <1>1. /\ PlanOf' = PlanOf /\ ExecutingCalls' = ExecutingCalls /\ WriterOf' = WriterOf
        /\ RowOf["case"] = row
    BY SubmissionKeepsPhases DEF ExecutingCalls, ExecutorOf, WriterOf, RowOf
  <1>2. Call(r, NoCall) /\ row' = IF Claimed(rc[r]) /\ OwnsClaim(rc[r]) THEN ReadyRow(rc[r].v) ELSE row
    BY DEF EndCall
  <1>3. CASE ~Claimed(rc[r])
    <2>1. UNCHANGED Mapped
      BY <1>1, <1>2, <1>3, ClaimEnds DEF Mapped, RowOf, PilotOf
    <2>2. QED
      BY <2>1, LockUnseen
  <1>4. CASE Claimed(rc[r])
    <2>1. ClaimingCalls' = ClaimingCalls \ {ClaimOf(r)} /\ ClaimOf(r) \in ClaimingCalls
      BY <1>2, <1>4, ClaimEnds
    <2>2. /\ ClaimOf(r).c = "case" /\ ClaimOf(r).v = rc[r].v /\ ClaimOf(r).token = rc[r].token
          /\ ~ClaimOf(r).closed
      BY DEF ClaimOf, Closed
    <2>3. /\ RowOf' = IF OwnsClaim(rc[r]) THEN [RowOf EXCEPT !["case"] = ReadyRow(rc[r].v)] ELSE RowOf
          /\ PilotOf' = PilotOf
      <3>1. CASE OwnsClaim(rc[r])
        <4>1. row # NoRow /\ row.ver = rc[r].v /\ row' # NoRow /\ row'.ver = rc[r].v
          BY <1>2, <1>4, <3>1 DEF OwnsClaim, ReadyRow, NoRow
        <4>2. QED
          BY <1>2, <1>4, <3>1, <4>1 DEF PilotOf, RowOf
      <3>2. CASE ~OwnsClaim(rc[r])
        BY <1>2, <3>2 DEF PilotOf, RowOf
      <3>3. QED
        BY <3>1, <3>2
    <2>4. Lock!ReleaseClaim(ClaimOf(r))
      <3> HIDE DEF ClaimOf
      <3>1. QED
        BY <1>1, <2>1, <2>2, <2>3 DEF Lock!ReleaseClaim, Lock!OwnsClaim, OwnsClaim, Lock!ReadyRow, ReadyRow, RowOf, PilotOf,
           PlanOf, ExecutingCalls, ClaimingCalls, WriterOf
    <2>5. QED
      BY <2>1, <2>4 DEF Lock!Next, Lock!ReconcilerStep, ClaimingCalls
  <1>5. QED
    BY <1>3, <1>4

\* What a call does between its claim and its end is not seen.
LEMMA CallIsUnseen ==
  ASSUME CaseInv, NEW r \in Reconcilers, NEW c, Call(r, c), Claimed(c) <=> Claimed(rc[r]),
         Claimed(c) => c.v = rc[r].v /\ c.token = rc[r].token /\ (Closed(c) <=> Closed(rc[r])),
         record'.plans = record.plans, UNCHANGED <<row, exec, issued, lastWriter>>
  PROVE  UNCHANGED Lock!vars
  <1>1. ClaimingCalls' = ClaimingCalls /\ PlanOf' = PlanOf
    BY ClaimGoesOn, SubmissionKeepsPhases
  <1>2. UNCHANGED <<RowOf, PilotOf, ExecutingCalls, issued, WriterOf>>
    BY DEF RowOf, PilotOf, ExecutingCalls, ExecutorOf, WriterOf
  <1>3. QED
    BY <1>1, <1>2, LockUnseen DEF Mapped

\* What is stored in a call's copy the lock does not see; a call that ends gives
\* its claim back.
LEMMA StoreIsLocked ==
  ASSUME CaseInv, NEW r \in Reconcilers, rc[r].pc = "ASK", NEW texts, NEW rec, NEW todo, Store(r, texts, rec, todo),
         record' = record, UNCHANGED <<exec, issued, lastWriter>>
  PROVE  Lock!Next \/ UNCHANGED Lock!vars
  <1>1. ~Closed(rc[r]) /\ rc[r] \in CallRecord
    BY CallsAreTyped DEF Closed
  <1>2. CASE EndCall(r)
    BY <1>1, <1>2, EndIsLocked
  <1>3. CASE Call(r, [rc[r] EXCEPT !.pc = "LOOP", !.rec = rec, !.todo = todo]) /\ row' = row
    <2>1. PICK c : c = [rc[r] EXCEPT !.pc = "LOOP", !.rec = rec, !.todo = todo]
      OBVIOUS
    <2>2. c.pc = "LOOP" /\ c.v = rc[r].v /\ c.token = rc[r].token
      BY <1>1, <2>1 DEF CallRecord
    <2>3. (Claimed(c) <=> Claimed(rc[r])) /\ ~Closed(c)
      BY <2>2 DEF Claimed, Closed
    <2>4. QED
      BY <1>1, <1>3, <2>1, <2>2, <2>3, CallIsUnseen
  <1>4. QED
    BY <1>2, <1>3 DEF Store

\* A claim is granted, on a reservation that is ready or whose lease has lapsed.
LEMMA ClaimIsLocked ==
  ASSUME CaseInv, StagesInv, Recycle = FALSE, NEW r \in Reconcilers, Claim(r)
  PROVE  Lock!Next
  <1>1. PICK t \in NewTokens : /\ issued' = t /\ row' = ClaimedRow(rc[r].v, t)
                               /\ Call(r, Observing(rc[r], record, t))
    BY DEF Claim
  <1>2. t = issued + 1 /\ issued < MaxClaims
    BY ExecutionAssumption DEF NewTokens, StagesInv, ExecutionAssumption
  <1>3. /\ rc[r].pc = "CLAIM" /\ rc[r].token = 0 /\ rc[r].v \in Versions /\ UNCHANGED <<record, lastWriter, exec>>
    BY CallsAreTyped DEF Claim, StagesInv, CallRecord, rvars
  <1>4. PICK v \in Versions : v = rc[r].v
    BY <1>3
  <1>5. /\ rc'[r].pc = "LOOP" /\ rc'[r].v = v /\ rc'[r].token = t
        /\ \A q \in Reconcilers \ {r} : rc'[q] = rc[q]
    BY <1>1, <1>4 DEF Call, Observing, CaseInv
  <1>6. ClaimingCalls' = ClaimingCalls \cup {[w |-> r, c |-> "case", v |-> v, token |-> t, closed |-> FALSE]}
    <2>1. t # 0
      BY <1>2 DEF StagesInv
    <2>2. \A q \in Reconcilers : Claimed(rc'[q]) <=> Claimed(rc[q]) \/ q = r
      BY <1>3, <1>5, <2>1 DEF Claimed
    <2>3. ~Claimed(rc[r])
      BY <1>3 DEF Claimed
    <2>4. /\ ClaimOf(r)' = [w |-> r, c |-> "case", v |-> v, token |-> t, closed |-> FALSE]
          /\ \A q \in Reconcilers \ {r} : ClaimOf(q)' = ClaimOf(q)
      BY <1>5 DEF ClaimOf
    <2>5. \A x \in ClaimingCalls' :
            x \in ClaimingCalls \/ x = [w |-> r, c |-> "case", v |-> v, token |-> t, closed |-> FALSE]
      BY <2>2, <2>4 DEF ClaimingCalls
    <2>6. ClaimOf(r)' \in ClaimingCalls' /\ \A x \in ClaimingCalls : x \in ClaimingCalls'
      BY <2>2, <2>3, <2>4 DEF ClaimingCalls
    <2>7. QED
      BY <2>4, <2>5, <2>6
  <1>7. /\ PlanOf' = PlanOf /\ ExecutingCalls' = ExecutingCalls /\ WriterOf' = WriterOf
        /\ RowOf["case"] = row
    BY <1>3, SubmissionKeepsPhases DEF ExecutingCalls, ExecutorOf, WriterOf, RowOf
  <1>8. row.ver = v /\ (ClaimableReady(rc[r]) \/ ClaimableStale(rc[r]))
    BY <1>4 DEF Claim, ClaimableReady, ClaimableStale
  <1>9. RowOf' = [RowOf EXCEPT !["case"] = ClaimedRow(v, t)]
    BY <1>1, <1>4 DEF RowOf
  <1>10. PilotOf' = PilotOf
    <2>1. v # 0 /\ row'.ver = v
      BY <1>1, <1>4, RecordAssumption DEF RecordAssumption, ClaimedRow
    <2>2. row # NoRow /\ row' # NoRow
      BY <1>8, <2>1 DEF NoRow
    <2>3. QED
      BY <1>8, <2>1, <2>2 DEF PilotOf
  <1>11. Lock!Grant(r, "case", v)
    BY <1>1, <1>2, <1>6, <1>7, <1>9, <1>10 DEF Lock!Grant, Lock!NextToken, Lock!NewClaim, Lock!ClaimedRow, ClaimedRow,
       RowOf, PilotOf, PlanOf, ExecutingCalls, ClaimingCalls, WriterOf
  <1>12. Lock!ClaimReady(r, "case", v) \/ Lock!ClaimStale(r, "case", v)
    BY <1>7, <1>8, <1>11 DEF ClaimableReady, ClaimableStale, Lock!ClaimReady, Lock!ClaimStale, RowOf
  <1>13. QED
    BY <1>12 DEF Lock!Next

\* A heartbeat before each question, and a save of what was observed.
LEMMA AskIsLocked ==
  ASSUME CaseInv, NEW r \in Reconcilers, AskProvider(r)
  PROVE  Lock!Next \/ UNCHANGED Lock!vars
  <1>1. /\ rc[r].pc = "LOOP" /\ rc[r] \in CallRecord /\ UNCHANGED <<record, lastWriter, exec, issued>>
    BY CallsAreTyped DEF AskProvider, rvars
  <1>2. PICK c : c = [rc[r] EXCEPT !.pc = "ASK"]
    OBVIOUS
  <1>3. c.pc = "ASK" /\ c.v = rc[r].v /\ c.token = rc[r].token
    BY <1>1, <1>2 DEF CallRecord
  <1>4. (Claimed(c) <=> Claimed(rc[r])) /\ ~Closed(c) /\ ~Closed(rc[r])
    BY <1>1, <1>3 DEF Claimed, Closed
  <1>5. CASE Call(r, c) /\ row' = row
    BY <1>1, <1>3, <1>4, <1>5, CallIsUnseen
  <1>6. CASE Claimed(rc[r]) /\ OwnsClaim(rc[r]) /\ Call(r, c) /\ row' = [row EXCEPT !.fresh = TRUE]
    <2>1. /\ ClaimingCalls' = ClaimingCalls /\ ClaimOf(r) \in ClaimingCalls
      BY <1>3, <1>4, <1>6, ClaimGoesOn DEF ClaimingCalls
    <2>2. /\ PlanOf' = PlanOf /\ ExecutingCalls' = ExecutingCalls /\ WriterOf' = WriterOf
          /\ RowOf["case"] = row /\ RowOf' = [RowOf EXCEPT !["case"].fresh = TRUE]
      BY <1>1, <1>6, SubmissionKeepsPhases DEF ExecutingCalls, ExecutorOf, WriterOf, RowOf
    <2>3. PilotOf' = PilotOf
      <3>1. row \in Row
        BY DEF CaseInv, RowInv
      <3>2. QED
        BY <1>6, <3>1 DEF PilotOf, OwnsClaim, NoRow, Row
    <2>4. ClaimOf(r).c = "case" /\ ClaimOf(r).v = rc[r].v /\ ClaimOf(r).token = rc[r].token
      BY DEF ClaimOf
    <2>5. Lock!HeartbeatClaim(ClaimOf(r))
      BY <1>1, <1>6, <2>1, <2>2, <2>3, <2>4 DEF Lock!HeartbeatClaim, Lock!OwnsClaim, OwnsClaim,
         RowOf, PilotOf, PlanOf, ExecutingCalls, ClaimingCalls, WriterOf
    <2>6. QED
      BY <2>1, <2>5 DEF Lock!Next, Lock!ReconcilerStep, ClaimingCalls
  <1>7. CASE EndCall(r)
    BY <1>1, <1>4, <1>7, EndIsLocked
  <1>8. QED
    BY <1>2, <1>5, <1>6, <1>7 DEF AskProvider

\* A save of a call is the lock's write, or the call ends without one.
LEMMA SaveIsLocked ==
  ASSUME CaseInv, NEW r \in Reconcilers, Save(r)
  PROVE  Lock!Next \/ UNCHANGED Lock!vars
  <1>1. /\ rc[r].pc = "LOOP" /\ rc[r] \in CallRecord /\ UNCHANGED <<exec, issued>>
    BY CallsAreTyped DEF Save
  <1>2. CASE ~MaySave(rc[r])
    <2>1. EndCall(r) /\ UNCHANGED <<record, lastWriter>> /\ ~Closed(rc[r])
      BY <1>1, <1>2 DEF Save, rvars, Closed
    <2>2. QED
      BY <1>1, <2>1, EndIsLocked
  <1>3. CASE MaySave(rc[r])
    <2>1. PICK v, s : v = rc[r].v /\ s = record'.status
      OBVIOUS
    <2>2. /\ v \in Versions /\ Claimed(rc[r]) /\ OwnsClaim(rc[r])
          /\ v \in DOMAIN record.plans /\ DOMAIN record'.plans = DOMAIN record.plans
          /\ \A w \in DOMAIN record.plans \ {v} : record'.plans[w].status = record.plans[w].status
          /\ s \in Final => record'.plans[v].status = s /\ record.plans[v].status \in {"EXECUTING", s}
          /\ s \notin Final => record'.plans[v].status = "EXECUTING" /\ record.plans[v].status = "EXECUTING"
      BY <1>3, <2>1, SavedPlans
    <2>3. PICK c : c = [rc[r] EXCEPT !.pc = "RELEASE", !.rec = record']
      OBVIOUS
    <2>4. Call(r, c) /\ lastWriter' = rc[r].token /\ row' = row
      BY <1>3, <2>3 DEF Save
    <2>5. c.pc = "RELEASE" /\ c.v = v /\ c.token = rc[r].token /\ c.rec.status = s
      BY <1>1, <2>1, <2>3 DEF CallRecord
    <2>6. Claimed(c) /\ (Closed(c) <=> s \in Final) /\ ~Closed(rc[r])
      BY <1>1, <2>2, <2>5 DEF Claimed, Closed
    <2>7. /\ ClaimOf(r) \in ClaimingCalls /\ ClaimOf(r).c = "case" /\ ClaimOf(r).v = v
          /\ ClaimOf(r).token = rc[r].token /\ ~ClaimOf(r).closed
      BY <2>1, <2>2, <2>6 DEF ClaimingCalls, ClaimOf, Closed
    <2>8. /\ RowOf["case"] = row /\ UNCHANGED <<RowOf, PilotOf, ExecutingCalls>>
          /\ WriterOf' = [WriterOf EXCEPT !["case"] = rc[r].token]
      BY <1>1, <2>4 DEF RowOf, PilotOf, ExecutingCalls, ExecutorOf, WriterOf
    <2>9. \A w \in Versions \ {v} : PhaseOf(w)' = PhaseOf(w)
      BY <2>2 DEF PhaseOf, HasPlan
    <2>10. HasPlan(record, v) /\ record.plans[v].status \in Submitted
      BY <2>2 DEF HasPlan, Submitted
    <2>11. PlanOf["case"][v] = record.plans[v].status
      BY <2>2, <2>10, PlansMap
    <2>12. CASE s \notin Final
      <3>1. PhaseOf(v)' = PhaseOf(v)
        BY <2>2, <2>12 DEF PhaseOf, HasPlan
      <3>2. PlanOf' = PlanOf
        BY <2>9, <3>1, PlanStays
      <3>3. ClaimingCalls' = ClaimingCalls
        BY <2>1, <2>2, <2>4, <2>5, <2>6, <2>12, ClaimGoesOn
      <3>4. Lock!SaveOpen(ClaimOf(r))
        BY <1>1, <2>1, <2>2, <2>7, <2>8, <2>11, <2>12, <3>2, <3>3 DEF Lock!SaveOpen, Lock!OwnsClaim, OwnsClaim,
           RowOf, PilotOf, PlanOf, ExecutingCalls, ClaimingCalls, WriterOf
      <3>5. QED
        BY <2>7, <3>4 DEF Lock!Next, Lock!ReconcilerStep, ClaimingCalls
    <2>13. CASE s \in Final
      <3>1. PhaseOf(v)' = s
        BY <2>2, <2>13 DEF PhaseOf, HasPlan, Final
      <3>2. PlanOf' = [PlanOf EXCEPT !["case"][v] = s]
        <4>1. s # "NEW" /\ s # "OPEN"
          BY <2>13 DEF Final
        <4>2. QED
          BY <2>2, <2>9, <3>1, <4>1 DEF PlanOf
      <3>3. rc'[r] = c /\ \A q \in Reconcilers \ {r} : rc'[q] = rc[q]
        BY <2>4 DEF Call, CaseInv
      <3>4. ClaimingCalls' = (ClaimingCalls \ {ClaimOf(r)}) \cup {[ClaimOf(r) EXCEPT !.closed = TRUE]}
        <4>1. \A q \in Reconcilers : Claimed(rc'[q]) <=> Claimed(rc[q])
          BY <2>2, <2>6, <3>3
        <4>2. ClaimOf(r)' = [ClaimOf(r) EXCEPT !.closed = TRUE]
          <5>1. ClaimOf(r)' = [w |-> r, c |-> "case", v |-> v, token |-> rc[r].token, closed |-> TRUE]
            BY <2>5, <2>13, <3>3 DEF ClaimOf
          <5>2. ClaimOf(r) = [w |-> r, c |-> "case", v |-> v, token |-> rc[r].token, closed |-> FALSE]
            <6>1. (rc[r].pc = "RELEASE" /\ rc[r].rec.status \in Final) = FALSE
              BY <1>1
            <6>2. QED
              BY <2>1, <6>1 DEF ClaimOf
          <5>3. PICK t : t = rc[r].token
            OBVIOUS
          <5>4. PICK yes, no : yes = TRUE /\ no = FALSE
            OBVIOUS
          <5>5. [[w |-> r, c |-> "case", v |-> v, token |-> t, closed |-> no] EXCEPT !.closed = yes]
                  = [w |-> r, c |-> "case", v |-> v, token |-> t, closed |-> yes]
            OBVIOUS
          <5>6. QED
            BY <5>1, <5>2, <5>3, <5>4, <5>5
        <4>3. \A q \in Reconcilers \ {r} : ClaimOf(q)' = ClaimOf(q) /\ ClaimOf(q) # ClaimOf(r)
          BY <3>3 DEF ClaimOf
        <4>4. \A x \in ClaimingCalls' : x \in (ClaimingCalls \ {ClaimOf(r)}) \cup {ClaimOf(r)'}
          BY <4>1, <4>3 DEF ClaimingCalls
        <4>5. ClaimOf(r)' \in ClaimingCalls' /\ \A x \in ClaimingCalls \ {ClaimOf(r)} : x \in ClaimingCalls'
          BY <2>2, <4>1, <4>3 DEF ClaimingCalls
        <4>6. QED
          BY <4>2, <4>4, <4>5
      <3>5. Lock!Close(ClaimOf(r), s)
        BY <1>1, <2>1, <2>2, <2>7, <2>8, <2>11, <2>13, <3>2, <3>4 DEF Lock!Close, Lock!Final, Final, Lock!OwnsClaim, OwnsClaim,
           RowOf, PilotOf, PlanOf, ExecutingCalls, ClaimingCalls, WriterOf
      <3>6. QED
        BY <2>7, <2>13, <3>5 DEF Lock!Next, Lock!ReconcilerStep, Lock!Final, Final, ClaimingCalls
    <2>14. QED
      BY <2>12, <2>13
  <1>4. QED
    BY <1>2, <1>3

\* The reservation of a settled plan is released, or the claim.
LEMMA ReleaseIsLocked ==
  ASSUME CaseInv, StagesInv, NEW r \in Reconcilers, Release(r)
  PROVE  Lock!Next \/ UNCHANGED Lock!vars
  <1>1. /\ rc[r].pc = "RELEASE" /\ rc[r] \in CallRecord /\ Claimed(rc[r]) /\ UNCHANGED <<record, lastWriter, exec, issued>>
    BY CallsAreTyped DEF Release, rvars, StagesInv, Claimed
  <1>2. CASE rc[r].rec.status \notin Final
    <2>1. EndCall(r) /\ ~Closed(rc[r])
      BY <1>2 DEF Release, Closed
    <2>2. QED
      BY <1>1, <2>1, EndIsLocked
  <1>3. CASE rc[r].rec.status \in Final
    <2>1. PICK v \in Versions : v = rc[r].v
      BY <1>1 DEF CallRecord
    <2>2. row' = RowAfterRelease(v) /\ Call(r, NoCall)
      BY <1>3, <2>1 DEF Release
    <2>3. ClaimingCalls' = ClaimingCalls \ {ClaimOf(r)} /\ ClaimOf(r) \in ClaimingCalls
      BY <1>1, <2>2, ClaimEnds
    <2>4. /\ RowOf' = IF RowOf["case"].ver = v THEN [RowOf EXCEPT !["case"] = NoRow] ELSE RowOf
          /\ PilotOf' = PilotOf \ {<<"case", v>>}
      BY <2>2, Dropped
    <2>5. /\ PlanOf' = PlanOf /\ ExecutingCalls' = ExecutingCalls /\ WriterOf' = WriterOf
      BY <1>1, SubmissionKeepsPhases DEF ExecutingCalls, ExecutorOf, WriterOf
    <2>6. ClaimOf(r).c = "case" /\ ClaimOf(r).v = v /\ ClaimOf(r).closed
      BY <1>1, <1>3, <2>1 DEF ClaimOf
    <2>7. Lock!ReleaseReservation(ClaimOf(r))
      BY <1>1, <2>3, <2>4, <2>5, <2>6 DEF Lock!ReleaseReservation, Lock!RowAfterRelease, Lock!PilotAfterRelease, Lock!NoRow, NoRow,
         RowOf, PilotOf, PlanOf, ExecutingCalls, ClaimingCalls, WriterOf
    <2>8. QED
      BY <2>3, <2>7 DEF Lock!Next, Lock!ReconcilerStep, ClaimingCalls
  <1>4. QED
    BY <1>2, <1>3

\* A process stops: its calls are gone, and the reservation of a settled plan.
LEMMA RestartedRow ==
  ASSUME CaseInv, StagesInv, row' = RecoveredRow, record' = record
  PROVE  /\ RowOf' = [c \in {"case"} |-> IF RowOf[c].state # "NONE" /\ PlanOf[c][RowOf[c].ver] \in Final
                                         THEN NoRow ELSE RowOf[c]]
         /\ PilotOf' = {p \in PilotOf : ~(PlanOf[p[1]][p[2]] \in Final)}
  <1>1. RowOf["case"] = row
    BY DEF RowOf
  <1>2. CASE row = NoRow
    <2>1. row' = NoRow /\ row.state = "NONE"
      BY <1>2 DEF RecoveredRow, NoRow
    <2>2. QED
      BY <1>2, <2>1 DEF RowOf, PilotOf
  <1>3. CASE row # NoRow
    <2>1. /\ row.ver \in Versions /\ HasPlan(record, row.ver) /\ record.plans[row.ver].status \in Submitted
          /\ row.state # "NONE"
      BY <1>3 DEF CaseInv, RowInv, StagesInv
    <2>2. PlanOf["case"][row.ver] = record.plans[row.ver].status
      BY <2>1, PlansMap
    <2>3. row' = IF PlanOf["case"][row.ver] \in Final THEN NoRow ELSE row
      BY <1>3, <2>2 DEF RecoveredRow
    <2>4. RowOf' = [c \in {"case"} |-> IF RowOf[c].state # "NONE" /\ PlanOf[c][RowOf[c].ver] \in Final
                                       THEN NoRow ELSE RowOf[c]]
      BY <2>1, <2>3 DEF RowOf
    <2>5. PilotOf = {<<"case", row.ver>>}
      BY <1>3 DEF PilotOf
    <2>6. PilotOf' = IF PlanOf["case"][row.ver] \in Final THEN {} ELSE {<<"case", row.ver>>}
      BY <1>3, <2>3 DEF PilotOf
    <2>7. QED
      BY <2>4, <2>5, <2>6
  <1>4. QED
    BY <1>2, <1>3

\* A crash ends the call that it cut off, and start-up recovers the row.
LEMMA RestartIsLocked ==
  ASSUME CaseInv, StagesInv, NEW w \in Versions \cup Reconcilers, row' = RecoveredRow, record' = record,
         UNCHANGED <<issued, lastWriter>>,
         ExecutingCalls' = {e \in ExecutingCalls : e.w # w}, ClaimingCalls' = {x \in ClaimingCalls : x.w # w}
  PROVE  Lock!Next
  <1>1. PlanOf' = PlanOf /\ WriterOf' = WriterOf
    BY SubmissionKeepsPhases DEF WriterOf
  <1>2. Lock!Restart(w)
    BY <1>1, RestartedRow DEF Lock!Restart, Lock!Reserved, Lock!Recoverable, Lock!Final, Final, Lock!NoRow, NoRow,
       RowOf, PilotOf, PlanOf, ExecutingCalls, ClaimingCalls, WriterOf
  <1>3. QED
    BY <1>2 DEF Lock!Next

\* A crash of either side or a lease that expires is a step of the lock.
LEMMA DisruptionIsLocked ==
  ASSUME CaseInv, StagesInv, Versions \cap Reconcilers = {}, Disruption
  PROVE  Lock!Next
  <1>1. ASSUME NEW v \in Versions, CrashExecutor(v) PROVE Lock!Next
    <2>1. /\ exec[v] \in InCall /\ At(v, "DONE") /\ row' = RecoveredRow
          /\ UNCHANGED <<record, lastWriter, rc, issued>>
      BY <1>1 DEF CrashExecutor, rvars
    <2>2. ExecutingCalls' = {e \in ExecutingCalls : e.w # v}
      BY <2>1, ExecutorEnds
    <2>3. ClaimingCalls' = ClaimingCalls /\ \A x \in ClaimingCalls : x.w # v
      BY <2>1 DEF ClaimingCalls, ClaimOf
    <2>4. ClaimingCalls' = {x \in ClaimingCalls : x.w # v}
      BY <2>3
    <2>5. QED
      BY <2>1, <2>2, <2>4, RestartIsLocked
  <1>2. ASSUME NEW r \in Reconcilers, CrashReconciler(r) PROVE Lock!Next
    <2>1. Call(r, NoCall) /\ row' = RecoveredRow /\ UNCHANGED <<record, lastWriter, exec, issued>>
      BY <1>2 DEF CrashReconciler, rvars
    <2>2. ClaimingCalls' = {x \in ClaimingCalls : x.w # r}
      BY <2>1, ClaimEnds
    <2>3. ExecutingCalls' = ExecutingCalls /\ \A e \in ExecutingCalls : e.w # r
      BY <2>1 DEF ExecutingCalls, ExecutorOf
    <2>4. ExecutingCalls' = {e \in ExecutingCalls : e.w # r}
      BY <2>3
    <2>5. QED
      BY <2>1, <2>2, <2>4, RestartIsLocked
  <1>3. CASE LeaseExpires
    <2>1. /\ row.fresh /\ row' = [row EXCEPT !.fresh = FALSE] /\ row.state \in {"ACTIVE", "RECONCILING"}
          /\ UNCHANGED <<record, lastWriter, exec, rc, issued>> /\ row \in Row
      BY <1>3 DEF LeaseExpires, rvars, CaseInv, RowInv
    <2>2. PlanOf' = PlanOf /\ UNCHANGED <<ExecutingCalls, ClaimingCalls, WriterOf>>
      BY <2>1, SubmissionKeepsPhases DEF ExecutingCalls, ExecutorOf, ClaimingCalls, ClaimOf, WriterOf
    <2>3. RowOf["case"] = row /\ RowOf' = [RowOf EXCEPT !["case"].fresh = FALSE]
      BY <2>1 DEF RowOf
    <2>4. PilotOf' = PilotOf
      BY <2>1 DEF PilotOf, NoRow, Row
    <2>5. Lock!LeaseExpires("case")
      BY <2>1, <2>2, <2>3, <2>4 DEF Lock!LeaseExpires, RowOf, PilotOf, PlanOf, ExecutingCalls, ClaimingCalls, WriterOf
    <2>6. QED
      BY <2>5 DEF Lock!Next
  <1>4. QED
    BY <1>1, <1>2, <1>3 DEF Disruption

\* A plan that was submitted stays submitted.
LEMMA SubmittedStay ==
  ASSUME CaseInv, ExecutionNext, NEW v \in Versions, HasPlan(record, v), record.plans[v].status \in Submitted
  PROVE  HasPlan(record', v) /\ record'.plans[v].status \in Submitted
  <1>1. ASSUME record'.plans = record.plans PROVE HasPlan(record', v) /\ record'.plans[v].status \in Submitted
    BY <1>1 DEF HasPlan
  <1>2. ASSUME NEW u \in Versions, ExecutePlan(u)
        PROVE  HasPlan(record', v) /\ record'.plans[v].status \in Submitted
    BY <1>2, PlanIsOpened DEF HasPlan, Submitted
  <1>3. ASSUME NEW u \in Versions, ExecutorStep(u) PROVE record'.plans = record.plans
    BY <1>3, SubmissionKeepsPlans
  <1>4. ASSUME NEW r \in Reconcilers, Save(r), MaySave(rc[r])
        PROVE  HasPlan(record', v) /\ record'.plans[v].status \in Submitted
    <2>1. PICK u, s : u = rc[r].v /\ s = record'.status
      OBVIOUS
    <2>2. /\ u \in DOMAIN record.plans /\ DOMAIN record'.plans = DOMAIN record.plans
          /\ \A w \in DOMAIN record.plans \ {u} : record'.plans[w].status = record.plans[w].status
          /\ record'.plans[u].status = IF s \in Final THEN s ELSE "EXECUTING"
      BY <1>4, <2>1, SavedPlans
    <2>3. QED
      BY <2>2 DEF HasPlan, Submitted
  <1>5. ASSUME NEW r \in Reconcilers, ReadCase(r) \/ ReconcilerStep(r), ~(Save(r) /\ MaySave(rc[r]))
        PROVE  record'.plans = record.plans
    BY <1>5, ReconcilersKeepPlans
  <1>6. CASE ProviderStep \/ Disruption
    BY <1>1, <1>6 DEF ProviderStep, Accept, Lose, Decide, Disruption, LeaseExpires, CrashExecutor, CrashReconciler, rvars
  <1>7. QED
    BY <1>1, <1>2, <1>3, <1>4, <1>5, <1>6 DEF ExecutionNext

\* Only a submitted plan has a submission.
LEMMA SubmissionStages ==
  ASSUME CaseInv, StagesInv, ExecutionNext, NEW v \in Versions, exec'[v] # "NONE"
  PROVE  HasPlan(record', v) /\ record'.plans[v].status \in Submitted
  <1>1. CASE exec[v] # "NONE"
    BY <1>1, SubmittedStay DEF StagesInv
  <1>2. CASE exec[v] = "NONE"
    <2>1. exec \in [Versions -> {"NONE", "DONE"} \cup InCall]
      BY DEF CaseInv
    <2>2. ASSUME NEW u \in Versions, ExecutePlan(u)
          PROVE  HasPlan(record', v) /\ record'.plans[v].status \in Submitted
      <3>1. u = v
        BY <1>2, <2>1, <2>2 DEF ExecutePlan, At
      <3>2. QED
        BY <2>2, <3>1, PlanIsOpened DEF HasPlan, Submitted
    <2>3. ASSUME NEW u \in Versions, ExecutorStep(u) PROVE FALSE
      <3>1. exec[u] \in InCall /\ \E pc : At(u, pc)
        BY <2>3 DEF ExecutorStep, StartAttempt, Beat, Post, PreflightFails, Rejected, NoAnswer, Caught, Answer, Pause,
               ReservationLost, HandOver, InCall, Submitting
      <3>2. QED
        BY <1>2, <2>1, <3>1 DEF At, InCall, Submitting
    <2>4. ASSUME NEW u \in Versions, CrashExecutor(u) PROVE FALSE
      BY <1>2, <2>1, <2>4 DEF CrashExecutor, At, InCall, Submitting
    <2>5. ASSUME NEW r \in Reconcilers, ReadCase(r) \/ ReconcilerStep(r) PROVE exec' = exec
      BY <2>5 DEF ReadCase, ReconcilerStep, Claim, GoOnUnclaimed, ClaimRefused, AskProvider, Observe, Lookup, AskFails,
             Save, Release
    <2>6. CASE ProviderStep \/ LeaseExpires \/ \E r \in Reconcilers : CrashReconciler(r)
      BY <1>2, <2>6 DEF ProviderStep, Accept, Lose, Decide, LeaseExpires, CrashReconciler
    <2>7. QED
      BY <1>2, <2>2, <2>3, <2>4, <2>5, <2>6 DEF ExecutionNext, Disruption
  <1>3. QED
    BY <1>1, <1>2

\* What a step makes of a call.
LEMMA CallStages ==
  ASSUME CaseInv, StagesInv, ExecutionNext, NEW r \in Reconcilers
  PROVE  /\ rc'[r].pc = "CLAIM" => rc'[r].token = 0
         /\ rc'[r].pc = "RELEASE" => rc'[r].token # 0
  <1>1. CASE rc'[r] = rc[r] \/ rc'[r].pc \notin {"CLAIM", "RELEASE"}
    BY <1>1 DEF StagesInv
  <1>2. \A q \in Reconcilers : \A c : Call(q, c) => rc'[r] = IF q = r THEN c ELSE rc[r]
    BY DEF Call, CaseInv
  <1>3. NoCall.pc = "IDLE" /\ \A c, rec, t : Observing(c, rec, t).pc = "LOOP"
    BY DEF NoCall, Observing
  <1>4. ASSUME NEW q \in Reconcilers, EndCall(q) PROVE rc'[r] = rc[r] \/ rc'[r].pc = "IDLE"
    BY <1>2, <1>3, <1>4 DEF EndCall
  <1>5. ASSUME NEW q \in Reconcilers, ReadCase(q)
        PROVE  rc'[r] = rc[r] \/ (rc'[r].pc = "CLAIM" /\ rc'[r].token = 0)
    BY <1>2, <1>5 DEF ReadCase
  <1>6. ASSUME NEW q \in Reconcilers, Claim(q) \/ GoOnUnclaimed(q) \/ ClaimRefused(q)
        PROVE  rc'[r] = rc[r] \/ rc'[r].pc \in {"IDLE", "LOOP"}
    BY <1>2, <1>3, <1>6 DEF Claim, GoOnUnclaimed, ClaimRefused
  <1>7. ASSUME NEW q \in Reconcilers, AskProvider(q) PROVE rc'[r] = rc[r] \/ rc'[r].pc \in {"IDLE", "ASK"}
    <2>1. rc[q] \in CallRecord
      BY <1>7, CallsAreTyped DEF AskProvider
    <2>2. [rc[q] EXCEPT !.pc = "ASK"].pc = "ASK"
      BY <2>1 DEF CallRecord
    <2>3. QED
      BY <1>2, <1>4, <1>7, <2>2 DEF AskProvider
  <1>8. ASSUME NEW q \in Reconcilers, NEW texts, NEW rec, NEW todo, rc[q].pc = "ASK", Store(q, texts, rec, todo)
        PROVE  rc'[r] = rc[r] \/ rc'[r].pc \in {"IDLE", "LOOP"}
    <2>1. rc[q] \in CallRecord
      BY <1>8, CallsAreTyped
    <2>2. [rc[q] EXCEPT !.pc = "LOOP", !.rec = rec, !.todo = todo].pc = "LOOP"
      BY <2>1 DEF CallRecord
    <2>3. QED
      BY <1>2, <1>4, <1>8, <2>2 DEF Store
  <1>9. ASSUME NEW q \in Reconcilers, Observe(q) \/ Lookup(q) \/ AskFails(q)
        PROVE  rc'[r] = rc[r] \/ rc'[r].pc \in {"IDLE", "LOOP"}
    BY <1>8, <1>9 DEF Observe, Lookup, AskFails, TakeResult
  <1>10. ASSUME NEW q \in Reconcilers, Save(q)
         PROVE  rc'[r] = rc[r] \/ rc'[r].pc = "IDLE" \/ (rc'[r].pc = "RELEASE" /\ rc'[r].token # 0)
    <2>1. CASE ~MaySave(rc[q])
      BY <1>4, <1>10, <2>1 DEF Save
    <2>2. CASE MaySave(rc[q])
      <3>1. rc[q] \in CallRecord /\ rc[q].token # 0
        BY <1>10, <2>2, CallsAreTyped, SavedPlans DEF Save, Claimed
      <3>2. PICK c : c = [rc[q] EXCEPT !.pc = "RELEASE", !.rec = record']
        OBVIOUS
      <3>3. c.pc = "RELEASE" /\ c.token # 0
        BY <3>1, <3>2 DEF CallRecord
      <3>4. QED
        BY <1>2, <1>10, <2>2, <3>2, <3>3 DEF Save
    <2>3. QED
      BY <2>1, <2>2
  <1>11. ASSUME NEW q \in Reconcilers, Release(q) \/ CrashReconciler(q) PROVE rc'[r] = rc[r] \/ rc'[r].pc = "IDLE"
    BY <1>2, <1>3, <1>4, <1>11 DEF Release, CrashReconciler
  <1>12. ASSUME NEW v \in Versions, ExecutePlan(v) \/ ExecutorStep(v) \/ CrashExecutor(v) PROVE rc' = rc
    BY <1>12 DEF ExecutePlan, ExecutorStep, StartAttempt, Beat, Post, PreflightFails, Rejected, NoAnswer, Caught,
           Answer, Pause, ReservationLost, HandOver, CrashExecutor
  <1>13. CASE ProviderStep \/ LeaseExpires
    BY <1>1, <1>13 DEF ProviderStep, Accept, Lose, Decide, LeaseExpires
  <1>14. QED
    BY <1>1, <1>5, <1>6, <1>7, <1>9, <1>10, <1>11, <1>12, <1>13 DEF ExecutionNext, ReconcilerStep, Disruption

\* What a step makes of the row.
LEMMA RowStages ==
  ASSUME CaseInv, StagesInv, ExecutionNext, row'.state = "NONE"
  PROVE  row' = NoRow
  <1>1. row \in Row /\ (row.state = "NONE" => row = NoRow)
    BY DEF CaseInv, RowInv, StagesInv
  <1>2. \A v, t : NewRow(v).state # "NONE" /\ ReadyRow(v).state # "NONE" /\ ClaimedRow(v, t).state # "NONE"
    BY DEF NewRow, ReadyRow, ClaimedRow
  <1>3. \A b \in BOOLEAN : [row EXCEPT !.fresh = b].state = row.state
    BY <1>1 DEF Row
  <1>4. row.state \in {"ACTIVE", "RECONCILING"} => [row EXCEPT !.fresh = TRUE].state # "NONE"
                                                  /\ [row EXCEPT !.fresh = FALSE].state # "NONE"
    BY <1>3
  <1>5. CASE row' \in {row, NoRow, RecoveredRow}
    BY <1>1, <1>5 DEF RecoveredRow
  <1>6. ASSUME NEW v \in Versions, ExecutePlan(v) \/ HandOver(v) PROVE row' = NoRow
    BY <1>1, <1>2, <1>6 DEF ExecutePlan, HandOver, RowAfterRelease
  <1>7. ASSUME NEW v \in Versions, ExecutorStep(v) PROVE row' = NoRow
    <2>1. CASE Beat(v) \/ Post(v)
      BY <1>4, <2>1 DEF Beat, Post, MayPost, OwnsActive
    <2>2. CASE ~(Beat(v) \/ Post(v) \/ HandOver(v))
      BY <1>5, <1>7, <2>2 DEF ExecutorStep, StartAttempt, PreflightFails, Rejected, NoAnswer, Caught, Answer, Pause,
             ReservationLost
    <2>3. QED
      BY <1>6, <2>1, <2>2
  <1>8. ASSUME NEW r \in Reconcilers, EndCall(r) PROVE row' = row
    BY <1>2, <1>8 DEF EndCall
  <1>9. ASSUME NEW r \in Reconcilers, ReadCase(r) \/ ReconcilerStep(r) PROVE row' = NoRow
    <2>1. CASE Claim(r)
      BY <1>2, <2>1 DEF Claim
    <2>2. CASE AskProvider(r)
      BY <1>4, <1>5, <1>8, <2>2 DEF AskProvider, OwnsClaim
    <2>3. CASE Observe(r) \/ Lookup(r) \/ AskFails(r)
      BY <1>5, <1>8, <2>3 DEF Observe, Lookup, AskFails, TakeResult, Store
    <2>4. CASE Save(r) \/ Release(r)
      BY <1>5, <1>8, <2>4 DEF Save, Release, RowAfterRelease
    <2>5. CASE ReadCase(r) \/ GoOnUnclaimed(r) \/ ClaimRefused(r)
      BY <1>5, <2>5 DEF ReadCase, GoOnUnclaimed, ClaimRefused
    <2>6. QED
      BY <1>9, <2>1, <2>2, <2>3, <2>4, <2>5 DEF ReconcilerStep
  <1>10. CASE ProviderStep
    BY <1>5, <1>10 DEF ProviderStep, Accept, Lose, Decide
  <1>11. CASE Disruption
    BY <1>4, <1>5, <1>11 DEF Disruption, LeaseExpires, CrashExecutor, CrashReconciler
  <1>12. QED
    BY <1>6, <1>7, <1>9, <1>10, <1>11 DEF ExecutionNext

\* Every step of the execution keeps what its calls hold of the lock.
LEMMA StagesStep ==
  ASSUME CaseInv, StagesInv, ExecutionNext
  PROVE  StagesInv'
  <1>1. issued' \in Nat
    <2>1. issued' = issued \/ issued' \in NewTokens
      BY DEF ExecutionNext, ExecutePlan, ExecutorStep, StartAttempt, Beat, Post, PreflightFails, Rejected, NoAnswer,
         Caught, Answer, Pause, ReservationLost, HandOver, ReadCase, ReconcilerStep, Claim, GoOnUnclaimed, ClaimRefused,
         AskProvider, Observe, Lookup, AskFails, Save, Release, ProviderStep, Accept, Lose, Decide, Disruption,
         LeaseExpires, CrashExecutor, CrashReconciler
    <2>2. QED
      BY <2>1, TokenIsNotZero DEF StagesInv
  <1>2. QED
    BY <1>1, SubmissionStages, CallStages, RowStages DEF StagesInv

\* Nothing is reserved or submitted at first.
LEMMA LockInit ==
  ASSUME NEW rec, NEW texts, InitWith(rec, texts), \A v \in DOMAIN rec.plans : rec.plans[v].status \notin Submitted
  PROVE  Lock!Init
  <1>1. /\ record = rec /\ row = NoRow /\ exec = [v \in Versions |-> "NONE"]
        /\ rc = [r \in Reconcilers |-> NoCall] /\ issued = 0 /\ lastWriter = 0
    BY DEF InitWith
  <1>2. \A v \in Versions : PhaseOf(v) = "NEW"
    BY <1>1 DEF PhaseOf, HasPlan, Submitted
  <1>3. PlanOf = [c \in {"case"} |-> [v \in Versions |-> "UNSUBMITTED"]]
    BY <1>2 DEF PlanOf
  <1>4. ExecutingCalls = {} /\ ClaimingCalls = {}
    BY <1>1 DEF ExecutingCalls, ClaimingCalls, Claimed, NoCall, InCall, Submitting
  <1>5. RowOf = [c \in {"case"} |-> NoRow] /\ PilotOf = {} /\ WriterOf = [c \in {"case"} |-> 0]
    BY <1>1 DEF RowOf, PilotOf, WriterOf
  <1>6. QED
    BY <1>1, <1>3, <1>4, <1>5 DEF Lock!Init, Lock!NoRow, NoRow, RowOf, PilotOf, PlanOf, ExecutingCalls, ClaimingCalls,
       WriterOf

\* The answers of the provider, and the calls that make no claim.
LEMMA ObserveIsLocked ==
  ASSUME CaseInv, NEW r \in Reconcilers, Observe(r) \/ Lookup(r) \/ AskFails(r)
  PROVE  Lock!Next \/ UNCHANGED Lock!vars
  <1>1. rc[r].pc = "ASK" /\ UNCHANGED <<record, lastWriter, exec, issued>>
    BY DEF Observe, Lookup, AskFails, rvars
  <1>2. \E texts, rec, todo : Store(r, texts, rec, todo)
    BY DEF Observe, Lookup, AskFails, TakeResult
  <1>3. QED
    BY <1>1, <1>2, StoreIsLocked

\* A call that has no claim does nothing the lock sees.
LEMMA UnclaimedIsUnseen ==
  ASSUME CaseInv, StagesInv, NEW r \in Reconcilers, ReadCase(r) \/ GoOnUnclaimed(r) \/ ClaimRefused(r)
  PROVE  UNCHANGED Lock!vars
  <1>1. UNCHANGED <<record, lastWriter, row, exec, issued>>
    BY DEF ReadCase, GoOnUnclaimed, ClaimRefused, rvars
  <1>2. ~Claimed(rc[r])
    BY DEF ReadCase, GoOnUnclaimed, ClaimRefused, StagesInv, Claimed
  <1>3. \E c : Call(r, c) /\ ~Claimed(c)
    <2>1. CASE ReadCase(r)
      <3>1. PICK c : c = [pc |-> "CLAIM", v |-> Latest(record), token |-> 0, rev |-> record.rev,
                          rec |-> record, todo |-> {}]
        OBVIOUS
      <3>2. Call(r, c) /\ c.token = 0
        BY <2>1, <3>1 DEF ReadCase
      <3>3. QED
        BY <3>2 DEF Claimed
    <2>2. CASE GoOnUnclaimed(r)
      <3>1. PICK c : c = Observing(rc[r], rc[r].rec, 0)
        OBVIOUS
      <3>2. Call(r, c) /\ c.token = 0
        BY <2>2, <3>1 DEF GoOnUnclaimed, Observing
      <3>3. QED
        BY <3>2 DEF Claimed
    <2>3. CASE ClaimRefused(r)
      BY <2>3 DEF ClaimRefused, Claimed, NoCall
    <2>4. QED
      BY <2>1, <2>2, <2>3
  <1>4. QED
    BY <1>1, <1>2, <1>3, CallIsUnseen

\* Every step of the execution is one of ExecutionLock, or none it sees.
LEMMA LockStep ==
  ASSUME CaseInv, StagesInv, Recycle = FALSE, Versions \cap Reconcilers = {}, [ExecutionNext]_vars
  PROVE  [Lock!Next]_(Lock!vars)
  <1>1. ASSUME UNCHANGED <<record, row, exec, rc, issued, lastWriter>> PROVE UNCHANGED Lock!vars
    <2>1. PlanOf' = PlanOf
      BY <1>1, SubmissionKeepsPhases
    <2>2. UNCHANGED Mapped
      BY <1>1, <2>1 DEF Mapped, RowOf, PilotOf, ExecutingCalls, ExecutorOf, ClaimingCalls, ClaimOf, WriterOf
    <2>3. QED
      BY <2>2, LockUnseen
  <1>2. ASSUME NEW v \in Versions, ExecutePlan(v) PROVE Lock!Next
    BY <1>2, ReserveIsLocked DEF Lock!Next
  <1>3. ASSUME NEW v \in Versions, ExecutorStep(v) PROVE Lock!Next \/ UNCHANGED Lock!vars
    BY <1>3, SubmissionIsLocked, HandOverIsLocked
  <1>4. ASSUME NEW r \in Reconcilers, ReadCase(r) \/ ReconcilerStep(r) PROVE Lock!Next \/ UNCHANGED Lock!vars
    BY <1>4, UnclaimedIsUnseen, ClaimIsLocked, AskIsLocked, ObserveIsLocked, SaveIsLocked, ReleaseIsLocked
       DEF ReconcilerStep
  <1>5. CASE ProviderStep
    BY <1>1, <1>5 DEF ProviderStep, Accept, Lose, Decide, rvars
  <1>6. CASE Disruption
    BY <1>6, DisruptionIsLocked
  <1>7. CASE UNCHANGED vars
    BY <1>1, <1>7 DEF vars
  <1>8. QED
    BY <1>2, <1>3, <1>4, <1>5, <1>6, <1>7 DEF ExecutionNext

\* With claim tokens that are never handed out twice, every call of executePlan
\* and reconcile, step by step, follows the reservation protocol whose theorems
\* ExecutionLock_proofs states: also when it is cut off between two steps, and
\* after its lease has lapsed and another has taken over.
THEOREM FollowsReservationProtocol ==
  ASSUME Recycle = FALSE, Versions \cap Reconcilers = {}
  PROVE  Spec => FollowsLockProtocol
  <1>1. Init => CaseInv /\ StagesInv /\ Lock!Init
    BY AuthorizedInit, AuthorizedUnsubmitted, StagesInit, LockInit
  <1>2. CaseInv /\ StagesInv /\ [ExecutionNext]_vars => CaseInv' /\ StagesInv'
    <2>1. SUFFICES ASSUME CaseInv, StagesInv, [ExecutionNext]_vars PROVE CaseInv' /\ StagesInv'
      OBVIOUS
    <2>2. CASE ExecutionNext
      BY <2>1, <2>2, ExecutionStep, StagesStep DEF Upheld
    <2>3. CASE UNCHANGED vars
      <3>1. CaseInv'
        BY <2>1, <2>3, StutterStep DEF Upheld
      <3>2. QED
        BY <2>1, <2>3, <3>1 DEF StagesInv, vars
    <2>4. QED
      BY <2>1, <2>2, <2>3
  <1>3. CaseInv /\ StagesInv /\ [ExecutionNext]_vars => [Lock!Next]_(Lock!vars)
    BY LockStep
  <1>4. QED
    BY <1>1, <1>2, <1>3, PTL DEF Spec, FollowsLockProtocol, Lock!Spec

----------------------------------------------------------------------------
(* The whole lifecycle of a case.                                          *)

\* CaseInv, one refreshFunding call at a time, and credits in a known state.
LifecycleInv ==
  /\ CaseInv
  /\ origin \in Origins /\ funds \in [Credits -> CreditStates]
  /\ reads = {} \/ \E rec : reads = {rec}

\* Every invariant of this module holds of the case before its first step.
LEMMA LifecycleInitIs ==
  ASSUME LifecycleInit
  PROVE  /\ LifecycleInv /\ AuthorizationIsCurrent
         /\ StagesInv /\ Promise!Init /\ Lock!Init
  <1>1. PICK texts : InitWith(origin.record, texts)
    BY DEF LifecycleInit
  <1>2. /\ origin \in Origins /\ origin.record \in Record
        /\ origin.record.plans = <<>> /\ origin.record.attempts = <<>>
    BY LifecycleAssumption DEF LifecycleInit, LifecycleAssumption
  <1>3. CaseInv
    BY <1>1, <1>2, InitIs
  <1>4. AuthorizationIsCurrent
    BY <1>1, <1>2 DEF InitWith, AuthorizationIsCurrent, Executable, HasPlan
  <1>5. funds \in [Credits -> CreditStates]
    BY DEF LifecycleInit, CreditStates
  <1>6. reads = {}
    BY <1>1 DEF InitWith
  <1>7. StagesInv /\ Promise!Init /\ Lock!Init
    BY <1>1, <1>2, StagesInit, PromiseInit, LockInit
  <1>8. QED
    BY <1>2, <1>3, <1>4, <1>5, <1>6, <1>7 DEF LifecycleInv

\* Every step, the broker's, the funding's, a submission's or a call's.
LEMMA LifecycleStep ==
  ASSUME LifecycleInv, [LifecycleNext]_lvars
  PROVE  Upheld /\ Governed
  <1>1. CASE BrokerStep
    BY <1>1, BrokerStepIs DEF LifecycleInv
  <1>2. CASE FundingStep
    BY <1>2, FundingStepIs DEF LifecycleInv
  <1>3. CASE PlanStep
    BY <1>3, ExecutionStep, CautiousGoverns DEF LifecycleInv, PlanStep
  <1>4. CASE UNCHANGED lvars
    BY <1>4, StutterStep, CautiousGoverns DEF LifecycleInv, lvars
  <1>5. QED
    BY <1>1, <1>2, <1>3, <1>4 DEF LifecycleNext

\* The calls of executePlan and reconcile, and the provider, take every step
\* that touches what they share.
LEMMA OthersAreAside ==
  ASSUME LifecycleInv, [LifecycleNext]_lvars
  PROVE  ExecutionNext \/ Aside
  <1>1. CASE BrokerStep \/ FundingStep
    BY <1>1, BrokerStepIs, FundingStepIs DEF LifecycleInv
  <1>2. CASE UNCHANGED lvars
    BY <1>2, SameIsAside DEF lvars, vars, pvars
  <1>3. QED
    BY <1>1, <1>2 DEF LifecycleNext, PlanStep

\* What is aside is seen neither in the payouts nor in the reservation.
LEMMA AsideIsUnseen ==
  ASSUME CaseInv, Aside
  PROVE  /\ UNCHANGED Promise!pvars
         /\ UNCHANGED Lock!vars
         /\ StagesInv => StagesInv'
  <1>1. ledger' = ledger /\ UNCHANGED <<row, exec, rc, issued, lastWriter>>
    BY DEF Aside, pvars
  <1>2. \A v \in Versions : PhaseOf(v)' = PhaseOf(v)
    BY DEF Aside
  <1>3. UNCHANGED Promise!pvars
    <2>1. SameTries(record, record')
      BY DEF Aside, SameTries
    <2>2. UNCHANGED <<TriedOf, AskedOf, PaidBy, RefusedOf, GivenUpOf>>
      BY <1>1, <2>1, TriesStay, LedgerStays
    <2>3. Phases' = Phases
      BY <1>2 DEF Phases
    <2>4. QED
      BY <2>2, <2>3 DEF Promise!pvars, TriedOf, AskedOf, PaidBy, RefusedOf, Refused, GivenUpOf, GivenUp, Phases
  <1>4. UNCHANGED Lock!vars
    <2>1. PlanOf' = PlanOf
      BY <1>2, PlanStays
    <2>2. UNCHANGED Mapped
      BY <1>1, <2>1 DEF Mapped, RowOf, PilotOf, ExecutingCalls, ExecutorOf, ClaimingCalls, ClaimOf, WriterOf
    <2>3. QED
      BY <2>2, LockUnseen
  <1>5. StagesInv => StagesInv'
    <2>1. \A v \in Versions : HasPlan(record, v) /\ record.plans[v].status \in Submitted =>
            HasPlan(record', v) /\ record'.plans[v].status \in Submitted
      <3>1. \A v \in Versions : (HasPlan(record, v) /\ record.plans[v].status \in Submitted) <=> PhaseOf(v) # "NEW"
        BY DEF PhaseOf, Submitted, Final
      <3>2. \A v \in Versions : (HasPlan(record', v) /\ record'.plans[v].status \in Submitted) <=> PhaseOf(v)' # "NEW"
        BY DEF PhaseOf, Submitted, Final
      <3>3. QED
        BY <1>2, <3>1, <3>2
    <2>2. QED
      BY <1>1, <2>1 DEF StagesInv
  <1>6. QED
    BY <1>3, <1>4, <1>5

\* Executing and reconciling leave the copy of a refreshFunding call alone.
LEMMA ReadsAreKept ==
  ASSUME ExecutionNext
  PROVE  reads' = reads
  <1>1. ASSUME NEW v \in Versions, ExecutePlan(v) \/ ExecutorStep(v) PROVE reads' = reads
    BY <1>1 DEF ExecutePlan, ExecutorStep, StartAttempt, Beat, Post, PreflightFails, Rejected, NoAnswer,
       Caught, Answer, Pause, ReservationLost, HandOver
  <1>2. ASSUME NEW r \in Reconcilers, ReadCase(r) \/ ReconcilerStep(r) PROVE reads' = reads
    BY <1>2 DEF ReadCase, ReconcilerStep, Claim, GoOnUnclaimed, ClaimRefused, AskProvider, Observe, Lookup,
       AskFails, Save, Release
  <1>3. CASE ProviderStep \/ Disruption
    BY <1>3 DEF ProviderStep, Accept, Lose, Decide, Disruption, LeaseExpires, CrashExecutor, CrashReconciler
  <1>4. QED
    BY <1>1, <1>2, <1>3 DEF ExecutionNext

\* Every step of the whole lifecycle keeps LifecycleInv.
LEMMA LifecycleInvStep ==
  ASSUME LifecycleInv, [LifecycleNext]_lvars
  PROVE  LifecycleInv'
  <1>1. CaseInv' /\ origin' = origin
    BY LifecycleStep DEF Upheld, LifecycleNext, lvars
  <1>2. CASE BrokerStep
    <2>1. reads' = reads
      BY <1>2 DEF BrokerStep, AddAmendment, ReplaceExpectation, AddReview, Approve, Decline, CreatePlan,
         AuthorizePlan, BrokerSave
    <2>2. funds' = funds \/ funds' = [t \in Credits |-> "NONE"]
      BY <1>2 DEF BrokerStep, AddAmendment, ReplaceExpectation, AddReview, Approve, Decline, CreatePlan,
         AuthorizePlan
    <2>3. QED
      BY <1>1, <2>1, <2>2 DEF LifecycleInv, CreditStates
  <1>3. CASE FundingStep
    <2>1. reads' \in {{}, {record}} \/ reads' = reads
      BY <1>3 DEF FundingStep, RefreshStart, RefreshEnd, RefreshFails, RefreshSave, CreditMoves, vars
    <2>2. funds' \in [Credits -> CreditStates]
      <3>1. ASSUME NEW t \in origin.credits, CreditMoves(t) PROVE funds' \in [Credits -> CreditStates]
        <4>1. origin.moves \subseteq CreditStates
          BY LifecycleAssumption DEF LifecycleAssumption, LifecycleInv, CreditStates
        <4>2. PICK x \in origin.moves : funds' = [funds EXCEPT ![t] = x]
          BY <3>1 DEF CreditMoves
        <4>3. QED
          BY <4>1, <4>2 DEF LifecycleInv
      <3>2. funds \in [Credits -> CreditStates]
        BY DEF LifecycleInv
      <3>3. QED
        BY <1>3, <3>1, <3>2 DEF FundingStep, RefreshStart, RefreshEnd, RefreshFails, RefreshSave
    <2>3. QED
      BY <1>1, <2>1, <2>2 DEF LifecycleInv
  <1>4. CASE PlanStep
    BY <1>1, <1>4, ReadsAreKept DEF LifecycleInv, PlanStep
  <1>5. CASE UNCHANGED lvars
    BY <1>1, <1>5 DEF LifecycleInv, lvars, vars
  <1>6. QED
    BY <1>2, <1>3, <1>4, <1>5 DEF LifecycleNext

\* The invariant of a case over its whole life.
THEOREM LifecycleInvariant == LifecycleSpec => []LifecycleInv
  <1>1. LifecycleInit => LifecycleInv
    BY LifecycleInitIs
  <1>2. LifecycleInv /\ [LifecycleNext]_lvars => LifecycleInv'
    BY LifecycleInvStep
  <1>3. QED
    BY <1>1, <1>2, PTL DEF LifecycleSpec

\* Record, credits and the copy of the observation under way stay well formed
\* over a case's whole life, whatever the broker does.
THEOREM LifecycleTypes == LifecycleSpec => []LifecycleTypeOK
  <1>1. LifecycleInv => LifecycleTypeOK
    <2>1. SUFFICES ASSUME LifecycleInv PROVE LifecycleTypeOK
      OBVIOUS
    <2>2. Cardinality(reads) <= 1
      <3>1. Cardinality({}) = 0 /\ \A rec : Cardinality({rec}) = 1
        BY FS_EmptySet, FS_Singleton
      <3>2. CASE reads = {}
        BY <3>1, <3>2
      <3>3. ASSUME NEW rec, reads = {rec} PROVE Cardinality(reads) <= 1
        <4>1. Cardinality(reads) = 1
          BY <3>1, <3>3
        <4>2. QED
          BY <4>1
      <3>4. QED
        BY <2>1, <3>2, <3>3 DEF LifecycleInv
    <2>3. record \in Record /\ reads \subseteq Record
      BY <2>1 DEF LifecycleInv, CaseInv, RecordInv, ReadsInv
    <2>4. QED
      BY <2>1, <2>2, <2>3 DEF LifecycleTypeOK, LifecycleInv
  <1>2. QED
    BY <1>1, LifecycleInvariant, PTL

\* Whatever amendments, reviews, decisions, refreshes, submissions and
\* settlements came in between, a plan that executePlan would submit belongs to
\* an approved case without a broker's block.
THEOREM AuthorizationStaysCurrent == LifecycleSpec => []AuthorizationIsCurrent
  <1>1. LifecycleInit => AuthorizationIsCurrent
    BY LifecycleInitIs
  <1>2. LifecycleInv /\ AuthorizationIsCurrent /\ [LifecycleNext]_lvars => AuthorizationIsCurrent'
    BY LifecycleStep DEF Governed
  <1>3. QED
    BY <1>1, <1>2, LifecycleInvariant, PTL DEF LifecycleSpec

\* What a step may do to a block, as the action BlocksStand boxes.
BlockStands ==
  "BROKER" \in record.findings \ record'.findings =>
    record'.caseStatus = "AWAITING_BROKER" /\ ~\E v \in Versions : Executable(record', v)

\* No observation, submission or reconciliation lifts a broker's block; an
\* amendment that does sends the case back to review (addAmendment).
THEOREM BlocksAreKept == LifecycleSpec => BlocksStand
  <1>1. LifecycleInv /\ [LifecycleNext]_lvars => [BlockStands]_lvars
    BY LifecycleStep DEF Governed, BlockStands
  <1>2. LifecycleSpec => [][BlockStands]_lvars
    BY <1>1, LifecycleInvariant, PTL DEF LifecycleSpec
  <1>3. QED
    BY <1>2 DEF BlocksStand, BlockStands

\* However many plans a case gets, what the record still counts on belongs to
\* one plan, and while a plan is executing to that one: a replacement is not
\* submitted before the payouts of its predecessors are decided or written off.
THEOREM OnePlanAtATime == LifecycleSpec => []OnePlanUnderWay
  <1>1. LifecycleInv => OnePlanUnderWay
    BY OneFollows DEF LifecycleInv
  <1>2. QED
    BY <1>1, LifecycleInvariant, PTL

\* A settlement stays true whatever the broker does next: while the case goes on
\* to further plans, a RECONCILED plan is paid in full, and of a settled one only
\* a payout that its record has written off is on its way or undecided.
THEOREM SettlementStaysDecided == LifecycleSpec => []SettledIsDecided
  <1>1. LifecycleInv => SettledIsDecided
    BY DecidedFollows DEF LifecycleInv
  <1>2. QED
    BY <1>1, LifecycleInvariant, PTL

\* The promise of SequentialPayouts is kept over the whole life of a case: the
\* payouts of each of its plans are tried one at a time, in order and once,
\* while the broker reviews, amends, observes and plans beside them; and no
\* operation of the broker opens, closes or settles a plan.
THEOREM LifecycleKeepsPromise == LifecycleSpec => PayoutsArePromised
  <1>1. LifecycleInit => Promise!Init
    BY LifecycleInitIs
  <1>2. LifecycleInv /\ [LifecycleNext]_lvars => Stands
    BY LifecycleStep DEF Upheld
  <1>3. LifecycleInv => SettledAsPaid
    BY SettledAsPaidFollows DEF LifecycleInv
  <1>4. LifecycleInv /\ SettledAsPaid' /\ Stands /\ [LifecycleNext]_lvars => [Promise!Next]_(Promise!pvars)
    BY OthersAreAside, AsideIsUnseen, PromiseStep DEF LifecycleInv
  <1>5. QED
    BY <1>1, <1>2, <1>3, <1>4, LifecycleInvariant, PTL DEF LifecycleSpec, PayoutsArePromised, Promise!Spec

\* What is out at the provider: a request on its way, or one that was accepted
\* and has not completed.
OutFor(v) == {q \in sent : q[1] = v} \cup {<<ledger[k].v, ledger[k].i>> : k \in Accepted(v) \ PaidOf(v)}

\* No payout is accepted twice or asked for again once it has been accepted,
\* and at most one payout of a plan is out.
OneByOne ==
  /\ \A k, l \in DOMAIN ledger : ledger[k].v = ledger[l].v /\ ledger[k].i = ledger[l].i => k = l
  /\ \A q \in sent, k \in DOMAIN ledger : <<ledger[k].v, ledger[k].i>> # q
  /\ \A v \in Versions : \A p, q \in OutFor(v) : p = q

\* What is out has an attempt of its own, which has not completed.
LEMMA OutIsAttempted ==
  ASSUME CaseInv, NEW v \in Versions, NEW p \in OutFor(v)
  PROVE  /\ p = <<v, p[2]>>
         /\ \E a \in AttemptsOf(record, v) \ CompletedOf(record, v) : record.attempts[a].i = p[2]
  <1>1. CASE p \in sent /\ p[1] = v
    <2>1. p = <<v, p[2]>>
      BY <1>1 DEF CaseInv, ProviderInv, Request
    <2>2. PICK a \in AttemptsOf(record, v) : record.attempts[a].i = p[2]
      BY <1>1, <2>1, AttemptFor
    <2>3. a \notin CompletedOf(record, v)
      <3>1. ASSUME a \in CompletedOf(record, v) PROVE FALSE
        <4>1. PICK k : k = record.attempts[a].tx
          OBVIOUS
        <4>2. k \in Accepted(v) /\ ledger[k].i = p[2]
          BY <2>2, <3>1, <4>1, CompletedArePaid DEF PaidOf
        <4>3. k \in DOMAIN ledger /\ IsOf(k, p)
          BY <1>1, <4>2 DEF Accepted, IsOf
        <4>4. QED
          BY <1>1, <4>3 DEF CaseInv, ProviderInv
      <3>2. QED
        BY <3>1
    <2>4. QED
      BY <2>1, <2>2, <2>3
  <1>2. ASSUME NEW k \in Accepted(v) \ PaidOf(v), p = <<ledger[k].v, ledger[k].i>>
        PROVE  /\ p = <<v, p[2]>>
               /\ \E a \in AttemptsOf(record, v) \ CompletedOf(record, v) : record.attempts[a].i = p[2]
    <2>1. ledger[k].v = v /\ p = <<v, ledger[k].i>> /\ p[2] = ledger[k].i
      BY <1>2 DEF Accepted
    <2>2. PICK a \in AttemptsOf(record, v) : record.attempts[a].i = p[2]
      BY <2>1, AttemptFor
    <2>3. a \notin CompletedOf(record, v)
      BY <1>2, <2>1, <2>2, CompletedArePaid
    <2>4. QED
      BY <2>1, <2>2, <2>3
  <1>3. QED
    BY <1>1, <1>2 DEF OutFor

\* What is out or accepted of a plan is told apart by the invariant.
LEMMA OneByOneFollows ==
  ASSUME CaseInv
  PROVE  OneByOne
  <1>1. ASSUME NEW q \in sent, NEW k \in DOMAIN ledger, <<ledger[k].v, ledger[k].i>> = q PROVE FALSE
    BY <1>1 DEF CaseInv, ProviderInv, IsOf
  <1>2. ASSUME NEW v \in Versions, NEW p \in OutFor(v), NEW q \in OutFor(v) PROVE p = q
    <2>1. PICK a \in AttemptsOf(record, v) \ CompletedOf(record, v) : record.attempts[a].i = p[2]
      BY OutIsAttempted
    <2>2. PICK b \in AttemptsOf(record, v) \ CompletedOf(record, v) : record.attempts[b].i = q[2]
      BY OutIsAttempted
    <2>3. a = b
      BY <2>1, <2>2 DEF CaseInv, RecordInv, InTurn
    <2>4. p = <<v, p[2]>> /\ q = <<v, q[2]>>
      BY OutIsAttempted
    <2>5. QED
      BY <2>1, <2>2, <2>3, <2>4
  <1>3. QED
    BY <1>1, <1>2 DEF OneByOne, CaseInv, ProviderInv

\* Over the whole life of a case no payout is accepted twice, and those of one
\* plan are asked for one at a time, the next when the one before has completed.
THEOREM PayoutsGoOneByOne == LifecycleSpec => []OneByOne
  <1>1. LifecycleInv => OneByOne
    BY OneByOneFollows DEF LifecycleInv
  <1>2. QED
    BY <1>1, LifecycleInvariant, PTL

\* A submission that is over and whose reservation still reads as if it were
\* being submitted was cut off.
StrandedByOutage ==
  /\ outages \in Nat
  /\ \A v \in Versions : exec[v] = "DONE" /\ OwnsActive(v) => outages > 0

\* What the submission of v makes of the row.
LEMMA SubmissionStrandsNone ==
  ASSUME CaseInv, StrandedByOutage, NEW v \in Versions, ExecutorStep(v)
  PROVE  StrandedByOutage'
  <1>1. row \in Row /\ exec \in [Versions -> {"NONE", "DONE"} \cup InCall] /\ outages' = outages
    BY DEF CaseInv, RowInv, ExecutorStep, StartAttempt, Beat, Post, PreflightFails, Rejected, NoAnswer, Caught,
       Answer, Pause, ReservationLost, HandOver, bounds
  <1>2. CASE HandOver(v)
    <2>1. ~OwnsActive(v)'
      BY <1>1, <1>2 DEF HandOver, RowAfterRelease, OwnsActive, NoRow, ReadyRow
    <2>2. \A u \in Versions \ {v} : exec'[u] = exec[u] /\ (OwnsActive(u)' => OwnsActive(u))
      BY <1>1, <1>2 DEF HandOver, RowAfterRelease, OwnsActive, NoRow, ReadyRow, At
    <2>3. QED
      BY <1>1, <2>1, <2>2 DEF StrandedByOutage
  <1>3. CASE ~HandOver(v)
    <2>1. \E pc \in InCall : At(v, pc)
      BY <1>3 DEF ExecutorStep, StartAttempt, Beat, Post, PreflightFails, Rejected, NoAnswer, Caught, Answer,
         AfterAnswer, Pause, ReservationLost, InCall, Submitting
    <2>2. row' = row \/ row' = [row EXCEPT !.fresh = TRUE]
      BY <1>3 DEF ExecutorStep, StartAttempt, Beat, Post, PreflightFails, Rejected, NoAnswer, Caught, Answer,
         Pause, ReservationLost
    <2>3. row'.ver = row.ver /\ row'.state = row.state
      BY <1>1, <2>2 DEF Row
    <2>4. \A u \in Versions : exec'[u] = "DONE" => exec[u] = "DONE"
      BY <1>1, <2>1 DEF At, InCall, Submitting
    <2>5. QED
      BY <1>1, <2>3, <2>4 DEF StrandedByOutage, OwnsActive
  <1>4. QED
    BY <1>2, <1>3

\* A reconcile call never makes a row look as if its plan were being submitted.
LEMMA CallTakesNoRow ==
  ASSUME CaseInv, NEW r \in Reconcilers, ReadCase(r) \/ ReconcilerStep(r)
  PROVE  exec' = exec /\ outages' = outages /\ \A v : OwnsActive(v)' => OwnsActive(v)
  <1>1. row \in Row /\ exec' = exec /\ outages' = outages
    BY DEF CaseInv, RowInv, ReadCase, ReconcilerStep, Claim, GoOnUnclaimed, ClaimRefused, AskProvider, Observe,
       Lookup, AskFails, Save, Release, bounds
  <1>2. \/ row' \in {row, NoRow} \/ row' = [row EXCEPT !.fresh = TRUE]
        \/ \E t : row' = ClaimedRow(rc[r].v, t)
        \/ row' = ReadyRow(rc[r].v)
    <2>1. CASE Observe(r) \/ Lookup(r) \/ AskFails(r)
      <3>1. \E texts, rec, todo : Store(r, texts, rec, todo)
        BY <2>1 DEF Observe, Lookup, AskFails, TakeResult
      <3>2. QED
        BY <3>1 DEF Store, EndCall
    <2>2. CASE Claim(r)
      BY <2>2 DEF Claim
    <2>3. CASE Release(r) \/ Save(r) \/ AskProvider(r)
      BY <2>3 DEF Release, Save, AskProvider, EndCall, RowAfterRelease
    <2>4. CASE ReadCase(r) \/ GoOnUnclaimed(r) \/ ClaimRefused(r)
      BY <2>4 DEF ReadCase, GoOnUnclaimed, ClaimRefused
    <2>5. QED
      BY <2>1, <2>2, <2>3, <2>4 DEF ReconcilerStep
  <1>3. \A v : OwnsActive(v)' => OwnsActive(v)
    BY <1>1, <1>2 DEF OwnsActive, NoRow, ClaimedRow, ReadyRow, Row
  <1>4. QED
    BY <1>1, <1>3

\* No step of the execution leaves a submission stranded, but an outage.
LEMMA StrandedStep ==
  ASSUME CaseInv, StrandedByOutage, ExecutionNext
  PROVE  StrandedByOutage'
  <1>1. row \in Row /\ exec \in [Versions -> {"NONE", "DONE"} \cup InCall]
    BY DEF CaseInv, RowInv
  <1>2. ASSUME NEW v \in Versions, ExecutePlan(v) PROVE StrandedByOutage'
    <2>1. /\ row' = NewRow(v) /\ outages' = outages /\ exec'[v] = "LOOP"
          /\ \A u \in Versions \ {v} : exec'[u] = exec[u]
      BY <1>1, <1>2 DEF ExecutePlan, At, bounds
    <2>2. QED
      BY <2>1 DEF StrandedByOutage, OwnsActive, NewRow
  <1>3. CASE ProviderStep
    BY <1>3 DEF ProviderStep, Accept, Lose, Decide, bounds, StrandedByOutage, OwnsActive
  <1>4. CASE LeaseExpires
    <2>1. row'.ver = row.ver /\ row'.state = row.state /\ exec' = exec
      BY <1>1, <1>4 DEF LeaseExpires, Row
    <2>2. outages' \in {outages, outages + 1}
      BY <1>4 DEF LeaseExpires, Outage
    <2>3. QED
      BY <2>1, <2>2 DEF StrandedByOutage, OwnsActive
  <1>5. CASE (\E v \in Versions : CrashExecutor(v)) \/ (\E r \in Reconcilers : CrashReconciler(r))
    <2>1. outages' = outages + 1
      BY <1>5 DEF CrashExecutor, CrashReconciler, Outage
    <2>2. QED
      BY <2>1 DEF StrandedByOutage
  <1>6. ASSUME NEW r \in Reconcilers, ReadCase(r) \/ ReconcilerStep(r) PROVE StrandedByOutage'
    BY <1>6, CallTakesNoRow DEF StrandedByOutage
  <1>7. QED
    BY <1>2, <1>3, <1>4, <1>5, <1>6, SubmissionStrandsNone DEF ExecutionNext, Disruption

\* The part of SubmissionEnds that is no liveness, with outages allowed: when a
\* submission is over it has given up its reservation, on every path through
\* its errors, unless a process died or a lease lapsed; over the whole life of
\* a case.
THEOREM OnlyOutagesStrand == LifecycleSpec => []StrandedByOutage
  <1>1. LifecycleInit => StrandedByOutage
    BY DEF LifecycleInit, InitWith, StrandedByOutage, OwnsActive
  <1>2. LifecycleInv /\ StrandedByOutage /\ [LifecycleNext]_lvars => StrandedByOutage'
    <2>1. SUFFICES ASSUME LifecycleInv, StrandedByOutage, [LifecycleNext]_lvars PROVE StrandedByOutage'
      OBVIOUS
    <2>2. outages' = outages \/ ExecutionNext
      BY <2>1 DEF LifecycleNext, PlanStep, BrokerStep, AddAmendment, ReplaceExpectation, AddReview, Approve, Decline,
         CreatePlan, AuthorizePlan, BrokerSave, FundingStep, RefreshStart, RefreshEnd, RefreshFails, RefreshSave,
         CreditMoves, bounds, vars, lvars
    <2>3. CASE ExecutionNext
      BY <2>1, <2>3, StrandedStep DEF LifecycleInv
    <2>4. CASE ~ExecutionNext
      BY <2>1, <2>2, <2>4, OthersAreAside DEF Aside, StrandedByOutage, OwnsActive
    <2>5. QED
      BY <2>3, <2>4
  <1>3. QED
    BY <1>1, <1>2, LifecycleInvariant, PTL DEF LifecycleSpec

\* And so is the reservation protocol, with claim tokens that are never handed
\* out twice: nothing the broker does takes, moves or frees a reservation, and
\* every call of every plan of the case follows ExecutionLock.
THEOREM LifecycleFollowsProtocol ==
  ASSUME Recycle = FALSE, Versions \cap Reconcilers = {}
  PROVE  LifecycleSpec => FollowsLockProtocol
  <1>1. LifecycleInit => StagesInv /\ Lock!Init
    BY LifecycleInitIs
  <1>2. LifecycleInv /\ StagesInv /\ [LifecycleNext]_lvars => StagesInv'
    BY OthersAreAside, AsideIsUnseen, StagesStep DEF LifecycleInv
  <1>3. LifecycleInv /\ StagesInv /\ [LifecycleNext]_lvars => [Lock!Next]_(Lock!vars)
    BY OthersAreAside, AsideIsUnseen, LockStep DEF LifecycleInv
  <1>4. QED
    BY <1>1, <1>2, <1>3, LifecycleInvariant, PTL DEF LifecycleSpec, FollowsLockProtocol, Lock!Spec

\* What holds of the plans of an authorized case holds over a case's whole life.
THEOREM CasePromises ==
  /\ LifecycleSpec => [](WriteAhead /\ CompletedIsPaid)
  /\ LifecycleSpec => [][Stands]_lvars
  <1>1. LifecycleInv => WriteAhead /\ CompletedIsPaid
    BY CompletedIsPaidFollows DEF LifecycleInv, CaseInv
  <1>2. LifecycleInv /\ [LifecycleNext]_lvars => [Stands]_lvars
    BY LifecycleStep DEF Upheld
  <1>3. QED
    BY <1>1, <1>2, LifecycleInvariant, PTL DEF LifecycleSpec

----------------------------------------------------------------------------
(* What the reservation protocol gives to the calls: the theorems about    *)
(* ExecutionLock hold of it under the mapping Lock.                        *)

Kept == INSTANCE ExecutionLock_proofs WITH
  Cases <- {"case"}, Workers <- Versions \cup Reconcilers,
  row <- [c \in {"case"} |-> row],
  pilot <- IF row = NoRow THEN {} ELSE {<<"case", row.ver>>},
  plan <- [c \in {"case"} |-> [v \in Versions |->
            CASE PhaseOf(v) = "NEW" -> "UNSUBMITTED" [] PhaseOf(v) = "OPEN" -> "EXECUTING"
              [] OTHER -> PhaseOf(v)]],
  executing <- {ExecutorOf(v) : v \in {u \in Versions : exec[u] \in InCall}},
  reconciling <- {ClaimOf(r) : r \in {q \in Reconcilers : Claimed(rc[q])}},
  lastWriter <- [c \in {"case"} |-> lastWriter]

\* It is the same protocol.
LEMMA KeptIsLock == Lock!Spec => Kept!Spec
  <1>1. (Lock!Init => Kept!Init) /\ (Lock!Next => Kept!Next) /\ Lock!vars = Kept!vars
    BY Zenon DEF Lock!vars, Kept!vars, Lock!Init, Kept!Init, Lock!Final, Kept!Final, Lock!Reserved,
       Kept!Reserved, Lock!OwnsActive, Kept!OwnsActive, Lock!OwnsClaim, Kept!OwnsClaim,
       Lock!RowAfterRelease, Kept!RowAfterRelease, Lock!PilotAfterRelease, Kept!PilotAfterRelease,
       Lock!PilotFree, Kept!PilotFree, Lock!Reserve, Kept!Reserve, Lock!HeartbeatExecution,
       Kept!HeartbeatExecution, Lock!SaveByExecutor, Kept!SaveByExecutor, Lock!HandOver,
       Kept!HandOver, Lock!FinishExecution, Kept!FinishExecution, Lock!NextToken, Kept!NextToken,
       Lock!NewClaim, Kept!NewClaim, Lock!Grant, Kept!Grant, Lock!ClaimReady, Kept!ClaimReady,
       Lock!ClaimStale, Kept!ClaimStale, Lock!HeartbeatClaim, Kept!HeartbeatClaim, Lock!SaveOpen,
       Kept!SaveOpen, Lock!Close, Kept!Close, Lock!ReleaseReservation, Kept!ReleaseReservation,
       Lock!ReleaseClaim, Kept!ReleaseClaim, Lock!LeaseExpires, Kept!LeaseExpires, Lock!Recoverable,
       Kept!Recoverable, Lock!Restart, Kept!Restart, Lock!ExecutorStep, Kept!ExecutorStep,
       Lock!ReconcilerStep, Kept!ReconcilerStep, Lock!Next, Kept!Next, Lock!NoRow, Kept!NoRow,
       Lock!NewRow, Kept!NewRow, Lock!ReadyRow, Kept!ReadyRow, Lock!ClaimedRow, Kept!ClaimedRow
  <1>2. UNCHANGED Lock!vars => UNCHANGED Kept!vars
    BY DEF Lock!vars, Kept!vars
  <1>3. [Lock!Next]_(Lock!vars) => [Kept!Next]_(Kept!vars)
    BY <1>1, <1>2
  <1>4. QED
    BY <1>1, <1>3, PTL DEF Lock!Spec, Kept!Spec

\* The calls that a guarded write would be accepted from.
Holds(r) == Claimed(rc[r]) /\ OwnsClaim(rc[r])

\* Two reconcile calls are never both accepted, and a plan that is executing
\* keeps its row, so that no other plan of the case can be submitted.
OneHolder ==
  /\ \A r, s \in Reconcilers : Holds(r) /\ Holds(s) => r = s
  /\ \A v \in Versions : HasPlan(record, v) /\ record.plans[v].status = "EXECUTING" =>
       row.state # "NONE" /\ row.ver = v

\* One holder, in the terms of this module.
LEMMA OneHolderFollows ==
  ASSUME Kept!SingleWriter, Kept!ExecutingIsReserved
  PROVE  OneHolder
  <1>1. ASSUME NEW r \in Reconcilers, NEW s \in Reconcilers, Holds(r), Holds(s) PROVE r = s
    <2>1. ClaimOf(r) \in ClaimingCalls /\ ClaimOf(s) \in ClaimingCalls
      BY <1>1 DEF Holds, ClaimingCalls
    <2>2. \A x, y \in ClaimingCalls :
            x.c = y.c /\ Kept!OwnsClaim(x) /\ Kept!OwnsClaim(y) => x = y
      BY DEF Kept!SingleWriter, ClaimingCalls
    <2>3. Kept!OwnsClaim(ClaimOf(r)) /\ Kept!OwnsClaim(ClaimOf(s)) /\ ClaimOf(r).c = ClaimOf(s).c
      BY <1>1 DEF Holds, OwnsClaim, Kept!OwnsClaim, ClaimOf
    <2>4. ClaimOf(r) = ClaimOf(s)
      BY <2>1, <2>2, <2>3
    <2>5. QED
      BY <2>4 DEF ClaimOf
  <1>2. ASSUME NEW v \in Versions, HasPlan(record, v), record.plans[v].status = "EXECUTING"
        PROVE  row.state # "NONE" /\ row.ver = v
    <2>1. PlanOf["case"][v] = "EXECUTING"
      BY <1>2, PlansMap DEF Submitted
    <2>2. \A c \in {"case"}, u \in Versions :
            PlanOf[c][u] = "EXECUTING" => RowOf[c].state # "NONE" /\ RowOf[c].ver = u
      BY DEF Kept!ExecutingIsReserved, Kept!Reserved, PlanOf, RowOf
    <2>3. QED
      BY <2>1, <2>2 DEF RowOf
  <1>3. QED
    BY <1>1, <1>2 DEF OneHolder

\* With claim tokens that are never handed out twice: over the whole life of a
\* case at most one reconcile call is accepted as its writer, whatever was cut
\* off, lapsed or taken over, and a plan that is executing keeps the row that
\* keeps the others out.  Once a call that claimed has written the record, no
\* submission and no earlier claim writes it again under that reservation.
THEOREM CallsAreFenced ==
  ASSUME Recycle = FALSE, Versions \cap Reconcilers = {}
  PROVE  /\ LifecycleSpec => []OneHolder
         /\ LifecycleSpec => [][lastWriter' < lastWriter => row.state = "NONE"]_lvars
  <1> DEFINE Fenced == lastWriter' < lastWriter => row.state = "NONE"
  <1>1. Kept!LockAssumption
    BY RecordAssumption, ExecutionAssumption DEF RecordAssumption, ExecutionAssumption, Kept!LockAssumption
  <1>2. LifecycleSpec => Kept!Spec
    BY KeptIsLock, LifecycleFollowsProtocol DEF FollowsLockProtocol
  <1>3. Kept!Spec => []Kept!SingleWriter
    BY <1>1, Kept!WriterIsUnique
  <1>4. Kept!Spec => []Kept!ExecutingIsReserved
    BY <1>1, Kept!ExecutingStaysReserved
  <1>5. Kept!Spec => []Kept!TypeOK
    BY <1>1, Kept!TypeCorrect
  <1>6. Kept!Spec => Kept!FencedWrites
    BY <1>1, Kept!WritesAreFenced
  <1>7. Kept!SingleWriter /\ Kept!ExecutingIsReserved => OneHolder
    BY OneHolderFollows
  <1> DEFINE Writes == \A c \in {"case"} : WriterOf'[c] < WriterOf[c] => ~(RowOf[c].state # "NONE")
  <1>8. Kept!FencedWrites => [][Writes]_(Kept!vars)
    BY DEF Kept!FencedWrites, Kept!Reserved, WriterOf, RowOf
  <1>9. Kept!TypeOK /\ [Writes]_(Kept!vars) => [Fenced]_lvars
    <2>1. SUFFICES ASSUME Kept!TypeOK, [Writes]_(Kept!vars) PROVE Fenced
      OBVIOUS
    <2>2. WriterOf \in [{"case"} -> Nat]
      BY <2>1 DEF Kept!TypeOK, WriterOf
    <2>3. WriterOf["case"] = lastWriter /\ WriterOf'["case"] = lastWriter' /\ RowOf["case"] = row
      BY DEF WriterOf, RowOf
    <2>4. CASE Writes
      BY <2>3, <2>4
    <2>5. CASE UNCHANGED Kept!vars
      <3>1. WriterOf' = WriterOf
        BY <2>5 DEF Kept!vars, WriterOf
      <3>2. QED
        BY <2>2, <2>3, <3>1
    <2>6. QED
      BY <2>1, <2>4, <2>5
  <1> HIDE DEF Fenced, Writes
  <1>10. LifecycleSpec => []OneHolder
    BY <1>2, <1>3, <1>4, <1>7, PTL
  <1>11. LifecycleSpec => [][Fenced]_lvars
    BY <1>2, <1>5, <1>6, <1>8, <1>9, PTL
  <1>12. QED
    BY <1>10, <1>11 DEF Fenced

----------------------------------------------------------------------------
(* Attempts that the provider never got.                                   *)

\* The submission of v is on the way to its request, or waiting for the answer.
Sending(v) == OwnsActive(v) /\ exec[v] \in {"BEAT", "PREFLIGHT", "WAIT"}

\* Attempt a is recorded as open, and the request it stands for was neither
\* accepted nor is it on its way or about to be.
Unreached(a) ==
  /\ a \in OpenAttempts(record) /\ record.attempts[a].tx = 0
  /\ ~AskedFor(<<record.attempts[a].v, record.attempts[a].i>>)
  /\ ~Sending(record.attempts[a].v)

\* An unreached attempt keeps its plan executing and its row reserved.
LEMMA UnreachedIsExecuting ==
  ASSUME CaseInv, NEW a, Unreached(a)
  PROVE  LET v == record.attempts[a].v IN
         /\ a \in DOMAIN record.attempts /\ record.attempts[a] \in Attempt
         /\ v \in Versions /\ v \in DOMAIN record.plans /\ record.plans[v].status = "EXECUTING"
         /\ row # NoRow /\ row.ver = v
         /\ a \in AttemptsOf(record, v) \ CompletedOf(record, v)
  <1> DEFINE v == record.attempts[a].v
  <1>1. RecordInv(record) /\ record \in Record /\ RowInv
    BY DEF CaseInv, RecordInv
  <1>2. a \in DOMAIN record.attempts /\ record.attempts[a].state \in OpenStates
    BY DEF Unreached, OpenAttempts
  <1>3. record.attempts[a] \in Attempt /\ v \in Versions
    BY <1>1, <1>2, AttemptTypes DEF Attempt
  <1>4. v \in DOMAIN record.plans /\ record.plans[v].status \in Submitted
    BY <1>1, <1>2 DEF RecordInv, HasPlan
  <1>5. a \in AttemptsOf(record, v) /\ a \in OpenAttempts(record)
    BY <1>2 DEF AttemptsOf, OpenAttempts
  <1>6. record.plans[v].status \notin Final
    BY <1>1, <1>4, <1>5 DEF RecordInv, SettledAs
  <1>7. record.plans[v].status = "EXECUTING"
    BY <1>4, <1>6 DEF Submitted
  <1>8. row # NoRow /\ row.ver = v
    BY <1>1, <1>4, <1>7 DEF RowInv
  <1>9. a \notin CompletedOf(record, v)
    BY <1>2 DEF CompletedOf, OpenStates
  <1>10. QED
    BY <1>2, <1>3, <1>4, <1>5, <1>7, <1>8, <1>9

\* What keeps the attempts, asks for nothing more and sends nothing leaves an
\* attempt unreached.
LEMMA UnreachedStays ==
  ASSUME CaseInv, NEW a, Unreached(a), record'.attempts = record.attempts,
         NEW v, NEW i, v = record.attempts[a].v, i = record.attempts[a].i,
         AskedFor(<<v, i>>)' => AskedFor(<<v, i>>), Sending(v)' => Sending(v)
  PROVE  Unreached(a)'
  BY DEF Unreached, OpenAttempts

\* No submission of any plan reaches the provider with it any more: its own is
\* past the request, and another does not get the row.
LEMMA SubmissionLeavesUnreached ==
  ASSUME CaseInv, NEW a, Unreached(a), NEW w \in Versions, ExecutePlan(w) \/ ExecutorStep(w)
  PROVE  Unreached(a)'
  <1>0. PICK v, i : v = record.attempts[a].v /\ i = record.attempts[a].i
    OBVIOUS
  <1>1. /\ v \in Versions /\ record.plans[v].status = "EXECUTING" /\ row # NoRow /\ row.ver = v
        /\ a \in AttemptsOf(record, v) \ CompletedOf(record, v)
    BY <1>0, UnreachedIsExecuting
  <1>2. exec \in [Versions -> {"NONE", "DONE"} \cup InCall] /\ row \in Row
    BY DEF CaseInv, RowInv
  <1>3. OwnsActive(w) => w = v /\ exec[w] \notin {"LOOP", "BEAT", "PREFLIGHT", "WAIT"}
    <2>1. SUFFICES ASSUME OwnsActive(w) PROVE w = v /\ exec[w] \notin {"LOOP", "BEAT", "PREFLIGHT", "WAIT"}
      OBVIOUS
    <2>2. w = v
      BY <1>1, <2>1 DEF OwnsActive
    <2>3. exec[w] # "LOOP"
      BY <1>1, <2>1, <2>2 DEF CaseInv, ExecInv
    <2>4. QED
      BY <1>0, <2>1, <2>2, <2>3 DEF Unreached, Sending
  <1>4. ~ExecutePlan(w) /\ ~StartAttempt(w) /\ ~Beat(w) /\ ~Post(w) /\ ~Answer(w)
    BY <1>1, <1>3 DEF ExecutePlan, StartAttempt, Beat, Post, MayPost, Answer
  <1>5. ~PreflightFails(w) /\ ~Rejected(w) /\ ~NoAnswer(w)
    BY <1>3 DEF PreflightFails, Rejected, NoAnswer, Caught
  <1>6. Pause(w) \/ ReservationLost(w) \/ HandOver(w)
    BY <1>4, <1>5 DEF ExecutorStep
  <1>7. record'.attempts = record.attempts
    <2>1. CASE Pause(w)
      <3>1. record \in Record
        BY DEF CaseInv, RecordInv
      <3>2. QED
        BY <2>1, <3>1 DEF Pause, ExecutorSave, Bump, Paused, Record
    <2>2. QED
      BY <1>6, <2>1 DEF ReservationLost, HandOver, rvars
  <1>8. sent' = sent /\ ledger' = ledger
    BY <1>6 DEF Pause, ReservationLost, HandOver, pvars
  <1>9. Sending(v)' => Sending(v)
    <2>1. \E pc \in {"FINALLY", "DONE"} : At(w, pc)
      BY <1>6 DEF Pause, ReservationLost, HandOver
    <2>2. exec'[v] \in {"BEAT", "PREFLIGHT", "WAIT"} => exec'[v] = exec[v] /\ w # v
      BY <1>1, <1>2, <2>1 DEF At
    <2>3. OwnsActive(v)' => OwnsActive(v) \/ w = v
      BY <1>1, <1>6 DEF Pause, ReservationLost, HandOver, RowAfterRelease, OwnsActive
    <2>4. QED
      BY <2>2, <2>3 DEF Sending
  <1>10. QED
    BY <1>0, <1>7, <1>8, <1>9, UnreachedStays DEF AskedFor, IsOf

\* A call of reconcile finds no transaction of it, and records none.
LEMMA CallLeavesUnreached ==
  ASSUME CaseInv, NEW a, Unreached(a), NEW r \in Reconcilers, ReadCase(r) \/ ReconcilerStep(r)
  PROVE  Unreached(a)'
  <1>0. PICK v, i : v = record.attempts[a].v /\ i = record.attempts[a].i
    OBVIOUS
  <1> DEFINE q == <<v, i>>
  <1>1. /\ a \in DOMAIN record.attempts /\ record.attempts[a] \in Attempt
        /\ row \in Row /\ exec' = exec /\ UNCHANGED <<sent, ledger>>
    BY UnreachedIsExecuting DEF CaseInv, RowInv, ReadCase, ReconcilerStep, Claim, GoOnUnclaimed, ClaimRefused,
       AskProvider, Observe, Lookup, AskFails, Save, Release, pvars
  <1>2. Sending(v)' => Sending(v)
    BY <1>1, CallTakesNoRow DEF Sending
  <1>3. AskedFor(q)' => AskedFor(q)
    BY <1>1 DEF AskedFor, IsOf
  <1>4. CASE record' = record
    BY <1>0, <1>2, <1>3, <1>4, UnreachedStays
  <1>5. CASE Save(r) /\ MaySave(rc[r])
    <2>1. PICK rec : rec = rc[r].rec
      OBVIOUS
    <2>2. /\ record'.attempts = rec.attempts /\ Observes(rec, rc[r].todo) /\ Traced(rec)
      BY <1>5, <2>1, SavedIs
    <2>3. /\ a \in DOMAIN rec.attempts
          /\ rec.attempts[a].v = v /\ rec.attempts[a].i = i
      BY <1>0, <1>1, <2>2 DEF Observes
    <2>4. rec.attempts[a].tx = 0
      <3>1. ASSUME rec.attempts[a].tx # 0 PROVE FALSE
        <4>1. PICK k : k = rec.attempts[a].tx
          OBVIOUS
        <4>2. k \in DOMAIN ledger /\ IsOf(k, q)
          BY <2>2, <2>3, <3>1, <4>1 DEF Traced, IsOf
        <4>3. QED
          BY <1>0, <4>2 DEF Unreached, AskedFor
      <3>2. QED
        BY <3>1
    <2>5. rec.attempts[a].state # "COMPLETED"
      BY <2>2, <2>3, <2>4 DEF Traced
    <2>6. rec.attempts[a].state # "FAILED"
      BY <1>1, <2>2, <2>4 DEF Observes, Unreached
    <2>7. rec.attempts[a].state \in OpenStates
      <3>1. rec \in Record
        BY <1>5, <2>1, CallsAreTyped DEF CallRecord, Save
      <3>2. rec.attempts[a] \in Attempt
        BY <2>3, <3>1, AttemptTypes
      <3>3. QED
        BY <2>5, <2>6, <3>2 DEF Attempt
    <2>8. QED
      BY <1>0, <1>2, <1>3, <2>2, <2>3, <2>4, <2>7 DEF Unreached, OpenAttempts
  <1>6. record' = record \/ (Save(r) /\ MaySave(rc[r]))
    BY DEF ReadCase, ReconcilerStep, Claim, GoOnUnclaimed, ClaimRefused, AskProvider, Observe, Lookup, AskFails,
       Save, Release, rvars
  <1>7. QED
    BY <1>4, <1>5, <1>6

\* The provider accepts and loses what was sent; a restart sends nothing.
LEMMA RestLeavesUnreached ==
  ASSUME CaseInv, NEW a, Unreached(a), ProviderStep \/ Disruption
  PROVE  Unreached(a)'
  <1>0. PICK v, i : v = record.attempts[a].v /\ i = record.attempts[a].i
    OBVIOUS
  <1> DEFINE q == <<v, i>>
  <1>1. v \in Versions /\ row \in Row /\ exec \in [Versions -> {"NONE", "DONE"} \cup InCall]
    BY <1>0, UnreachedIsExecuting DEF CaseInv, RowInv
  <1>2. record' = record
    BY DEF ProviderStep, Accept, Lose, Decide, Disruption, LeaseExpires, CrashExecutor, CrashReconciler, rvars
  <1>3. AskedFor(q)' => AskedFor(q)
    <2>1. ledger \in Seq(Payout)
      BY DEF CaseInv, ProviderInv
    <2>2. ASSUME NEW p \in sent, Accept(p) PROVE AskedFor(q)' => AskedFor(q)
      <3>1. p = <<p[1], p[2]>> /\ p[1] \in Versions /\ p[2] \in 1..Payouts
        BY DEF CaseInv, ProviderInv, Request
      <3>2. PICK s \in ProviderStates : ledger' = Append(ledger, [v |-> p[1], i |-> p[2], state |-> s])
        BY <2>2 DEF Accept
      <3>3. ASSUME NEW k \in DOMAIN ledger', IsOf(k, q)' PROVE AskedFor(q)
        <4>1. CASE k \in DOMAIN ledger
          BY <1>2, <2>1, <3>2, <3>3, <4>1 DEF IsOf, AskedFor
        <4>2. CASE k \notin DOMAIN ledger
          <5>1. k = Len(ledger) + 1
            BY <2>1, <3>2, <4>2
          <5>2. ledger'[k].v = p[1] /\ ledger'[k].i = p[2]
            BY <2>1, <3>2, <5>1
          <5>3. q = p
            BY <1>2, <3>1, <3>3, <5>2 DEF IsOf
          <5>4. QED
            BY <5>3 DEF AskedFor
        <4>3. QED
          BY <4>1, <4>2
      <3>4. sent' \subseteq sent
        BY <2>2 DEF Accept
      <3>5. QED
        BY <1>2, <3>3, <3>4 DEF AskedFor
    <2>3. ASSUME NEW p \in sent, Lose(p) PROVE AskedFor(q)' => AskedFor(q)
      BY <1>2, <2>3 DEF Lose, AskedFor, IsOf
    <2>4. ASSUME NEW k \in DOMAIN ledger, Decide(k) PROVE AskedFor(q)' => AskedFor(q)
      <3>1. PICK s \in ProviderStates : ledger' = [ledger EXCEPT ![k].state = s]
        BY <2>4 DEF Decide, ProviderStates
      <3>2. DOMAIN ledger' = DOMAIN ledger
            /\ \A l \in DOMAIN ledger : ledger'[l].v = ledger[l].v /\ ledger'[l].i = ledger[l].i
        BY <2>1, <3>1 DEF Payout
      <3>3. sent' = sent
        BY <2>4 DEF Decide
      <3>4. QED
        BY <1>2, <3>2, <3>3 DEF AskedFor, IsOf
    <2>5. CASE Disruption
      BY <1>2, <2>5 DEF Disruption, LeaseExpires, CrashExecutor, CrashReconciler, pvars, AskedFor, IsOf
    <2>6. QED
      BY <2>2, <2>3, <2>4, <2>5 DEF ProviderStep
  <1>4. Sending(v)' => Sending(v)
    <2>1. exec'[v] \in {"BEAT", "PREFLIGHT", "WAIT"} => exec'[v] = exec[v]
      BY <1>1 DEF ProviderStep, Accept, Lose, Decide, Disruption, LeaseExpires, CrashExecutor, CrashReconciler, At
    <2>2. row' \in {row, NoRow} \/ row' = [row EXCEPT !.fresh = FALSE]
      BY DEF ProviderStep, Accept, Lose, Decide, Disruption, LeaseExpires, CrashExecutor, CrashReconciler,
         RecoveredRow
    <2>3. OwnsActive(v)' => OwnsActive(v)
      BY <1>1, <1>2, <2>2 DEF OwnsActive, NoRow, Row
    <2>4. QED
      BY <2>1, <2>3 DEF Sending
  <1>5. QED
    BY <1>0, <1>2, <1>3, <1>4, UnreachedStays

\* The broker cannot go on with the case either: the plan of such an attempt is
\* executing, so no amendment, review, decision or plan is taken.
HeldOpen(a) ==
  Unreached(a) /\ record.plans[record.attempts[a].v].status = "EXECUTING" /\ ~NoActiveExecution

\* An attempt whose request never reached the provider (its preflight failed,
\* its process died first, or the request was lost) stays open, its plan
\* EXECUTING and its case closed to the broker, for ever: neither reconcile,
\* nor a restart, nor any operation of the broker ends it.
THEOREM UnreachedStaysOpen ==
  ASSUME NEW a \in Nat
  PROVE  LifecycleSpec => [](Unreached(a) => []HeldOpen(a))
  <1>1. LifecycleInv /\ [LifecycleNext]_lvars /\ Unreached(a) => Unreached(a)'
    <2>1. SUFFICES ASSUME LifecycleInv, [LifecycleNext]_lvars, Unreached(a) PROVE Unreached(a)'
      OBVIOUS
    <2>2. CaseInv
      BY <2>1 DEF LifecycleInv
    <2>3. CASE Aside
      BY <2>1, <2>2, <2>3, UnreachedStays DEF Aside, Sending, OwnsActive, AskedFor, IsOf, pvars
    <2>4. CASE ExecutionNext
      BY <2>1, <2>2, <2>4, SubmissionLeavesUnreached, CallLeavesUnreached, RestLeavesUnreached DEF ExecutionNext
    <2>5. QED
      BY <2>1, <2>3, <2>4, OthersAreAside
  <1>2. LifecycleInv /\ Unreached(a) => HeldOpen(a)
    BY UnreachedIsExecuting DEF LifecycleInv, HeldOpen, NoActiveExecution
  <1>3. QED
    BY <1>1, <1>2, LifecycleInvariant, PTL DEF LifecycleSpec
=============================================================================
