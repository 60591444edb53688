------------------------ MODULE FundingAttempts_proofs ------------------------
(***************************************************************************)
(* Proofs about FundingAttempts for any expectations, overlapping calls    *)
(* and restarts.                                                           *)
(*                                                                         *)
(* TopUpOnce rests on SendsInv: the text of the request is durable before  *)
(* the request can be sent, is never removed, and bars a second            *)
(* reservation.  OnlyExecutionOutdates is inductive together with FreshInv *)
(* (a current copy is of the current expectation) and LockInv (the active  *)
(* reservation is that of the current expectation): from the two follows   *)
(* that whatever saves the case ends the reservation, or is refused by it, *)
(* the reservation of an execution excepted.                               *)
(***************************************************************************)
EXTENDS FundingAttempts, TLAPS

Worker == [pc: {"IDLE", "SEND", "SENT", "LIST"}, simulate: BOOLEAN,
           exp: Expectations, attempt: States, fresh: BOOLEAN]
Locks == [Expectations -> {None, "ACTIVE", "RECORDED"}]
Request(e) == Text("request", e, None)
Sending(w) == worker[w].pc \in {"SEND", "SENT"}

SendsInv ==
  /\ sends \in [Expectations -> {0, 1}]
  /\ \A e \in Expectations : sends[e] = 1 => Request(e) \in evidence
  /\ \A w \in Workers : Sending(w) => Request(worker[w].exp) \in evidence
  /\ \A w \in Workers : worker[w].pc = "SEND" => sends[worker[w].exp] = 0
  /\ \A v, w \in Workers : Sending(v) /\ Sending(w) /\ worker[v].exp = worker[w].exp => v = w

FreshInv == \A w \in Workers : worker[w].fresh => worker[w].exp = record.exp

LockInv == \A e \in Expectations : lock[e] = "ACTIVE" => record.exp = e

FundingInv == TypeOK /\ SendsInv /\ FreshInv /\ LockInv /\ OnlyExecutionOutdates

----------------------------------------------------------------------------
(* What the steps share.                                                   *)

\* TypeOK with its sets named, for the leaves that follow.
LEMMA TypesNamed ==
  TypeOK <=> /\ record \in Record /\ lock \in Locks /\ worker \in [Workers -> Worker]
             /\ exec \in {None, "ACTIVE", "READY", "RECONCILING"}
             /\ topup \in [Credits -> {None, "SENT", "REFUSED"} \cup Listed]
  BY DEF TypeOK, Worker, Locks

\* A new case and a worker that has not begun are typed.
LEMMA IdleIsTyped == NewCase \in Record /\ Idle \in Worker
  <1>1. NewCase \in Record
    BY FundingAssumption DEF FundingAssumption, NewCase, Record, Fundings, States
  <1>2. QED
    BY <1>1 DEF Idle, Call, Worker, Record

\* A call that has read a case is typed, has read its expectation, and is current.
LEMMA CallIsTyped ==
  ASSUME NEW rec \in Record, NEW at \in {"SEND", "LIST"}, NEW simulate \in BOOLEAN
  PROVE  /\ Call(at, simulate, rec) \in Worker
         /\ Call(at, simulate, rec).exp = rec.exp /\ Call(at, simulate, rec).pc = at
         /\ Call(at, simulate, rec).fresh
  BY DEF Call, Worker, Record

\* Every save makes the other copies stale and changes nothing else of them.
LEMMA OutdatedCalls ==
  ASSUME NEW calls \in [Workers -> Worker]
  PROVE  /\ Outdated(calls) \in [Workers -> Worker]
         /\ \A w \in Workers : /\ Outdated(calls)[w].pc = calls[w].pc
                               /\ Outdated(calls)[w].exp = calls[w].exp
                               /\ Outdated(calls)[w].fresh = FALSE
  BY DEF Outdated, Worker

\* Nothing is sent while the calls that send stay and evidence only grows.
LEMMA SendsKept ==
  ASSUME SendsInv, sends' = sends, evidence \subseteq evidence',
         \A w \in Workers : worker'[w].pc \in {"SEND", "SENT"} =>
           worker'[w].pc = worker[w].pc /\ worker'[w].exp = worker[w].exp
  PROVE  SendsInv'
  BY DEF SendsInv, Sending

\* A reservation that is active after a restart was active before.
LEMMA DiesStep ==
  ASSUME FundingInv, NEW texts, NEW rec \in Record, rec.exp = record.exp,
         Dies(texts, rec, lock), UNCHANGED <<topup, sends>>
  PROVE  FundingInv'
  <1>1. /\ evidence \subseteq evidence' /\ record' = rec
        /\ lock' = Recovered(rec, lock) /\ worker' = [w \in Workers |-> Idle]
    BY DEF Dies
  <1>2. lock' \in Locks /\ \A e \in Expectations : lock'[e] = "ACTIVE" => lock[e] = "ACTIVE"
    BY <1>1 DEF Recovered, FundingInv, TypeOK, Locks
  <1>3. \A w \in Workers : worker'[w] = Idle
    BY <1>1
  <1>4. TypeOK'
    <2>1. exec' \in {None, "ACTIVE", "READY", "RECONCILING"}
      BY DEF Dies, FundingInv, TypeOK
    <2>2. QED
      BY <1>1, <1>2, <2>1, IdleIsTyped, TypesNamed DEF FundingInv, TypeOK, Worker, Locks
  <1>5. SendsInv'
    BY <1>1, <1>3, SendsKept DEF FundingInv, Idle, Call
  <1>6. FreshInv' /\ OnlyExecutionOutdates'
    BY <1>3 DEF FreshInv, OnlyExecutionOutdates, Idle, Call
  <1>7. LockInv'
    BY <1>1, <1>2 DEF FundingInv, LockInv
  <1>8. QED
    BY <1>4, <1>5, <1>6, <1>7 DEF FundingInv

\* A call ends without saving anything.
LEMMA EndsStep ==
  ASSUME FundingInv, NEW w \in Workers, Ends(w), evidence \subseteq evidence',
         UNCHANGED <<record, lock, exec, topup, sends>>
  PROVE  FundingInv'
  <1>1. worker' \in [Workers -> Worker] /\ worker'[w] = Idle /\ \A v \in Workers : v # w => worker'[v] = worker[v]
    BY IdleIsTyped, TypesNamed DEF Ends, FundingInv
  <1>2. TypeOK'
    BY <1>1, TypesNamed DEF FundingInv, TypeOK, Worker, Locks
  <1>3. SendsInv'
    BY <1>1, SendsKept DEF FundingInv, Idle, Call
  <1>4. FreshInv' /\ LockInv' /\ OnlyExecutionOutdates'
    BY <1>1 DEF FundingInv, FreshInv, LockInv, OnlyExecutionOutdates, Idle, Call
  <1>5. QED
    BY <1>2, <1>3, <1>4 DEF FundingInv

\* A save of a current copy: only the saving call goes on, and the
\* reservation of the expectation it saved is no longer active.
LEMMA SaveStep ==
  ASSUME FundingInv, NEW w \in Workers, NEW rec \in Record, NEW next \in Worker,
         worker[w].fresh, rec.exp = worker[w].exp,
         next.pc \notin {"SEND", "SENT"}, next.fresh => next.exp = rec.exp,
         record' = rec, evidence \subseteq evidence', UNCHANGED <<exec, topup, sends>>,
         lock' = [lock EXCEPT ![rec.exp] = IF @ = "ACTIVE" THEN "RECORDED" ELSE @],
         worker' = [Outdated(worker) EXCEPT ![w] = next]
  PROVE  FundingInv'
  <1>1. rec.exp = record.exp /\ rec.exp \in Expectations
    BY DEF FundingInv, FreshInv, Record
  <1>2. worker' \in [Workers -> Worker] /\ worker'[w] = next
    BY OutdatedCalls, TypesNamed DEF FundingInv
  <1>3. \A v \in Workers : v # w => /\ worker'[v].pc = worker[v].pc /\ worker'[v].exp = worker[v].exp
                                    /\ worker'[v].fresh = FALSE
    BY OutdatedCalls, TypesNamed DEF FundingInv
  <1>4. lock' \in Locks /\ \A e \in Expectations : lock'[e] # "ACTIVE"
    BY <1>1, TypesNamed DEF FundingInv, LockInv, Locks
  <1>5. TypeOK'
    BY <1>2, <1>4 DEF FundingInv, TypeOK, Worker, Locks
  <1>6. SendsInv'
    BY <1>2, <1>3, SendsKept DEF FundingInv
  <1>7. FreshInv'
    BY <1>2, <1>3 DEF FreshInv
  <1>8. LockInv' /\ OnlyExecutionOutdates'
    BY <1>2, <1>4 DEF LockInv, OnlyExecutionOutdates, Worker, Record
  <1>9. QED
    BY <1>5, <1>6, <1>7, <1>8 DEF FundingInv

----------------------------------------------------------------------------
(* Reserving and sending.                                                  *)

\* fund saves its attempt and reserves the row in one transaction, or neither.
LEMMA ReserveStep ==
  ASSUME FundingInv, NEW w \in Workers, Reserve(w)
  PROVE  FundingInv'
  <1> DEFINE e == record.exp
             rec == [record EXCEPT !.attempts[e] = "SUBMITTING"]
             next == Call("SEND", TRUE, rec)
  <1>1. CASE DiesTorn({Request(e)})
    BY <1>1, DiesStep DEF DiesTorn, Reserve, FundingInv, TypeOK
  <1>2. CASE /\ record' = rec /\ lock' = [lock EXCEPT ![e] = "ACTIVE"]
             /\ evidence' = evidence \cup {Request(e)} /\ UNCHANGED exec
             /\ worker' = [Outdated(worker) EXCEPT ![w] = next]
    <2>1. e \in Expectations /\ lock[e] = None /\ Request(e) \notin evidence
      BY DEF Reserve, MayTopUp, Request, FundingInv, TypeOK, Record
    <2>2. /\ rec \in Record /\ rec.exp = e /\ next \in Worker
          /\ next.exp = e /\ next.pc = "SEND" /\ next.fresh
      <3>1. record \in Record
        BY DEF FundingInv, TypeOK
      <3>2. [record.attempts EXCEPT ![e] = "SUBMITTING"] \in [Expectations -> States]
        BY <2>1, <3>1 DEF Record, States
      <3>3. rec \in Record /\ rec.exp = e
        BY <3>1, <3>2 DEF Record
      <3>4. QED
        BY <3>3, CallIsTyped
    <2> HIDE DEF rec, next
    <2>3. worker' \in [Workers -> Worker] /\ worker'[w] = next
      BY <1>2, <2>2, OutdatedCalls, TypesNamed DEF FundingInv
    <2>4. \A v \in Workers : v # w => /\ worker'[v].pc = worker[v].pc /\ worker'[v].exp = worker[v].exp
                                      /\ worker'[v].fresh = FALSE
      BY <1>2, OutdatedCalls, TypesNamed DEF FundingInv
    <2>5. lock' \in Locks /\ \A f \in Expectations : lock'[f] = "ACTIVE" => f = e
      BY <1>2, <2>1, TypesNamed DEF FundingInv, LockInv, Locks
    <2>6. \A v \in Workers : v # w /\ worker[v].pc \in {"SEND", "SENT"} => worker[v].exp # e
      BY <2>1 DEF FundingInv, SendsInv, Sending
    <2>7. UNCHANGED <<topup, sends>>
      BY DEF Reserve
    <2>8. TypeOK'
      BY <1>2, <2>2, <2>3, <2>5, <2>7 DEF FundingInv, TypeOK, Worker, Locks
    <2>9. SendsInv'
      <3>1. sends[e] = 0
        BY <2>1 DEF FundingInv, SendsInv
      <3>2. \A v \in Workers : v # w /\ Sending(v)' =>
              /\ Sending(v) /\ worker'[v].exp = worker[v].exp /\ worker'[v].pc = worker[v].pc
              /\ worker'[v].exp # e
        BY <2>4, <2>6 DEF Sending
      <3>3. worker'[w].exp = e /\ worker'[w].pc = "SEND"
        BY <2>2, <2>3
      <3>4. QED
        BY <1>2, <2>7, <3>1, <3>2, <3>3 DEF FundingInv, SendsInv, Sending
    <2>10. FreshInv'
      BY <1>2, <2>2, <2>3, <2>4 DEF FreshInv
    <2>11. LockInv'
      BY <1>2, <2>2, <2>5 DEF LockInv
    <2>12. OnlyExecutionOutdates'
      <3>1. ASSUME NEW v \in Workers, worker'[v].pc \in {"SEND", "SENT"},
                   lock'[worker'[v].exp] = "ACTIVE", v # w
            PROVE  FALSE
        <4>1. worker'[v].exp \in Expectations
          BY <2>3 DEF Worker, Record
        <4>2. QED
          BY <3>1, <4>1, <2>4, <2>5, <2>6
      <3>2. QED
        BY <2>2, <2>3, <3>1 DEF OnlyExecutionOutdates
    <2>13. QED
      BY <2>8, <2>9, <2>10, <2>11, <2>12 DEF FundingInv
  <1>3. QED
    BY <1>1, <1>2 DEF Reserve, Request

\* The top-up that is sent is the one whose row its worker holds.
LEMMA SendStep ==
  ASSUME FundingInv, NEW w \in Workers, Send(w)
  PROVE  FundingInv'
  <1> DEFINE e == worker[w].exp
  <1>1. e \in Expectations /\ worker[w].pc = "SEND" /\ sends[e] = 0 /\ Request(e) \in evidence
    BY DEF Send, FundingInv, TypeOK, SendsInv, Sending, Record
  <1>2. /\ worker' = [worker EXCEPT ![w].pc = "SENT"] /\ topup' = [topup EXCEPT ![e] = "SENT"]
        /\ sends' = [sends EXCEPT ![e] = sends[e] + 1] /\ UNCHANGED <<record, lock, exec, evidence>>
    BY DEF Send
  <1> HIDE DEF e
  <1>3. /\ worker' \in [Workers -> Worker]
        /\ \A v \in Workers : /\ worker'[v].exp = worker[v].exp /\ worker'[v].fresh = worker[v].fresh
                              /\ worker'[v].pc = IF v = w THEN "SENT" ELSE worker[v].pc
    BY <1>2, TypesNamed DEF FundingInv, Worker
  <1>4. TypeOK'
    BY <1>1, <1>2, <1>3 DEF FundingInv, TypeOK, Worker
  <1>5. SendsInv'
    <2>1. sends' = [sends EXCEPT ![e] = 1] /\ sends' \in [Expectations -> {0, 1}]
      BY <1>1, <1>2 DEF FundingInv, SendsInv
    <2>2. \A v \in Workers : Sending(v)' <=> Sending(v)
      BY <1>1, <1>3 DEF Sending
    <2>3. \A v \in Workers : worker'[v].pc = "SEND" => worker[v].exp # e
      BY <1>1, <1>3 DEF e, FundingInv, SendsInv, Sending
    <2>4. \A v \in Workers : worker'[v].pc = "SEND" => sends'[worker'[v].exp] = 0
      BY <1>3, <2>1, <2>3 DEF FundingInv, SendsInv, TypeOK, Record
    <2>5. \A f \in Expectations : sends'[f] = 1 => Request(f) \in evidence'
      BY <1>1, <1>2, <2>1 DEF FundingInv, SendsInv
    <2>6. QED
      BY <1>2, <1>3, <2>1, <2>2, <2>4, <2>5 DEF FundingInv, SendsInv
  <1>6. FreshInv' /\ LockInv' /\ OnlyExecutionOutdates'
    BY <1>1, <1>2, <1>3 DEF FundingInv, FreshInv, LockInv, OnlyExecutionOutdates
  <1>7. QED
    BY <1>4, <1>5, <1>6 DEF FundingInv

\* To save an answer, on a copy that is not outdated, keeps the invariant.
LEMMA SaveAnswerStep ==
  ASSUME FundingInv, NEW w \in Workers, NEW rec \in Record, rec.exp = record.exp,
         NEW goesOn \in BOOLEAN, SaveAnswer(w, rec, goesOn), UNCHANGED <<topup, sends>>
  PROVE  FundingInv'
  <1> DEFINE next == IF goesOn THEN Call("LIST", TRUE, rec) ELSE Idle
  <1>1. CASE Dies({}, rec, lock)
    BY <1>1, DiesStep
  <1>2. CASE /\ worker[w].fresh /\ record' = rec /\ UNCHANGED <<exec, evidence>>
             /\ lock' = [lock EXCEPT ![rec.exp] = IF @ = "ACTIVE" THEN "RECORDED" ELSE @]
             /\ worker' = [Outdated(worker) EXCEPT ![w] = next]
    <2>1. next \in Worker /\ next.pc \notin {"SEND", "SENT"} /\ (next.fresh => next.exp = rec.exp)
      BY IdleIsTyped, CallIsTyped DEF Idle, Call
    <2>2. rec.exp = worker[w].exp
      BY <1>2 DEF FundingInv, FreshInv
    <2> HIDE DEF next
    <2>3. QED
      BY <1>2, <2>1, <2>2, SaveStep
  <1>3. CASE UNCHANGED <<record, lock, exec, evidence>> /\ Ends(w)
    BY <1>3, EndsStep
  <1>4. QED
    BY <1>1, <1>2, <1>3 DEF SaveAnswer

\* The record with another state of the attempt.
WithAttempt(rec, e, state, funding) == [rec EXCEPT !.attempts[e] = state, !.funding = funding]

\* A record with an attempt stored in it is a record of the same expectation.
LEMMA AttemptTyped ==
  ASSUME NEW rec \in Record, NEW e \in Expectations,
         NEW state \in States, NEW funding \in Fundings
  PROVE  /\ WithAttempt(rec, e, state, funding) \in Record
         /\ WithAttempt(rec, e, state, funding).exp = rec.exp
  <1>1. [rec.attempts EXCEPT ![e] = state] \in [Expectations -> States]
    BY DEF Record
  <1>2. QED
    BY <1>1 DEF Record, WithAttempt

\* The provider's answer is saved with the state that it names.
LEMMA AnsweredStep ==
  ASSUME FundingInv, NEW w \in Workers, Answered(w)
  PROVE  FundingInv'
  <1> DEFINE e == worker[w].exp
             state == topup[e]
             funding == IF state = "COMPLETED" THEN record.funding ELSE "UNMATCHED"
             rec == WithAttempt(record, e, state, funding)
  <1>1. record \in Record /\ e \in Expectations /\ state \in Listed
    BY TypesNamed DEF Answered, FundingInv, Worker
  <1>2. funding \in Fundings /\ state \in States
    BY <1>1 DEF Record, Fundings, States
  <1>3. rec = [record EXCEPT !.attempts[e] = state,
                             !.funding = IF state = "COMPLETED" THEN @ ELSE "UNMATCHED"]
    BY <1>1 DEF Record, WithAttempt
  <1>4. SaveAnswer(w, rec, state = "COMPLETED") /\ UNCHANGED <<topup, sends>>
    BY <1>3 DEF Answered
  <1> HIDE DEF state, funding
  <1>5. rec \in Record /\ rec.exp = record.exp
    BY <1>1, <1>2, AttemptTyped
  <1>6. QED
    BY <1>4, <1>5, SaveAnswerStep

\* A refusal, or a lost answer, is saved as FAILED or AMBIGUOUS.
LEMMA AnswerLostStep ==
  ASSUME FundingInv, NEW w \in Workers, NEW s \in {"FAILED", "AMBIGUOUS"}, AnswerLost(w, s)
  PROVE  FundingInv'
  <1> DEFINE e == worker[w].exp
             rec == WithAttempt(record, e, s, "UNMATCHED")
  <1>1. record \in Record /\ e \in Expectations
    BY TypesNamed DEF FundingInv, Worker
  <1>2. rec \in Record /\ rec.exp = record.exp
    BY <1>1, AttemptTyped DEF Fundings, States
  <1>3. SaveAnswer(w, rec, FALSE) /\ UNCHANGED <<topup, sends>>
    BY DEF AnswerLost, WithAttempt
  <1>4. QED
    BY <1>2, <1>3, SaveAnswerStep

----------------------------------------------------------------------------
(* Observing.                                                              *)

\* A refresh starts from the record as it is.
LEMMA StartRefreshStep ==
  ASSUME FundingInv, NEW w \in Workers, StartRefresh(w)
  PROVE  FundingInv'
  <1> DEFINE next == Call("LIST", FALSE, record)
  <1>1. worker' = [worker EXCEPT ![w] = next] /\ UNCHANGED <<record, lock, exec, evidence, topup, sends>>
    BY DEF StartRefresh
  <1>2. next \in Worker /\ next.pc = "LIST" /\ next.exp = record.exp
    BY CallIsTyped, TypesNamed DEF FundingInv
  <1> HIDE DEF next
  <1>3. worker' \in [Workers -> Worker] /\ worker'[w] = next /\ \A v \in Workers : v # w => worker'[v] = worker[v]
    BY <1>1, <1>2, TypesNamed DEF FundingInv
  <1>4. TypeOK'
    BY <1>1, <1>3, TypesNamed DEF FundingInv, TypeOK, Worker, Locks
  <1>5. SendsInv'
    BY <1>1, <1>2, <1>3, SendsKept DEF FundingInv
  <1>6. FreshInv' /\ LockInv' /\ OnlyExecutionOutdates'
    BY <1>1, <1>2, <1>3 DEF FundingInv, FreshInv, LockInv, OnlyExecutionOutdates
  <1>7. QED
    BY <1>4, <1>5, <1>6 DEF FundingInv

\* An observation is saved over a reservation only when it is the one of the
\* expectation it looked at.
LEMMA SaveObservationStep ==
  ASSUME FundingInv, NEW w \in Workers, NEW rec \in Record, rec.exp = record.exp, NEW texts,
         SaveObservation(w, rec, texts), UNCHANGED <<topup, sends>>
  PROVE  FundingInv'
  <1>1. CASE DiesTorn(texts)
    BY <1>1, DiesStep DEF DiesTorn, FundingInv, TypeOK
  <1>2. CASE /\ worker[w].fresh /\ record' = rec /\ lock' = LockAfter(rec.exp) /\ evidence \subseteq evidence'
             /\ worker' = [Outdated(worker) EXCEPT ![w] = Idle] /\ UNCHANGED exec
    <2>1. Idle \in Worker /\ Idle.pc \notin {"SEND", "SENT"} /\ ~Idle.fresh
      BY IdleIsTyped DEF Idle, Call
    <2>2. rec.exp = worker[w].exp
      BY <1>2 DEF FundingInv, FreshInv
    <2>3. QED
      BY <1>2, <2>1, <2>2, SaveStep DEF LockAfter
  <1>3. CASE UNCHANGED <<record, lock, exec>> /\ Ends(w) /\ evidence \subseteq evidence'
    BY <1>3, EndsStep
  <1>4. QED
    BY <1>1, <1>2, <1>3 DEF SaveObservation

\* What a refresh makes of its copy is a record of the same expectation.
LEMMA ObservedTyped ==
  ASSUME TypeOK, NEW rec \in Record, NEW f, NEW last \in Credits,
         last \in Transactions(f) \/ Transactions(f) = {}
  PROVE  Observed(rec, Transactions(f), last) \in Record /\ Observed(rec, Transactions(f), last).exp = rec.exp
  <1> DEFINE listed == Transactions(f)
             e == rec.exp
             seen == [c \in Credits |-> IF c \in listed THEN topup[c] ELSE rec.seen[c]]
             found == Cardinality(Candidates(seen, e))
             lost == rec.funding = "MATCHED" /\ found # 1
             state == IF rec.attempts[e] # None /\ listed # {} THEN topup[last] ELSE rec.attempts[e]
             funding == CASE lost -> "REVERSED"
                          [] found = 1 -> "MATCHED"
                          [] ~lost /\ found > 1 -> "POSSIBLE_MATCH"
                          [] OTHER -> "UNMATCHED"
             plan == IF lost /\ rec.plan = "AUTHORIZED" THEN None ELSE rec.plan
             attempts == [rec.attempts EXCEPT ![e] = state]
  <1>1. e \in Expectations /\ seen \in [Credits -> {None} \cup Listed]
    BY DEF Record, Transactions
  <1>2. state \in States
    BY <1>1 DEF Record, Transactions, States
  <1>3. attempts \in [Expectations -> States]
    BY <1>1, <1>2 DEF Record
  <1>4. funding \in Fundings
    BY DEF Fundings
  <1>5. plan \in {None, "AUTHORIZED", "QUEUED", "SUBMITTED"}
    BY DEF Record
  <1>6. Observed(rec, listed, last) =
          [rec EXCEPT !.seen = seen, !.attempts = attempts, !.funding = funding, !.plan = plan]
    BY DEF Observed, Record
  <1> HIDE DEF seen, state, funding, plan, attempts
  <1>7. QED
    BY <1>1, <1>3, <1>4, <1>5, <1>6 DEF Record

\* A refresh that listed the transactions saves, if its copy is not outdated.
LEMMA ListStep ==
  ASSUME FundingInv, NEW w \in Workers, NEW last \in Credits, List(w, last)
  PROVE  FundingInv'
  <1> DEFINE e == worker[w].exp
             rec == Observed(record, Transactions(e), last)
             new == [rec EXCEPT !.attempts[e] = "AMBIGUOUS"]
  <1>1. record \in Record /\ e \in Expectations
    BY TypesNamed DEF FundingInv, Worker
  <1>2. rec \in Record /\ rec.exp = record.exp
    BY <1>1, ObservedTyped DEF List, FundingInv
  <1>3. \E texts : SaveObservation(w, rec, texts) \/ SaveObservation(w, new, texts)
    BY DEF List
  <1>4. UNCHANGED <<topup, sends>>
    BY DEF List
  <1> HIDE DEF rec
  <1>5. new \in Record /\ new.exp = rec.exp
    <2>1. rec.funding \in Fundings
      BY <1>2 DEF Record
    <2>2. new = WithAttempt(rec, e, "AMBIGUOUS", rec.funding)
      BY <1>2 DEF Record, WithAttempt
    <2>3. "AMBIGUOUS" \in States
      BY DEF States
    <2> HIDE DEF e, new
    <2>4. QED
      BY <1>1, <1>2, <2>1, <2>2, <2>3, AttemptTyped
  <1> HIDE DEF new
  <1>6. QED
    BY <1>2, <1>3, <1>4, <1>5, SaveObservationStep

\* So does one whose listing failed.
LEMMA ListFailsStep ==
  ASSUME FundingInv, NEW w \in Workers, ListFails(w)
  PROVE  FundingInv'
  <1> DEFINE e == worker[w].exp
             state == IF Interrupted(w) /\ record.attempts[e] # None THEN "AMBIGUOUS" ELSE record.attempts[e]
             rec == WithAttempt(record, e, state, "UNMATCHED")
  <1>1. record \in Record /\ e \in Expectations
    BY TypesNamed DEF FundingInv, Worker
  <1>2. state \in States
    BY <1>1 DEF Record, States
  <1>3. rec \in Record /\ rec.exp = record.exp
    BY <1>1, <1>2, AttemptTyped DEF Fundings
  <1>4. rec = [record EXCEPT !.funding = "UNMATCHED",
                             !.attempts[e] = IF Interrupted(w) /\ @ # None THEN "AMBIGUOUS" ELSE @]
    BY <1>1 DEF Record, WithAttempt
  <1>5. \E texts : SaveObservation(w, rec, texts)
    BY <1>4 DEF ListFails
  <1>6. UNCHANGED <<topup, sends>>
    BY DEF ListFails
  <1> HIDE DEF rec
  <1>7. QED
    BY <1>3, <1>5, <1>6, SaveObservationStep

----------------------------------------------------------------------------
(* The rest.                                                               *)

\* Whatever saves the case without the reservation outdates the copies: no
\* reservation is active, or the save is that of an execution's reservation.
LEMMA SavedStep ==
  ASSUME FundingInv, NEW rec \in Record, Saved(rec), MutationAllowed \/ rec.plan = "QUEUED",
         MutationAllowed \/ rec.exp = record.exp,
         exec' \in {None, "ACTIVE", "READY", "RECONCILING"}
  PROVE  FundingInv'
  <1>1. record' = rec /\ worker' = Outdated(worker) /\ UNCHANGED <<lock, evidence, topup, sends>>
    BY DEF Saved
  <1>2. /\ worker' \in [Workers -> Worker]
        /\ \A v \in Workers : /\ worker'[v].pc = worker[v].pc /\ worker'[v].exp = worker[v].exp
                              /\ worker'[v].fresh = FALSE
    BY <1>1, OutdatedCalls, TypesNamed DEF FundingInv
  <1>3. TypeOK'
    BY <1>1, <1>2 DEF FundingInv, TypeOK, Worker
  <1>4. SendsInv'
    BY <1>1, <1>2, SendsKept DEF FundingInv
  <1>5. FreshInv'
    BY <1>2 DEF FreshInv
  <1>6. CASE MutationAllowed
    <2>1. \A e \in Expectations : lock'[e] # "ACTIVE"
      BY <1>1, <1>6 DEF MutationAllowed, HasActiveLock
    <2>2. LockInv' /\ OnlyExecutionOutdates'
      BY <1>2, <2>1 DEF LockInv, OnlyExecutionOutdates, Worker
    <2>3. QED
      BY <1>3, <1>4, <1>5, <2>2 DEF FundingInv
  <1>7. CASE rec.plan = "QUEUED" /\ rec.exp = record.exp
    <2>1. LockInv' /\ OnlyExecutionOutdates'
      BY <1>1, <1>7 DEF FundingInv, LockInv, OnlyExecutionOutdates
    <2>2. QED
      BY <1>3, <1>4, <1>5, <2>1 DEF FundingInv
  <1>8. QED
    BY <1>6, <1>7

\* A broker operation saves only while no reservation is active.
LEMMA BrokerStep ==
  ASSUME FundingInv, Review \/ Authorize \/ \E e \in Expectations : Replace(e)
  PROVE  FundingInv'
  <1>1. ASSUME NEW rec \in Record, BrokerSave(rec) PROVE FundingInv'
    BY <1>1, SavedStep DEF BrokerSave, FundingInv, TypeOK
  <1>2. record \in Record
    BY DEF FundingInv, TypeOK
  <1>3. CASE Review
    <2>1. PICK p \in {None, record.plan} : BrokerSave([record EXCEPT !.plan = p])
      BY <1>3 DEF Review
    <2>2. [record EXCEPT !.plan = p] \in Record
      BY <1>2 DEF Record
    <2>3. QED
      BY <1>1, <2>1, <2>2
  <1>4. CASE Authorize
    <2>1. [record EXCEPT !.plan = "AUTHORIZED"] \in Record
      BY <1>2 DEF Record
    <2>2. QED
      BY <1>1, <1>4, <2>1 DEF Authorize
  <1>5. ASSUME NEW e \in Expectations, Replace(e) PROVE FundingInv'
    <2>1. [record EXCEPT !.exp = e, !.funding = "AWAITING_FUNDS", !.plan = None] \in Record
      BY <1>2 DEF Record, Fundings
    <2>2. QED
      BY <1>1, <1>5, <2>1 DEF Replace
  <1>6. QED
    BY <1>3, <1>4, <1>5

\* The reservation of an execution outdates the copies and queues its plan; its
\* saves, and those of reconcile, are refused while a top-up is reserved.
LEMMA ExecutionStep ==
  ASSUME FundingInv, ExecutePlan \/ ExecutionSteps
  PROVE  FundingInv'
  <1>1. record \in Record /\ exec \in {None, "ACTIVE", "READY", "RECONCILING"}
    BY DEF FundingInv, TypeOK
  <1>2. ASSUME NEW p \in {None, "QUEUED", "SUBMITTED"}
        PROVE  /\ [record EXCEPT !.plan = p] \in Record
               /\ [record EXCEPT !.plan = p].exp = record.exp
               /\ [record EXCEPT !.plan = p].plan = p
    BY <1>1 DEF Record
  <1>3. CASE ExecutePlan
    BY <1>2, <1>3, SavedStep DEF ExecutePlan
  <1>4. ASSUME NEW p \in {None, "SUBMITTED"}, ExecutionSaves(p) \/ ReconcileSaves(p)
        PROVE  FundingInv'
    BY <1>1, <1>2, <1>4, SavedStep DEF ExecutionSaves, ReconcileSaves
  <1>5. CASE ExecutionEnds \/ ReconcileClaims \/ ReconcileFails
    <2>1. UNCHANGED <<record, lock, evidence, worker, topup, sends>> /\ exec' \in {None, "READY", "RECONCILING"}
      BY <1>5 DEF ExecutionEnds, ReconcileClaims, ReconcileFails
    <2>2. TypeOK'
      BY <2>1 DEF FundingInv, TypeOK
    <2>3. SendsInv' /\ FreshInv' /\ LockInv' /\ OnlyExecutionOutdates'
      BY <2>1 DEF FundingInv, SendsInv, Sending, FreshInv, LockInv, OnlyExecutionOutdates
    <2>4. QED
      BY <2>2, <2>3 DEF FundingInv
  <1>6. QED
    BY <1>3, <1>4, <1>5 DEF ExecutionSteps

\* The provider's steps touch only its own top-ups.
LEMMA ProviderStep ==
  ASSUME FundingInv, PaidDirectly \/ \E e \in Expectations : Arrives(e) \/ Moves(e)
  PROVE  FundingInv'
  <1>1. UNCHANGED <<record, lock, exec, evidence, worker, sends>>
    BY DEF Arrives, Moves, PaidDirectly
  <1>2. topup' \in [Credits -> {None, "SENT", "REFUSED"} \cup Listed]
    BY DEF Arrives, Moves, PaidDirectly, FundingInv, TypeOK, Listed
  <1>3. TypeOK'
    BY <1>1, <1>2 DEF FundingInv, TypeOK
  <1>4. SendsInv' /\ FreshInv' /\ LockInv' /\ OnlyExecutionOutdates'
    BY <1>1 DEF FundingInv, SendsInv, Sending, FreshInv, LockInv, OnlyExecutionOutdates
  <1>5. QED
    BY <1>3, <1>4 DEF FundingInv

\* The invariant holds before the first call.
LEMMA InitFundingInv == Init => FundingInv
  <1> SUFFICES ASSUME Init PROVE FundingInv
    OBVIOUS
  <1>1. TypeOK
    BY IdleIsTyped DEF Init, TypeOK, Worker
  <1>2. \A w \in Workers : worker[w] = Idle
    BY DEF Init
  <1>3. SendsInv /\ FreshInv /\ LockInv /\ OnlyExecutionOutdates
    BY <1>2 DEF Init, SendsInv, Sending, FreshInv, LockInv, OnlyExecutionOutdates, Idle, Call, None
  <1>4. QED
    BY <1>1, <1>3 DEF FundingInv

\* Every step keeps it.
LEMMA FundingStep ==
  ASSUME FundingInv, [Next]_vars
  PROVE  FundingInv'
  <1>1. ASSUME NEW w \in Workers, Reserve(w) \/ StartRefresh(w) \/ CallEnds(w)
        PROVE  FundingInv'
    BY <1>1, ReserveStep, StartRefreshStep, SendStep, AnsweredStep, AnswerLostStep, ListStep, ListFailsStep
    DEF CallEnds
  <1>2. CASE Review \/ Authorize \/ \E e \in Expectations : Replace(e)
    BY <1>2, BrokerStep
  <1>3. CASE PaidDirectly \/ \E e \in Expectations : Arrives(e) \/ Moves(e)
    BY <1>3, ProviderStep
  <1>4. CASE ExecutePlan \/ ExecutionSteps
    BY <1>4, ExecutionStep
  <1>5. CASE Crash
    BY <1>5, DiesStep DEF Crash, FundingInv, TypeOK
  <1>6. CASE UNCHANGED vars
    BY <1>6 DEF vars, FundingInv, TypeOK, SendsInv, Sending, FreshInv, LockInv, OnlyExecutionOutdates
  <1>7. QED
    BY <1>1, <1>2, <1>3, <1>4, <1>5, <1>6 DEF Next

\* How row, attempt, request and the copies of overlapping refreshes stand to
\* each other, through restarts.
THEOREM FundingInvariant == Spec => []FundingInv
  <1>1. Init => FundingInv
    BY InitFundingInv
  <1>2. FundingInv /\ [Next]_vars => FundingInv'
    BY FundingStep
  <1>3. QED
    BY <1>1, <1>2, PTL DEF Spec

\* However calls overlap and wherever the server stops, no expectation is
\* topped up twice (reserveFundingAttempt, refreshFunding).
THEOREM ExpectationToppedUpOnce == Spec => []TopUpOnce
  <1>1. FundingInv => TopUpOnce
    BY DEF FundingInv, SendsInv, TopUpOnce
  <1>2. QED
    BY <1>1, FundingInvariant, PTL

\* While its reservation is active, the copy of the sending call is outdated by
\* nothing but an execution reserved meanwhile, which cannot save before the
\* reservation ends (reserveExecution, assertMutationAllowed).
THEOREM ExecutionAloneOutdates == Spec => []OnlyExecutionOutdates
  <1>1. FundingInv => OnlyExecutionOutdates
    BY DEF FundingInv
  <1>2. QED
    BY <1>1, FundingInvariant, PTL

=============================================================================
