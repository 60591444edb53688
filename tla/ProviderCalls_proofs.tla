------------------------ MODULE ProviderCalls_proofs ------------------------
(***************************************************************************)
(* Proofs about the calls to the provider: the monitor that wraps them,    *)
(* OperationalErrors, for any operations, kinds of error, overlapping      *)
(* captures and number of restarts, and the client that makes them,        *)
(* ProviderClient, for any callers, tokens and faults.                     *)
(*                                                                         *)
(* HealthFollowsOutcomes speaks of the report only.  What is inductive is  *)
(* that the open rows are, fingerprint by fingerprint, the failures of     *)
(* each operation since its last success.                                  *)
(*                                                                         *)
(* What bounds the requests of a call is the sum of its retries, whatever  *)
(* the other callers do to the token they share.                           *)
(***************************************************************************)
EXTENDS OperationalErrors, ProviderClient, TLAPS

\* A capture under way is of some operation.
CapturesInv ==
  \A c \in Calls : call[c] # Idle => call[c].op \in Operations

\* A row is open exactly when its kind is pending for its operation.
RowsInv ==
  \A o \in Operations, k \in Kinds : rows[<<o, k>>] = "open" <=> k \in failed[o]

ErrorInv == TypeOK /\ CapturesInv /\ RowsInv

\* No operation has failed before the first call.
LEMMA InitErrorInv == Init => ErrorInv
  BY DEF Init, ErrorInv, TypeOK, CapturesInv, RowsInv, Idle, Fingerprints, None

\* A call that begins sees which errors are open.
LEMMA BeginStep ==
  ASSUME ErrorInv, NEW c \in Calls, NEW o \in Operations, Begin(c, o)
  PROVE  ErrorInv'
  BY DEF Begin, ErrorInv, TypeOK, CapturesInv, RowsInv

\* A failure opens its own row and no other.
LEMMA FailsStep ==
  ASSUME ErrorInv, NEW c \in Calls, NEW k \in Kinds, Fails(c, k)
  PROVE  ErrorInv'
  <1> DEFINE o == call[c].op
  <1>1. o \in Operations /\ <<o, k>> \in Fingerprints
    BY DEF Fails, ErrorInv, CapturesInv, Fingerprints
  <1>2. /\ rows' = [rows EXCEPT ![<<o, k>>] = "open"]
        /\ failed' = [failed EXCEPT ![o] = failed[o] \cup {k}]
        /\ call' = [call EXCEPT ![c] = Idle]
    BY DEF Fails, Reopened
  <1> HIDE DEF o
  <1>3. TypeOK'
    BY <1>1, <1>2 DEF ErrorInv, TypeOK, Idle
  <1>4. CapturesInv'
    BY <1>2 DEF ErrorInv, TypeOK, CapturesInv
  <1>5. ASSUME NEW p \in Operations, NEW j \in Kinds
        PROVE  rows'[<<p, j>>] = "open" <=> j \in failed'[p]
    <2>1. <<p, j>> \in Fingerprints
      BY DEF Fingerprints
    <2>2. CASE p = o /\ j = k
      BY <2>2, <1>1, <1>2 DEF ErrorInv, TypeOK
    <2>3. CASE ~(p = o /\ j = k)
      <3>1. rows'[<<p, j>>] = rows[<<p, j>>]
        BY <2>1, <2>3, <1>1, <1>2 DEF ErrorInv, TypeOK
      <3>2. j \in failed'[p] <=> j \in failed[p]
        BY <2>3, <1>1, <1>2 DEF ErrorInv, TypeOK
      <3>3. QED
        BY <3>1, <3>2 DEF ErrorInv, RowsInv
    <2>4. QED
      BY <2>2, <2>3
  <1>6. QED
    BY <1>3, <1>4, <1>5 DEF ErrorInv, RowsInv

\* A success resolves every open row of its operation and no other.
LEMMA SucceedsStep ==
  ASSUME ErrorInv, NEW c \in Calls, Succeeds(c)
  PROVE  ErrorInv'
  <1> DEFINE o == call[c].op
  <1>1. o \in Operations
    BY DEF Succeeds, ErrorInv, CapturesInv
  <1>2. /\ rows' = [f \in Fingerprints |-> IF f \in ResolvedBy(o) THEN "resolved" ELSE rows[f]]
        /\ failed' = [failed EXCEPT ![o] = {}]
        /\ call' = [call EXCEPT ![c] = Idle]
    BY DEF Succeeds
  <1> HIDE DEF o
  <1>3. TypeOK'
    BY <1>1, <1>2 DEF ErrorInv, TypeOK, Idle
  <1>4. CapturesInv'
    BY <1>2 DEF ErrorInv, TypeOK, CapturesInv
  <1>5. ASSUME NEW p \in Operations, NEW j \in Kinds
        PROVE  rows'[<<p, j>>] = "open" <=> j \in failed'[p]
    <2>1. <<p, j>> \in Fingerprints
      BY DEF Fingerprints
    <2>2. CASE p = o
      BY <2>1, <2>2, <1>1, <1>2 DEF ErrorInv, TypeOK, ResolvedBy
    <2>3. CASE p # o
      <3>1. <<p, j>> \notin ResolvedBy(o)
        BY <2>3 DEF ResolvedBy
      <3>2. rows'[<<p, j>>] = rows[<<p, j>>] /\ failed'[p] = failed[p]
        BY <2>1, <2>3, <3>1, <1>1, <1>2 DEF ErrorInv, TypeOK
      <3>3. QED
        BY <3>2 DEF ErrorInv, RowsInv
    <2>4. QED
      BY <2>2, <2>3
  <1>6. QED
    BY <1>3, <1>4, <1>5 DEF ErrorInv, RowsInv

\* Every capture, retry and restart keeps ErrorInv.
LEMMA ErrorStep ==
  ASSUME ErrorInv, [Next]_vars
  PROVE  ErrorInv'
  <1>1. CASE Crash
    BY <1>1 DEF Crash, ErrorInv, TypeOK, CapturesInv, RowsInv, Idle
  <1>2. CASE UNCHANGED vars
    BY <1>2 DEF vars, ErrorInv, TypeOK, CapturesInv, RowsInv
  <1>3. QED
    BY <1>1, <1>2, BeginStep, FailsStep, SucceedsStep DEF Next

\* Some row of the kinds K is open exactly when one of K is pending.
LEMMA OpenMeansPending ==
  ASSUME ErrorInv, NEW K \in SUBSET Kinds
  PROVE  Open(K) <=> (UNION {failed[o] : o \in Operations}) \cap K # {}
  <1>1. ASSUME Open(K)
        PROVE  (UNION {failed[o] : o \in Operations}) \cap K # {}
    <2>1. PICK f \in Fingerprints : f[2] \in K /\ rows[f] = "open"
      BY <1>1 DEF Open
    <2>2. PICK o \in Operations, k \in Kinds : f = <<o, k>>
      BY DEF Fingerprints
    <2>3. k \in K /\ k \in failed[o]
      BY <2>1, <2>2 DEF ErrorInv, RowsInv
    <2>4. QED
      BY <2>3
  <1>2. ASSUME (UNION {failed[o] : o \in Operations}) \cap K # {}
        PROVE  Open(K)
    <2>1. PICK o \in Operations, k \in K : k \in failed[o]
      BY <1>2
    <2>2. <<o, k>> \in Fingerprints /\ rows[<<o, k>>] = "open"
      BY <2>1 DEF ErrorInv, RowsInv, Fingerprints
    <2>3. QED
      BY <2>2 DEF Open
  <1>3. QED
    BY <1>1, <1>2

\* Through overlapping captures, repeated errors and restarts the report says
\* what failed and did not succeed since (OperationalErrorMonitor.capture,
\* operationalErrorReport).
THEOREM HealthIsTrue == Spec => []HealthFollowsOutcomes
  <1>1. Init => ErrorInv
    BY InitErrorInv
  <1>2. ErrorInv /\ [Next]_vars => ErrorInv'
    BY ErrorStep
  <1>3. ErrorInv => HealthFollowsOutcomes
    <2> SUFFICES ASSUME ErrorInv PROVE HealthFollowsOutcomes
      OBVIOUS
    <2> DEFINE pending == UNION {failed[o] : o \in Operations}
    <2>1. Open(Critical) <=> pending \cap Critical # {}
      BY OpenMeansPending, ErrorAssumption DEF ErrorAssumption
    <2>2. pending \in SUBSET Kinds
      BY DEF ErrorInv, TypeOK
    <2>3. Open(Kinds) <=> pending # {}
      BY <2>2, OpenMeansPending
    <2>4. QED
      BY <2>1, <2>3 DEF HealthFollowsOutcomes, Health
  <1>4. QED
    BY <1>1, <1>2, <1>3, PTL DEF Spec

----------------------------------------------------------------------------
(* The client that those operations call the provider with.                *)

ClientCall == [pc: {"IDLE", "JOIN", "SEND", "SENT", "ANSWER", "DONE", "FAILED"}, tok: Nat,
               answer: {"NONE", "OK", "401", "LOST", "BUSY", "REFUSED"}, authRetried: BOOLEAN,
               transient: 0..MAX_TRANSIENT_RETRIES, sends: Nat]

\* What a call that goes on still has to send, and the retries it has made.
ToSend(t) == IF t.pc \in {"IDLE", "JOIN", "SEND"} THEN 1 ELSE 0
Retries(t) == t.transient + IF t.authRetried THEN 1 ELSE 0

\* A call sends once more than it has retried, and a call that moves money has
\* not retried.
Counts(c, t) ==
  /\ t.pc \notin {"DONE", "FAILED"} => t.sends + ToSend(t) <= 1 + Retries(t)
  /\ t.sends <= 4
  /\ c \in Posts => t.sends <= 1 /\ Retries(t) = 0

ClientInv ==
  /\ cached \in Nat /\ refresh.tok \in Nat /\ issued \in Nat
  /\ calls \in [Callers -> ClientCall]
  /\ \A c \in Callers : Counts(c, calls[c])

\* One call moves on.
LEMMA CallCounts ==
  ASSUME ClientInv, NEW c \in Callers, NEW t \in ClientCall, Counts(c, t), Set(c, t),
         cached' \in Nat, refresh'.tok \in Nat, issued' = issued
  PROVE  ClientInv'
  <1>1. calls' = [calls EXCEPT ![c] = t]
    BY DEF Set
  <1>2. calls' \in [Callers -> ClientCall] /\ \A d \in Callers : calls'[d] = IF d = c THEN t ELSE calls[d]
    BY <1>1 DEF ClientInv
  <1>3. \A d \in Callers : Counts(d, calls'[d])
    BY <1>2 DEF ClientInv
  <1>4. QED
    BY <1>2, <1>3 DEF ClientInv, Counts, ToSend, Retries

\* A call that ends has sent what it has sent.
LEMMA EndCounts ==
  ASSUME ClientInv, NEW c \in Callers, NEW pc \in {"DONE", "FAILED"}
  PROVE  Ended(c, pc) \in ClientCall /\ Counts(c, Ended(c, pc))
  <1>1. calls[c] \in ClientCall /\ Counts(c, calls[c])
    BY DEF ClientInv
  <1>2. PICK n \in Nat : n = calls[c].sends
    BY <1>1 DEF ClientCall
  <1>3. NewCall \in ClientCall /\ NewCall.transient = 0 /\ ~NewCall.authRetried
    BY DEF NewCall, ClientCall, MAX_TRANSIENT_RETRIES
  <1>4. PICK new, t : new = NewCall /\ t = [new EXCEPT !.pc = pc, !.sends = n]
    OBVIOUS
  <1>5. t \in ClientCall /\ t.pc = pc /\ t.sends = n /\ t.transient = 0 /\ ~t.authRetried
    BY <1>3, <1>4 DEF ClientCall
  <1>6. Counts(c, t)
    BY <1>1, <1>2, <1>5 DEF Counts, Retries
  <1>7. QED
    BY <1>2, <1>4, <1>5, <1>6 DEF Ended

\* A request that is sent, lost, throttled, refused or answered.
LEMMA ClientCallStep ==
  ASSUME ClientInv, NEW c \in Callers, CallStep(c)
  PROVE  ClientInv'
  <1>1. PICK r \in ClientCall : r = calls[c] /\ Counts(c, r)
    BY DEF ClientInv
  <1>2. MAX_TRANSIENT_RETRIES = 2 /\ NoRefresh.tok = 0
    BY DEF MAX_TRANSIENT_RETRIES, NoRefresh
  <1>3. Joined.tok \in Nat
    BY DEF Joined, ClientInv
  <1>4. CASE BeginRequest(c)
    <2>1. PICK t, u : /\ t = [r EXCEPT !.pc = "SEND", !.tok = cached]
                      /\ u = [r EXCEPT !.pc = "JOIN"]
      OBVIOUS
    <2>2. t \in ClientCall /\ Counts(c, t) /\ u \in ClientCall /\ Counts(c, u)
      <3>1. r.pc = "IDLE" /\ cached \in Nat
        BY <1>1, <1>4 DEF BeginRequest, ClientInv
      <3>2. /\ t \in ClientCall /\ t.pc = "SEND" /\ t.sends = r.sends /\ t.transient = r.transient
            /\ t.authRetried = r.authRetried
        BY <2>1, <3>1 DEF ClientCall
      <3>3. /\ u \in ClientCall /\ u.pc = "JOIN" /\ u.sends = r.sends /\ u.transient = r.transient
            /\ u.authRetried = r.authRetried
        BY <2>1, <3>1 DEF ClientCall
      <3>4. QED
        BY <1>1, <3>1, <3>2, <3>3 DEF Counts, ToSend, Retries
    <2>3. Set(c, t) \/ Set(c, u)
      BY <1>1, <1>4, <2>1 DEF BeginRequest
    <2>4. cached' \in Nat /\ refresh'.tok \in Nat /\ issued' = issued
      BY <1>3, <1>4 DEF BeginRequest, ClientInv
    <2>5. QED
      BY <2>2, <2>3, <2>4, CallCounts
  <1>5. CASE Send(c)
    <2>1. PICK n, t : n = r.sends + 1 /\ t = [r EXCEPT !.pc = "SENT", !.sends = n]
      OBVIOUS
    <2>2. t \in ClientCall /\ Counts(c, t)
      <3>1. r.pc = "SEND" /\ n \in Nat
        BY <1>1, <1>5, <2>1 DEF Send, ClientCall
      <3>2. /\ t \in ClientCall /\ t.pc = "SENT" /\ t.sends = r.sends + 1 /\ t.transient = r.transient
            /\ t.authRetried = r.authRetried
        BY <2>1, <3>1 DEF ClientCall
      <3>3. r.transient \in 0..2 /\ r.sends \in Nat
        BY <1>2 DEF ClientCall
      <3>4. QED
        BY <1>1, <3>1, <3>2, <3>3 DEF Counts, ToSend, Retries
    <2>3. Set(c, t) /\ cached' \in Nat /\ refresh'.tok \in Nat /\ issued' = issued
      BY <1>1, <1>5, <2>1 DEF Send, ClientInv
    <2>4. QED
      BY <2>2, <2>3, CallCounts
  <1>6. CASE Answered(c)
    <2>1. PICK a \in {"OK", "401", "LOST", "BUSY", "REFUSED"} :
            Set(c, [r EXCEPT !.pc = "ANSWER", !.answer = a])
      BY <1>1, <1>6 DEF Answered
    <2>2. PICK t : t = [r EXCEPT !.pc = "ANSWER", !.answer = a]
      OBVIOUS
    <2>3. t \in ClientCall /\ Counts(c, t)
      <3>1. r.pc = "SENT"
        BY <1>1, <1>6 DEF Answered
      <3>2. /\ t \in ClientCall /\ t.pc = "ANSWER" /\ t.sends = r.sends /\ t.transient = r.transient
            /\ t.authRetried = r.authRetried
        BY <2>2 DEF ClientCall
      <3>3. QED
        BY <1>1, <3>1, <3>2 DEF Counts, ToSend, Retries
    <2>4. cached' \in Nat /\ refresh'.tok \in Nat /\ issued' = issued
      BY <1>6 DEF Answered, ClientInv
    <2>5. QED
      BY <2>1, <2>2, <2>3, <2>4, CallCounts
  <1>7. ASSUME NEW pc \in {"DONE", "FAILED"}, Set(c, Ended(c, pc)), UNCHANGED <<cached, refresh, issued>>
        PROVE  ClientInv'
    <2>1. cached' \in Nat /\ refresh'.tok \in Nat /\ issued' = issued
      BY <1>7 DEF ClientInv
    <2>2. QED
      BY <1>7, <2>1, EndCounts, CallCounts
  <1>8. CASE Finish(c)
    BY <1>7, <1>8 DEF Finish
  <1>9. CASE Unauthorized(c)
    <2>1. CASE MayRetry(c) /\ ~r.authRetried
      <3>1. PICK t : t = [r EXCEPT !.pc = "JOIN", !.tok = 0, !.answer = "NONE", !.authRetried = TRUE]
        OBVIOUS
      <3>2. /\ t \in ClientCall /\ t.pc = "JOIN" /\ t.sends = r.sends /\ t.transient = r.transient
            /\ t.authRetried
        BY <3>1 DEF ClientCall
      <3>3. r.pc = "ANSWER" /\ c \notin Posts /\ r.transient \in 0..2 /\ r.sends \in Nat
        BY <1>1, <1>2, <1>9, <2>1, ClientAssumption DEF Unauthorized, MayRetry, ClientCall, ClientAssumption
      <3>4. Counts(c, t)
        BY <1>1, <2>1, <3>2, <3>3 DEF Counts, ToSend, Retries
      <3>5. Set(c, t) /\ cached' = 0 /\ refresh' = Joined /\ issued' = issued
        BY <1>1, <1>9, <2>1, <3>1 DEF Unauthorized
      <3>6. QED
        BY <1>3, <3>2, <3>4, <3>5, CallCounts
    <2>2. CASE ~(MayRetry(c) /\ ~r.authRetried)
      BY <1>1, <1>7, <1>9, <2>2 DEF Unauthorized
    <2>3. QED
      BY <2>1, <2>2
  <1>10. CASE Transient(c)
    <2>1. CASE MayRetry(c) /\ RetriesLeft(c)
      <3>1. PICK n, t : n = r.transient + 1 /\ t = [r EXCEPT !.pc = "SEND", !.answer = "NONE", !.transient = n]
        OBVIOUS
      <3>2. /\ r.pc = "ANSWER" /\ c \notin Posts /\ r.transient \in 0..2 /\ r.transient < 2
            /\ n \in 0..2 /\ r.sends \in Nat
        BY <1>1, <1>2, <1>10, <2>1, <3>1, ClientAssumption DEF ClientAssumption, Transient, MayRetry, RetriesLeft, ClientCall
      <3>3. /\ t \in ClientCall /\ t.pc = "SEND" /\ t.sends = r.sends /\ t.transient = r.transient + 1
            /\ t.authRetried = r.authRetried
        BY <1>2, <3>1, <3>2 DEF ClientCall
      <3>4. Counts(c, t)
        BY <1>1, <3>2, <3>3 DEF Counts, ToSend, Retries
      <3>5. Set(c, t) /\ cached' \in Nat /\ refresh'.tok \in Nat /\ issued' = issued
        BY <1>1, <1>10, <2>1, <3>1 DEF Transient, ClientInv
      <3>6. QED
        BY <3>3, <3>4, <3>5, CallCounts
    <2>2. CASE ~(MayRetry(c) /\ RetriesLeft(c))
      BY <1>7, <1>10, <2>2 DEF Transient
    <2>3. QED
      BY <2>1, <2>2
  <1>11. QED
    BY <1>4, <1>5, <1>6, <1>8, <1>9, <1>10 DEF CallStep

\* Every caller that waits for the token goes on with it, or ends.
LEMMA RefreshCounts ==
  ASSUME ClientInv, RefreshDone \/ RefreshFails
  PROVE  ClientInv'
  <1>1. cached' \in Nat /\ refresh'.tok \in Nat /\ issued' = issued
    <2>1. NoRefresh.tok = 0
      BY DEF NoRefresh
    <2>2. refresh' = NoRefresh /\ cached' \in {cached, refresh.tok} /\ issued' = issued
      BY DEF RefreshDone, RefreshFails
    <2>3. QED
      BY <2>1, <2>2 DEF ClientInv
  <1>2. ASSUME NEW c \in Waiting
        PROVE  /\ [calls[c] EXCEPT !.pc = "SEND", !.tok = refresh.tok] \in ClientCall
               /\ Counts(c, [calls[c] EXCEPT !.pc = "SEND", !.tok = refresh.tok])
    <2>1. PICK r, k, t : /\ r = calls[c] /\ k = refresh.tok
                         /\ t = [r EXCEPT !.pc = "SEND", !.tok = k]
      OBVIOUS
    <2>2. r \in ClientCall /\ Counts(c, r) /\ r.pc = "JOIN" /\ k \in Nat
      BY <2>1 DEF ClientInv, Waiting
    <2>3. /\ t \in ClientCall /\ t.pc = "SEND" /\ t.sends = r.sends /\ t.transient = r.transient
          /\ t.authRetried = r.authRetried
      BY <2>1, <2>2 DEF ClientCall
    <2>4. QED
      BY <2>1, <2>2, <2>3 DEF Counts, ToSend, Retries
  <1>3. \A c \in Callers : calls'[c] \in ClientCall /\ Counts(c, calls'[c])
    BY <1>2, EndCounts DEF RefreshDone, RefreshFails, ClientInv
  <1>4. calls' \in [Callers -> ClientCall]
    BY <1>3 DEF RefreshDone, RefreshFails
  <1>5. QED
    BY <1>1, <1>3, <1>4 DEF ClientInv, Counts, ToSend, Retries

\* Every step of the client keeps ClientInv.
LEMMA ClientStep ==
  ASSUME ClientInv, [ClientNext]_clientVars
  PROVE  ClientInv'
  <1>1. CASE IssueToken
    BY <1>1 DEF IssueToken, ClientInv, Counts, ToSend, Retries
  <1>2. CASE Expire \/ Revoke \/ UNCHANGED clientVars
    BY <1>2 DEF Expire, Revoke, clientVars, ClientInv, Counts, ToSend, Retries
  <1>3. QED
    BY <1>1, <1>2, ClientCallStep, RefreshCounts DEF ClientNext, RefreshStep

\* A call that moves money is sent once, whatever comes back, and a read four
\* times at most: two retries and one new token add up (request of
\* revolut-sandbox-client.ts).
THEOREM ClientSendsBounded == ClientSpec => []SendsBounded
  <1>1. ClientInit => ClientInv
    <2>1. SUFFICES ASSUME ClientInit PROVE ClientInv
      OBVIOUS
    <2>2. NewCall \in ClientCall /\ \A c : Counts(c, NewCall)
      BY DEF NewCall, ClientCall, MAX_TRANSIENT_RETRIES, Counts, ToSend, Retries
    <2>3. /\ cached = 0 /\ refresh = NoRefresh /\ issued = 0
          /\ calls = [c \in Callers |-> NewCall]
      BY <2>1 DEF ClientInit
    <2>4. QED
      BY <2>2, <2>3 DEF ClientInv, NoRefresh
  <1>2. ClientInv /\ [ClientNext]_clientVars => ClientInv'
    BY ClientStep
  <1>3. ClientInv => SendsBounded
    BY DEF ClientInv, Counts, SendsBounded, Callers
  <1>4. QED
    BY <1>1, <1>2, <1>3, PTL DEF ClientSpec

=============================================================================
