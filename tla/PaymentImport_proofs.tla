------------------------- MODULE PaymentImport_proofs -------------------------
(***************************************************************************)
(* Proofs about PaymentImport, and with it about PaymentOrchestrator, for  *)
(* any payments, files, balances and number of overlapping calls.          *)
(*                                                                         *)
(* A call carries copies: of the record it read, or of the batch it was    *)
(* given and what has become of each payment so far.  The invariant says   *)
(* how every copy stands to the rows and the transfers, which only grow:   *)
(* a row keeps its request, a transfer its reference and the states it has *)
(* been in, so that a copy that follows its transfer goes on following it  *)
(* however late it is written back.  The import beside the                 *)
(* call says which transactions of the file the batch was made of, and the *)
(* lemmas on Nth and Rank that the n-th result belongs to the n-th valid   *)
(* transaction and to no other.  The last section adds up a file: what the *)
(* fold of Total comes to is said position by position, which takes an     *)
(* induction over the positions, SetInduction.                             *)
(***************************************************************************)
EXTENDS PaymentImport, FiniteSetTheorems, SequenceTheorems, WellFoundedInduction, TLAPS

\* The place of i in S, and the members of S that come before or at i.
UpTo(S, i) == {j \in S : j <= i}
Rank(S, i) == Cardinality(UpTo(S, i))

Transfer == [ref: {p.ref : p \in Payments}, state: {"pending"} \cup Terminal]

Funds == UNION {[G -> Nat] : G \in SUBSET Accounts}

Sending == [pc: {"CHECK", "ASK", "SAVE"}, id: Nat, rec: Row]
Batching == [pc: {"LOOKUP", "DONE"}, batch: Seq(Payments), atomic: BOOLEAN,
             out: Seq(Outcomes), available: Funds]

Stored(p, rs) == \E r \in DOMAIN rs : rs[r].request = p

PreparedIn(k) == {i \in DOMAIN k.out : k.out[i] \in {"prepared"}}

\* A record that names a transfer names one of its reference, and stands at a
\* state which that transfer has been in.
FollowsIn(rec, ts) ==
  IF rec.tx = 0 THEN rec.state \in Unsent
  ELSE /\ rec.tx \in DOMAIN ts /\ ts[rec.tx].ref = rec.request.ref
       /\ rec.state \in Past(ts[rec.tx].state)

\* A record that was read, and what happened to it since: its request cannot
\* have changed, and it follows the transfer it names.
SendInv(k, rs, ts) ==
  /\ k \in Sending
  /\ k.id \in DOMAIN rs /\ k.rec.request = rs[k.id].request
  /\ FollowsIn(k.rec, ts)
  /\ (k.pc = "ASK" => k.rec.tx # 0) /\ (k.pc = "CHECK" => k.rec.tx = 0)

\* A batch whose references are being looked up.
LookupInv(k, rs) ==
  /\ Len(k.out) <= Len(k.batch)
  /\ \A i \in DOMAIN k.out : k.out[i] # "prepared"
  /\ \A i \in DOMAIN k.out : k.out[i] = "existing" => Stored(k.batch[i], rs)

\* A batch that was decided.
DoneInv(k, rs) ==
  /\ Len(k.out) = Len(k.batch)
  /\ \A i \in DOMAIN k.out : k.out[i] \in {"existing", "rejected", "prepared"}
  /\ \A i \in DOMAIN k.out : k.out[i] # "rejected" => Stored(k.batch[i], rs)
  /\ k.atomic /\ (\E i \in DOMAIN k.out : k.out[i] = "rejected") => PreparedIn(k) = {}
  /\ \A a \in Accounts :
       DrawnOn(k.batch, PreparedIn(k), a) # {} =>
         Debits(k.batch, DrawnOn(k.batch, PreparedIn(k), a)) <= k.available[a]

BatchInv(k, rs) ==
  /\ k \in Batching
  /\ k.pc = "LOOKUP" => LookupInv(k, rs)
  /\ k.pc = "DONE" => DoneInv(k, rs)

CallInv(k, rs, ts) == k = Idle \/ SendInv(k, rs, ts) \/ BatchInv(k, rs)

TablesInv(rs, ts) ==
  /\ rs \in Seq(Row) /\ ts \in Seq(Transfer) /\ Len(ts) <= MaxStored
  /\ \A i \in DOMAIN rs : FollowsIn(rs[i], ts)

PaymentInv ==
  /\ TablesInv(rows, transfers)
  /\ DOMAIN call = Calls
  /\ \A c \in Calls : CallInv(call[c], rows, transfers)

\* The payments of the valid transactions of a file.
BatchOf(u, valid) == [n \in 1..Cardinality(valid) |-> Requests[u][Nth(valid, n)]]

\* What an import remembers of its file fits the batch of its call.
ImportOf(m, k, u, day) ==
  /\ m.upload = u /\ m.valid \in {{}, Valid[u][day]} /\ (m.valid # {} => u \notin Unsound)
  /\ k \in Batching /\ k.atomic = File[u].atomic /\ k.batch = BatchOf(u, m.valid)
  /\ File[u].atomic => m.valid = {} \/ m.valid = DOMAIN Requests[u]

ImportInv(m, k) == m = NoImport \/ \E u \in Uploads, day \in 0..MaxDay : ImportOf(m, k, u, day)

ImportsInv == DOMAIN import = Calls /\ \A c \in Calls : ImportInv(import[c], call[c])

----------------------------------------------------------------------------
(* Places in a set of positions.                                           *)

\* The rank of an element of a finite set of numbers grows with it.
LEMMA RankStep ==
  ASSUME NEW S, IsFiniteSet(S), S \subseteq Nat
  PROVE  /\ \A i \in S : Rank(S, i) \in 1..Cardinality(S)
         /\ \A i, j \in S : i < j => Rank(S, i) < Rank(S, j)
  <1>1. Cardinality(S) \in Nat
    BY FS_CardinalityType
  <1>2. ASSUME NEW i \in S
        PROVE  IsFiniteSet(UpTo(S, i)) /\ Rank(S, i) \in 1..Cardinality(S)
    <2>1. UpTo(S, i) \in SUBSET S /\ i \in UpTo(S, i)
      BY DEF UpTo
    <2>2. IsFiniteSet(UpTo(S, i)) /\ Rank(S, i) <= Cardinality(S)
      BY <2>1, FS_Subset DEF Rank
    <2>3. Rank(S, i) \in Nat
      BY <2>2, FS_CardinalityType DEF Rank
    <2>4. Rank(S, i) # 0
      BY <2>1, <2>2, FS_EmptySet DEF Rank
    <2>5. QED
      BY <1>1, <2>2, <2>3, <2>4
  <1>3. ASSUME NEW i \in S, NEW j \in S, i < j
        PROVE  Rank(S, i) < Rank(S, j)
    <2>1. IsFiniteSet(UpTo(S, j)) /\ Rank(S, i) \in Nat /\ Rank(S, j) \in Nat
      BY <1>1, <1>2
    <2>2. UpTo(S, i) \in SUBSET UpTo(S, j)
      <3>1. SUFFICES ASSUME NEW x \in S, x <= i PROVE x <= j
        BY DEF UpTo
      <3>2. x \in Nat /\ i \in Nat /\ j \in Nat
        OBVIOUS
      <3>3. QED
        BY <1>3, <3>1, <3>2
    <2>3. j \in UpTo(S, j) /\ j \notin UpTo(S, i)
      BY <1>3 DEF UpTo
    <2>4. Rank(S, i) <= Rank(S, j) /\ Rank(S, j) # Rank(S, i)
      BY <2>1, <2>2, <2>3, FS_Subset DEF Rank
    <2>5. QED
      BY <2>1, <2>4
  <1>4. QED
    BY <1>2, <1>3

\* Rank is one-to-one onto 1..Cardinality(S), and Nth goes the way back.
LEMMA RankIsPlace ==
  ASSUME NEW S, IsFiniteSet(S), S \subseteq Nat
  PROVE  /\ \A i, j \in S : Rank(S, i) = Rank(S, j) => i = j
         /\ \A k \in 1..Cardinality(S) : Nth(S, k) \in S /\ Rank(S, Nth(S, k)) = k
         /\ \A i \in S : Nth(S, Rank(S, i)) = i
  <1> DEFINE f == [i \in S |-> Rank(S, i)]
             n == Cardinality(S)
  <1>1. n \in Nat
    BY FS_CardinalityType
  <1>2. \A i \in S : Rank(S, i) \in 1..n
    BY RankStep
  <1>3. \A i, j \in S : Rank(S, i) = Rank(S, j) => i = j
    <2>1. SUFFICES ASSUME NEW i \in S, NEW j \in S, i # j PROVE Rank(S, i) # Rank(S, j)
      OBVIOUS
    <2>2. Rank(S, i) \in Nat /\ Rank(S, j) \in Nat
      BY <1>1, <1>2
    <2>3. i < j \/ j < i
      BY <2>1
    <2>4. Rank(S, i) < Rank(S, j) \/ Rank(S, j) < Rank(S, i)
      BY <2>3, RankStep
    <2>5. QED
      BY <2>2, <2>4
  <1>4. f \in Surjection(S, 1..n)
    <2>1. f \in Injection(S, 1..n)
      BY <1>2, <1>3 DEF Injection, IsInjective
    <2>2. IsFiniteSet(1..n) /\ Cardinality(1..n) = n
      BY <1>1, FS_Interval
    <2>3. QED
      BY <2>1, <2>2, FS_Injection
  <1>5. ASSUME NEW k \in 1..n PROVE Nth(S, k) \in S /\ Rank(S, Nth(S, k)) = k
    <2>1. \E i \in S : f[i] = k
      BY <1>4 DEF Surjection
    <2>2. \E i \in S : Cardinality({j \in S : j <= i}) = k
      BY <2>1 DEF Rank, UpTo
    <2>3. Nth(S, k) \in S /\ Cardinality({j \in S : j <= Nth(S, k)}) = k
      BY <2>2 DEF Nth
    <2>4. QED
      BY <2>3 DEF Rank, UpTo
  <1>6. \A i \in S : Nth(S, Rank(S, i)) = i
    BY <1>2, <1>3, <1>5
  <1>7. QED
    BY <1>3, <1>5, <1>6

\* The first of a set of positions is one of them.
LEMMA MinIsMember ==
  ASSUME NEW S, IsFiniteSet(S), S \subseteq Nat, S # {}
  PROVE  Min(S) \in S
  <1>1. Cardinality(S) \in Nat /\ Cardinality(S) # 0
    BY FS_CardinalityType, FS_EmptySet
  <1>2. PICK i \in S : Rank(S, i) = 1
    <2>1. 1 \in 1..Cardinality(S)
      BY <1>1
    <2>2. QED
      BY <2>1, RankIsPlace
  <1>3. \A j \in S : i <= j
    <2>1. SUFFICES ASSUME NEW j \in S, j < i PROVE FALSE
      BY <1>2
    <2>2. Rank(S, j) < 1 /\ Rank(S, j) \in 1..Cardinality(S)
      BY <1>2, <2>1, RankStep
    <2>3. QED
      BY <1>1, <2>2
  <1>4. QED
    BY <1>3 DEF Min

----------------------------------------------------------------------------
(* How the copies that calls carry outlast the steps of others.            *)

Keeps(rs, rs2) ==
  /\ DOMAIN rs \subseteq DOMAIN rs2
  /\ \A i \in DOMAIN rs : rs2[i].request = rs[i].request

\* Transfers keep their reference, and what they have been they stay.
Grows(ts, ts2) ==
  /\ DOMAIN ts \subseteq DOMAIN ts2
  /\ \A t \in DOMAIN ts : ts2[t].ref = ts[t].ref /\ Past(ts[t].state) \subseteq Past(ts2[t].state)

\* A call with a batch keeps it until it ends.
Carries(k, k2) ==
  k \in Batching => k2 = Idle \/ (k2 \in Batching /\ k2.batch = k.batch /\ k2.atomic = k.atomic)

Step == PaymentInv' /\ \A c \in Calls : Carries(call[c], call'[c])

\* Rows that do not change keep what is stored.
LEMMA KeepsItself ==
  ASSUME NEW rs
  PROVE  Keeps(rs, rs)
  BY DEF Keeps

\* Transfers that do not change keep what they are.
LEMMA GrowsItself ==
  ASSUME NEW ts
  PROVE  Grows(ts, ts)
  BY DEF Grows

\* A record that follows its transfer goes on following it.
LEMMA FollowsOn ==
  ASSUME NEW rec, NEW ts, NEW ts2, FollowsIn(rec, ts), Grows(ts, ts2)
  PROVE  FollowsIn(rec, ts2)
  <1>1. CASE rec.tx = 0
    BY <1>1 DEF FollowsIn
  <1>2. CASE rec.tx # 0
    <2>1. rec.tx \in DOMAIN ts /\ ts[rec.tx].ref = rec.request.ref /\ rec.state \in Past(ts[rec.tx].state)
      BY <1>2 DEF FollowsIn
    <2>2. /\ rec.tx \in DOMAIN ts2 /\ ts2[rec.tx].ref = ts[rec.tx].ref
          /\ Past(ts[rec.tx].state) \subseteq Past(ts2[rec.tx].state)
      BY <2>1 DEF Grows
    <2>3. QED
      BY <1>2, <2>1, <2>2 DEF FollowsIn
  <1>3. QED
    BY <1>1, <1>2

\* What is stored of a payment stays stored.
LEMMA StoredStays ==
  ASSUME NEW rs, NEW rs2, Keeps(rs, rs2), NEW p, Stored(p, rs)
  PROVE  Stored(p, rs2)
  BY DEF Keeps, Stored

\* A call's invariant survives what the other calls store.
LEMMA CallPersists ==
  ASSUME NEW k, NEW rs, NEW rs2, NEW ts, NEW ts2,
         CallInv(k, rs, ts), Keeps(rs, rs2), Grows(ts, ts2)
  PROVE  CallInv(k, rs2, ts2)
  <1>1. CASE k = Idle
    BY <1>1 DEF CallInv
  <1>2. CASE SendInv(k, rs, ts)
    BY <1>2, FollowsOn DEF CallInv, SendInv, Keeps
  <1>3. CASE BatchInv(k, rs)
    <2>1. LookupInv(k, rs) => LookupInv(k, rs2)
      BY StoredStays DEF LookupInv
    <2>2. DoneInv(k, rs) => DoneInv(k, rs2)
      BY StoredStays DEF DoneInv
    <2>3. QED
      BY <1>3, <2>1, <2>2 DEF CallInv, BatchInv
  <1>4. QED
    BY <1>1, <1>2, <1>3 DEF CallInv

\* The state of one call changes, and rows and transfers grow.
LEMMA CallStep ==
  ASSUME PaymentInv, NEW c \in Calls, NEW new, call' = [call EXCEPT ![c] = new],
         TablesInv(rows', transfers'), Keeps(rows, rows'), Grows(transfers, transfers'),
         CallInv(new, rows', transfers'), Carries(call[c], new)
  PROVE  Step
  <1>1. DOMAIN call = Calls /\ \A d \in Calls : CallInv(call[d], rows, transfers)
    BY DEF PaymentInv
  <1>2. DOMAIN call' = Calls /\ call'[c] = new /\ \A d \in Calls \ {c} : call'[d] = call[d]
    BY <1>1
  <1>3. \A d \in Calls : CallInv(call'[d], rows', transfers')
    <2>1. SUFFICES ASSUME NEW d \in Calls, d # c PROVE CallInv(call'[d], rows', transfers')
      BY <1>2
    <2>2. CallInv(call[d], rows', transfers')
      BY <1>1, CallPersists
    <2>3. QED
      BY <1>2, <2>1, <2>2
  <1>4. \A d \in Calls : Carries(call[d], call'[d])
    BY <1>2 DEF Carries
  <1>5. QED
    BY <1>2, <1>3, <1>4 DEF Step, PaymentInv

\* Rows and transfers change under the calls.
LEMMA TableStep ==
  ASSUME PaymentInv, UNCHANGED call,
         TablesInv(rows', transfers'), Keeps(rows, rows'), Grows(transfers, transfers')
  PROVE  Step
  <1>1. DOMAIN call = Calls /\ \A d \in Calls : CallInv(call[d], rows, transfers)
    BY DEF PaymentInv
  <1>2. \A d \in Calls : CallInv(call'[d], rows', transfers')
    BY <1>1, CallPersists
  <1>3. QED
    BY <1>1, <1>2 DEF Step, PaymentInv, Carries

\* A call that ends with its rows stored is a step.
LEMMA IdleStep ==
  ASSUME PaymentInv, NEW c \in Calls, call' = [call EXCEPT ![c] = Idle], UNCHANGED transfers,
         TablesInv(rows', transfers), Keeps(rows, rows')
  PROVE  Step
  <1>1. CallInv(Idle, rows', transfers') /\ Carries(call[c], Idle)
    BY DEF CallInv, Carries
  <1>2. TablesInv(rows', transfers') /\ Grows(transfers, transfers')
    BY GrowsItself
  <1>3. QED
    BY <1>1, <1>2, CallStep

\* A row is replaced by one of the same request.
LEMMA RowReplaced ==
  ASSUME NEW rs, NEW ts, TablesInv(rs, ts), NEW i \in DOMAIN rs, NEW row \in Row,
         row.request = rs[i].request, FollowsIn(row, ts)
  PROVE  TablesInv([rs EXCEPT ![i] = row], ts) /\ Keeps(rs, [rs EXCEPT ![i] = row])
  <1> DEFINE rs2 == [rs EXCEPT ![i] = row]
  <1>1. rs \in Seq(Row) /\ \A j \in DOMAIN rs : FollowsIn(rs[j], ts)
    BY DEF TablesInv
  <1>2. DOMAIN rs2 = DOMAIN rs /\ rs2[i] = row /\ \A j \in DOMAIN rs \ {i} : rs2[j] = rs[j]
    OBVIOUS
  <1>3. rs2 \in Seq(Row)
    BY <1>1
  <1> HIDE DEF rs2
  <1>4. \A j \in DOMAIN rs2 : FollowsIn(rs2[j], ts)
    BY <1>1, <1>2
  <1>5. TablesInv(rs2, ts)
    BY <1>3, <1>4 DEF TablesInv
  <1>6. Keeps(rs, rs2)
    BY <1>2 DEF Keeps
  <1>7. QED
    BY <1>5, <1>6 DEF rs2

\* The kinds of calls are told apart by where they stand.
LEMMA NoneIsNotSent ==
  /\ Idle.pc = "IDLE"
  /\ \A k \in Sending : k.pc \in {"CHECK", "ASK", "SAVE"}
  /\ \A k \in Batching : k.pc \in {"LOOKUP", "DONE"}
  BY DEF Idle, Sending, Batching

\* What is known of a call by its pc.
LEMMA CallKinds ==
  ASSUME PaymentInv, NEW c \in Calls
  PROVE  /\ call[c].pc \in {"CHECK", "ASK", "SAVE"} => SendInv(call[c], rows, transfers)
         /\ call[c].pc \in {"LOOKUP", "DONE"} => BatchInv(call[c], rows)
         /\ call[c].pc = "IDLE" => call[c] \notin Batching
         /\ call[c].pc \in {"CHECK", "ASK", "SAVE"} => call[c] \notin Batching
  <1>1. CallInv(call[c], rows, transfers)
    BY DEF PaymentInv
  <1>2. QED
    BY <1>1, NoneIsNotSent DEF CallInv, SendInv, BatchInv

----------------------------------------------------------------------------
(* Sending and following up one payment.                                   *)

\* What the tables hold, for the leaves that follow.
LEMMA TablesKept ==
  ASSUME PaymentInv
  PROVE  /\ TablesInv(rows, transfers) /\ Keeps(rows, rows) /\ Grows(transfers, transfers)
         /\ rows \in Seq(Row) /\ transfers \in Seq(Transfer)
         /\ \A i \in DOMAIN rows : i \in Nat /\ rows[i] \in Row /\ FollowsIn(rows[i], transfers)
         /\ \A t \in DOMAIN transfers : t \in Nat /\ transfers[t] \in Transfer
         /\ Len(transfers) <= MaxStored
  <1>1. TablesInv(rows, transfers)
    BY DEF PaymentInv
  <1>2. rows \in Seq(Row) /\ transfers \in Seq(Transfer)
    BY <1>1 DEF TablesInv
  <1>3. \A i \in DOMAIN rows : i \in Nat /\ rows[i] \in Row
    BY <1>2
  <1>4. \A t \in DOMAIN transfers : t \in Nat /\ transfers[t] \in Transfer
    BY <1>2
  <1>5. QED
    BY <1>1, <1>2, <1>3, <1>4, KeepsItself, GrowsItself DEF TablesInv

\* A call that reads a record starts out with a copy that follows its transfer.
LEMMA StartStep ==
  ASSUME PaymentInv, NEW c \in Calls, NEW i \in DOMAIN rows, At(c, "IDLE"),
         NEW pc \in {"CHECK", "ASK", "SAVE"}, NEW rec \in Row, rec.request = rows[i].request,
         FollowsIn(rec, transfers), pc = "ASK" => rec.tx # 0, pc = "CHECK" => rec.tx = 0,
         call' = [call EXCEPT ![c] = [pc |-> pc, id |-> i, rec |-> rec]],
         UNCHANGED <<rows, transfers>>
  PROVE  Step
  <1> DEFINE new == [pc |-> pc, id |-> i, rec |-> rec]
  <1>1. new \in Sending
    BY TablesKept DEF Sending
  <1>2. SendInv(new, rows, transfers)
    BY <1>1, TablesKept DEF SendInv
  <1>3. call[c] \notin Batching
    BY CallKinds DEF At
  <1>4. CallInv(new, rows', transfers') /\ Carries(call[c], new)
    BY <1>2, <1>3 DEF CallInv, Carries
  <1> HIDE DEF new
  <1>5. TablesInv(rows', transfers') /\ Keeps(rows, rows') /\ Grows(transfers, transfers')
    BY TablesKept
  <1>6. call' = [call EXCEPT ![c] = new]
    BY DEF new
  <1>7. QED
    BY <1>4, <1>5, <1>6, CallStep

\* submit begins with a copy of its row.
LEMMA SubmitStep ==
  ASSUME PaymentInv, NEW c \in Calls, NEW i \in DOMAIN rows, Submit(c, i)
  PROVE  Step
  <1>1. rows[i] \in Row /\ FollowsIn(rows[i], transfers)
    BY TablesKept
  <1>2. QED
    BY <1>1, StartStep DEF Submit

\* So does reconcile.
LEMMA ReconcileStep ==
  ASSUME PaymentInv, NEW c \in Calls, NEW i \in DOMAIN rows, Reconcile(c, i)
  PROVE  Step
  <1>1. rows[i] \in Row /\ FollowsIn(rows[i], transfers)
    BY TablesKept
  <1>2. QED
    BY <1>1, StartStep DEF Reconcile

\* A state that a transfer has been in goes with the copy of the row that names it.
LEMMA ApplyProviderStateStep ==
  ASSUME PaymentInv, NEW c \in Calls, NEW t \in DOMAIN transfers, ApplyProviderState(c, t)
  PROVE  Step
  <1>1. PICK i \in DOMAIN rows, s \in Past(transfers[t].state) :
          /\ rows[i].tx = t
          /\ call' = [call EXCEPT ![c] = [pc |-> "SAVE", id |-> i, rec |-> [rows[i] EXCEPT !.state = s]]]
    BY DEF ApplyProviderState
  <1>2. UNCHANGED <<rows, transfers>> /\ At(c, "IDLE")
    BY DEF ApplyProviderState
  <1>3. rows[i] \in Row /\ FollowsIn(rows[i], transfers) /\ transfers[t] \in Transfer
    BY TablesKept
  <1>4. PICK rec : rec = [rows[i] EXCEPT !.state = s]
    OBVIOUS
  <1>5. s \in PaymentStates
    BY <1>3 DEF Past, Transfer, Terminal, PaymentStates
  <1>6. rec \in Row /\ rec.request = rows[i].request /\ rec.tx = t /\ rec.state = s
    BY <1>1, <1>3, <1>4, <1>5 DEF Row
  <1>7. t # 0
    BY TablesKept
  <1>8. FollowsIn(rec, transfers)
    BY <1>1, <1>3, <1>6, <1>7 DEF FollowsIn
  <1>9. call' = [call EXCEPT ![c] = [pc |-> "SAVE", id |-> i, rec |-> rec]]
    BY <1>1, <1>4
  <1>10. QED
    BY <1>2, <1>6, <1>8, <1>9, StartStep

\* A call that writes a record back writes it over the row it came from.
LEMMA WriteBack ==
  ASSUME PaymentInv, NEW c \in Calls, SendInv(call[c], rows, transfers),
         NEW row \in Row, row.request = call[c].rec.request, FollowsIn(row, transfers),
         rows' = [rows EXCEPT ![call[c].id] = row], call' = [call EXCEPT ![c] = Idle],
         UNCHANGED transfers
  PROVE  Step
  <1>1. call[c].id \in DOMAIN rows /\ row.request = rows[call[c].id].request
    BY DEF SendInv
  <1>2. TablesInv(rows', transfers) /\ Keeps(rows, rows')
    BY <1>1, RowReplaced, TablesKept
  <1>3. QED
    BY <1>2, IdleStep

\* A payment held for review has no transfer: the copy was read before it had one.
LEMMA HoldForReviewStep ==
  ASSUME PaymentInv, NEW c \in Calls, HoldForReview(c)
  PROVE  Step
  <1>1. SendInv(call[c], rows, transfers) /\ call[c].pc = "CHECK"
    BY CallKinds DEF HoldForReview, At
  <1>2. call[c].rec \in Row /\ call[c].rec.tx = 0
    BY <1>1 DEF SendInv, Sending
  <1>3. PICK row : row = [call[c].rec EXCEPT !.state = "manual_review"]
    OBVIOUS
  <1>4. row \in Row /\ row.request = call[c].rec.request /\ row.tx = 0 /\ row.state = "manual_review"
    BY <1>2, <1>3 DEF Row, PaymentStates, Unsent
  <1>5. FollowsIn(row, transfers)
    BY <1>4 DEF FollowsIn, Unsent
  <1>6. QED
    BY <1>1, <1>3, <1>4, <1>5, WriteBack DEF HoldForReview

\* save stores the copy, whose transfer, if it has one, is of its reference.
LEMMA SaveStep ==
  ASSUME PaymentInv, NEW c \in Calls, Save(c)
  PROVE  Step
  <1>1. SendInv(call[c], rows, transfers)
    BY CallKinds DEF Save, At
  <1>2. call[c].rec \in Row /\ FollowsIn(call[c].rec, transfers)
    BY <1>1 DEF SendInv, Sending
  <1>3. QED
    BY <1>1, <1>2, WriteBack DEF Save

\* A call has its answer, and a copy to store.
LEMMA SendingStep ==
  ASSUME PaymentInv, NEW c \in Calls, SendInv(call[c], rows, transfers),
         NEW rec \in Row, rec.request = call[c].rec.request, FollowsIn(rec, transfers'),
         call' = [call EXCEPT ![c] = [pc |-> "SAVE", id |-> call[c].id, rec |-> rec]],
         UNCHANGED rows, TablesInv(rows, transfers'), Grows(transfers, transfers')
  PROVE  Step
  <1> DEFINE new == [pc |-> "SAVE", id |-> call[c].id, rec |-> rec]
  <1>1. call[c].id \in DOMAIN rows /\ call[c].id \in Nat /\ rec.request = rows[call[c].id].request
    BY DEF SendInv, Sending
  <1>2. new \in Sending
    BY <1>1 DEF Sending
  <1>3. SendInv(new, rows', transfers')
    BY <1>1, <1>2 DEF SendInv
  <1>4. call[c] \notin Batching
    BY NoneIsNotSent DEF SendInv
  <1>5. CallInv(new, rows', transfers') /\ Carries(call[c], new)
    BY <1>3, <1>4 DEF CallInv, Carries
  <1> HIDE DEF new
  <1>6. TablesInv(rows', transfers') /\ Keeps(rows, rows')
    BY KeepsItself
  <1>7. call' = [call EXCEPT ![c] = new]
    BY DEF new
  <1>8. QED
    BY <1>5, <1>6, <1>7, CallStep

\* What a call that sends becomes when it goes on.
LEMMA SendingRecord ==
  ASSUME NEW k \in Sending, NEW pc, NEW rec
  PROVE  [k EXCEPT !.pc = pc, !.rec = rec] = [pc |-> pc, id |-> k.id, rec |-> rec]
  <1> DEFINE moved == [k EXCEPT !.pc = pc, !.rec = rec]
             new == [pc |-> pc, id |-> k.id, rec |-> rec]
  <1>1. DOMAIN k = {"pc", "id", "rec"}
    BY DEF Sending
  <1>2. DOMAIN moved = {"pc", "id", "rec"} /\ moved["pc"] = pc /\ moved["id"] = k["id"] /\ moved["rec"] = rec
    BY <1>1
  <1>3. DOMAIN new = {"pc", "id", "rec"} /\ new["pc"] = pc /\ new["id"] = k["id"] /\ new["rec"] = rec
    OBVIOUS
  <1>4. moved = [f \in {"pc", "id", "rec"} |-> moved[f]]
    BY <1>2
  <1>5. new = [f \in {"pc", "id", "rec"} |-> new[f]]
    BY <1>3
  <1> HIDE DEF moved, new
  <1>6. moved = new
    BY <1>2, <1>3, <1>4, <1>5
  <1>7. QED
    BY <1>6 DEF moved, new

\* The state of the provider's transfer goes into the copy.
LEMMA GetTransactionStep ==
  ASSUME PaymentInv, NEW c \in Calls, GetTransaction(c)
  PROVE  Step
  <1>1. SendInv(call[c], rows, transfers) /\ call[c].pc = "ASK"
    BY CallKinds DEF GetTransaction, At
  <1>2. /\ call[c] \in Sending /\ call[c].rec \in Row /\ call[c].rec.tx # 0 /\ call[c].rec.tx \in DOMAIN transfers
        /\ transfers[call[c].rec.tx].ref = call[c].rec.request.ref
    BY <1>1 DEF SendInv, Sending, FollowsIn
  <1>3. PICK rec : rec = [call[c].rec EXCEPT !.state = transfers[call[c].rec.tx].state]
    OBVIOUS
  <1>4. transfers[call[c].rec.tx] \in Transfer
    BY <1>2, TablesKept
  <1>5. /\ rec \in Row /\ rec.request = call[c].rec.request /\ rec.tx = call[c].rec.tx
        /\ rec.state = transfers[call[c].rec.tx].state
    BY <1>2, <1>3, <1>4 DEF Row, Transfer, PaymentStates
  <1>6. [call[c] EXCEPT !.pc = "SAVE", !.rec.state = transfers[call[c].rec.tx].state]
          = [pc |-> "SAVE", id |-> call[c].id, rec |-> rec]
    <2>1. [call[c] EXCEPT !.pc = "SAVE", !.rec.state = transfers[call[c].rec.tx].state]
            = [call[c] EXCEPT !.pc = "SAVE", !.rec = rec]
      <3>1. PICK k \in Sending : k = call[c]
        BY <1>2
      <3>2. PICK s : s = transfers[call[c].rec.tx].state
        OBVIOUS
      <3>3. [k EXCEPT !.pc = "SAVE", !.rec.state = s]
              = [k EXCEPT !.pc = "SAVE", !.rec = [k.rec EXCEPT !.state = s]]
        BY DEF Sending
      <3>4. QED
        BY <1>3, <3>1, <3>2, <3>3
    <2>2. QED
      BY <1>2, <2>1, SendingRecord
  <1>7. DOMAIN call = Calls
    BY DEF PaymentInv
  <1>8. call' = [call EXCEPT ![c] = [pc |-> "SAVE", id |-> call[c].id, rec |-> rec]]
    BY <1>6, <1>7 DEF GetTransaction
  <1>9. UNCHANGED <<rows, transfers>>
    BY DEF GetTransaction
  <1>10. TablesInv(rows, transfers') /\ Grows(transfers, transfers')
    BY <1>9, TablesKept
  <1>11. FollowsIn(rec, transfers')
    BY <1>2, <1>5, <1>9 DEF FollowsIn, Past
  <1>12. QED
    BY <1>1, <1>5, <1>8, <1>9, <1>10, <1>11, SendingStep

\* submitTransfer: the transfers that were there stay as they were, and a new one
\* is of the reference it is made for.
LEMMA Submitted ==
  ASSUME PaymentInv, NEW c \in Calls, SubmitTransfer(c), SendInv(call[c], rows, transfers)
  PROVE  /\ TablesInv(rows, transfers') /\ Grows(transfers, transfers')
         /\ Len(transfers') \in DOMAIN transfers' /\ Len(transfers') \in 1..MaxStored
         /\ transfers'[Len(transfers')].ref = call[c].rec.request.ref
         /\ transfers'[Len(transfers')].state = "pending"
  <1>1. PICK n \in Nat, r \in Nat : n = Len(transfers) /\ r = Len(rows)
    BY TablesKept
  <1>2. transfers \in Seq(Transfer) /\ n <= MaxStored /\ MaxStored \in Nat
    BY <1>1, TablesKept, PaymentAssumption DEF PaymentAssumption
  <1> DEFINE new == [ref |-> call[c].rec.request.ref, state |-> "pending"]
  <1>3. transfers' = Append(transfers, new) /\ n < MaxStored
    <2>1. r + n < MaxStored
      BY <1>1 DEF SubmitTransfer
    <2>2. QED
      BY <1>2, <2>1 DEF SubmitTransfer
  <1>4. call[c].rec.request \in Payments
    BY DEF SendInv, Sending, Row
  <1>5. new \in Transfer /\ new.ref = call[c].rec.request.ref /\ new.state = "pending"
    BY <1>4 DEF Transfer
  <1> HIDE DEF new
  <1>6. transfers' \in Seq(Transfer) /\ Len(transfers') = n + 1
    BY <1>1, <1>2, <1>3, <1>5
  <1>7. /\ DOMAIN transfers' = 1..(n + 1) /\ DOMAIN transfers = 1..n
        /\ transfers'[n + 1] = new /\ \A u \in DOMAIN transfers : transfers'[u] = transfers[u]
    BY <1>1, <1>2, <1>3, <1>6
  <1>8. Grows(transfers, transfers')
    BY <1>7 DEF Grows
  <1>9. TablesInv(rows, transfers')
    <2>1. \A i \in DOMAIN rows : FollowsIn(rows[i], transfers')
      BY <1>8, FollowsOn, TablesKept
    <2>2. Len(transfers') <= MaxStored
      BY <1>2, <1>3, <1>6
    <2>3. QED
      BY <1>6, <2>1, <2>2, TablesKept DEF TablesInv
  <1>10. n + 1 \in 1..(n + 1) /\ n + 1 \in 1..MaxStored
    BY <1>2, <1>3
  <1>11. QED
    BY <1>5, <1>6, <1>7, <1>8, <1>9, <1>10

\* A submission gets a transfer of its own, of its reference.
LEMMA SubmitTransferStep ==
  ASSUME PaymentInv, NEW c \in Calls, SubmitTransfer(c)
  PROVE  Step
  <1>1. SendInv(call[c], rows, transfers)
    BY CallKinds DEF SubmitTransfer, At
  <1>2. call[c] \in Sending /\ call[c].rec \in Row
    BY <1>1 DEF SendInv, Sending
  <1>3. PICK t : t = Len(transfers')
    OBVIOUS
  <1>4. /\ TablesInv(rows, transfers') /\ Grows(transfers, transfers')
        /\ t \in DOMAIN transfers' /\ t \in 1..MaxStored
        /\ transfers'[t].ref = call[c].rec.request.ref /\ transfers'[t].state = "pending"
    BY <1>1, <1>3, Submitted
  <1>5. PICK rec : rec = [call[c].rec EXCEPT !.tx = t, !.state = "pending"]
    OBVIOUS
  <1>6. rec \in Row /\ rec.request = call[c].rec.request /\ rec.tx = t /\ rec.state = "pending"
    <2>1. MaxStored \in Nat
      BY PaymentAssumption DEF PaymentAssumption
    <2>2. t \in 0..MaxStored
      BY <1>4, <2>1
    <2>3. PICK s \in PaymentStates : s = "pending"
      BY DEF PaymentStates
    <2>4. rec = [call[c].rec EXCEPT !.tx = t, !.state = s]
      BY <1>5, <2>3
    <2>5. QED
      BY <1>2, <2>2, <2>3, <2>4 DEF Row
  <1>7. [call[c] EXCEPT !.pc = "SAVE", !.rec = [call[c].rec EXCEPT !.tx = t, !.state = "pending"]]
          = [pc |-> "SAVE", id |-> call[c].id, rec |-> rec]
    BY <1>2, <1>5, SendingRecord
  <1>8. DOMAIN call = Calls
    BY DEF PaymentInv
  <1>9. call' = [call EXCEPT ![c] = [pc |-> "SAVE", id |-> call[c].id, rec |-> rec]]
    <2>1. call' = [call EXCEPT ![c].pc = "SAVE", ![c].rec = [@ EXCEPT !.tx = t, !.state = "pending"]]
      BY <1>3 DEF SubmitTransfer
    <2>2. QED
      BY <1>7, <1>8, <2>1
  <1>10. UNCHANGED rows
    BY DEF SubmitTransfer
  <1>11. t # 0
    BY <1>4
  <1>12. FollowsIn(rec, transfers')
    BY <1>4, <1>6, <1>11 DEF FollowsIn, Past
  <1>13. QED
    BY <1>1, <1>4, <1>6, <1>9, <1>10, <1>12, SendingStep

\* A call that fails leaves nothing behind.
LEMMA FailsStep ==
  ASSUME PaymentInv, NEW c \in Calls, Fails(c)
  PROVE  Step
  BY TablesKept, IdleStep DEF Fails

\* A call that returns leaves nothing behind.
LEMMA ReturnStep ==
  ASSUME PaymentInv, NEW c \in Calls, Return(c)
  PROVE  Step
  BY TablesKept, IdleStep DEF Return

\* The provider settles a transfer, or reverts it: what it has been it stays.
LEMMA TransferMovesStep ==
  ASSUME PaymentInv, NEW t \in DOMAIN transfers, TransferMoves(t)
  PROVE  Step
  <1>1. PICK s \in Terminal :
          /\ transfers[t].state = IF s = "reverted" THEN "completed" ELSE "pending"
          /\ transfers' = [transfers EXCEPT ![t].state = s]
    BY DEF TransferMoves
  <1>2. UNCHANGED <<rows, call>>
    BY DEF TransferMoves
  <1>3. PICK new : new = [transfers[t] EXCEPT !.state = s]
    OBVIOUS
  <1>4. transfers[t] \in Transfer
    BY TablesKept
  <1>5. new \in Transfer /\ new.ref = transfers[t].ref /\ new.state = s
    BY <1>3, <1>4 DEF Transfer
  <1>6. transfers' = [transfers EXCEPT ![t] = new]
    BY <1>1, <1>3
  <1>7. /\ transfers' \in Seq(Transfer) /\ Len(transfers') = Len(transfers) /\ DOMAIN transfers' = DOMAIN transfers
        /\ transfers'[t] = new /\ \A u \in DOMAIN transfers \ {t} : transfers'[u] = transfers[u]
    BY <1>5, <1>6, TablesKept
  <1>8. Past(transfers[t].state) \subseteq Past(new.state)
    BY <1>1, <1>5 DEF Past, Terminal
  <1>9. Grows(transfers, transfers')
    BY <1>5, <1>7, <1>8 DEF Grows
  <1>10. \A i \in DOMAIN rows : FollowsIn(rows[i], transfers')
    BY <1>9, FollowsOn, TablesKept
  <1>11. TablesInv(rows, transfers')
    BY <1>7, <1>10, TablesKept DEF TablesInv
  <1>12. QED
    BY <1>2, <1>9, <1>11, TableStep, KeepsItself

----------------------------------------------------------------------------
(* Preparing a batch.                                                      *)

\* A function on 1..n is a sequence of length n.
LEMMA FunctionIsSeq ==
  ASSUME NEW S, NEW n \in Nat, NEW f \in [1..n -> S]
  PROVE  f \in Seq(S) /\ Len(f) = n
  BY SeqDef

\* Before any account was asked about there are no balances.
LEMMA NoFunds == NoBalances \in Funds
  <1>1. NoBalances \in [{} -> Nat] /\ {} \in SUBSET Accounts
    BY DEF NoBalances
  <1>2. QED
    BY <1>1 DEF Funds

\* A batch begins with nothing looked up.
LEMMA PrepareManyStep ==
  ASSUME PaymentInv, NEW c \in Calls, NEW b \in Seq(Payments), NEW atomic \in BOOLEAN,
         PrepareMany(c, b, atomic)
  PROVE  Step
  <1> DEFINE new == [pc |-> "LOOKUP", batch |-> b, atomic |-> atomic, out |-> <<>>, available |-> NoBalances]
  <1>1. new \in Batching
    BY NoFunds DEF Batching
  <1>2. new.pc = "LOOKUP" /\ new.out = <<>> /\ new.batch = b
    OBVIOUS
  <1> HIDE DEF new
  <1>3. LookupInv(new, rows)
    BY <1>2 DEF LookupInv
  <1>4. call[c] \notin Batching
    BY CallKinds DEF PrepareMany, At
  <1>5. UNCHANGED <<rows, transfers>> /\ call' = [call EXCEPT ![c] = new]
    BY DEF PrepareMany, new
  <1>6. BatchInv(new, rows')
    BY <1>1, <1>2, <1>3, <1>5 DEF BatchInv
  <1>7. CallInv(new, rows', transfers') /\ Carries(call[c], new)
    BY <1>4, <1>6 DEF CallInv, Carries
  <1>8. TablesInv(rows', transfers') /\ Keeps(rows, rows') /\ Grows(transfers, transfers')
    BY <1>5, TablesKept
  <1>9. QED
    BY <1>5, <1>7, <1>8, CallStep

\* The caller may bring any batch.
LEMMA PrepareStep ==
  ASSUME PaymentInv, NEW c \in Calls, Prepare(c)
  PROVE  Step
  <1>1. PICK b \in Batches, atomic \in BOOLEAN : PrepareMany(c, b, atomic)
    BY DEF Prepare
  <1>2. b \in Seq(Payments)
    BY PaymentAssumption DEF PaymentAssumption
  <1>3. QED
    BY <1>1, <1>2, PrepareManyStep

\* assess: what is called existing is stored.
LEMMA AssessedIsStored ==
  ASSUME PaymentInv, NEW b \in Seq(Payments), NEW i \in DOMAIN b, NEW o \in Assessed(b, i)
  PROVE  o \in Outcomes /\ o # "prepared" /\ (o = "existing" => Stored(b[i], rows))
  <1>1. o \in Outcomes /\ o # "prepared"
    BY DEF Assessed, Outcomes
  <1>2. ASSUME o = "existing" PROVE Stored(b[i], rows)
    <2>1. Holders(b[i].ref) # {} /\ rows[Min(Holders(b[i].ref))].request = b[i]
      BY <1>2 DEF Assessed
    <2>2. PICK n \in Nat : n = Len(rows)
      BY TablesKept
    <2>3. DOMAIN rows = 1..n
      BY <2>2, TablesKept
    <2>4. IsFiniteSet(DOMAIN rows)
      BY <2>3, FS_Interval
    <2>5. Holders(b[i].ref) \in SUBSET (DOMAIN rows)
      BY DEF Holders
    <2>6. IsFiniteSet(Holders(b[i].ref)) /\ Holders(b[i].ref) \subseteq Nat
      BY <2>3, <2>4, <2>5, FS_Subset
    <2>7. Min(Holders(b[i].ref)) \in DOMAIN rows
      BY <2>1, <2>5, <2>6, MinIsMember
    <2>8. QED
      BY <2>1, <2>7 DEF Stored
  <1>3. QED
    BY <1>1, <1>2

\* The next payment of a batch is known, or one to prepare.
LEMMA LookUpStep ==
  ASSUME PaymentInv, NEW c \in Calls, LookUp(c)
  PROVE  Step
  <1> DEFINE k == call[c]
  <1>1. BatchInv(k, rows) /\ k.pc = "LOOKUP" /\ Len(k.out) # Len(k.batch)
    BY CallKinds DEF LookUp, LookedUp, At
  <1>2. k \in Batching /\ LookupInv(k, rows)
    BY <1>1 DEF BatchInv
  <1>3. k.batch \in Seq(Payments) /\ k.out \in Seq(Outcomes) /\ k.available \in Funds
    BY <1>2 DEF Batching
  <1>4. PICK o \in Assessed(k.batch, Len(k.out) + 1) : call' = [call EXCEPT ![c].out = Append(@, o)]
    BY DEF LookUp
  <1>5. UNCHANGED <<rows, transfers>>
    BY DEF LookUp
  <1>6. PICK n \in Nat, m \in Nat : n = Len(k.out) /\ m = Len(k.batch)
    BY <1>3
  <1>7. n < m
    BY <1>1, <1>2, <1>6 DEF LookupInv
  <1>8. DOMAIN k.batch = 1..m /\ DOMAIN k.out = 1..n
    BY <1>3, <1>6
  <1>9. o \in Outcomes /\ o # "prepared" /\ (o = "existing" => Stored(k.batch[n + 1], rows))
    BY <1>3, <1>4, <1>6, <1>7, <1>8, AssessedIsStored
  <1>10. PICK out : out = Append(k.out, o)
    OBVIOUS
  <1>11. /\ out \in Seq(Outcomes) /\ Len(out) = n + 1 /\ DOMAIN out = 1..(n + 1)
         /\ out[n + 1] = o /\ \A i \in 1..n : out[i] = k.out[i]
    BY <1>3, <1>6, <1>9, <1>10
  <1>12. PICK new : new = [k EXCEPT !.pc = "LOOKUP", !.available = k.available, !.out = out]
    OBVIOUS
  <1>13. /\ new \in Batching
         /\ new.pc = "LOOKUP" /\ new.out = out /\ new.batch = k.batch /\ new.atomic = k.atomic
    BY <1>2, <1>3, <1>11, <1>12 DEF Batching
  <1>14. DOMAIN call = Calls
    BY DEF PaymentInv
  <1>15. call' = [call EXCEPT ![c] = new]
    <2>1. [k EXCEPT !.out = out] = [k EXCEPT !.pc = k.pc, !.available = k.available, !.out = out]
      BY <1>2 DEF Batching
    <2>2. [k EXCEPT !.out = Append(@, o)] = new
      BY <1>1, <1>10, <1>12, <2>1
    <2>3. QED
      BY <1>4, <1>14, <2>2
  <1>16. LookupInv(new, rows')
    <2>1. \A i \in 1..(n + 1) : i \in 1..n \/ i = n + 1
      OBVIOUS
    <2>2. \A i \in DOMAIN out : out[i] # "prepared"
      BY <1>2, <1>8, <1>9, <1>11, <2>1 DEF LookupInv
    <2>3. \A i \in DOMAIN out : out[i] = "existing" => Stored(k.batch[i], rows)
      BY <1>2, <1>8, <1>9, <1>11, <2>1 DEF LookupInv
    <2>4. QED
      BY <1>5, <1>6, <1>7, <1>11, <1>13, <2>2, <2>3 DEF LookupInv
  <1>17. CallInv(new, rows', transfers') /\ Carries(k, new)
    BY <1>13, <1>16 DEF CallInv, BatchInv, Carries
  <1>18. TablesInv(rows', transfers') /\ Keeps(rows, rows') /\ Grows(transfers, transfers')
    BY <1>5, TablesKept
  <1>19. QED
    BY <1>15, <1>17, <1>18, CallStep

\* Every payment of a batch that was looked up is stored already, refused, or
\* waiting for the funds check.
LEMMA SettledOutcomes ==
  ASSUME PaymentInv, NEW c \in Calls, LookedUp(c), NEW kept \in SUBSET Pending(c),
         NEW out, out = Finished(c, kept)
  PROVE  /\ BatchInv(call[c], rows) /\ LookupInv(call[c], rows) /\ call[c] \in Batching
         /\ out \in Seq(Outcomes) /\ Len(out) = Len(call[c].batch) /\ DOMAIN out = DOMAIN call[c].out
         /\ Pending(c) \subseteq DOMAIN out
         /\ \A i \in Pending(c) : out[i] = IF i \in kept THEN "prepared" ELSE "rejected"
         /\ \A i \in DOMAIN out \ Pending(c) :
              out[i] = call[c].out[i] /\ out[i] \in {"existing", "rejected"}
  <1> DEFINE k == call[c]
  <1>1. BatchInv(k, rows) /\ k.pc = "LOOKUP" /\ Len(k.out) = Len(k.batch)
    BY CallKinds DEF LookedUp, At
  <1>2. k \in Batching /\ LookupInv(k, rows)
    BY <1>1 DEF BatchInv
  <1>3. k.batch \in Seq(Payments) /\ k.out \in Seq(Outcomes)
    BY <1>2 DEF Batching
  <1>4. PICK n \in Nat : n = Len(k.out)
    BY <1>3
  <1>5. DOMAIN k.out = 1..n /\ \A i \in 1..n : k.out[i] \in Outcomes
    BY <1>3, <1>4
  <1>6. /\ DOMAIN out = 1..n
        /\ \A i \in 1..n : out[i] = IF i \in kept THEN "prepared"
                                   ELSE IF i \in Pending(c) THEN "rejected" ELSE k.out[i]
    BY <1>5 DEF Finished
  <1>7. Pending(c) = {i \in 1..n : k.out[i] \in {"funds_confirmed", "manual_review"}}
    BY <1>5 DEF Pending, Of
  <1>8. \A i \in 1..n : i \notin Pending(c) => k.out[i] \in {"existing", "rejected"}
    BY <1>2, <1>5, <1>7 DEF LookupInv, Outcomes
  <1>9. \A i \in 1..n : out[i] \in Outcomes
    BY <1>5, <1>6 DEF Outcomes
  <1>10. out \in [1..n -> Outcomes]
    <2>1. out = [i \in DOMAIN k.out |-> IF i \in kept THEN "prepared"
                                        ELSE IF i \in Pending(c) THEN "rejected" ELSE k.out[i]]
      BY DEF Finished
    <2>2. QED
      BY <1>5, <1>6, <1>9, <2>1
  <1>11. out \in Seq(Outcomes) /\ Len(out) = n
    BY <1>10, FunctionIsSeq
  <1>12. QED
    BY <1>1, <1>2, <1>4, <1>5, <1>6, <1>7, <1>8, <1>11

\* A batch that is aborted stores nothing.
LEMMA AbortStep ==
  ASSUME PaymentInv, NEW c \in Calls, Abort(c)
  PROVE  Step
  <1> DEFINE k == call[c]
  <1>1. PICK out : out = Finished(c, {})
    OBVIOUS
  <1>2. LookedUp(c) /\ UNCHANGED <<rows, transfers>>
    BY DEF Abort
  <1>3. /\ LookupInv(k, rows) /\ k \in Batching
        /\ out \in Seq(Outcomes) /\ Len(out) = Len(k.batch) /\ DOMAIN out = DOMAIN k.out
        /\ \A i \in DOMAIN out : out[i] = "rejected" \/ (out[i] = k.out[i] /\ out[i] = "existing")
    BY <1>1, <1>2, SettledOutcomes
  <1>4. k.available \in Funds
    BY <1>3 DEF Batching
  <1>5. PICK new : new = [k EXCEPT !.pc = "DONE", !.available = k.available, !.out = out]
    OBVIOUS
  <1>6. /\ new \in Batching
        /\ new.pc = "DONE" /\ new.out = out /\ new.batch = k.batch /\ new.atomic = k.atomic
    BY <1>3, <1>4, <1>5 DEF Batching
  <1>7. DOMAIN call = Calls
    BY DEF PaymentInv
  <1>8. call' = [call EXCEPT ![c] = new]
    <2>1. [k EXCEPT !.pc = "DONE", !.out = out] = new
      BY <1>3, <1>5 DEF Batching
    <2>2. call' = [call EXCEPT ![c].pc = "DONE", ![c].out = out]
      BY <1>1 DEF Abort
    <2>3. QED
      BY <1>7, <2>1, <2>2
  <1>9. PreparedIn(new) = {} /\ \A a \in Accounts : DrawnOn(new.batch, PreparedIn(new), a) = {}
    BY <1>3, <1>6 DEF PreparedIn, DrawnOn
  <1>10. DoneInv(new, rows')
    BY <1>2, <1>3, <1>6, <1>9 DEF DoneInv, LookupInv
  <1>11. CallInv(new, rows', transfers') /\ Carries(k, new)
    BY <1>6, <1>10 DEF CallInv, BatchInv, Carries
  <1>12. TablesInv(rows', transfers') /\ Keeps(rows, rows') /\ Grows(transfers, transfers')
    BY <1>2, TablesKept
  <1>13. QED
    BY <1>8, <1>11, <1>12, CallStep

----------------------------------------------------------------------------
(* saveMany: every payment that is kept of the batch gets a row of its own. *)

\* The rows a batch stores are those of the payments it keeps, in their order.
LEMMA SavedRows ==
  ASSUME PaymentInv, NEW c \in Calls, LookedUp(c), NEW S \in SUBSET Pending(c)
  PROVE  /\ Saved(c, S) \in Seq(Row) /\ Len(Saved(c, S)) = Cardinality(S)
         /\ \A n \in 1..Len(Saved(c, S)) : Saved(c, S)[n].tx = 0 /\ Saved(c, S)[n].state \in Unsent
         /\ \A i \in S :
              /\ Rank(S, i) \in 1..Len(Saved(c, S))
              /\ Saved(c, S)[Rank(S, i)].request = call[c].batch[i]
  <1> DEFINE k == call[c]
  <1>1. BatchInv(k, rows) /\ k.pc = "LOOKUP" /\ Len(k.out) = Len(k.batch)
    BY CallKinds DEF LookedUp, At
  <1>2. k \in Batching
    BY <1>1 DEF BatchInv
  <1>3. k.batch \in Seq(Payments) /\ k.out \in Seq(Outcomes)
    BY <1>2 DEF Batching
  <1>4. PICK m \in Nat : m = Len(k.out)
    BY <1>3
  <1>5. DOMAIN k.out = 1..m /\ DOMAIN k.batch = 1..m
    BY <1>1, <1>3, <1>4
  <1>6. \A i \in S : i \in 1..m /\ k.out[i] \in Unsent
    BY <1>5 DEF Pending, Of, Unsent
  <1>7. IsFiniteSet(1..m)
    BY FS_Interval
  <1>8. IsFiniteSet(S) /\ S \subseteq Nat
    BY <1>6, <1>7, FS_Subset
  <1>9. \A i \in S : k.batch[i] \in Payments /\ k.out[i] \in PaymentStates
    BY <1>3, <1>5, <1>6 DEF PaymentStates
  <1>10. \A i \in S : NewRow(k.batch[i], k.out[i]) \in Row
    <2>1. SUFFICES ASSUME NEW i \in S PROVE NewRow(k.batch[i], k.out[i]) \in Row
      OBVIOUS
    <2>2. 0 \in 0..MaxStored
      BY PaymentAssumption DEF PaymentAssumption
    <2>3. QED
      BY <1>9, <2>2 DEF NewRow, Row
  <1>11. Cardinality(S) \in Nat
    BY <1>8, FS_CardinalityType
  <1>12. PICK n \in Nat : n = Cardinality(S)
    BY <1>11
  <1>13. \A j \in 1..n : Nth(S, j) \in S
    BY <1>8, <1>12, RankIsPlace
  <1>14. Saved(c, S) = [j \in 1..n |-> NewRow(k.batch[Nth(S, j)], k.out[Nth(S, j)])]
    BY <1>12 DEF Saved
  <1>15. Saved(c, S) \in [1..n -> Row]
    BY <1>10, <1>13, <1>14
  <1>16. Saved(c, S) \in Seq(Row) /\ Len(Saved(c, S)) = n
    BY <1>15, FunctionIsSeq
  <1>17. \A j \in 1..n : /\ Saved(c, S)[j].tx = 0 /\ Saved(c, S)[j].state \in Unsent
                           /\ Saved(c, S)[j].request = k.batch[Nth(S, j)]
    BY <1>6, <1>13, <1>14 DEF NewRow
  <1>18. \A i \in S : Rank(S, i) \in 1..n /\ Nth(S, Rank(S, i)) = i
    BY <1>8, <1>12, RankStep, RankIsPlace
  <1>19. QED
    BY <1>8, <1>12, <1>16, <1>17, <1>18

\* The rows before and after.
LEMMA RowsAppended ==
  ASSUME PaymentInv, NEW new \in Seq(Row), \A n \in 1..Len(new) : new[n].tx = 0 /\ new[n].state \in Unsent,
         NEW rs, rs = rows \o new
  PROVE  /\ TablesInv(rs, transfers) /\ Keeps(rows, rs)
         /\ \A n \in 1..Len(new) : Stored(new[n].request, rs)
  <1>1. PICK a \in Nat, b \in Nat : a = Len(rows) /\ b = Len(new)
    BY TablesKept
  <1>2. rows \in Seq(Row) /\ DOMAIN rows = 1..a
    BY <1>1, TablesKept
  <1>3. rs \in Seq(Row) /\ DOMAIN rs = 1..(a + b)
    BY <1>1, <1>2
  <1>4. \A i \in 1..a : rs[i] = rows[i]
    BY <1>1, <1>2
  <1>5. \A n \in 1..b : a + n \in 1..(a + b) /\ rs[a + n] = new[n]
    BY <1>1, <1>2
  <1>6. Keeps(rows, rs)
    BY <1>2, <1>3, <1>4 DEF Keeps
  <1>7. \A i \in DOMAIN rs : FollowsIn(rs[i], transfers)
    <2>1. SUFFICES ASSUME NEW i \in 1..(a + b) PROVE FollowsIn(rs[i], transfers)
      BY <1>3
    <2>2. CASE i \in 1..a
      BY <1>2, <1>4, <2>2, TablesKept
    <2>3. CASE i \notin 1..a
      <3>1. i - a \in 1..b /\ a + (i - a) = i
        BY <2>3
      <3>2. rs[i] = new[i - a]
        BY <1>5, <3>1
      <3>3. QED
        BY <1>1, <3>1, <3>2 DEF FollowsIn
    <2>4. QED
      BY <2>2, <2>3
  <1>8. TablesInv(rs, transfers)
    BY <1>3, <1>7, TablesKept DEF TablesInv
  <1>9. \A n \in 1..b : Stored(new[n].request, rs)
    BY <1>3, <1>5 DEF Stored
  <1>10. QED
    BY <1>1, <1>6, <1>8, <1>9

\* The payments a funds check keeps are those of the groups that are covered, or
\* none of them.
LEMMA KeptIsCovered ==
  ASSUME NEW c \in Calls, NEW available, NEW kept, kept = Kept(c, available), kept # {}
  PROVE  /\ kept = Covered(c, available) /\ kept \subseteq Pending(c)
         /\ call[c].atomic => kept = Pending(c)
         /\ \A a \in Accounts : DrawnOn(call[c].batch, kept, a) # {} =>
              Debits(call[c].batch, DrawnOn(call[c].batch, kept, a)) <= available[a]
  <1>1. kept = Covered(c, available) /\ (call[c].atomic => kept = Pending(c))
    BY DEF Kept
  <1>2. \A i \in kept : i \in Pending(c) /\ Aggregate(c, call[c].batch[i].account) <= available[call[c].batch[i].account]
    BY <1>1 DEF Covered
  <1>3. ASSUME NEW a \in Accounts, NEW i \in DrawnOn(call[c].batch, kept, a)
        PROVE  Debits(call[c].batch, DrawnOn(call[c].batch, kept, a)) <= available[a]
    <2>1. i \in kept /\ call[c].batch[i].account = a
      BY <1>3 DEF DrawnOn
    <2>2. Aggregate(c, a) <= available[a]
      BY <1>2, <2>1
    <2>3. \A j \in Pending(c) : call[c].batch[j].account = a => j \in kept
      BY <1>1, <2>2 DEF Covered
    <2>4. DrawnOn(call[c].batch, kept, a) = DrawnOn(call[c].batch, Pending(c), a)
      BY <1>2, <2>3 DEF DrawnOn
    <2>5. QED
      BY <2>2, <2>4 DEF Aggregate
  <1>4. QED
    BY <1>1, <1>2, <1>3

\* The balances that were asked for are those of the accounts of the batch.
LEMMA BalancesAreFunds ==
  ASSUME PaymentInv, NEW c \in Calls, LookedUp(c), NEW available \in [Groups(c) -> Balances]
  PROVE  available \in Funds
  <1>1. call[c] \in Batching /\ Len(call[c].out) = Len(call[c].batch)
    BY CallKinds DEF LookedUp, At, BatchInv
  <1>2. call[c].batch \in Seq(Payments) /\ call[c].out \in Seq(Outcomes)
    BY <1>1 DEF Batching
  <1>3. \A i \in Pending(c) : call[c].batch[i] \in Payments
    BY <1>1, <1>2 DEF Pending, Of
  <1>4. Groups(c) \in SUBSET Accounts
    BY <1>3 DEF Groups, Accounts
  <1>5. Balances \subseteq Nat
    BY PaymentAssumption DEF PaymentAssumption
  <1>6. available \in [Groups(c) -> Nat]
    BY <1>5
  <1>7. QED
    BY <1>4, <1>6 DEF Funds

\* The funds checks and saveMany: the payments that are kept are prepared, each
\* account's under a balance that covers them, and the others are rejected.
LEMMA SaveBatchStep ==
  ASSUME PaymentInv, NEW c \in Calls, SaveBatch(c)
  PROVE  Step
  <1> DEFINE k == call[c]
             S == Pending(c)
  <1>1. LookedUp(c) /\ ~Aborted(c) /\ UNCHANGED transfers
    BY DEF SaveBatch
  <1>0. PICK available \in [Groups(c) -> Balances] :
          /\ rows' = rows \o Saved(c, Kept(c, available))
          /\ call' = [call EXCEPT ![c].pc = "DONE", ![c].available = available,
                                  ![c].out = Finished(c, Kept(c, available))]
    BY DEF SaveBatch
  <1>2. PICK kept :
          /\ available \in [Groups(c) -> Balances]
          /\ kept = Kept(c, available) /\ rows' = rows \o Saved(c, kept)
          /\ call' = [call EXCEPT ![c].pc = "DONE", ![c].available = available,
                                  ![c].out = Finished(c, kept)]
    BY <1>0
  <1>3. PICK out : out = Finished(c, kept)
    OBVIOUS
  <1>4. kept \in SUBSET S
    BY <1>2 DEF Kept, Covered
  <1>5. /\ LookupInv(k, rows) /\ k \in Batching
        /\ out \in Seq(Outcomes) /\ Len(out) = Len(k.batch) /\ DOMAIN out = DOMAIN k.out
        /\ S \subseteq DOMAIN out /\ \A i \in S : out[i] = IF i \in kept THEN "prepared" ELSE "rejected"
        /\ \A i \in DOMAIN out \ S : out[i] = k.out[i] /\ out[i] \in {"existing", "rejected"}
    BY <1>1, <1>3, <1>4, SettledOutcomes
  <1>6. available \in Funds
    BY <1>1, BalancesAreFunds
  <1>7. PICK new : new = [k EXCEPT !.pc = "DONE", !.available = available, !.out = out]
    OBVIOUS
  <1>8. /\ new \in Batching
        /\ new.pc = "DONE" /\ new.out = out /\ new.available = available
        /\ new.batch = k.batch /\ new.atomic = k.atomic
    BY <1>5, <1>6, <1>7 DEF Batching
  <1>9. DOMAIN call = Calls
    BY DEF PaymentInv
  <1>10. call' = [call EXCEPT ![c] = new]
    BY <1>2, <1>3, <1>7, <1>9
  <1>11. TablesInv(rows', transfers) /\ Keeps(rows, rows')
    BY <1>1, <1>2, <1>4, SavedRows, RowsAppended
  <1>12. ASSUME NEW i \in DOMAIN out, out[i] # "rejected" PROVE Stored(k.batch[i], rows')
    <2>1. CASE i \in S
      <3>1. i \in kept
        BY <1>5, <1>12, <2>1
      <3>2. Rank(kept, i) \in 1..Len(Saved(c, kept)) /\ Saved(c, kept)[Rank(kept, i)].request = k.batch[i]
        BY <1>1, <1>4, <3>1, SavedRows
      <3>3. Stored(Saved(c, kept)[Rank(kept, i)].request, rows')
        BY <1>1, <1>2, <1>4, <3>2, SavedRows, RowsAppended
      <3>4. QED
        BY <3>2, <3>3
    <2>2. CASE i \notin S
      <3>1. k.out[i] = "existing"
        BY <1>5, <1>12, <2>2
      <3>2. Stored(k.batch[i], rows)
        BY <1>5, <3>1 DEF LookupInv
      <3>3. QED
        BY <1>11, <3>2, StoredStays
    <2>3. QED
      BY <2>1, <2>2
  <1>13. \A i \in DOMAIN out : out[i] \in {"existing", "rejected", "prepared"}
    BY <1>5
  <1>14. PreparedIn(new) = kept
    <2>1. \A i \in DOMAIN out : out[i] = "prepared" <=> i \in kept
      BY <1>4, <1>5
    <2>2. QED
      BY <1>4, <1>5, <1>8, <2>1 DEF PreparedIn
  <1>15. \A a \in Accounts : DrawnOn(new.batch, PreparedIn(new), a) # {} =>
           Debits(new.batch, DrawnOn(new.batch, PreparedIn(new), a)) <= new.available[a]
    <2>1. CASE kept = {}
      BY <1>14, <2>1 DEF DrawnOn
    <2>2. CASE kept # {}
      BY <1>2, <1>8, <1>14, <2>2, KeptIsCovered
    <2>3. QED
      BY <2>1, <2>2
  <1>16. new.atomic /\ (\E i \in DOMAIN new.out : new.out[i] = "rejected") => PreparedIn(new) = {}
    <2>1. SUFFICES ASSUME k.atomic, NEW i \in DOMAIN out, out[i] = "rejected", kept # {}
                   PROVE  FALSE
      BY <1>8, <1>14
    <2>2. kept = S
      BY <1>2, <2>1, KeptIsCovered
    <2>3. i \notin S
      BY <1>5, <2>1, <2>2
    <2>4. k.out[i] = "rejected" /\ i \in DOMAIN k.out
      BY <1>5, <2>1, <2>3
    <2>5. Of(c, {"rejected"}) = {}
      BY <1>1, <2>1 DEF Aborted
    <2>6. QED
      BY <2>4, <2>5 DEF Of
  <1>17. DoneInv(new, rows')
    BY <1>5, <1>8, <1>12, <1>13, <1>15, <1>16 DEF DoneInv
  <1>18. CallInv(new, rows', transfers') /\ Carries(k, new)
    BY <1>8, <1>17 DEF CallInv, BatchInv, Carries
  <1>19. TablesInv(rows', transfers') /\ Grows(transfers, transfers')
    BY <1>1, <1>11, GrowsItself
  <1>20. QED
    BY <1>10, <1>11, <1>18, <1>19, CallStep

\* Nothing is stored before the first call.
LEMMA PaymentInit ==
  ASSUME Init
  PROVE  PaymentInv
  <1>1. rows = <<>> /\ transfers = <<>> /\ DOMAIN call = Calls /\ \A c \in Calls : call[c] = Idle
    BY DEF Init
  <1>2. <<>> \in Seq(Row) /\ <<>> \in Seq(Transfer) /\ Len(<<>>) = 0 /\ DOMAIN <<>> = {}
    OBVIOUS
  <1>3. MaxStored \in Nat
    BY PaymentAssumption DEF PaymentAssumption
  <1>4. TablesInv(rows, transfers)
    BY <1>1, <1>2, <1>3 DEF TablesInv
  <1>5. QED
    BY <1>1, <1>4 DEF PaymentInv, CallInv

\* Every step keeps the invariant and what is stored.
LEMMA PaymentNext ==
  ASSUME PaymentInv, Next
  PROVE  Step
  <1>1. ASSUME NEW c \in Calls,
               Prepare(c) \/ LookUp(c) \/ SaveBatch(c) \/ Abort(c) \/ Return(c)
        PROVE  Step
    BY <1>1, PrepareStep, LookUpStep, SaveBatchStep, AbortStep, ReturnStep
  <1>2. ASSUME NEW c \in Calls,
               \/ HoldForReview(c) \/ SubmitTransfer(c)
               \/ GetTransaction(c) \/ Save(c) \/ Fails(c)
        PROVE  Step
    BY <1>2, HoldForReviewStep, SubmitTransferStep, GetTransactionStep, SaveStep, FailsStep
  <1>3. ASSUME NEW c \in Calls, NEW i \in DOMAIN rows, Submit(c, i) \/ Reconcile(c, i)
        PROVE  Step
    BY <1>3, SubmitStep, ReconcileStep
  <1>4. ASSUME NEW c \in Calls, NEW t \in DOMAIN transfers, ApplyProviderState(c, t)
        PROVE  Step
    BY <1>4, ApplyProviderStateStep
  <1>5. ASSUME NEW t \in DOMAIN transfers, TransferMoves(t)
        PROVE  Step
    BY <1>5, TransferMovesStep
  <1>6. QED
    BY <1>1, <1>2, <1>3, <1>4, <1>5 DEF Next

----------------------------------------------------------------------------
(* The files.                                                              *)

\* The payments that the parser makes of a file, one for each transaction.
LEMMA RequestsOfFile ==
  ASSUME NEW u \in Uploads
  PROVE  /\ File[u].atomic \in BOOLEAN
         /\ \E n \in Nat : DOMAIN Requests[u] = 1..n
         /\ DOMAIN Requests[u] = DOMAIN Transactions(File[u].message)
         /\ \A i \in DOMAIN Requests[u] : Requests[u][i] = Request(File[u].message, i, File[u].input)
         /\ \A i \in DOMAIN Requests[u] : Parses(Transactions(File[u].message)[i].tx.amount) =>
              /\ Transactions(File[u].message)[i].tx.amount.n \in Nat
              /\ Transactions(File[u].message)[i].tx.amount.scale \in Scales
  <1> DEFINE txs == Transactions(File[u].message)
  <1>1. Requests[u] = [i \in DOMAIN txs |-> Request(File[u].message, i, File[u].input)]
    BY DEF Requests
  <1>2. /\ File[u].atomic \in BOOLEAN /\ Len(txs) \in Nat /\ DOMAIN txs = 1..Len(txs)
        /\ \A i \in DOMAIN txs : txs[i].tx.amount \in {Absent, Malformed} \cup Texts
    BY ImportAssumption DEF ImportAssumption
  <1> HIDE DEF txs
  <1>3. DOMAIN Requests[u] = DOMAIN txs /\ \A i \in DOMAIN txs : Requests[u][i] = Request(File[u].message, i, File[u].input)
    BY <1>1
  <1>4. QED
    BY <1>2, <1>3 DEF txs, Texts, Absent, Malformed, Parses

\* The valid transactions of a file are some of its transactions, and each of
\* them is a payment.
LEMMA ValidTransactions ==
  ASSUME NEW u \in Uploads, NEW day \in 0..MaxDay, NEW valid \in {{}, Valid[u][day]}
  PROVE  /\ IsFiniteSet(valid) /\ valid \subseteq Nat /\ valid \subseteq DOMAIN Requests[u]
         /\ Cardinality(valid) \in Nat
         /\ \A i \in valid : Requests[u][i] \in Payments /\ TransactionErrors(File[u].message, i, File[u].input, day) = {}
  <1>1. Valid[u][day] = ValidPayments(File[u].message, File[u].input, day)
    BY DEF Valid
  <1>2. \A i \in valid : /\ i \in DOMAIN Transactions(File[u].message)
                         /\ i \in ValidPayments(File[u].message, File[u].input, day)
                         /\ TransactionErrors(File[u].message, i, File[u].input, day) = {}
    BY <1>1 DEF ValidPayments
  <1>3. valid \subseteq DOMAIN Requests[u]
    BY <1>2, RequestsOfFile
  <1>4. PICK n \in Nat : DOMAIN Requests[u] = 1..n
    BY RequestsOfFile
  <1>5. IsFiniteSet(1..n)
    BY FS_Interval
  <1>6. IsFiniteSet(valid) /\ valid \subseteq Nat
    BY <1>3, <1>4, <1>5, FS_Subset
  <1>7. \A i \in valid : Request(File[u].message, i, File[u].input) \in Payments
    BY <1>2, ImportAssumption DEF ImportAssumption
  <1>8. \A i \in valid : Requests[u][i] \in Payments
    BY <1>3, <1>7, RequestsOfFile
  <1>9. Cardinality(valid) \in Nat
    BY <1>6, FS_CardinalityType
  <1>10. QED
    BY <1>2, <1>3, <1>6, <1>8, <1>9

\* The batch that a file is prepared as: each valid transaction has its place.
LEMMA BatchOfFile ==
  ASSUME NEW u \in Uploads, NEW day \in 0..MaxDay, NEW valid \in {{}, Valid[u][day]}
  PROVE  /\ BatchOf(u, valid) \in Seq(Payments) /\ Len(BatchOf(u, valid)) = Cardinality(valid)
         /\ \A i \in valid : /\ Rank(valid, i) \in 1..Cardinality(valid)
                             /\ BatchOf(u, valid)[Rank(valid, i)] = Requests[u][i]
  <1>1. /\ IsFiniteSet(valid) /\ valid \subseteq Nat /\ \A i \in valid : Requests[u][i] \in Payments
    BY ValidTransactions
  <1>2. PICK n \in Nat : n = Cardinality(valid)
    BY ValidTransactions
  <1>3. \A j \in 1..n : Nth(valid, j) \in valid
    BY <1>1, <1>2, RankIsPlace
  <1>4. BatchOf(u, valid) = [j \in 1..n |-> Requests[u][Nth(valid, j)]]
    BY <1>2 DEF BatchOf
  <1>5. BatchOf(u, valid) \in [1..n -> Payments]
    BY <1>1, <1>3, <1>4
  <1>6. BatchOf(u, valid) \in Seq(Payments) /\ Len(BatchOf(u, valid)) = n
    BY <1>5, FunctionIsSeq
  <1>7. \A i \in valid : Rank(valid, i) \in 1..n /\ Nth(valid, Rank(valid, i)) = i
    BY <1>1, <1>2, RankStep, RankIsPlace
  <1>8. QED
    BY <1>2, <1>4, <1>6, <1>7

----------------------------------------------------------------------------
(* The import beside the call.                                             *)

FileInv == PaymentInv /\ ImportsInv

\* An import starts with its call.
LEMMA ImportStarted ==
  ASSUME FileInv, NEW c \in Calls, NEW new, call' = [call EXCEPT ![c] = new], Step,
         NEW u \in Uploads, NEW day \in 0..MaxDay,
         NEW m, import' = [import EXCEPT ![c] = m], ImportOf(m, new, u, day)
  PROVE  FileInv'
  <1>1. DOMAIN call = Calls /\ DOMAIN import = Calls /\ \A d \in Calls : ImportInv(import[d], call[d])
    BY DEF FileInv, PaymentInv, ImportsInv
  <1>2. call'[c] = new /\ import'[c] = m /\ DOMAIN import' = Calls
    BY <1>1
  <1>3. \A d \in Calls \ {c} : call'[d] = call[d] /\ import'[d] = import[d]
    BY <1>1
  <1>4. ImportInv(m, new)
    BY DEF ImportInv
  <1>5. \A d \in Calls : ImportInv(import'[d], call'[d])
    BY <1>1, <1>2, <1>3, <1>4
  <1>6. QED
    BY <1>2, <1>5 DEF FileInv, ImportsInv, Step

\* A file that is refused stores nothing.
LEMMA ImportRefusedStep ==
  ASSUME FileInv, NEW c \in Calls, NEW u \in Uploads, NEW day \in 0..MaxDay, ImportRefused(c, u, day)
  PROVE  FileInv'
  <1> DEFINE new == [pc |-> "DONE", batch |-> <<>>, atomic |-> File[u].atomic, out |-> <<>>, available |-> NoBalances]
             m == [upload |-> u, valid |-> {}]
  <1>1. PaymentInv
    BY DEF FileInv
  <1>2. new \in Batching
    <2>1. File[u].atomic \in BOOLEAN
      BY RequestsOfFile
    <2>2. <<>> \in Seq(Payments) /\ <<>> \in Seq(Outcomes)
      OBVIOUS
    <2>3. QED
      BY <2>1, <2>2, NoFunds DEF Batching
  <1>3. new.pc = "DONE" /\ new.out = <<>> /\ new.batch = <<>> /\ new.atomic = File[u].atomic
    OBVIOUS
  <1>4. m.upload = u /\ m.valid = {}
    OBVIOUS
  <1>5. call' = [call EXCEPT ![c] = new] /\ import' = [import EXCEPT ![c] = m]
    BY DEF ImportRefused
  <1>6. UNCHANGED <<rows, transfers>> /\ At(c, "IDLE")
    BY DEF ImportRefused
  <1> HIDE DEF new, m
  <1>7. DoneInv(new, rows')
    <2>1. PreparedIn(new) = {}
      BY <1>3 DEF PreparedIn
    <2>2. \A a \in Accounts : DrawnOn(new.batch, PreparedIn(new), a) = {}
      BY <2>1 DEF DrawnOn
    <2>3. QED
      BY <1>3, <2>1, <2>2 DEF DoneInv
  <1>8. call[c] \notin Batching
    BY <1>1, <1>6, CallKinds DEF At
  <1>9. CallInv(new, rows', transfers') /\ Carries(call[c], new)
    BY <1>2, <1>3, <1>7, <1>8 DEF CallInv, BatchInv, Carries
  <1>10. TablesInv(rows', transfers') /\ Keeps(rows, rows') /\ Grows(transfers, transfers')
    BY <1>1, <1>6, TablesKept
  <1>11. Step
    BY <1>1, <1>5, <1>9, <1>10, CallStep
  <1>12. BatchOf(u, {}) = <<>>
    <2>1. Cardinality({}) = 0
      BY FS_EmptySet
    <2>2. BatchOf(u, {}) \in Seq(Payments) /\ Len(BatchOf(u, {})) = 0
      BY <2>1, BatchOfFile
    <2>3. QED
      BY <2>2
  <1>13. ImportOf(m, new, u, day)
    BY <1>2, <1>3, <1>4, <1>12 DEF ImportOf
  <1>14. QED
    BY <1>5, <1>11, <1>13, ImportStarted

\* A file that parsed is prepared as one batch.
LEMMA ImportStartsStep ==
  ASSUME FileInv, NEW c \in Calls, NEW u \in Uploads, NEW day \in 0..MaxDay, ImportStarts(c, u, day)
  PROVE  FileInv'
  <1>1. PaymentInv
    BY DEF FileInv
  <1>2. PICK valid : valid = Valid[u][day]
    OBVIOUS
  <1>3. File[u].atomic \in BOOLEAN
    BY RequestsOfFile
  <1>4. PICK b : b = BatchOf(u, valid)
    OBVIOUS
  <1>5. b \in Seq(Payments)
    BY <1>2, <1>4, BatchOfFile
  <1>6. PrepareMany(c, b, File[u].atomic) /\ import' = [import EXCEPT ![c] = [upload |-> u, valid |-> valid]]
    BY <1>2, <1>4 DEF ImportStarts, BatchOf
  <1>7. Step
    BY <1>1, <1>3, <1>5, <1>6, PrepareManyStep
  <1>8. PICK new : new = [pc |-> "LOOKUP", batch |-> b, atomic |-> File[u].atomic, out |-> <<>>, available |-> NoBalances]
    OBVIOUS
  <1>9. call' = [call EXCEPT ![c] = new]
    BY <1>6, <1>8 DEF PrepareMany
  <1>10. new \in Batching /\ new.batch = b /\ new.atomic = File[u].atomic
    BY <1>3, <1>5, <1>8, NoFunds DEF Batching
  <1>11. (File[u].atomic => valid = DOMAIN Requests[u]) /\ u \notin Unsound
    BY <1>2 DEF ImportStarts, Refused
  <1>12. PICK m : m = [upload |-> u, valid |-> valid]
    OBVIOUS
  <1>13. m.upload = u /\ m.valid = valid
    BY <1>12
  <1>14. ImportOf(m, new, u, day)
    BY <1>2, <1>4, <1>10, <1>11, <1>13 DEF ImportOf
  <1>15. QED
    BY <1>6, <1>7, <1>9, <1>12, <1>14, ImportStarted

\* The batch of an import runs as any other.
LEMMA ContinueStep ==
  ASSUME FileInv, Continue
  PROVE  FileInv'
  <1>1. Step
    BY PaymentNext DEF FileInv, Continue
  <1>2. import' = [c \in Calls |-> IF call'[c] = Idle THEN NoImport ELSE import[c]]
    BY DEF Continue
  <1>3. ASSUME NEW c \in Calls PROVE ImportInv(import'[c], call'[c])
    <2>1. CASE call'[c] = Idle
      BY <1>2, <2>1 DEF ImportInv
    <2>2. CASE import[c] = NoImport
      BY <1>2, <2>2 DEF ImportInv
    <2>3. CASE call'[c] # Idle /\ import[c] # NoImport
      <3>1. PICK u \in Uploads, day \in 0..MaxDay : ImportOf(import[c], call[c], u, day)
        BY <2>3 DEF FileInv, ImportsInv, ImportInv
      <3>2. import'[c] = import[c]
        BY <1>2, <2>3
      <3>3. call'[c] \in Batching /\ call'[c].batch = call[c].batch /\ call'[c].atomic = call[c].atomic
        BY <1>1, <2>3, <3>1 DEF Step, Carries, ImportOf
      <3>4. ImportOf(import'[c], call'[c], u, day)
        BY <3>1, <3>2, <3>3 DEF ImportOf
      <3>5. QED
        BY <3>4 DEF ImportInv
    <2>4. QED
      BY <2>1, <2>2, <2>3
  <1>4. DOMAIN import' = Calls
    BY <1>2
  <1>5. QED
    BY <1>1, <1>3, <1>4 DEF FileInv, ImportsInv, Step

\* A step that changes nothing keeps FileInv.
LEMMA ImportStutters ==
  ASSUME FileInv, UNCHANGED importVars
  PROVE  FileInv'
  BY DEF FileInv, PaymentInv, ImportsInv, importVars, vars

\* What is kept of rows, transfers, calls and imports through every step.
THEOREM ImportInvariant == ImportSpec => []FileInv
  <1>1. ImportInit => FileInv
    BY PaymentInit DEF ImportInit, FileInv, ImportsInv, ImportInv
  <1>2. FileInv /\ [ImportNext]_importVars => FileInv'
    BY ImportRefusedStep, ImportStartsStep, ContinueStep, ImportStutters DEF ImportNext
  <1>3. QED
    BY <1>1, <1>2, PTL DEF ImportSpec

----------------------------------------------------------------------------
(* Records and their transfers.                                            *)

\* Whatever submissions, reconciles and reported states overlap, each writing
\* back the record it read, a record names a transfer of its own reference, and
\* its state is one that this transfer has been in.
THEOREM RecordsFollowTheirTransfers == ImportSpec => []RecordFollowsItsTransfer
  <1>1. FileInv => RecordFollowsItsTransfer
    BY DEF FileInv, PaymentInv, TablesInv, RecordFollowsItsTransfer, Follows, FollowsIn
  <1>2. QED
    BY <1>1, ImportInvariant, PTL

----------------------------------------------------------------------------
(* What a decided batch and an answered import say.                        *)

\* What is known of a batch that has its answer.
LEMMA DoneCall ==
  ASSUME FileInv, NEW c \in Calls, At(c, "DONE")
  PROVE  call[c] \in Batching /\ DoneInv(call[c], rows)
  BY CallKinds DEF FileInv, At, BatchInv

\* What one call prepares is covered, account by account, by the balance it saw
\* there, however other calls interleave with it (prepareMany).
THEOREM BatchesAreCovered == ImportSpec => []AggregateCovered
  <1>1. FileInv => AggregateCovered
    <2>1. SUFFICES ASSUME FileInv, NEW c \in Calls, NEW a \in Accounts, At(c, "DONE"),
                          DrawnOn(call[c].batch, Of(c, {"prepared"}), a) # {}
                   PROVE  Debits(call[c].batch, DrawnOn(call[c].batch, Of(c, {"prepared"}), a))
                            <= call[c].available[a]
      BY DEF AggregateCovered
    <2>2. Of(c, {"prepared"}) = PreparedIn(call[c])
      BY DEF Of, PreparedIn
    <2>3. QED
      BY <2>1, <2>2, DoneCall DEF DoneInv
  <1>2. QED
    BY <1>1, ImportInvariant, PTL

\* The item of a transaction is the result of the payment that was made of it.
LEMMA ItemsOfAnswer ==
  ASSUME FileInv, NEW c \in Calls, Answered(c)
  PROVE  \E u \in Uploads, day \in 0..MaxDay :
           /\ ImportOf(import[c], call[c], u, day) /\ DoneInv(call[c], rows)
           /\ DOMAIN Items(c) = DOMAIN Requests[u]
           /\ DOMAIN call[c].out = 1..Cardinality(import[c].valid)
           /\ import[c].valid \subseteq DOMAIN Requests[u]
           /\ \A i \in import[c].valid :
                /\ Rank(import[c].valid, i) \in DOMAIN call[c].out
                /\ Items(c)[i].status = call[c].out[Rank(import[c].valid, i)]
                /\ Items(c)[i].status # "rejected" => Items(c)[i].ref = Requests[u][i].ref
                /\ call[c].batch[Rank(import[c].valid, i)] = Requests[u][i]
           /\ \A i \in DOMAIN Requests[u] \ import[c].valid : Items(c)[i].status = "rejected"
  <1> DEFINE valid == import[c].valid
             out == call[c].out
  <1>1. import[c] # NoImport /\ At(c, "DONE")
    BY DEF Answered
  <1>2. PICK u \in Uploads, day \in 0..MaxDay : ImportOf(import[c], call[c], u, day)
    BY <1>1 DEF FileInv, ImportsInv, ImportInv
  <1>3. call[c] \in Batching /\ DoneInv(call[c], rows)
    BY <1>1, DoneCall
  <1>4. /\ valid \in {{}, Valid[u][day]} /\ import[c].upload = u
        /\ call[c].batch = BatchOf(u, valid)
    BY <1>2 DEF ImportOf
  <1>5. PICK n \in Nat : n = Cardinality(valid)
    BY <1>4, ValidTransactions
  <1>6. out \in Seq(Outcomes) /\ Len(out) = n
    <2>1. out \in Seq(Outcomes)
      BY <1>3 DEF Batching
    <2>2. Len(out) = Len(call[c].batch)
      BY <1>3 DEF DoneInv
    <2>3. Len(call[c].batch) = n
      <3>1. Len(BatchOf(u, valid)) = Cardinality(valid)
        BY <1>4, BatchOfFile
      <3>2. QED
        BY <1>4, <1>5, <3>1
    <2>4. QED
      BY <2>1, <2>2, <2>3
  <1>7. DOMAIN out = 1..n
    BY <1>6
  <1>8. valid \subseteq DOMAIN Requests[u]
    BY <1>4, ValidTransactions
  <1>9. \A i \in DOMAIN Requests[u] : Items(c)[i] = Item(c, i)
    BY <1>4 DEF Items
  <1>10. DOMAIN Items(c) = DOMAIN Requests[u]
    BY <1>4 DEF Items
  <1>11. \A i \in valid : Place(valid, i) = Rank(valid, i)
    BY DEF Place, Rank, UpTo
  <1>12. ASSUME NEW i \in valid
         PROVE  /\ Rank(valid, i) \in DOMAIN out
                /\ Items(c)[i].status = out[Rank(valid, i)]
                /\ Items(c)[i].status # "rejected" => Items(c)[i].ref = Requests[u][i].ref
                /\ call[c].batch[Rank(valid, i)] = Requests[u][i]
    <2>1. Rank(valid, i) \in 1..n /\ call[c].batch[Rank(valid, i)] = Requests[u][i]
      BY <1>4, <1>5, BatchOfFile
    <2>2. Items(c)[i] = IF out[Rank(valid, i)] # "rejected"
                        THEN [status |-> out[Rank(valid, i)], ref |-> call[c].batch[Rank(valid, i)].ref]
                        ELSE Rejected
      BY <1>7, <1>8, <1>9, <1>11, <2>1 DEF Item
    <2>3. QED
      BY <1>7, <2>1, <2>2 DEF Rejected
  <1>13. \A i \in DOMAIN Requests[u] \ valid : Items(c)[i].status = "rejected"
    <2>1. SUFFICES ASSUME NEW i \in DOMAIN Requests[u], i \notin valid
                   PROVE  Items(c)[i].status = "rejected"
      OBVIOUS
    <2>2. Item(c, i) = Rejected
      BY <2>1 DEF Item
    <2>3. QED
      BY <1>9, <2>2 DEF Rejected
  <1>14. QED
    BY <1>2, <1>3, <1>5, <1>7, <1>8, <1>10, <1>12, <1>13

\* In atomic mode an answer with a rejected item has no newly prepared one
\* (prepare of the import service, prepareMany).
THEOREM AtomicImportsAreWhole == ImportSpec => []AtomicImport
  <1>1. FileInv => AtomicImport
    <2>1. SUFFICES ASSUME FileInv, NEW c \in Calls, Answered(c), File[import[c].upload].atomic,
                          Prepared(c) # DOMAIN Items(c), NEW i \in Prepared(c)
                   PROVE  Items(c)[i].status = "existing"
      BY DEF AtomicImport
    <2> DEFINE valid == import[c].valid
               out == call[c].out
    <2>2. PICK u \in Uploads, day \in 0..MaxDay :
            /\ ImportOf(import[c], call[c], u, day) /\ DoneInv(call[c], rows)
            /\ DOMAIN Items(c) = DOMAIN Requests[u]
            /\ \A j \in valid : /\ Rank(valid, j) \in DOMAIN out
                                /\ Items(c)[j].status = out[Rank(valid, j)]
            /\ \A j \in DOMAIN Requests[u] \ valid : Items(c)[j].status = "rejected"
      BY <2>1, ItemsOfAnswer
    <2>3. i \in DOMAIN Items(c) /\ Items(c)[i].status # "rejected"
      BY DEF Prepared
    <2>4. i \in valid
      BY <2>2, <2>3
    <2>5. valid = DOMAIN Requests[u] /\ call[c].atomic
      BY <2>1, <2>2, <2>4 DEF ImportOf
    <2>6. PICK j \in DOMAIN Items(c) : Items(c)[j].status = "rejected"
      BY <2>1 DEF Prepared
    <2>7. out[Rank(valid, j)] = "rejected" /\ Rank(valid, j) \in DOMAIN out
      BY <2>2, <2>5, <2>6
    <2>8. PreparedIn(call[c]) = {}
      BY <2>2, <2>5, <2>7 DEF DoneInv
    <2>9. out[Rank(valid, i)] # "prepared"
      BY <2>2, <2>4, <2>8 DEF PreparedIn
    <2>10. out[Rank(valid, i)] \in {"existing", "rejected", "prepared"}
      BY <2>2, <2>4 DEF DoneInv
    <2>11. QED
      BY <2>2, <2>3, <2>4, <2>9, <2>10
  <1>2. QED
    BY <1>1, ImportInvariant, PTL

----------------------------------------------------------------------------
(* What an answer calls prepared is stored, to the last digit.             *)

\* The powers of ten of the scales in use are positive numbers.
LEMMA Pow10Facts == Pow10(0) = 1 /\ \A k \in Scales : Pow10(k) \in Nat \ {0}
  <1>1. Pow10(0) = 1 /\ Pow10(1) = 10 /\ Pow10(2) = 100 /\ Pow10(3) = 1000 /\ Pow10(4) = 10000
    BY DEF Pow10
  <1>2. \A k \in Scales : k = 0 \/ k = 1 \/ k = 2 \/ k = 3 \/ k = 4
    BY DEF Scales
  <1>3. QED
    BY <1>1, <1>2

\* What is left without a rest is multiplied back.
LEMMA DivisionIsExact ==
  ASSUME NEW n \in Nat, NEW k \in Scales, n % Pow10(k) = 0
  PROVE  n \div Pow10(k) \in Nat /\ (n \div Pow10(k)) * Pow10(k) = n
  <1>1. Pow10(0) = 1 /\ Pow10(1) = 10 /\ Pow10(2) = 100 /\ Pow10(3) = 1000 /\ Pow10(4) = 10000
    BY DEF Pow10
  <1>2. k = 0 \/ k = 1 \/ k = 2 \/ k = 3 \/ k = 4
    BY DEF Scales
  <1>3. QED
    BY <1>1, <1>2

\* Minor units that are not refused stand for exactly the text (decimalToMinorUnits).
LEMMA MinorUnitsAreExact ==
  ASSUME NEW t, t.n \in Nat, t.scale \in Scales, NEW units \in {0, 2},
         NEW minor, minor = ToMinor(t, units), minor # 0
  PROVE  EqualExact(Text(minor, units), t)
  <1>1. ~Finer(t, units) /\ minor = InUnits(t, units)
    BY DEF ToMinor
  <1>2. Text(minor, units).n = minor /\ Text(minor, units).scale = units
    BY DEF Text
  <1>3. PICK n \in Nat, scale \in Scales : n = t.n /\ scale = t.scale
    OBVIOUS
  <1>4. CASE scale > units
    <2>1. scale - units \in Scales /\ scale - scale = 0
      BY <1>4 DEF Scales
    <2>2. n % Pow10(scale - units) = 0 /\ minor = n \div Pow10(scale - units)
      BY <1>1, <1>3, <1>4 DEF Finer, InUnits
    <2>3. minor * Pow10(scale - units) = n
      BY <2>1, <2>2, DivisionIsExact
    <2>4. Widest(Text(minor, units), t) = scale
      BY <1>2, <1>3, <1>4 DEF Widest, Scales
    <2>5. n * 1 = n
      OBVIOUS
    <2>6. QED
      BY <1>2, <1>3, <2>1, <2>3, <2>4, <2>5, Pow10Facts DEF EqualExact, Scaled
  <1>5. CASE ~(scale > units)
    <2>1. units - scale \in Scales /\ units - units = 0
      BY <1>5 DEF Scales
    <2>2. minor = n * Pow10(units - scale)
      BY <1>1, <1>3, <1>5 DEF InUnits
    <2>3. Widest(Text(minor, units), t) = units
      BY <1>2, <1>3, <1>5 DEF Widest, Scales
    <2>4. Scaled(Text(minor, units), units) = minor * 1
      BY <1>2, <2>1, Pow10Facts DEF Scaled
    <2>5. minor * 1 = minor
      BY <2>1, <2>2, Pow10Facts
    <2>6. Scaled(t, units) = n * Pow10(units - scale)
      BY <1>3 DEF Scaled
    <2>7. QED
      BY <2>2, <2>3, <2>4, <2>5, <2>6 DEF EqualExact
  <1>6. QED
    BY <1>4, <1>5

\* A transaction without errors has an amount that is exactly its payment's
\* (mapTransaction).
LEMMA AmountIsExact ==
  ASSUME NEW u \in Uploads, NEW i \in DOMAIN Requests[u], NEW day \in 0..MaxDay,
         TransactionErrors(File[u].message, i, File[u].input, day) = {},
         NEW tx, tx = Transactions(File[u].message)[i].tx
  PROVE  EqualExact(Text(Requests[u][i].amount, CurrencyMinorUnits[tx.currency]), tx.amount)
  <1>1. Requests[u][i].amount = AmountMinor(tx)
    <2>1. Requests[u][i] = Request(File[u].message, i, File[u].input)
      BY RequestsOfFile
    <2>2. QED
      BY <2>1 DEF Request
  <1>2. AmountErrors(tx) = {}
    BY DEF TransactionErrors
  <1>3. AmountMinor(tx) # 0
    <2>1. tx.amount # Absent /\ tx.currency # None
      BY <1>2 DEF AmountErrors, When
    <2>2. QED
      BY <1>2, <2>1 DEF AmountErrors, When
  <1>4. tx.currency \in DOMAIN CurrencyMinorUnits
    BY <1>3 DEF AmountMinor, DecimalToMinorUnits
  <1>5. PICK units : units = CurrencyMinorUnits[tx.currency]
    OBVIOUS
  <1>6. units \in {0, 2}
    BY <1>4, <1>5 DEF CurrencyMinorUnits
  <1>7. AmountMinor(tx) = ToMinor(tx.amount, units)
    BY <1>4, <1>5 DEF AmountMinor, DecimalToMinorUnits
  <1>8. Parses(tx.amount)
    BY <1>3, <1>7 DEF ToMinor
  <1>9. tx.amount.n \in Nat /\ tx.amount.scale \in Scales
    BY <1>8, RequestsOfFile
  <1>10. QED
    BY <1>1, <1>3, <1>5, <1>6, <1>7, <1>9, MinorUnitsAreExact

\* The transactions an answer hands back, one for each payment that the batch
\* has prepared or found.
LEMMA PreparedAreCounted ==
  ASSUME FileInv, NEW c \in Calls, Answered(c)
  PROVE  Cardinality(Prepared(c)) = Cardinality(Of(c, {"prepared", "existing"}))
  <1> DEFINE valid == import[c].valid
             out == call[c].out
             f == [i \in Prepared(c) |-> Rank(valid, i)]
             T == Of(c, {"prepared", "existing"})
  <1>1. PICK u \in Uploads, day \in 0..MaxDay :
          /\ ImportOf(import[c], call[c], u, day) /\ DoneInv(call[c], rows)
          /\ DOMAIN Items(c) = DOMAIN Requests[u]
          /\ DOMAIN out = 1..Cardinality(valid) /\ valid \subseteq DOMAIN Requests[u]
          /\ \A i \in valid : /\ Rank(valid, i) \in DOMAIN out
                              /\ Items(c)[i].status = out[Rank(valid, i)]
          /\ \A i \in DOMAIN Requests[u] \ valid : Items(c)[i].status = "rejected"
    BY ItemsOfAnswer
  <1>2. valid \in {{}, Valid[u][day]}
    BY <1>1 DEF ImportOf
  <1>3. IsFiniteSet(valid) /\ valid \subseteq Nat
    BY <1>2, ValidTransactions
  <1>4. Prepared(c) = {i \in valid : out[Rank(valid, i)] # "rejected"}
    <2>1. \A i \in DOMAIN Items(c) : Items(c)[i].status # "rejected" <=> i \in valid /\ out[Rank(valid, i)] # "rejected"
      BY <1>1
    <2>2. QED
      BY <1>1, <2>1 DEF Prepared
  <1>5. T = {n \in DOMAIN out : out[n] # "rejected"}
    <2>1. \A n \in DOMAIN out : out[n] \in {"existing", "rejected", "prepared"}
      BY <1>1 DEF DoneInv
    <2>2. QED
      BY <2>1 DEF Of
  <1>6. IsFiniteSet(Prepared(c))
    BY <1>3, <1>4, FS_Subset
  <1>7. f \in [Prepared(c) -> T]
    BY <1>1, <1>4, <1>5
  <1>8. \A i, j \in Prepared(c) : f[i] = f[j] => i = j
    BY <1>3, <1>4, RankIsPlace
  <1>9. \A n \in T : \E i \in Prepared(c) : f[i] = n
    <2>1. SUFFICES ASSUME NEW n \in T PROVE Nth(valid, n) \in Prepared(c) /\ f[Nth(valid, n)] = n
      OBVIOUS
    <2>2. n \in 1..Cardinality(valid) /\ out[n] # "rejected"
      BY <1>1, <1>5
    <2>3. Nth(valid, n) \in valid /\ Rank(valid, Nth(valid, n)) = n
      BY <1>3, <2>2, RankIsPlace
    <2>4. QED
      BY <1>4, <2>2, <2>3
  <1>10. f \in Bijection(Prepared(c), T)
    BY <1>7, <1>8, <1>9 DEF Bijection, Injection, Surjection, IsInjective
  <1>11. QED
    BY <1>6, <1>10, FS_Bijection DEF ExistsBijection

\* Every transaction that an answer calls prepared or existing has a stored
\* payment of exactly this transaction, wherever invalid neighbours stood in
\* the file, and no payment is stored without the answer saying so.
THEOREM AnswersAreStored == ImportSpec => []ItemsAreStored
  <1>1. FileInv => ItemsAreStored
    <2>1. SUFFICES ASSUME FileInv, NEW c \in Calls, Answered(c), NEW i \in Prepared(c)
                   PROVE  \E r \in DOMAIN rows :
                            /\ rows[r].request = Requests[import[c].upload][i]
                            /\ rows[r].request.ref = Items(c)[i].ref
                            /\ LET tx == Transactions(File[import[c].upload].message)[i].tx
                               IN EqualExact(Text(rows[r].request.amount, CurrencyMinorUnits[tx.currency]), tx.amount)
      BY PreparedAreCounted DEF ItemsAreStored
    <2> DEFINE valid == import[c].valid
               out == call[c].out
    <2>2. PICK u \in Uploads, day \in 0..MaxDay :
            /\ ImportOf(import[c], call[c], u, day) /\ DoneInv(call[c], rows)
            /\ DOMAIN Items(c) = DOMAIN Requests[u]
            /\ \A j \in valid : /\ Rank(valid, j) \in DOMAIN out
                                /\ Items(c)[j].status = out[Rank(valid, j)]
                                /\ Items(c)[j].status # "rejected" => Items(c)[j].ref = Requests[u][j].ref
                                /\ call[c].batch[Rank(valid, j)] = Requests[u][j]
            /\ \A j \in DOMAIN Requests[u] \ valid : Items(c)[j].status = "rejected"
      BY <2>1, ItemsOfAnswer
    <2>3. i \in DOMAIN Requests[u] /\ Items(c)[i].status # "rejected"
      BY <2>2 DEF Prepared
    <2>4. i \in valid
      BY <2>2, <2>3
    <2>5. valid \in {{}, Valid[u][day]} /\ import[c].upload = u
      BY <2>2 DEF ImportOf
    <2>6. PICK r \in DOMAIN rows : rows[r].request = Requests[u][i]
      <3>1. Stored(call[c].batch[Rank(valid, i)], rows)
        BY <2>2, <2>3, <2>4 DEF DoneInv
      <3>2. Stored(Requests[u][i], rows)
        BY <2>2, <2>4, <3>1
      <3>3. QED
        BY <3>2 DEF Stored
    <2>7. Items(c)[i].ref = Requests[u][i].ref
      BY <2>2, <2>3, <2>4
    <2>8. TransactionErrors(File[u].message, i, File[u].input, day) = {}
      BY <2>4, <2>5, ValidTransactions
    <2>9. PICK tx : tx = Transactions(File[u].message)[i].tx
      OBVIOUS
    <2>10. EqualExact(Text(rows[r].request.amount, CurrencyMinorUnits[tx.currency]), tx.amount)
      BY <2>3, <2>6, <2>8, <2>9, AmountIsExact
    <2>11. QED
      BY <2>5, <2>6, <2>7, <2>9, <2>10
  <1>2. QED
    BY <1>1, ImportInvariant, PTL

----------------------------------------------------------------------------
(* What a file prepares is within what its header declares.                *)

Before == {p \in Nat \X Nat : p[1] < p[2]}

\* The numbers are well founded.
LEMMA BeforeWellFounded == IsWellFoundedOn(Before, Nat)
  BY NatLessThanWellFounded DEF OpToRel, Before

\* Induction over the numbers, said of a set of them: the least number that is
\* not in it has a predecessor that is.
LEMMA SetInduction ==
  ASSUME NEW S, 0 \in S, \A n \in Nat : n \in S => n + 1 \in S
  PROVE  Nat \subseteq S
  <1>1. SUFFICES ASSUME Nat \ S # {} PROVE FALSE
    OBVIOUS
  <1>2. PICK x \in Nat \ S : \A y \in Nat \ S : ~(<<y, x>> \in Before)
    BY <1>1, BeforeWellFounded, WFMin
  <1>3. \A y \in Nat \ S : ~(y < x)
    BY <1>2 DEF Before
  <1>4. x # 0 /\ x - 1 \in Nat /\ x - 1 < x
    OBVIOUS
  <1>5. x - 1 \in S
    BY <1>3, <1>4
  <1>6. (x - 1) + 1 = x
    OBVIOUS
  <1>7. QED
    BY <1>2, <1>4, <1>5, <1>6

\* The greatest of a set that has its upper bound.
LEMMA GreatestOf ==
  ASSUME NEW k \in Nat, NEW T \in SUBSET (1..k + 1), k + 1 \in T
  PROVE  Max(T) = k + 1
  <1>1. \A x \in T : x \in Int /\ k + 1 >= x
    OBVIOUS
  <1>2. \A y : y \in T /\ (\A x \in T : y >= x) => y = k + 1
    BY <1>1
  <1>3. QED
    BY <1>1, <1>2 DEF Max

\* The fold behind Total goes down the sets of positions from the greatest.
FoldStep(h, s, T) == IF T = {} THEN Text(0, 0) ELSE Plus(h[T \ {Max(T)}], s[Max(T)])
IsFold(h, s, k) == h = [T \in SUBSET (1..k) |-> FoldStep(h, s, T)]

\* The recursion of the fold has a solution for every length.
LEMMA FoldExists ==
  ASSUME NEW s
  PROVE  \A n \in Nat : \E h : IsFold(h, s, n)
  <1> DEFINE S == {n \in Nat : \E h : IsFold(h, s, n)}
  <1>1. 0 \in S
    <2>1. PICK h : h = [T \in SUBSET (1..0) |-> Text(0, 0)]
      OBVIOUS
    <2>2. SUBSET (1..0) = {{}}
      OBVIOUS
    <2>3. \A T \in SUBSET (1..0) : FoldStep(h, s, T) = Text(0, 0)
      BY <2>2 DEF FoldStep
    <2>4. IsFold(h, s, 0)
      BY <2>1, <2>3 DEF IsFold
    <2>5. QED
      BY <2>4
  <1>2. ASSUME NEW n \in Nat, n \in S PROVE n + 1 \in S
    <2>1. PICK h : IsFold(h, s, n)
      BY <1>2
    <2> DEFINE Then(T) == IF n + 1 \in T THEN Plus(h[T \ {n + 1}], s[n + 1]) ELSE h[T]
    <2>2. PICK g : g = [T \in SUBSET (1..n + 1) |-> Then(T)]
      OBVIOUS
    <2>3. 1..n + 1 = (1..n) \cup {n + 1} /\ n + 1 \notin 1..n
      OBVIOUS
    <2>4. \A T \in SUBSET (1..n) : T \in SUBSET (1..n + 1) /\ g[T] = h[T]
      BY <2>2, <2>3
    <2>5. ASSUME NEW T \in SUBSET (1..n + 1) PROVE g[T] = FoldStep(g, s, T)
      <3>1. CASE n + 1 \in T
        <4>1. Max(T) = n + 1
          BY <3>1, GreatestOf
        <4>2. T \ {n + 1} \in SUBSET (1..n)
          BY <2>3
        <4>3. g[T] = Plus(g[T \ {n + 1}], s[n + 1])
          BY <2>2, <2>4, <3>1, <4>2
        <4>4. QED
          BY <3>1, <4>1, <4>3 DEF FoldStep
      <3>2. CASE n + 1 \notin T
        <4>1. T \in SUBSET (1..n)
          BY <2>3, <3>2
        <4>2. g[T] = FoldStep(h, s, T)
          BY <2>1, <2>4, <4>1 DEF IsFold
        <4>3. g[T \ {Max(T)}] = h[T \ {Max(T)}]
          BY <2>4, <4>1
        <4>4. QED
          BY <4>2, <4>3 DEF FoldStep
      <3>3. QED
        BY <3>1, <3>2
    <2>6. IsFold(g, s, n + 1)
      BY <2>2, <2>5 DEF IsFold
    <2>7. QED
      BY <2>6
  <1>3. Nat \subseteq S
    <2> HIDE DEF S
    <2> QED
      BY <1>1, <1>2, SetInduction
  <1>4. QED
    BY <1>3

\* The total is the last of the running sums.
LEMMA TotalIsRunning ==
  ASSUME NEW n \in Nat, NEW s, DOMAIN s = 1..n
  PROVE  \E g : /\ g[0] = Text(0, 0) /\ g[n] = Total(s)
                /\ \A k \in 1..n : g[k] = Plus(g[k - 1], s[k])
  <1> DEFINE fold == CHOOSE h : IsFold(h, s, n)
  <1>1. IsFold(fold, s, n)
    BY FoldExists
  <1>2. Total(s) = fold[1..n]
    BY DEF Total, FoldLeft, MapThenFoldSet, IsFold, FoldStep
  <1> HIDE DEF fold
  <1>3. PICK g : g = [k \in 0..n |-> fold[1..k]]
    OBVIOUS
  <1>4. ASSUME NEW k \in 1..n PROVE g[k] = Plus(g[k - 1], s[k])
    <2>1. k - 1 \in Nat /\ k \in 0..n /\ k - 1 \in 0..n
      OBVIOUS
    <2>2. 1..k \in SUBSET (1..n) /\ 1..k # {} /\ (1..k) \ {k} = 1..k - 1
      OBVIOUS
    <2>3. Max(1..k) = k
      <3>1. PICK j \in Nat : j = k - 1
        BY <2>1
      <3>2. j + 1 = k /\ 1..k \in SUBSET (1..j + 1) /\ j + 1 \in 1..k
        BY <3>1
      <3>3. QED
        BY <3>2, GreatestOf
    <2>4. fold[1..k] = Plus(fold[1..k - 1], s[k])
      BY <1>1, <2>2, <2>3 DEF IsFold, FoldStep
    <2>5. QED
      BY <1>3, <2>1, <2>4
  <1>5. g[0] = Text(0, 0)
    <2>1. 1..0 = {} /\ {} \in SUBSET (1..n) /\ 0 \in 0..n
      OBVIOUS
    <2>2. QED
      BY <1>1, <1>3, <2>1 DEF IsFold, FoldStep
  <1>6. g[n] = Total(s)
    BY <1>2, <1>3
  <1>7. QED
    BY <1>4, <1>5, <1>6

\* What an amount comes to, in units of the finest scale; one that does not
\* parse comes to nothing.
Worth(a) == IF Parses(a) THEN a.n * Pow10(4 - a.scale) ELSE 0

\* Powers of ten multiply, as far as the scales go.
LEMMA PowersMultiply ==
  ASSUME NEW i \in Scales, NEW j \in Scales, i + j \in Scales
  PROVE  Pow10(i) * Pow10(j) = Pow10(i + j)
  <1>1. Pow10(0) = 1 /\ Pow10(1) = 10 /\ Pow10(2) = 100 /\ Pow10(3) = 1000 /\ Pow10(4) = 10000
    BY DEF Pow10
  <1>2. i \in {0, 1, 2, 3, 4} /\ j \in {0, 1, 2, 3, 4} /\ i + j <= 4
    BY DEF Scales
  <1>3. QED
    BY <1>1, <1>2

\* A text at a wider scale is worth the same.
LEMMA ScaledIsWorth ==
  ASSUME NEW n \in Nat, NEW scale \in Scales, NEW wide \in Scales, scale <= wide
  PROVE  /\ Scaled(Text(n, scale), wide) \in Nat
         /\ Scaled(Text(n, scale), wide) * Pow10(4 - wide) = Worth(Text(n, scale))
  <1>1. wide - scale \in Scales /\ 4 - wide \in Scales /\ (wide - scale) + (4 - wide) = 4 - scale /\ 4 - scale \in Scales
    BY DEF Scales
  <1>2. PICK p \in Nat, q \in Nat : p = Pow10(wide - scale) /\ q = Pow10(4 - wide)
    BY <1>1, Pow10Facts
  <1>3. p * q = Pow10(4 - scale)
    BY <1>1, <1>2, PowersMultiply
  <1>4. Scaled(Text(n, scale), wide) = n * p /\ Worth(Text(n, scale)) = n * (p * q)
    BY <1>2, <1>3 DEF Scaled, Text, Worth, Parses
  <1>5. n * p \in Nat /\ (n * p) * q = n * (p * q)
    OBVIOUS
  <1>6. QED
    BY <1>2, <1>4, <1>5

\* Comparing at the wider of two scales compares what they are worth.
LEMMA ComparedByWorth ==
  ASSUME NEW a \in Texts, NEW b \in Texts
  PROVE  (AtMost(a, b) <=> Worth(a) <= Worth(b)) /\ (EqualExact(a, b) <=> Worth(a) = Worth(b))
  <1>1. PICK n \in Nat, m \in Nat, i \in Scales, j \in Scales : a = Text(n, i) /\ b = Text(m, j)
    BY DEF Texts, Text
  <1>2. PICK w \in Scales : w = Widest(a, b) /\ i <= w /\ j <= w
    BY <1>1 DEF Widest, Text, Scales
  <1>3. PICK x \in Nat, y \in Nat, q \in Nat \ {0} :
          x = Scaled(a, w) /\ y = Scaled(b, w) /\ q = Pow10(4 - w)
    <2>1. 4 - w \in Scales
      BY DEF Scales
    <2>2. QED
      BY <1>1, <1>2, <2>1, ScaledIsWorth, Pow10Facts
  <1>4. Worth(a) = x * q /\ Worth(b) = y * q
    BY <1>1, <1>2, <1>3, ScaledIsWorth
  <1>5. (x <= y <=> x * q <= y * q) /\ (x = y <=> x * q = y * q)
    OBVIOUS
  <1>6. QED
    BY <1>2, <1>3, <1>4, <1>5 DEF AtMost, EqualExact

\* A sum is worth what its parts are worth (addExactDecimals).
LEMMA PlusIsExact ==
  ASSUME NEW sum \in Texts, NEW a \in {Absent, Malformed} \cup Texts
  PROVE  Plus(sum, a) \in Texts /\ Worth(a) \in Nat /\ Worth(Plus(sum, a)) = Worth(sum) + Worth(a)
  <1>1. ASSUME NEW t \in Texts PROVE Parses(t) /\ Worth(t) \in Nat
    <2>1. 4 - t.scale \in Scales
      BY DEF Texts, Scales
    <2>2. QED
      BY <2>1, Pow10Facts DEF Texts, Parses, Worth
  <1>2. CASE ~Parses(a)
    BY <1>1, <1>2 DEF Plus, Worth
  <1>3. CASE Parses(a)
    <2>1. a \in Texts
      BY <1>3 DEF Parses, Absent, Malformed
    <2>2. PICK n \in Nat, m \in Nat, i \in Scales, j \in Scales : sum = Text(n, i) /\ a = Text(m, j)
      BY <2>1 DEF Texts, Text
    <2>3. PICK w \in Scales : w = Widest(sum, a) /\ i <= w /\ j <= w
      BY <2>2 DEF Widest, Text, Scales
    <2>4. PICK x \in Nat, y \in Nat, q \in Nat :
            x = Scaled(sum, w) /\ y = Scaled(a, w) /\ q = Pow10(4 - w)
      <3>1. 4 - w \in Scales
        BY DEF Scales
      <3>2. QED
        BY <2>2, <2>3, <3>1, ScaledIsWorth, Pow10Facts
    <2>5. Worth(sum) = x * q /\ Worth(a) = y * q
      BY <2>2, <2>3, <2>4, ScaledIsWorth
    <2>6. PICK t : t = Text(x + y, w)
      OBVIOUS
    <2>7. Plus(sum, a) = t
      BY <1>3, <2>3, <2>4, <2>6 DEF Plus, AddExact
    <2>8. t \in Texts /\ Worth(t) = (x + y) * q
      BY <2>4, <2>6 DEF Texts, Text, Worth, Parses
    <2>9. (x + y) * q = x * q + y * q
      OBVIOUS
    <2>10. QED
      BY <1>1, <2>1, <2>5, <2>7, <2>8, <2>9
  <1>4. QED
    BY <1>2, <1>3

\* A total of amounts that are worth no less, position by position, is worth no
\* less, for lists of every length (checkDeclaredControlSum).
LEMMA TotalsCompare ==
  ASSUME NEW n \in Nat, NEW s, NEW t, DOMAIN s = 1..n, DOMAIN t = 1..n,
         \A k \in 1..n : /\ s[k] \in {Absent, Malformed} \cup Texts
                         /\ t[k] \in {Absent, Malformed} \cup Texts
                         /\ Worth(s[k]) <= Worth(t[k])
  PROVE  Total(s) \in Texts /\ Total(t) \in Texts /\ Worth(Total(s)) <= Worth(Total(t))
  <1>1. PICK g : /\ g[0] = Text(0, 0) /\ g[n] = Total(s)
                 /\ \A k \in 1..n : g[k] = Plus(g[k - 1], s[k])
    BY TotalIsRunning
  <1>2. PICK h : /\ h[0] = Text(0, 0) /\ h[n] = Total(t)
                 /\ \A k \in 1..n : h[k] = Plus(h[k - 1], t[k])
    BY TotalIsRunning
  <1> DEFINE Fits(k) == g[k] \in Texts /\ h[k] \in Texts /\ Worth(g[k]) <= Worth(h[k])
             S == {k \in Nat : k <= n => Fits(k)}
  <1>3. 0 \in S
    <2>1. Text(0, 0) \in Texts
      BY DEF Text, Texts, Scales
    <2>2. Worth(Text(0, 0)) \in Nat
      BY <2>1, PlusIsExact
    <2>3. QED
      BY <1>1, <1>2, <2>1, <2>2
  <1>4. ASSUME NEW k \in Nat, k \in S PROVE k + 1 \in S
    <2>1. SUFFICES ASSUME k + 1 <= n PROVE Fits(k + 1)
      BY k + 1 \in Nat
    <2>2. Fits(k) /\ k + 1 \in 1..n /\ (k + 1) - 1 = k
      BY <1>4, <2>1
    <2>3. g[k + 1] = Plus(g[k], s[k + 1]) /\ h[k + 1] = Plus(h[k], t[k + 1])
      BY <1>1, <1>2, <2>2
    <2>4. g[k + 1] \in Texts /\ Worth(s[k + 1]) \in Nat /\ Worth(g[k + 1]) = Worth(g[k]) + Worth(s[k + 1])
      BY <2>2, <2>3, PlusIsExact
    <2>5. h[k + 1] \in Texts /\ Worth(t[k + 1]) \in Nat /\ Worth(h[k + 1]) = Worth(h[k]) + Worth(t[k + 1])
      BY <2>2, <2>3, PlusIsExact
    <2>6. Worth(g[k]) \in Nat /\ Worth(h[k]) \in Nat
      BY <2>2, PlusIsExact
    <2>7. Worth(s[k + 1]) <= Worth(t[k + 1])
      BY <2>2
    <2>8. QED
      BY <2>2, <2>4, <2>5, <2>6, <2>7
  <1>5. Nat \subseteq S
    <2> HIDE DEF S
    <2> QED
      BY <1>3, <1>4, SetInduction
  <1>6. Fits(n)
    BY <1>5
  <1>7. QED
    BY <1>1, <1>2, <1>6

\* The header of a file without document errors counts and sums up all of its
\* transactions (parse).
LEMMA HeaderIsChecked ==
  ASSUME NEW u \in Uploads \ Unsound
  PROVE  /\ File[u].message.count.n = Len(Transactions(File[u].message))
         /\ Parses(File[u].message.sum) => EqualExact(File[u].message.sum, Total(AllAmounts(File[u].message)))
  <1> DEFINE m == File[u].message
  <1>1. DocumentErrors(m, File[u].input) = {}
    BY DEF Unsound
  <1>2. HeaderChecks(m) = {} /\ m.count # Absent
    <2>1. /\ HeaderChecks(m) \subseteq DocumentErrors(m, File[u].input)
          /\ When(m.count = Absent, "MISSING_TRANSACTION_COUNT") \subseteq DocumentErrors(m, File[u].input)
      BY DEF DocumentErrors
    <2>2. QED
      BY <1>1, <2>1 DEF When
  <1>3. /\ CheckDeclaredCount(m.count, Len(Transactions(m))) = {}
        /\ CheckDeclaredControlSum(m.sum, AllAmounts(m)) = {}
    BY <1>2 DEF HeaderChecks
  <1>4. Parses(m.count)
    <2>1. m.count \in {Absent, Malformed} \cup Texts
      BY ImportAssumption DEF ImportAssumption
    <2>2. m.count # Malformed
      BY <1>3 DEF CheckDeclaredCount, When
    <2>3. QED
      BY <1>2, <2>1, <2>2 DEF Texts, Parses
  <1>5. QED
    BY <1>3, <1>4 DEF CheckDeclaredCount, CheckDeclaredControlSum, When

\* What a file prepares never adds up to more than the control sum, nor counts
\* more than the transactions, that its header declares: the checks of parse at
\* three levels, through the answer that joins results to transactions.
THEOREM PreparedAsDeclared == ImportSpec => []WithinDeclaration
  <1>1. FileInv => WithinDeclaration
    <2>1. SUFFICES ASSUME FileInv, NEW c \in Calls, Answered(c), Prepared(c) # {}
                   PROVE  LET m == File[import[c].upload].message
                              total == Total([i \in DOMAIN Items(c) |->
                                         IF i \in Prepared(c) THEN Transactions(m)[i].tx.amount ELSE Absent])
                          IN /\ Parses(m.sum) => AtMost(total, m.sum)
                             /\ Cardinality(Prepared(c)) <= m.count.n
      BY DEF WithinDeclaration
    <2>2. PICK u \in Uploads, day \in 0..MaxDay :
            /\ ImportOf(import[c], call[c], u, day)
            /\ DOMAIN Items(c) = DOMAIN Requests[u]
            /\ \A i \in DOMAIN Requests[u] \ import[c].valid : Items(c)[i].status = "rejected"
      BY <2>1, ItemsOfAnswer
    <2>3. Prepared(c) \subseteq DOMAIN Items(c) /\ u \notin Unsound
      BY <2>1, <2>2 DEF Prepared, ImportOf
    <2> DEFINE m == File[u].message
               s == [i \in DOMAIN Items(c) |->
                       IF i \in Prepared(c) THEN Transactions(m)[i].tx.amount ELSE Absent]
    <2>4. import[c].upload = u
      BY <2>2 DEF ImportOf
    <2>5. PICK n \in Nat : n = Len(Transactions(m)) /\ DOMAIN Transactions(m) = 1..n
      BY ImportAssumption DEF ImportAssumption
    <2>6. DOMAIN Items(c) = 1..n
      BY <2>2, <2>5, RequestsOfFile
    <2>7. Cardinality(Prepared(c)) <= n
      <3>1. IsFiniteSet(1..n) /\ Cardinality(1..n) = n
        BY FS_Interval
      <3>2. QED
        BY <2>3, <2>6, <3>1, FS_Subset
    <2>8. ASSUME Parses(m.sum) PROVE AtMost(Total(s), m.sum)
      <3>1. \A i \in 1..n : Transactions(m)[i].tx.amount \in {Absent, Malformed} \cup Texts
        BY <2>5, ImportAssumption DEF ImportAssumption
      <3>2. DOMAIN s = 1..n /\ DOMAIN AllAmounts(m) = 1..n
        BY <2>5, <2>6 DEF AllAmounts
      <3>3. ASSUME NEW i \in 1..n
            PROVE  /\ s[i] \in {Absent, Malformed} \cup Texts
                   /\ AllAmounts(m)[i] \in {Absent, Malformed} \cup Texts
                   /\ Worth(s[i]) <= Worth(AllAmounts(m)[i])
        <4>1. AllAmounts(m)[i] = Transactions(m)[i].tx.amount
          BY <2>5 DEF AllAmounts
        <4>2. s[i] = AllAmounts(m)[i] \/ s[i] = Absent
          BY <2>6, <4>1
        <4>3. Worth(AllAmounts(m)[i]) \in Nat
          <5>1. Text(0, 0) \in Texts
            BY DEF Text, Texts, Scales
          <5>2. QED
            BY <3>1, <4>1, <5>1, PlusIsExact
        <4>4. Worth(Absent) = 0
          BY DEF Worth, Parses, Absent
        <4>5. QED
          BY <3>1, <4>1, <4>2, <4>3, <4>4
      <3> HIDE DEF s
      <3>4. /\ Total(s) \in Texts /\ Total(AllAmounts(m)) \in Texts
            /\ Worth(Total(s)) <= Worth(Total(AllAmounts(m)))
        BY <3>2, <3>3, TotalsCompare
      <3>5. m.sum \in Texts
        <4>1. m.sum \in {Absent, Malformed} \cup Texts
          BY ImportAssumption DEF ImportAssumption
        <4>2. QED
          BY <2>8, <4>1 DEF Parses, Absent, Malformed
      <3>6. EqualExact(m.sum, Total(AllAmounts(m)))
        BY <2>3, <2>8, HeaderIsChecked
      <3>7. QED
        BY <3>4, <3>5, <3>6, ComparedByWorth
    <2>9. m.count.n = n
      BY <2>3, <2>5, HeaderIsChecked
    <2>10. QED
      BY <2>4, <2>7, <2>8, <2>9
  <1>2. QED
    BY <1>1, ImportInvariant, PTL

=============================================================================
