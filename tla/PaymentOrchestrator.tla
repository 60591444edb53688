-------------------------- MODULE PaymentOrchestrator --------------------------
(***************************************************************************)
(* PaymentOrchestrator over the in-memory payment store: batches are       *)
(* prepared under client references, payments submitted and reconciled.    *)
(* Nothing keeps the calls apart: they interleave at every await.          *)
(***************************************************************************)
EXTENDS Naturals, Sequences, FiniteSetsExt

CONSTANTS
  Payments,    \* payment requests: [ref, account, amount, ...]
  Fee,         \* what the provider's quote adds to an amount
  Batches,     \* sequences of payments that are prepared together
  Balances,    \* balances the provider may report
  Calls,       \* calls that may overlap
  MaxStored    \* bound: records prepared and transfers made, together

ASSUME PaymentAssumption ==
  /\ \A p \in Payments : p.amount \in Nat
  /\ Batches \subseteq Seq(Payments)
  /\ Balances \subseteq Nat
  /\ {Fee, MaxStored} \subseteq Nat

VARIABLES
  rows,      \* InMemoryPaymentStore.records, in the order of insertion
  transfers, \* the provider's transactions, with the reference they were made for
  call

vars == <<rows, transfers, call>>

\* A declined transfer ends like a failed one.
Terminal == {"completed", "failed", "reverted"}
Unsent == {"funds_confirmed", "manual_review"}
PaymentStates == Unsent \cup {"pending"} \cup Terminal
Outcomes == {"existing", "rejected", "funds_confirmed", "manual_review", "prepared"}

Row == [request: Payments, state: PaymentStates, tx: 0..MaxStored]
Idle == [pc |-> "IDLE"]

\* The states a transfer that is now in s has been in.
Past(s) == {"pending", s} \cup (IF s = "reverted" THEN {"completed"} ELSE {})

\* The account and currency a payment draws on, and what it draws.
Accounts == {p.account : p \in Payments}
Debit(p) == p.amount + Fee

\* Before any account was asked about.
NoBalances == [a \in {} |-> 0]

Init == rows = <<>> /\ transfers = <<>> /\ call = [c \in Calls |-> Idle]

At(c, pc) == call[c].pc = pc
Holders(ref) == {i \in DOMAIN rows : rows[i].request.ref = ref}
Of(c, outcomes) == {i \in DOMAIN call[c].out : call[c].out[i] \in outcomes}

----------------------------------------------------------------------------
(* prepareMany.                                                            *)

PrepareMany(c, b, atomic) ==
  /\ At(c, "IDLE")
  /\ call' = [call EXCEPT ![c] =
       [pc |-> "LOOKUP", batch |-> b, atomic |-> atomic, out |-> <<>>,
        available |-> NoBalances]]
  /\ UNCHANGED <<rows, transfers>>

Prepare(c) == \E b \in Batches, atomic \in BOOLEAN : PrepareMany(c, b, atomic)

\* What becomes of payment i of a batch: a repeated reference is rejected, a
\* stored one found; otherwise the checks of assess decide.
Assessed(b, i) ==
  LET p == b[i] IN
  IF \E j \in 1..(i - 1) : b[j].ref = p.ref THEN {"rejected"}
  ELSE IF Holders(p.ref) # {}
       THEN {IF rows[Min(Holders(p.ref))].request = p THEN "existing" ELSE "rejected"}
       ELSE {"rejected", "manual_review", "funds_confirmed"}

LookedUp(c) == At(c, "LOOKUP") /\ Len(call[c].out) = Len(call[c].batch)

LookUp(c) ==
  /\ At(c, "LOOKUP") /\ ~LookedUp(c)
  /\ \E o \in Assessed(call[c].batch, Len(call[c].out) + 1) :
       call' = [call EXCEPT ![c].out = Append(@, o)]
  /\ UNCHANGED <<rows, transfers>>

Aborted(c) == call[c].atomic /\ Of(c, {"rejected"}) # {}

Pending(c) == Of(c, {"funds_confirmed", "manual_review"})

Debits(batch, S) == MapThenSumSet(LAMBDA i : Debit(batch[i]), S)

DrawnOn(batch, S, a) == {i \in S : batch[i].account = a}

Groups(c) == {call[c].batch[i].account : i \in Pending(c)}

\* Mutant: every payment is compared with the balance on its own.
Aggregate_Single(c, a) ==
  LET S == DrawnOn(call[c].batch, Pending(c), a)
  IN IF S = {} THEN 0 ELSE Max({Debit(call[c].batch[i]) : i \in S})
Aggregate(c, a) == Debits(call[c].batch, DrawnOn(call[c].batch, Pending(c), a))

\* The payments of the groups that their account's balance covers.  In atomic
\* mode one group that is not covered takes all the others with it.
Covered(c, available) ==
  {i \in Pending(c) : LET a == call[c].batch[i].account IN Aggregate(c, a) <= available[a]}

\* Mutant: a group that is not covered takes nothing else with it.
Kept_OwnGroup(c, available) == Covered(c, available)
Kept(c, available) ==
  IF call[c].atomic /\ Covered(c, available) # Pending(c) THEN {} ELSE Covered(c, available)

\* The results, with these of the pending payments prepared.
Finished(c, kept) ==
  [i \in DOMAIN call[c].out |->
     IF i \in kept THEN "prepared" ELSE IF i \in Pending(c) THEN "rejected" ELSE call[c].out[i]]

NewRow(p, s) == [request |-> p, state |-> s, tx |-> 0]

\* The k-th of a set of positions.
Nth(S, k) == CHOOSE i \in S : Cardinality({j \in S : j <= i}) = k

\* The records of these payments of a batch, in its order.
Saved(c, kept) ==
  [k \in 1..Cardinality(kept) |->
     LET i == Nth(kept, k) IN NewRow(call[c].batch[i], call[c].out[i])]

\* The aggregate funds checks and saveMany.  The balances concern this call
\* alone, so their awaits are not steps of their own; one that is reported for
\* another account is as good as none.
SaveBatch(c) ==
  /\ LookedUp(c) /\ ~Aborted(c)
  /\ \E available \in [Groups(c) -> Balances] :
       LET kept == Kept(c, available)
       IN /\ call' = [call EXCEPT ![c].pc = "DONE", ![c].available = available,
                                   ![c].out = Finished(c, kept)]
          /\ rows' = rows \o Saved(c, kept)
  /\ Len(rows') + Len(transfers) <= MaxStored
  /\ UNCHANGED transfers

Abort(c) ==
  /\ LookedUp(c) /\ Aborted(c)
  /\ call' = [call EXCEPT ![c].pc = "DONE", ![c].out = Finished(c, {})]
  /\ UNCHANGED <<rows, transfers>>

Return(c) ==
  /\ At(c, "DONE") /\ call' = [call EXCEPT ![c] = Idle]
  /\ UNCHANGED <<rows, transfers>>

----------------------------------------------------------------------------
(* submit.                                                                 *)

Submit(c, i) ==
  /\ At(c, "IDLE") /\ rows[i].state = "funds_confirmed" /\ rows[i].tx = 0
  /\ call' = [call EXCEPT ![c] = [pc |-> "CHECK", id |-> i, rec |-> rows[i]]]
  /\ UNCHANGED <<rows, transfers>>

\* The quote and the balance concern this call alone, so their awaits are no
\* steps of their own.  The quote changed, or the balance no longer covers it.
HoldForReview(c) ==
  /\ At(c, "CHECK")
  /\ rows' = [rows EXCEPT ![call[c].id] = [call[c].rec EXCEPT !.state = "manual_review"]]
  /\ call' = [call EXCEPT ![c] = Idle]
  /\ UNCHANGED transfers

\* submitTransfer, under the client reference as its idempotency key: the only
\* provider there is, MockBankingProvider, ignores the key and makes a transfer
\* of every request.
SubmitTransfer(c) ==
  /\ At(c, "CHECK") /\ Len(rows) + Len(transfers) < MaxStored
  /\ transfers' = Append(transfers, [ref |-> call[c].rec.request.ref, state |-> "pending"])
  /\ call' = [call EXCEPT ![c].pc = "SAVE",
                          ![c].rec = [@ EXCEPT !.tx = Len(transfers'), !.state = "pending"]]
  /\ UNCHANGED rows

----------------------------------------------------------------------------
(* reconcile, applyProviderState, and what every call may meet.            *)

Reconcile(c, i) ==
  /\ At(c, "IDLE") /\ rows[i].tx # 0 /\ rows[i].state \notin Terminal
  /\ call' = [call EXCEPT ![c] = [pc |-> "ASK", id |-> i, rec |-> rows[i]]]
  /\ UNCHANGED <<rows, transfers>>

\* Mutant: the transfer asked about is the one the row names now.
GetTransaction_Current(c) ==
  /\ At(c, "ASK")
  /\ LET tx == rows[call[c].id].tx
         state == IF tx = 0 THEN "failed" ELSE transfers[tx].state
     IN call' = [call EXCEPT ![c].pc = "SAVE", ![c].rec.state = state]
  /\ UNCHANGED <<rows, transfers>>
GetTransaction(c) ==
  /\ At(c, "ASK")
  /\ call' = [call EXCEPT ![c].pc = "SAVE", ![c].rec.state = transfers[call[c].rec.tx].state]
  /\ UNCHANGED <<rows, transfers>>

\* A state is reported for a transfer, perhaps long after it had it.  The first
\* record that has the transfer takes the state.
ApplyProviderState(c, t) ==
  /\ At(c, "IDLE")
  /\ \E i \in DOMAIN rows, s \in Past(transfers[t].state) :
       /\ rows[i].tx = t /\ \A j \in 1..(i - 1) : rows[j].tx # t
       /\ call' = [call EXCEPT ![c] =
            [pc |-> "SAVE", id |-> i, rec |-> [rows[i] EXCEPT !.state = s]]]
  /\ UNCHANGED <<rows, transfers>>

\* All three operations write back the whole record they read.
Save(c) ==
  /\ At(c, "SAVE")
  /\ rows' = [rows EXCEPT ![call[c].id] = call[c].rec]
  /\ call' = [call EXCEPT ![c] = Idle]
  /\ UNCHANGED transfers

\* An exchange with the provider fails, possibly after it took effect.
Fails(c) ==
  /\ LookedUp(c) \/ call[c].pc \in {"CHECK", "ASK", "SAVE"}
  /\ call' = [call EXCEPT ![c] = Idle]
  /\ UNCHANGED <<rows, transfers>>

\* A transfer ends; one that was completed may be reverted.
TransferMoves(t) ==
  /\ \E s \in Terminal :
       /\ transfers[t].state = IF s = "reverted" THEN "completed" ELSE "pending"
       /\ transfers' = [transfers EXCEPT ![t].state = s]
  /\ UNCHANGED <<rows, call>>

Next ==
  \/ \E c \in Calls :
       \/ Prepare(c) \/ LookUp(c) \/ SaveBatch(c) \/ Abort(c) \/ Return(c)
       \/ HoldForReview(c) \/ SubmitTransfer(c) \/ GetTransaction(c)
       \/ Save(c) \/ Fails(c)
       \/ \E i \in DOMAIN rows : Submit(c, i) \/ Reconcile(c, i)
       \/ \E t \in DOMAIN transfers : ApplyProviderState(c, t)
  \/ \E t \in DOMAIN transfers : TransferMoves(t)

Spec == Init /\ [][Next]_vars

----------------------------------------------------------------------------
(* Properties.                                                             *)

\* Rows and transfers are well formed, and calls refer to rows and transfers
\* that exist.
TypeOK ==
  /\ rows \in Seq(Row)
  /\ \A t \in DOMAIN transfers : transfers[t].state \in {"pending"} \cup Terminal
  /\ \A i \in DOMAIN rows : rows[i].tx \in {0} \cup DOMAIN transfers
  /\ \A c \in Calls :
       /\ call[c].pc \in {"CHECK", "ASK", "SAVE"} =>
            call[c].id \in DOMAIN rows /\ call[c].rec \in Row
       /\ call[c].pc \in {"LOOKUP", "DONE"} =>
            call[c].batch \in Seq(Payments) /\ \A o \in DOMAIN call[c].out : call[c].out[o] \in Outcomes

\* A record that names a transfer names one made for its own reference, and
\* stands at a state which that transfer, and not another, has been in; one that
\* names none stands at no provider's state.  Overlapping submissions, reconciles
\* and reported states write the record back in any order, each with the copy it
\* read: what is stored is never one's transfer with the other's state.
Follows(rec) ==
  IF rec.tx = 0 THEN rec.state \in Unsent
  ELSE /\ transfers[rec.tx].ref = rec.request.ref
       /\ rec.state \in Past(transfers[rec.tx].state)

RecordFollowsItsTransfer == \A i \in DOMAIN rows : Follows(rows[i])

\* What a batch prepares is covered, account by account and fees included, by the
\* balance it saw there.
AggregateCovered ==
  \A c \in Calls, a \in Accounts :
    LET S == DrawnOn(call[c].batch, Of(c, {"prepared"}), a)
    IN At(c, "DONE") /\ S # {} => Debits(call[c].batch, S) <= call[c].available[a]

----------------------------------------------------------------------------
(* Promises of the documents and comments that the code does not keep.     *)

\* "Exactly one authorized bank transfer per unique canonical payment request"
\* (docs/ARCHITECTURE.md): overlapping submissions of a reference make a transfer
\* each, and a submission whose answer was lost makes another when repeated.
OneTransferPerReference ==
  \A t, u \in DOMAIN transfers : transfers[t].ref = transfers[u].ref => t = u

\* A client reference belongs to one payment request.
ReferenceIsUnique == \A i, j \in DOMAIN rows : rows[i].request.ref = rows[j].request.ref => i = j

\* A transfer whose id was recorded stays traceable from its record.
TransferStaysTraced ==
  [][\A i \in DOMAIN rows : rows[i].tx # 0 => rows'[i].tx = rows[i].tx]_vars

=============================================================================
