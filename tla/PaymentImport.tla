---------------------------- MODULE PaymentImport ----------------------------
(***************************************************************************)
(* Iso20022ImportService over the orchestrator, and its two routes: a file *)
(* is parsed, its valid payments are prepared together, and the answer     *)
(* says of every transaction of the file what became of it.  Imports       *)
(* overlap each other and the orchestrator's other calls.                  *)
(***************************************************************************)
EXTENDS PaymentOrchestrator, Iso20022Message

CONSTANTS
  Uploads,  \* names of what may be uploaded
  File,     \* [message, input, atomic] of each: a file and the form it is sent with
  MaxDay    \* bound: the last day of the model

ASSUME ImportAssumption ==
  /\ MaxDay \in Nat
  /\ \A u \in Uploads :
       LET txs == Transactions(File[u].message) IN
       /\ File[u].atomic \in BOOLEAN /\ Len(txs) \in Nat /\ DOMAIN txs = 1..Len(txs)
       /\ {File[u].message.sum, File[u].message.count} \subseteq {Absent, Malformed} \cup Texts
       /\ \A i \in DOMAIN txs :
            txs[i].tx.amount \in {Absent, Malformed} \cup Texts
       /\ \A day \in 0..MaxDay, i \in DOMAIN txs :
            i \in ValidPayments(File[u].message, File[u].input, day) => Request(File[u].message, i, File[u].input) \in Payments

VARIABLE import  \* the import a call works for, until it is answered

importVars == <<vars, import>>

NoImport == [upload |-> None]

ImportInit == Init /\ import = [c \in Calls |-> NoImport]

\* What parse makes of every file, on every day it may be sent.
Valid == [u \in Uploads |-> [day \in 0..MaxDay |-> ValidPayments(File[u].message, File[u].input, day)]]
Requests == [u \in Uploads |->
  [i \in DOMAIN Transactions(File[u].message) |-> Request(File[u].message, i, File[u].input)]]
Unsound == {u \in Uploads : DocumentErrors(File[u].message, File[u].input) # {}}

\* The place of candidate i among the valid ones.
\* Mutant: the results are taken for those of all transactions.
Place_OfAll(valid, i) == i
Place(valid, i) == Cardinality({j \in valid : j <= i})

----------------------------------------------------------------------------
(* prepare.                                                                *)

\* In atomic mode one invalid transaction refuses the file.
Refused(u, day) ==
  \/ u \in Unsound
  \/ File[u].atomic /\ Valid[u][day] # DOMAIN Requests[u]

\* The file is answered without the orchestrator.
ImportRefused(c, u, day) ==
  /\ At(c, "IDLE") /\ Refused(u, day)
  /\ call' = [call EXCEPT ![c] =
       [pc |-> "DONE", batch |-> <<>>, atomic |-> File[u].atomic, out |-> <<>>,
        available |-> NoBalances]]
  /\ import' = [import EXCEPT ![c] = [upload |-> u, valid |-> {}]]
  /\ UNCHANGED <<rows, transfers>>

ImportStarts(c, u, day) ==
  /\ ~Refused(u, day)
  /\ LET valid == Valid[u][day] IN
       /\ PrepareMany(c, [n \in 1..Cardinality(valid) |-> Requests[u][Nth(valid, n)]], File[u].atomic)
       /\ import' = [import EXCEPT ![c] = [upload |-> u, valid |-> valid]]

\* The results are joined when prepareMany returns: the n-th one is that of
\* the n-th valid candidate, and a transaction without one is rejected.
Answered(c) == import[c] # NoImport /\ At(c, "DONE")

Rejected == [status |-> "rejected", ref |-> <<>>]

Item(c, i) ==
  LET n == Place(import[c].valid, i)
  IN IF i \in import[c].valid /\ n \in DOMAIN call[c].out /\ call[c].out[n] # "rejected"
     THEN [status |-> call[c].out[n], ref |-> call[c].batch[n].ref] ELSE Rejected

Items(c) == [i \in DOMAIN Requests[import[c].upload] |-> Item(c, i)]

\* An import ends with its call, answered or failed.
Continue ==
  /\ Next
  /\ import' = [c \in Calls |-> IF call'[c] = Idle THEN NoImport ELSE import[c]]

ImportNext ==
  \/ \E c \in Calls, u \in Uploads, day \in 0..MaxDay :
       ImportRefused(c, u, day) \/ ImportStarts(c, u, day)
  \/ Continue

ImportSpec == ImportInit /\ [][ImportNext]_importVars

----------------------------------------------------------------------------
(* Properties.                                                             *)

\* What an answer hands back.
Prepared(c) == {i \in DOMAIN Items(c) : Items(c)[i].status # "rejected"}

\* Every transaction that an answer calls prepared or existing has a stored
\* payment, made from exactly this transaction: its account, creditor and date,
\* and its amount to the last digit, wherever invalid neighbours stood before it
\* in the file; and no payment is stored of which the answer does not say so.
ItemsAreStored ==
  \A c \in Calls : Answered(c) =>
    /\ \A i \in Prepared(c) : \E r \in DOMAIN rows :
         /\ rows[r].request = Requests[import[c].upload][i]
         /\ rows[r].request.ref = Items(c)[i].ref
         /\ LET tx == Transactions(File[import[c].upload].message)[i].tx
            IN EqualExact(Text(rows[r].request.amount, CurrencyMinorUnits[tx.currency]), tx.amount)
    /\ Cardinality(Prepared(c)) = Cardinality(Of(c, {"prepared", "existing"}))

\* "Any transaction-level validation or preparation failure rejects all new
\* candidates in that import" (docs/ARCHITECTURE.md): an atomic answer with a
\* rejected item has no newly prepared one.
AtomicImport ==
  \A c \in Calls : Answered(c) /\ File[import[c].upload].atomic /\ Prepared(c) # DOMAIN Items(c)
    => \A i \in Prepared(c) : Items(c)[i].status = "existing"

\* What a file prepares never adds up to more than the control sum, nor counts
\* more than the transactions, that its header declares.
WithinDeclaration ==
  \A c \in Calls : Answered(c) /\ Prepared(c) # {} =>
    LET m == File[import[c].upload].message
        total == Total([i \in DOMAIN Items(c) |->
                          IF i \in Prepared(c) THEN Transactions(m)[i].tx.amount ELSE Absent])
    IN /\ Parses(m.sum) => AtMost(total, m.sum)
       /\ Cardinality(Prepared(c)) <= m.count.n

----------------------------------------------------------------------------
(* Promises of the documents and comments that the code does not keep.     *)

\* "Reimporting the same request returns the existing payment"
\* (docs/ISO20022_IMPORT.md).
ReimportReturnsExisting ==
  \A c \in Calls : Answered(c) =>
    \A i \in DOMAIN Items(c) :
      (\E r \in DOMAIN rows : rows[r].request = Requests[import[c].upload][i])
        => Items(c)[i].status # "rejected"

\* "Each normalized payment gets a deterministic client reference"
\* (docs/ISO20022_IMPORT.md), from its place in the file among others, so that
\* two payments alike are told apart.  Ids that contain the '|' which joins them
\* can lead to the same one: the second payment is then rejected as a repetition.
ReferencesAreDistinct ==
  \A c \in Calls : import[c] # NoImport =>
    \A i, j \in DOMAIN Requests[import[c].upload] :
      i # j => Requests[import[c].upload][i].ref # Requests[import[c].upload][j].ref

=============================================================================
