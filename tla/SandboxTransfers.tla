--------------------------- MODULE SandboxTransfers ---------------------------
(***************************************************************************)
(* SandboxInternalTransferService over its SQLite store: transfers between *)
(* owned accounts are prepared under a client reference, submitted with    *)
(* their own id as the provider's request id, and reconciled.  Calls       *)
(* interleave wherever the service awaits the provider.                    *)
(***************************************************************************)
EXTENDS Naturals, FiniteSets

CONSTANTS
  Refs,         \* client references
  Calls,        \* service calls that may overlap
  MaxTransfers, \* bound: record ids drawn
  MaxFaults,    \* bound: provider exchanges that fail
  MaxCrashes    \* bound: restarts of the server

ASSUME TransferAssumption == {MaxTransfers, MaxFaults, MaxCrashes} \subseteq Nat

VARIABLES
  rows,      \* sandbox_transfers
  expired,   \* transfers prepared more than fifteen minutes ago
  inFlight,  \* inFlightSubmissions: the transfers being submitted
  call,      \* the calls
  provider,  \* the provider's transactions, by request id
  drawn, faults, crashes

vars == <<rows, expired, inFlight, call, provider, drawn, faults, crashes>>

Ids == 1..MaxTransfers
None == "NONE"
ProviderStates == {"created", "pending", "completed", "failed"}
Terminal == {"completed", "failed"}
States == {"prepared", "submitted", "pending"} \cup Terminal

NoRow == [ref |-> None, state |-> None, tx |-> FALSE]
Idle == [op |-> None, pc |-> "IDLE", ref |-> None, id |-> 0, rec |-> NoRow,
         answer |-> None, usable |-> TRUE]

Stored == {i \in Ids : rows[i] # NoRow}
OfRef(r) == {i \in Stored : rows[i].ref = r}

Init ==
  /\ rows = [i \in Ids |-> NoRow] /\ expired = {} /\ inFlight = {}
  /\ call = [c \in Calls |-> Idle]
  /\ provider = [i \in Ids |-> None]
  /\ drawn = 0 /\ faults = 0 /\ crashes = 0

Start(c, op, r, i) ==
  /\ call[c].pc = "IDLE"
  /\ call' = [call EXCEPT ![c] =
       [Idle EXCEPT !.op = op, !.pc = "WAIT", !.ref = r, !.id = i,
                    !.rec = IF i = 0 THEN NoRow ELSE rows[i]]]

\* Every way out of submit takes the transfer off the map and ends the calls
\* that joined it.
Ends(c) ==
  LET i == call[c].id
      submitting == call[c].op = "submit"
  IN /\ inFlight' = IF submitting THEN inFlight \ {i} ELSE inFlight
     /\ call' = [d \in Calls |->
          IF d = c \/ (submitting /\ call[d].op = "join" /\ call[d].id = i) THEN Idle ELSE call[d]]

Fault == faults < MaxFaults /\ faults' = faults + 1

----------------------------------------------------------------------------
(* prepare.                                                                *)

\* The transfer of this reference is returned as it is; usable records what
\* the submit route will say of it.
PrepareExisting(c, r) ==
  /\ call[c].pc = "IDLE"
  /\ \E i \in OfRef(r) : call' = [call EXCEPT ![c] =
       [Idle EXCEPT !.op = "prepare", !.pc = "DONE", !.ref = r, !.id = i,
                    !.usable = rows[i].state # "prepared" \/ i \notin expired]]
  /\ UNCHANGED <<rows, expired, inFlight, provider, drawn, faults, crashes>>

PrepareStart(c, r) ==
  /\ OfRef(r) = {}
  /\ Start(c, "prepare", r, 0)
  /\ UNCHANGED <<rows, expired, inFlight, provider, drawn, faults, crashes>>

\* Mutant: client_reference is not unique.
Insertable_Always(r) == TRUE
Insertable(r) == OfRef(r) = {}

\* The accounts were fetched and checked in between.
PrepareSave(c) ==
  /\ call[c].op = "prepare" /\ call[c].pc = "WAIT"
  /\ drawn < MaxTransfers /\ drawn' = drawn + 1
  /\ rows' = IF Insertable(call[c].ref)
             THEN [rows EXCEPT ![drawn + 1] = [ref |-> call[c].ref, state |-> "prepared", tx |-> FALSE]]
             ELSE rows
  /\ Ends(c)
  /\ UNCHANGED <<expired, provider, faults, crashes>>

----------------------------------------------------------------------------
(* submit.                                                                 *)

\* Mutant: a submission under way is not looked up.
InFlight_Ignored(i) == FALSE
InFlight(i) == i \in inFlight

\* The route refuses a transfer that has expired.
SubmitJoin(c, i) ==
  /\ i \in Stored \ expired /\ InFlight(i)
  /\ Start(c, "join", rows[i].ref, i)
  /\ UNCHANGED <<rows, expired, inFlight, provider, drawn, faults, crashes>>

SubmitStart(c, i) ==
  /\ i \in Stored \ expired /\ ~InFlight(i)
  /\ rows[i].state = "prepared"
  /\ Start(c, "submit", rows[i].ref, i)
  /\ inFlight' = inFlight \cup {i}
  /\ UNCHANGED <<rows, expired, provider, drawn, faults, crashes>>

\* The balances were fetched and still cover the transfer.
Post(c) ==
  /\ call[c].op = "submit" /\ call[c].pc = "WAIT"
  /\ call' = [call EXCEPT ![c].pc = "POST"]
  /\ UNCHANGED <<rows, expired, inFlight, provider, drawn, faults, crashes>>

\* The provider (external) makes one transaction per request id.
Arrives(c) ==
  /\ call[c].pc = "POST"
  /\ \E s \in ProviderStates :
       LET i == call[c].id
           state == IF provider[i] = None THEN s ELSE provider[i]
       IN /\ provider' = [provider EXCEPT ![i] = state]
          /\ call' = [call EXCEPT ![c].pc = "ANSWER", ![c].answer = state]
  /\ UNCHANGED <<rows, expired, inFlight, drawn, faults, crashes>>

\* mapProviderState; failed stands for failed, reverted and declined.
Mapped(s) == IF s = "created" THEN "submitted" ELSE s

\* The record that was read is written back with the answer.
Save(c) ==
  /\ call[c].pc = "ANSWER"
  /\ rows' = [rows EXCEPT ![call[c].id] =
       [call[c].rec EXCEPT !.state = Mapped(call[c].answer), !.tx = TRUE]]
  /\ Ends(c)
  /\ UNCHANGED <<expired, provider, drawn, faults, crashes>>

\* An exchange with the provider fails, or a check on its answer does.
Fails(c) ==
  /\ call[c].pc \in {"WAIT", "POST", "ANSWER"} /\ call[c].op # "join" /\ Fault
  /\ Ends(c)
  /\ UNCHANGED <<rows, expired, provider, drawn, crashes>>

----------------------------------------------------------------------------
(* reconcile.                                                              *)

\* Mutant: a pending transfer is taken for a settled one.
Reconcilable_Submitted(i) == rows[i].tx /\ rows[i].state = "submitted"
Reconcilable(i) == rows[i].tx /\ rows[i].state \notin Terminal

ReconcileStart(c, i) ==
  /\ i \in Stored /\ Reconcilable(i)
  /\ Start(c, "reconcile", rows[i].ref, i)
  /\ UNCHANGED <<rows, expired, inFlight, provider, drawn, faults, crashes>>

Ask(c) ==
  /\ call[c].op = "reconcile" /\ call[c].pc = "WAIT"
  /\ call' = [call EXCEPT ![c].pc = "ANSWER", ![c].answer = provider[call[c].id]]
  /\ UNCHANGED <<rows, expired, inFlight, provider, drawn, faults, crashes>>

Return(c) ==
  /\ call[c].pc = "DONE"
  /\ Ends(c)
  /\ UNCHANGED <<rows, expired, provider, drawn, faults, crashes>>

----------------------------------------------------------------------------
(* Time, restarts and the provider.                                        *)

Expire(i) ==
  /\ i \in Stored \ expired
  /\ expired' = expired \cup {i}
  /\ UNCHANGED <<rows, inFlight, call, provider, drawn, faults, crashes>>

Crash ==
  /\ crashes < MaxCrashes /\ crashes' = crashes + 1
  /\ inFlight' = {} /\ call' = [c \in Calls |-> Idle]
  /\ UNCHANGED <<rows, expired, provider, drawn, faults>>

ProviderMoves(i) ==
  /\ \/ provider[i] = "created" /\ provider' = [provider EXCEPT ![i] = "pending"]
     \/ provider[i] = "pending" /\ \E s \in Terminal : provider' = [provider EXCEPT ![i] = s]
  /\ UNCHANGED <<rows, expired, inFlight, call, drawn, faults, crashes>>

CallStep(c) ==
  \/ PrepareSave(c) \/ Post(c) \/ Arrives(c) \/ Save(c) \/ Fails(c) \/ Ask(c) \/ Return(c)

Next ==
  \/ \E c \in Calls :
       \/ \E r \in Refs : PrepareExisting(c, r) \/ PrepareStart(c, r)
       \/ \E i \in Ids : SubmitJoin(c, i) \/ SubmitStart(c, i) \/ ReconcileStart(c, i)
       \/ CallStep(c)
  \/ \E i \in Ids : Expire(i) \/ ProviderMoves(i)
  \/ Crash

Spec == Init /\ [][Next]_vars

\* Calls end, and the operator reconciles; nothing makes him submit again.
FairSpec ==
  /\ Spec
  /\ \A c \in Calls : WF_vars(CallStep(c))
  /\ \A i \in Ids : SF_vars(\E c \in Calls : ReconcileStart(c, i))

----------------------------------------------------------------------------
(* Properties.                                                             *)

\* The table, the calls and the provider's transactions are well formed.
TypeOK ==
  /\ rows \in [Ids -> {NoRow} \cup [ref: Refs, state: States, tx: BOOLEAN]]
  /\ inFlight \subseteq Ids /\ expired \subseteq Ids
  /\ call \in [Calls -> [op: {None, "prepare", "submit", "join", "reconcile"},
                         pc: {"IDLE", "WAIT", "POST", "ANSWER", "DONE"}, ref: Refs \cup {None},
                         id: 0..MaxTransfers, rec: {NoRow} \cup [ref: Refs, state: States, tx: BOOLEAN],
                         answer: {None} \cup ProviderStates, usable: BOOLEAN]]
  /\ provider \in [Ids -> {None} \cup ProviderStates]

\* Overlapping prepares and submits, lost answers and restarts never move the
\* money of one client reference twice.
MovedOnce ==
  /\ \A r \in Refs : Cardinality({i \in OfRef(r) : provider[i] # None}) <= 1
  /\ \A i \in Ids : provider[i] # None => i \in Stored

\* A transfer is being sent by one call at a time, however often it is clicked.
OneSender ==
  \A i \in Ids : Cardinality({c \in Calls : call[c].op = "submit" /\ call[c].id = i}) <= 1

\* A transfer whose answer was stored gets the provider's final result: a late
\* write of an older state is corrected by a later reconciliation.
SavedIsReconciled ==
  \A i \in Ids : (rows[i].tx /\ provider[i] \in Terminal) ~> rows[i].state \in Terminal

----------------------------------------------------------------------------
(* Promises of the documents and comments that the code does not keep.     *)

\* Once final, the recorded result of a transfer stays.
FinalResultStands ==
  [][\A i \in Ids : rows[i].state \in Terminal => rows'[i].state = rows[i].state]_vars

\* Preparing again gives a transfer that can be submitted.
PreparedAgain == \A c \in Calls : call[c].pc = "DONE" => call[c].usable

\* Reconciling brings in the result of every request the provider accepted.
ReconciledInTheEnd == \A i \in Ids : provider[i] \in Terminal ~> rows[i].state \in Terminal

=============================================================================
