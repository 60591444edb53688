----------------------- MODULE SandboxTransfers_proofs -----------------------
(***************************************************************************)
(* Proofs about SandboxTransfers for any references, overlapping calls,    *)
(* transfers, faults and restarts.                                         *)
(*                                                                         *)
(* MovedOnce rests on RowsInv: client_reference is unique among the rows,  *)
(* and the provider only knows ids of stored rows.  That is inductive only *)
(* together with CallsInv: a call past its first read works on a stored    *)
(* row, and what it writes back has the reference of the row.  OneSender   *)
(* rests on SendersInv: the in-flight map holds every id being submitted.  *)
(***************************************************************************)
EXTENDS SandboxTransfers, FiniteSetTheorems, TLAPS

Row == [ref: Refs, state: States, tx: BOOLEAN]
CallRecord == [op: {None, "prepare", "submit", "join", "reconcile"},
               pc: {"IDLE", "WAIT", "POST", "ANSWER", "DONE"}, ref: Refs \cup {None},
               id: 0..MaxTransfers, rec: {NoRow} \cup Row,
               answer: {None} \cup ProviderStates, usable: BOOLEAN]

RowsInv ==
  /\ drawn \in 0..MaxTransfers
  /\ \A i \in Stored : i <= drawn
  /\ \A i, j \in Stored : rows[i].ref = rows[j].ref => i = j
  /\ \A i \in Ids : rows[i].tx => provider[i] # None
  /\ \A i \in Ids : provider[i] # None => i \in Stored

\* What a call holds agrees with the row it works on.
CallInv(c) ==
  /\ call[c].op = "prepare" => call[c].ref \in Refs
  /\ call[c].op \in {"submit", "reconcile"} =>
       call[c].id \in Stored /\ call[c].rec \in Row /\ call[c].rec.ref = rows[call[c].id].ref
  /\ call[c].op = "reconcile" => provider[call[c].id] # None
  /\ call[c].pc = "POST" => call[c].op = "submit"
  /\ call[c].pc = "ANSWER" =>
       /\ call[c].op \in {"submit", "reconcile"}
       /\ call[c].answer # None /\ provider[call[c].id] # None

CallsInv == \A c \in Calls : CallInv(c)

SendersInv ==
  /\ \A c \in Calls : call[c].op = "submit" => call[c].id \in inFlight
  /\ \A c, d \in Calls : call[c].op = "submit" /\ call[d].op = "submit" /\ call[c].id = call[d].id => c = d

TransferInv == TypeOK /\ RowsInv /\ CallsInv /\ SendersInv

----------------------------------------------------------------------------
(* What the steps share.                                                   *)

\* A stored row is a row.
LEMMA StoredRows ==
  ASSUME TypeOK, NEW i \in Ids
  PROVE  i \in Stored <=> rows[i] \in Row
  BY DEF TypeOK, Stored, Row, NoRow, States, Terminal, None

\* The bound on transfers is a number.
LEMMA BoundsAreNat == MaxTransfers \in Nat
  BY TransferAssumption DEF TransferAssumption

\* A call that has not begun is typed.
LEMMA IdleIsTyped == Idle \in CallRecord
  BY BoundsAreNat DEF Idle, CallRecord, NoRow

\* Ending calls leaves every other submission on the map.
LEMMA EndsCalls ==
  ASSUME TransferInv, NEW c \in Calls, Ends(c)
  PROVE  /\ inFlight' \subseteq Ids
         /\ call' \in [Calls -> CallRecord]
         /\ \A d \in Calls : call'[d] = Idle \/ call'[d] = call[d]
         /\ \A d \in Calls : call'[d].op = "submit" => call'[d] = call[d] /\ call[d].id \in inFlight'
  <1> DEFINE over(d) == d = c \/ (call[c].op = "submit" /\ call[d].op = "join" /\ call[d].id = call[c].id)
  <1>1. call' = [d \in Calls |-> IF over(d) THEN Idle ELSE call[d]]
    BY DEF Ends
  <1>2. inFlight' = IF call[c].op = "submit" THEN inFlight \ {call[c].id} ELSE inFlight
    BY DEF Ends
  <1>3. ASSUME NEW d \in Calls, call'[d].op = "submit"
        PROVE  call'[d] = call[d] /\ call[d].id \in inFlight'
    <2>1. ~over(d)
      BY <1>1, <1>3 DEF Idle, None
    <2>2. call'[d] = call[d] /\ d # c
      BY <1>1, <2>1
    <2>3. call[d].id \in inFlight
      BY <1>3, <2>2 DEF TransferInv, SendersInv
    <2>4. call[c].op = "submit" => call[c].id # call[d].id
      BY <1>3, <2>2 DEF TransferInv, SendersInv
    <2>5. QED
      BY <1>2, <2>2, <2>3, <2>4
  <1>4. QED
    BY <1>1, <1>2, <1>3, IdleIsTyped DEF TransferInv, TypeOK, CallRecord, Row

\* A step that only ends calls.
LEMMA EndsStep ==
  ASSUME TransferInv, NEW c \in Calls, Ends(c), UNCHANGED <<rows, expired, provider, drawn>>
  PROVE  TransferInv'
  <1>1. TypeOK'
    BY EndsCalls DEF TransferInv, TypeOK, CallRecord, Row
  <1>2. RowsInv'
    BY DEF TransferInv, RowsInv, Stored
  <1>3. ASSUME NEW d \in Calls PROVE CallInv(d)'
    <2>1. CASE call'[d] = Idle
      BY <2>1 DEF CallInv, Idle, None
    <2>2. CASE call'[d] = call[d]
      BY <2>2 DEF TransferInv, CallsInv, CallInv, Stored
    <2>3. QED
      BY <2>1, <2>2, EndsCalls
  <1>4. SendersInv'
    BY EndsCalls DEF TransferInv, SendersInv
  <1>5. QED
    BY <1>1, <1>2, <1>3, <1>4 DEF TransferInv, CallsInv

----------------------------------------------------------------------------
(* prepare.                                                                *)

\* prepare of a reference that is stored adds nothing.
LEMMA PrepareExistingStep ==
  ASSUME TransferInv, NEW c \in Calls, NEW r \in Refs, PrepareExisting(c, r)
  PROVE  TransferInv'
  <1>1. PICK i \in OfRef(r) : call' = [call EXCEPT ![c] =
          [Idle EXCEPT !.op = "prepare", !.pc = "DONE", !.ref = r, !.id = i,
                       !.usable = rows[i].state # "prepared" \/ i \notin expired]]
    BY DEF PrepareExisting
  <1>2. UNCHANGED <<rows, expired, inFlight, provider, drawn>>
    BY DEF PrepareExisting
  <1>3. i \in 0..MaxTransfers
    BY BoundsAreNat DEF OfRef, Stored, Ids
  <1>4. TypeOK'
    BY <1>1, <1>2, <1>3 DEF TransferInv, TypeOK, Idle, NoRow
  <1>5. RowsInv'
    BY <1>2 DEF TransferInv, RowsInv, Stored
  <1>6. ASSUME NEW d \in Calls PROVE CallInv(d)'
    BY <1>1, <1>2 DEF TransferInv, TypeOK, CallsInv, CallInv, Stored, Idle
  <1>7. SendersInv'
    BY <1>1, <1>2 DEF TransferInv, TypeOK, SendersInv, Idle
  <1>8. QED
    BY <1>4, <1>5, <1>6, <1>7 DEF TransferInv, CallsInv

\* prepare of a new reference begins.
LEMMA PrepareStartStep ==
  ASSUME TransferInv, NEW c \in Calls, NEW r \in Refs, PrepareStart(c, r)
  PROVE  TransferInv'
  <1>1. call' = [call EXCEPT ![c] =
          [Idle EXCEPT !.op = "prepare", !.pc = "WAIT", !.ref = r, !.id = 0, !.rec = NoRow]]
    BY DEF PrepareStart, Start
  <1>2. UNCHANGED <<rows, expired, inFlight, provider, drawn>>
    BY DEF PrepareStart
  <1>3. TypeOK'
    <2>1. [Idle EXCEPT !.op = "prepare", !.pc = "WAIT", !.ref = r, !.id = 0, !.rec = NoRow] \in CallRecord
      <3>1. 0 \in 0..MaxTransfers
        BY BoundsAreNat
      <3>2. QED
        BY <3>1 DEF CallRecord, Idle, NoRow, Row
    <2>2. call \in [Calls -> CallRecord]
      BY DEF TransferInv, TypeOK, CallRecord, Row
    <2>3. call' \in [Calls -> CallRecord]
      BY <1>1, <2>1, <2>2
    <2>4. QED
      BY <1>2, <2>3 DEF TransferInv, TypeOK, CallRecord, Row
  <1>4. RowsInv'
    BY <1>2 DEF TransferInv, RowsInv, Stored
  <1>5. ASSUME NEW d \in Calls PROVE CallInv(d)'
    BY <1>1, <1>2 DEF TransferInv, TypeOK, CallsInv, CallInv, Stored, Idle
  <1>6. SendersInv'
    BY <1>1, <1>2 DEF TransferInv, TypeOK, SendersInv, Idle
  <1>7. QED
    BY <1>3, <1>4, <1>5, <1>6 DEF TransferInv, CallsInv

\* A new row has a reference no row had, and an id nobody works on.
LEMMA PrepareSaveStep ==
  ASSUME TransferInv, NEW c \in Calls, PrepareSave(c)
  PROVE  TransferInv'
  <1> DEFINE n == drawn + 1
             r == call[c].ref
  <1>1. n \in Ids /\ n \notin Stored /\ drawn' = n /\ drawn' \in 0..MaxTransfers
    BY BoundsAreNat DEF PrepareSave, TransferInv, RowsInv, Ids
  <1>0. r \in Refs
    BY DEF PrepareSave, TransferInv, CallsInv, CallInv
  <1>2. CASE ~Insertable(r)
    <2>1. UNCHANGED <<rows, expired, provider>> /\ Ends(c)
      BY <1>2 DEF PrepareSave
    <2>2. TypeOK'
      BY <2>1, EndsCalls DEF TransferInv, TypeOK, CallRecord, Row
    <2>3. RowsInv'
      BY <2>1, <1>1 DEF TransferInv, RowsInv, Stored, Ids
    <2>4. ASSUME NEW d \in Calls PROVE CallInv(d)'
      <3>1. CASE call'[d] = Idle
        BY <3>1 DEF CallInv, Idle, None
      <3>2. CASE call'[d] = call[d]
        BY <2>1, <3>2 DEF TransferInv, CallsInv, CallInv, Stored
      <3>3. QED
        BY <2>1, <3>1, <3>2, EndsCalls
    <2>5. SendersInv'
      BY <2>1, EndsCalls DEF TransferInv, SendersInv
    <2>6. QED
      BY <2>2, <2>3, <2>4, <2>5 DEF TransferInv, CallsInv
  <1>3. CASE Insertable(r)
    <2> DEFINE new == [ref |-> r, state |-> "prepared", tx |-> FALSE]
    <2>1. UNCHANGED <<expired, provider>> /\ Ends(c) /\ rows' = [rows EXCEPT ![n] = new]
      BY <1>3 DEF PrepareSave
    <2>2. new \in Row /\ new # NoRow
      BY <1>0 DEF Row, States, NoRow, None
    <2>3. rows \in [Ids -> {NoRow} \cup Row] /\ rows' \in [Ids -> {NoRow} \cup Row]
      BY <2>1, <2>2, <1>1 DEF TransferInv, TypeOK, Row
    <2>4. Stored' = Stored \cup {n} /\ rows'[n] = new /\ \A i \in Stored : rows'[i] = rows[i]
      BY <2>1, <2>2, <2>3, <1>1 DEF Stored
    <2>5. TypeOK'
      BY <2>1, <2>3, EndsCalls DEF TransferInv, TypeOK, CallRecord, Row
    <2>6. RowsInv'
      <3>1. \A i \in Stored : rows[i].ref # r
        BY <1>3 DEF Insertable, OfRef
      <3>2. \A i, j \in Stored' : rows'[i].ref = rows'[j].ref => i = j
        BY <2>4, <3>1 DEF TransferInv, RowsInv
      <3>3. \A i \in Stored' : i <= drawn'
        <4>1. \A i \in Stored : i \in Int /\ i <= drawn /\ drawn \in Int
          BY DEF TransferInv, RowsInv, Stored, Ids
        <4>2. QED
          BY <2>4, <1>1, <4>1
      <3>4. \A i \in Ids : rows'[i].tx => provider'[i] # None
        <4>1. rows'[n].tx = FALSE
          BY <2>4
        <4>2. \A i \in Ids : i # n => rows'[i] = rows[i]
          BY <2>1, <2>3
        <4>3. QED
          BY <2>1, <4>1, <4>2 DEF TransferInv, RowsInv
      <3>5. \A i \in Ids : provider'[i] # None => i \in Stored'
        BY <2>1, <2>4 DEF TransferInv, RowsInv
      <3>6. QED
        BY <1>1, <3>2, <3>3, <3>4, <3>5 DEF RowsInv
    <2>7. ASSUME NEW d \in Calls PROVE CallInv(d)'
      <3>1. CASE call'[d] = Idle
        BY <3>1 DEF CallInv, Idle, None
      <3>2. CASE call'[d] = call[d]
        BY <2>1, <2>4, <3>2 DEF TransferInv, CallsInv, CallInv
      <3>3. QED
        BY <2>1, <3>1, <3>2, EndsCalls
    <2>8. SendersInv'
      BY <2>1, EndsCalls DEF TransferInv, SendersInv
    <2>9. QED
      BY <2>5, <2>6, <2>7, <2>8 DEF TransferInv, CallsInv
  <1>4. QED
    BY <1>2, <1>3

----------------------------------------------------------------------------
(* submit and reconcile.                                                   *)

\* A call that begins on a stored row holds the row as it is.
LEMMA StartOnRow ==
  ASSUME TransferInv, NEW c \in Calls, NEW i \in Stored, NEW op \in {"submit", "join", "reconcile"},
         Start(c, op, rows[i].ref, i), UNCHANGED <<rows, expired, provider, drawn>>,
         inFlight' = inFlight \/ (op = "submit" /\ i \notin inFlight /\ inFlight' = inFlight \cup {i}),
         op = "submit" => i \notin inFlight /\ i \in inFlight',
         op = "reconcile" => rows[i].tx
  PROVE  TransferInv'
  <1> DEFINE new == [Idle EXCEPT !.op = op, !.pc = "WAIT", !.ref = rows[i].ref, !.id = i, !.rec = rows[i]]
  <1>1. i \in Ids /\ i # 0 /\ i \in 0..MaxTransfers /\ rows[i] \in Row
    BY StoredRows, BoundsAreNat DEF Stored, Ids, TransferInv
  <1>2. call' = [call EXCEPT ![c] = new]
    BY <1>1 DEF Start
  <1>3. new \in CallRecord
    BY <1>1 DEF Idle, NoRow, CallRecord, Row
  <1>4. /\ new.op = op /\ new.pc = "WAIT" /\ new.id = i /\ new.rec = rows[i] /\ new.ref = rows[i].ref
    BY DEF Idle
  <1>5. call \in [Calls -> CallRecord] /\ call' \in [Calls -> CallRecord] /\ call'[c] = new
    BY <1>2, <1>3 DEF TransferInv, TypeOK, CallRecord, Row
  <1> HIDE DEF new
  <1>6. TypeOK'
    BY <1>1, <1>5 DEF TransferInv, TypeOK, CallRecord, Row
  <1>7. RowsInv'
    BY DEF TransferInv, RowsInv, Stored
  <1>8. ASSUME NEW d \in Calls PROVE CallInv(d)'
    <2>1. CASE d = c
      <3>1. rows[i].tx => provider[i] # None
        BY <1>1 DEF TransferInv, RowsInv
      <3>2. i \in Stored'
        BY DEF Stored
      <3>3. QED
        BY <2>1, <1>1, <1>4, <1>5, <3>1, <3>2 DEF CallInv
    <2>2. CASE d # c
      <3>1. call'[d] = call[d]
        BY <2>2, <1>2, <1>5
      <3>2. QED
        BY <3>1 DEF TransferInv, CallsInv, CallInv, Stored
    <2>3. QED
      BY <2>1, <2>2
  <1>9. SendersInv'
    <2>1. \A d \in Calls : d # c => call'[d] = call[d]
      BY <1>2, <1>5
    <2>2. \A d \in Calls : d # c /\ call'[d].op = "submit" => call'[d].id \in inFlight
      BY <2>1 DEF TransferInv, SendersInv
    <2>3. QED
      BY <1>4, <1>5, <2>1, <2>2 DEF TransferInv, SendersInv
  <1>10. QED
    BY <1>6, <1>7, <1>8, <1>9 DEF TransferInv, CallsInv

\* submit joins the submission that is in flight, or starts the only one.
LEMMA SubmitStep ==
  ASSUME TransferInv, NEW c \in Calls, NEW i \in Ids, SubmitJoin(c, i) \/ SubmitStart(c, i)
  PROVE  TransferInv'
  <1>1. CASE SubmitJoin(c, i)
    BY <1>1, StartOnRow DEF SubmitJoin
  <1>2. CASE SubmitStart(c, i)
    BY <1>2, StartOnRow DEF SubmitStart, InFlight
  <1>3. QED
    BY <1>1, <1>2

\* reconcile starts from the row.
LEMMA ReconcileStartStep ==
  ASSUME TransferInv, NEW c \in Calls, NEW i \in Ids, ReconcileStart(c, i)
  PROVE  TransferInv'
  BY StartOnRow DEF ReconcileStart, Reconcilable

\* The submission that is in flight is posted.
LEMMA PostStep ==
  ASSUME TransferInv, NEW c \in Calls, Post(c)
  PROVE  TransferInv'
  <1>1. TypeOK'
    BY DEF Post, TransferInv, TypeOK
  <1>2. RowsInv'
    BY DEF Post, TransferInv, RowsInv, Stored
  <1>3. ASSUME NEW d \in Calls PROVE CallInv(d)'
    BY DEF Post, TransferInv, TypeOK, CallsInv, CallInv, Stored
  <1>4. SendersInv'
    BY DEF Post, TransferInv, TypeOK, SendersInv
  <1>5. QED
    BY <1>1, <1>2, <1>3, <1>4 DEF TransferInv, CallsInv

\* A request that arrives is of a stored row, and leaves an answer.
LEMMA ArrivesStep ==
  ASSUME TransferInv, NEW c \in Calls, Arrives(c)
  PROVE  TransferInv'
  <1> DEFINE i == call[c].id
  <1>1. PICK state \in ProviderStates :
          /\ provider' = [provider EXCEPT ![i] = state]
          /\ call' = [call EXCEPT ![c].pc = "ANSWER", ![c].answer = state]
    BY DEF Arrives, TransferInv, TypeOK, CallsInv, CallInv, Stored
  <1>2. UNCHANGED <<rows, expired, inFlight, drawn>>
    BY DEF Arrives
  <1>3. i \in Stored /\ i \in Ids /\ state # None /\ call[c].op = "submit"
    BY DEF Arrives, TransferInv, CallsInv, CallInv, Stored, ProviderStates, None
  <1> HIDE DEF i
  <1>4. provider' \in [Ids -> {None} \cup ProviderStates] /\ provider'[i] = state
    BY <1>1, <1>3 DEF TransferInv, TypeOK
  <1>5. \A j \in Ids : provider[j] # None => provider'[j] # None
    BY <1>1, <1>3, <1>4 DEF TransferInv, TypeOK
  <1>6. TypeOK'
    <2>1. call \in [Calls -> CallRecord]
      BY DEF TransferInv, TypeOK, CallRecord, Row
    <2>2. [call[c] EXCEPT !.pc = "ANSWER", !.answer = state] \in CallRecord
      BY <2>1 DEF CallRecord
    <2>3. call' \in [Calls -> CallRecord]
      BY <1>1, <2>1, <2>2
    <2>4. QED
      BY <1>2, <1>4, <2>3 DEF TransferInv, TypeOK, CallRecord, Row
  <1>7. RowsInv'
    BY <1>1, <1>2, <1>3, <1>4, <1>5 DEF TransferInv, TypeOK, RowsInv, Stored
  <1>8. ASSUME NEW d \in Calls PROVE CallInv(d)'
    <2>1. CASE d = c
      BY <1>1, <1>2, <1>3, <1>4, <2>1 DEF i, TransferInv, TypeOK, CallsInv, CallInv, Stored
    <2>2. CASE d # c
      BY <1>1, <1>2, <1>5, <2>2 DEF TransferInv, TypeOK, CallsInv, CallInv, Stored
    <2>3. QED
      BY <2>1, <2>2
  <1>9. SendersInv'
    BY <1>1, <1>2 DEF TransferInv, TypeOK, SendersInv
  <1>10. QED
    BY <1>6, <1>7, <1>8, <1>9 DEF TransferInv, CallsInv

\* What is written back is a row with the reference the row has.
LEMMA SaveStep ==
  ASSUME TransferInv, NEW c \in Calls, Save(c)
  PROVE  TransferInv'
  <1> DEFINE i == call[c].id
             new == [call[c].rec EXCEPT !.state = Mapped(call[c].answer), !.tx = TRUE]
  <1>1. rows' = [rows EXCEPT ![i] = new] /\ Ends(c) /\ UNCHANGED <<expired, provider, drawn>>
    BY DEF Save
  <1>2. i \in Stored /\ i \in Ids /\ provider[i] # None /\ call[c].rec \in Row /\ call[c].rec.ref = rows[i].ref
    BY DEF Save, TransferInv, CallsInv, CallInv, Stored
  <1>3. Mapped(call[c].answer) \in States
    <2>1. call[c].answer \in ProviderStates
      BY DEF Save, TransferInv, TypeOK, CallsInv, CallInv
    <2>2. QED
      BY <2>1 DEF Mapped, ProviderStates, States, Terminal
  <1>4. new \in Row /\ new.ref = rows[i].ref
    BY <1>2, <1>3 DEF Row
  <1> HIDE DEF i, new
  <1>5. rows \in [Ids -> {NoRow} \cup Row] /\ rows' \in [Ids -> {NoRow} \cup Row]
    BY <1>1, <1>2, <1>4 DEF TransferInv, TypeOK, Row
  <1>6. new # NoRow
    BY <1>4 DEF Row, NoRow, States, Terminal, None
  <1>7. rows'[i] = new /\ \A j \in Ids : j # i => rows'[j] = rows[j]
    BY <1>1, <1>2, <1>5
  <1>8. Stored' = Stored
    BY <1>2, <1>6, <1>7 DEF Stored
  <1>9. \A j \in Stored : rows'[j].ref = rows[j].ref
    BY <1>4, <1>7 DEF Stored
  <1>10. TypeOK'
    BY <1>1, <1>5, EndsCalls DEF TransferInv, TypeOK, CallRecord, Row
  <1>11. RowsInv'
    <2>1. \A j \in Ids : rows'[j].tx => provider'[j] # None
      BY <1>1, <1>2, <1>7 DEF TransferInv, RowsInv
    <2>2. QED
      BY <1>1, <1>8, <1>9, <2>1 DEF TransferInv, RowsInv
  <1>12. ASSUME NEW d \in Calls PROVE CallInv(d)'
    <2>1. CASE call'[d] = Idle
      BY <2>1 DEF CallInv, Idle, None
    <2>2. CASE call'[d] = call[d]
      BY <1>1, <1>8, <1>9, <2>2 DEF TransferInv, CallsInv, CallInv
    <2>3. QED
      BY <1>1, <2>1, <2>2, EndsCalls
  <1>13. SendersInv'
    BY <1>1, EndsCalls DEF TransferInv, SendersInv
  <1>14. QED
    BY <1>10, <1>11, <1>12, <1>13 DEF TransferInv, CallsInv

\* reconcile asks for the provider's transfer of the row.
LEMMA AskStep ==
  ASSUME TransferInv, NEW c \in Calls, Ask(c)
  PROVE  TransferInv'
  <1>1. call[c].id \in Ids /\ provider[call[c].id] # None
    BY DEF Ask, TransferInv, CallsInv, CallInv, Stored
  <1>2. TypeOK'
    <2>1. call \in [Calls -> CallRecord] /\ provider[call[c].id] \in ProviderStates
      BY <1>1 DEF TransferInv, TypeOK, CallRecord, Row
    <2>2. [call[c] EXCEPT !.pc = "ANSWER", !.answer = provider[call[c].id]] \in CallRecord
      BY <2>1 DEF CallRecord
    <2>3. call' \in [Calls -> CallRecord]
      BY <2>1, <2>2 DEF Ask
    <2>4. QED
      BY <2>3 DEF Ask, TransferInv, TypeOK, CallRecord, Row
  <1>3. RowsInv'
    BY DEF Ask, TransferInv, RowsInv, Stored
  <1>4. ASSUME NEW d \in Calls PROVE CallInv(d)'
    BY <1>1 DEF Ask, TransferInv, TypeOK, CallsInv, CallInv, Stored
  <1>5. SendersInv'
    BY DEF Ask, TransferInv, TypeOK, SendersInv
  <1>6. QED
    BY <1>2, <1>3, <1>4, <1>5 DEF TransferInv, CallsInv

----------------------------------------------------------------------------
(* The invariant and what it gives.                                        *)

\* Nothing is stored before the first call.
LEMMA InitTransferInv == Init => TransferInv
  <1> SUFFICES ASSUME Init PROVE TransferInv
    OBVIOUS
  <1>1. Stored = {}
    BY DEF Init, Stored
  <1>2. TypeOK
    BY IdleIsTyped DEF Init, TypeOK, CallRecord, Row
  <1>3. RowsInv
    BY <1>1, BoundsAreNat DEF Init, RowsInv, NoRow
  <1>4. CallsInv /\ SendersInv
    BY DEF Init, CallsInv, CallInv, SendersInv, Idle, None
  <1>5. QED
    BY <1>2, <1>3, <1>4 DEF TransferInv

\* Every step keeps the invariant.
LEMMA TransferStep ==
  ASSUME TransferInv, [Next]_vars
  PROVE  TransferInv'
  <1>1. ASSUME NEW c \in Calls, CallStep(c)
        PROVE  TransferInv'
    <2>1. CASE Fails(c) \/ Return(c)
      BY <2>1, EndsStep DEF Fails, Return
    <2>2. QED
      BY <1>1, <2>1, PrepareSaveStep, PostStep, ArrivesStep, SaveStep, AskStep DEF CallStep
  <1>2. ASSUME NEW i \in Ids, Expire(i)
        PROVE  TransferInv'
    BY <1>2 DEF Expire, TransferInv, TypeOK, RowsInv, CallsInv, CallInv, SendersInv, Stored
  <1>3. ASSUME NEW i \in Ids, ProviderMoves(i)
        PROVE  TransferInv'
    <2>1. provider' \in [Ids -> {None} \cup ProviderStates]
      BY <1>3 DEF ProviderMoves, TransferInv, TypeOK, ProviderStates, Terminal
    <2>2. \A j \in Ids : provider'[j] # None <=> provider[j] # None
      BY <1>3 DEF ProviderMoves, TransferInv, TypeOK, ProviderStates, Terminal, None
    <2>3. UNCHANGED <<rows, expired, inFlight, call, drawn>>
      BY <1>3 DEF ProviderMoves
    <2>4. TypeOK' /\ SendersInv'
      BY <2>1, <2>3 DEF TransferInv, TypeOK, SendersInv
    <2>5. RowsInv'
      BY <2>2, <2>3 DEF TransferInv, RowsInv, Stored
    <2>6. CallsInv'
      BY <2>2, <2>3 DEF TransferInv, CallsInv, CallInv, Stored
    <2>7. QED
      BY <2>4, <2>5, <2>6 DEF TransferInv
  <1>4. CASE Crash
    <2>1. call' \in [Calls -> CallRecord] /\ \A c \in Calls : call'[c] = Idle
      BY <1>4, IdleIsTyped DEF Crash
    <2>2. TypeOK'
      BY <1>4, <2>1 DEF Crash, TransferInv, TypeOK, CallRecord, Row
    <2>3. RowsInv'
      BY <1>4 DEF Crash, TransferInv, RowsInv, Stored
    <2>4. CallsInv' /\ SendersInv'
      BY <2>1 DEF CallsInv, CallInv, SendersInv, Idle, None
    <2>5. QED
      BY <2>2, <2>3, <2>4 DEF TransferInv
  <1>5. CASE UNCHANGED vars
    BY <1>5 DEF vars, TransferInv, TypeOK, RowsInv, CallsInv, CallInv, SendersInv, Stored
  <1>6. QED
    BY <1>1, <1>2, <1>3, <1>4, <1>5, PrepareExistingStep, PrepareStartStep, SubmitStep, ReconcileStartStep DEF Next

\* How the rows, the submissions in flight and the transfers of the provider
\* stand to each other, through lost answers and restarts.
THEOREM TransferInvariant == Spec => []TransferInv
  <1>1. Init => TransferInv
    BY InitTransferInv
  <1>2. TransferInv /\ [Next]_vars => TransferInv'
    BY TransferStep
  <1>3. QED
    BY <1>1, <1>2, PTL DEF Spec

\* A set whose members are all equal has at most one.
LEMMA AtMostOne ==
  ASSUME NEW S, \A x, y \in S : x = y
  PROVE  Cardinality(S) <= 1
  <1>1. CASE S = {}
    BY <1>1, FS_EmptySet
  <1>2. CASE S # {}
    <2>1. PICK x \in S : S = {x}
      BY <1>2
    <2>2. QED
      BY <2>1, FS_Singleton
  <1>3. QED
    BY <1>1, <1>2

\* Overlapping prepares and submits, lost answers and restarts never move the
\* money of one client reference twice (SandboxInternalTransferService).
THEOREM ReferenceMovesOnce == Spec => []MovedOnce
  <1>1. ASSUME TransferInv PROVE MovedOnce
    <2>1. ASSUME NEW r \in Refs
          PROVE  Cardinality({i \in OfRef(r) : provider[i] # None}) <= 1
      <3>1. \A i, j \in OfRef(r) : i = j
        BY <1>1 DEF TransferInv, RowsInv, OfRef
      <3>2. QED
        BY <3>1, AtMostOne
    <2>2. QED
      BY <1>1, <2>1 DEF TransferInv, RowsInv, MovedOnce
  <1>2. QED
    BY <1>1, TransferInvariant, PTL

\* A transfer is being sent by one call at a time (inFlightSubmissions).
THEOREM TransferHasOneSender == Spec => []OneSender
  <1>1. ASSUME TransferInv PROVE OneSender
    <2>1. ASSUME NEW i \in Ids
          PROVE  Cardinality({c \in Calls : call[c].op = "submit" /\ call[c].id = i}) <= 1
      <3>1. \A c, d \in {x \in Calls : call[x].op = "submit" /\ call[x].id = i} : c = d
        BY <1>1 DEF TransferInv, SendersInv
      <3>2. QED
        BY <3>1, AtMostOne
    <2>2. QED
      BY <2>1 DEF OneSender
  <1>2. QED
    BY <1>1, TransferInvariant, PTL

=============================================================================
