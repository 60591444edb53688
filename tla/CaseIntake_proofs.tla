-------------------------- MODULE CaseIntake_proofs --------------------------
(***************************************************************************)
(* Proofs about CaseIntake for any packages, contents, typed amounts,      *)
(* identities, changes by the broker, reservations and restarts.           *)
(*                                                                         *)
(* A record lives in three places: in its row, in the validation job that  *)
(* read it and in the walkthrough that read it, and each of them may write *)
(* it back late.  Vouched says what is true of a record wherever it is;    *)
(* the inductive invariant says it of all three copies.                    *)
(***************************************************************************)
EXTENDS CaseIntake, TLAPS

IsCase(rec) ==
  DOMAIN rec = {"status", "submission", "format", "artifacts", "codes", "credit", "changes", "revision"}

\* The findings of which one always stands between an unsigned package and the
\* provider, and no change by the broker removes it.
Standing == {"SOURCE_SIGNATURE_MISSING", "SOURCE_SIGNATURE_INVALID",
             "MALWARE_SCANNER_UNAVAILABLE", "MALWARE_DETECTED"}

\* The credit of a record was declared by its package c, or typed.
Exact(c, credit) ==
  \/ RecognizeProfile(c) = V1 /\ credit = c.manifest.credit
  \/ \E e \in Entries : /\ e.currency = credit.currency
                        /\ EqualExact(MinorUnitsToDecimal(credit.amount, credit.exponent), e.text)

\* What holds of every record of a package with the contents c.
Vouched(c, rec) ==
  /\ IsCase(rec)
  /\ rec.submission = "QUARANTINED" => ~rec.artifacts
  /\ rec.submission = "VALIDATED" =>
       c.refusal = None /\ (rec.format = Generic => RecognizeProfile(c) \notin {Legacy, V1})
  /\ rec.credit # NoCredit =>
       /\ c.refusal = None /\ RecognizeProfile(c) # Legacy /\ Exact(c, rec.credit)
       /\ RecognizeProfile(c) = V1 => V1Sound(c) /\ (c.signed \/ rec.codes \cap Standing # {})

TablesInv ==
  /\ DOMAIN rows = Packages /\ DOMAIN walks = Packages /\ DOMAIN work = Packages
  /\ \A p \in Packages : DOMAIN work[p] = {"pc", "rec"}

RowInv(p) == Vouched(contents[p], rows[p])
WorkInv(p) == Vouched(contents[p], work[p].rec) /\ (work[p].pc = "CLEAN" => contents[p].refusal = None)
WalkInv(p) == walks[p] = NoCase \/ (Vouched(contents[p], walks[p]) /\ Confirmable(walks[p]))

RecordsInv == TablesInv /\ \A p \in Packages : RowInv(p) /\ WorkInv(p) /\ WalkInv(p)

----------------------------------------------------------------------------
(* Amounts.                                                                *)

\* The powers of ten of the scales in use are positive numbers.
LEMMA Pow10Facts == Pow10(0) = 1 /\ \A k \in Scales : Pow10(k) \in Nat \ {0}
  <1>1. Pow10(0) = 1 /\ Pow10(1) = 10 /\ Pow10(2) = 100 /\ Pow10(3) = 1000 /\ Pow10(4) = 10000
    BY DEF Pow10
  <1>2. \A k \in Scales : k = 0 \/ k = 1 \/ k = 2 \/ k = 3 \/ k = 4
    BY DEF Scales
  <1>3. QED
    BY <1>1, <1>2

\* Every currency of the table has at most three decimals.
LEMMA ExponentIsScale ==
  ASSUME NEW currency \in DOMAIN CanonicalCurrencyExponent
  PROVE  CanonicalCurrencyExponent[currency] \in 0..3
  BY DEF CanonicalCurrencyExponent

\* What is left without a rest is multiplied back.
LEMMA DivisionIsExact ==
  ASSUME NEW n \in Nat, NEW k \in Scales, n % Pow10(k) = 0
  PROVE  n \div Pow10(k) \in Nat /\ (n \div Pow10(k)) * Pow10(k) = n
  <1>1. Pow10(0) = 1 /\ Pow10(1) = 10 /\ Pow10(2) = 100 /\ Pow10(3) = 1000 /\ Pow10(4) = 10000
    BY DEF Pow10
  <1>2. k = 0 \/ k = 1 \/ k = 2 \/ k = 3 \/ k = 4
    BY DEF Scales
  <1>3. QED
    BY <1>1, <1>2

\* An amount that is not refused stands for exactly the text (parseDecimalToMinor,
\* minorUnitsToDecimal).
LEMMA ConversionIsExact ==
  ASSUME NEW n \in Nat, NEW scale \in Scales, NEW exponent \in 0..3,
         ParseDecimalToMinor(Text(n, scale), exponent) # 0
  PROVE  EqualExact(MinorUnitsToDecimal(ParseDecimalToMinor(Text(n, scale), exponent), exponent), Text(n, scale))
  <1> DEFINE t == Text(n, scale)
             minor == InUnits(t, exponent)
  <1>1. t.n = n /\ t.scale = scale
    BY DEF Text
  <1>2. ParseDecimalToMinor(t, exponent) = minor /\ ~Finer(t, exponent)
    BY DEF ParseDecimalToMinor, ToMinor
  <1>3. MinorUnitsToDecimal(minor, exponent).n = minor /\ MinorUnitsToDecimal(minor, exponent).scale = exponent
    BY DEF MinorUnitsToDecimal, Text
  <1>4. CASE scale > exponent
    <2>1. scale - exponent \in Scales
      BY <1>4 DEF Scales
    <2>2. n % Pow10(scale - exponent) = 0 /\ minor = n \div Pow10(scale - exponent)
      BY <1>1, <1>2, <1>4 DEF Finer, InUnits
    <2>3. minor * Pow10(scale - exponent) = n
      BY <2>1, <2>2, DivisionIsExact
    <2>4. Widest(MinorUnitsToDecimal(minor, exponent), t) = scale
      BY <1>1, <1>3, <1>4 DEF Widest, Scales
    <2>5. scale - scale = 0
      BY DEF Scales
    <2>6. QED
      BY <1>1, <1>2, <1>3, <2>3, <2>4, <2>5, Pow10Facts DEF EqualExact, Scaled
  <1>5. CASE ~(scale > exponent)
    <2>1. exponent - scale \in Scales
      BY <1>5 DEF Scales
    <2>2. minor = n * Pow10(exponent - scale)
      BY <1>1, <1>5 DEF InUnits
    <2>3. Widest(MinorUnitsToDecimal(minor, exponent), t) = exponent
      BY <1>1, <1>3, <1>5 DEF Widest, Scales
    <2>4. exponent - exponent = 0
      OBVIOUS
    <2>5. Scaled(MinorUnitsToDecimal(minor, exponent), exponent) = minor * 1
      BY <1>3, <2>4, Pow10Facts DEF Scaled
    <2>6. minor * 1 = minor
      BY <2>1, <2>2, Pow10Facts
    <2>7. QED
      BY <1>1, <1>2, <2>2, <2>3, <2>5, <2>6 DEF EqualExact, Scaled
  <1>6. QED
    BY <1>4, <1>5

\* Every credit that a form sends was typed to the last digit.
LEMMA EnterableIsExact ==
  ASSUME NEW c, NEW credit \in Enterable
  PROVE  Exact(c, credit)
  <1>1. PICK e \in Entries : Entered(e).amount # 0 /\ credit = Entered(e)
    BY DEF Enterable
  <1> DEFINE exponent == CanonicalCurrencyExponent[e.currency]
  <1>2. exponent \in 0..3
    BY ExponentIsScale, IntakeAssumption DEF IntakeAssumption
  <1>3. /\ credit.amount = ParseDecimalToMinor(e.text, exponent) /\ credit.currency = e.currency
        /\ credit.exponent = exponent /\ credit.amount # 0
    BY <1>1 DEF Entered
  <1>4. PICK n \in Nat, scale \in Scales : e.text = Text(n, scale)
    <2>1. e.text.kind = "text"
      BY <1>3 DEF ParseDecimalToMinor, ToMinor, Parses
    <2>2. e.text \in Texts
      BY <2>1, IntakeAssumption DEF IntakeAssumption, Absent, Malformed
    <2>3. QED
      BY <2>2 DEF Text, Texts
  <1>5. EqualExact(MinorUnitsToDecimal(credit.amount, credit.exponent), e.text)
    BY <1>2, <1>3, <1>4, ConversionIsExact
  <1>6. QED
    BY <1>3, <1>5 DEF Exact

----------------------------------------------------------------------------
(* What the record functions preserve.                                     *)

\* A record that vouches for nothing is vouched for by any package.
LEMMA NewRecords ==
  ASSUME NEW c
  PROVE  Vouched(c, NoCase) /\ Vouched(c, NewCase) /\ NoWork.rec = NoCase /\ NoWork.pc = "IDLE"
  BY DEF Vouched, IsCase, NoCase, NewCase, NoWork, None

\* A new revision of a record vouches for no more than the record.
LEMMA SavedVouched ==
  ASSUME NEW c, NEW rec, Vouched(c, rec)
  PROVE  Vouched(c, Saved(rec))
  BY DEF Vouched, IsCase, Saved

\* The job that validation starts carries what its record vouches for.
LEMMA StartedVouched ==
  ASSUME NEW c, NEW rec, Vouched(c, rec)
  PROVE  Vouched(c, Started(rec).rec) /\ Started(rec).pc = "SCAN"
  BY DEF Vouched, IsCase, Started

\* The codes of an unsigned package that names its credit say so, and those of
\* a package that was not cleared say that.
LEMMA CodesStand ==
  ASSUME NEW c
  PROVE  /\ RecognizeProfile(c) = V1 /\ V1Sound(c) /\ ~c.signed => AnalyzeCleared(c).codes \cap Standing # {}
         /\ \A s \in {"INFECTED", "UNAVAILABLE"} : AnalyzePackage(c, s).codes \cap Standing # {}
  <1>1. ASSUME RecognizeProfile(c) = V1, V1Sound(c), ~c.signed
        PROVE  AnalyzeCleared(c).codes \cap Standing # {}
    <2>1. V1Codes(c) \cap Standing # {}
      BY <1>1 DEF V1Codes, When, Standing
    <2>2. AnalyzeCleared(c).codes = V1Codes(c) \cup SandboxCaseAmountFinding(c.manifest.credit)
      BY <1>1 DEF AnalyzeCleared
    <2>3. QED
      BY <2>1, <2>2
  <1>2. \A s \in {"INFECTED", "UNAVAILABLE"} : AnalyzePackage(c, s).codes \cap Standing # {}
    BY DEF AnalyzePackage, Analysis, Standing
  <1>3. QED
    BY <1>1, <1>2

\* An analysis names a credit only for a whole V1 package that was cleared,
\* and calls a cleared package generic only when it is.
LEMMA AnalysisFacts ==
  ASSUME NEW c
  PROVE  /\ \A s \in {"INFECTED", "UNAVAILABLE"} : AnalyzePackage(c, s).credit = NoCredit
         /\ AnalyzeCleared(c).credit # NoCredit =>
              RecognizeProfile(c) = V1 /\ V1Sound(c) /\ AnalyzeCleared(c).credit = c.manifest.credit
         /\ AnalyzeCleared(c).format = Generic => RecognizeProfile(c) \notin {Legacy, V1}
         /\ AnalyzePackage(c, "CLEAN") = AnalyzeCleared(c)
  BY DEF AnalyzePackage, Analysis, AnalyzeCleared, Generic, Legacy, V1

\* A package that validation rejects vouches for no more than it did.
LEMMA RejectedVouched ==
  ASSUME NEW p \in Packages, WorkInv(p)
  PROVE  Vouched(contents[p], Rejected(p))
  BY DEF WorkInv, Vouched, IsCase, Rejected

\* A package that validation analysed vouches for what it contains.
LEMMA ValidatedVouched ==
  ASSUME NEW p \in Packages, WorkInv(p), work[p].pc \in {"CLEAN", "INFECTED", "UNAVAILABLE"}
  PROVE  Vouched(contents[p], Validated(p))
  <1> DEFINE c == contents[p]
             rec == work[p].rec
             a == Analyzed(p)
             new == Validated(p)
  <1>1. /\ IsCase(new) /\ new.artifacts = Inventoried(p) /\ new.format = a.format /\ new.codes = a.codes
        /\ new.credit = IF a.credit # NoCredit THEN a.credit ELSE rec.credit
        /\ new.submission = IF work[p].pc = "CLEAN" THEN "VALIDATED" ELSE "QUARANTINED"
    BY DEF Validated, WorkInv, Vouched, IsCase
  <1>2. a = AnalyzePackage(c, work[p].pc)
    BY DEF Analyzed
  <1>3. Vouched(c, rec)
    BY DEF WorkInv
  <1> HIDE DEF a, new, rec
  <1>4. new.submission = "QUARANTINED" => ~new.artifacts
    BY <1>1 DEF Inventoried
  <1>5. CASE work[p].pc = "CLEAN"
    <2>1. c.refusal = None /\ a = AnalyzeCleared(c)
      BY <1>2, <1>5, AnalysisFacts DEF WorkInv
    <2>2. new.format = Generic => RecognizeProfile(c) \notin {Legacy, V1}
      BY <1>1, <2>1, AnalysisFacts
    <2>3. ASSUME new.credit # NoCredit
          PROVE  /\ RecognizeProfile(c) # Legacy /\ Exact(c, new.credit)
                 /\ RecognizeProfile(c) = V1 => V1Sound(c)
      <3>1. CASE a.credit # NoCredit
        <4>1. RecognizeProfile(c) = V1 /\ V1Sound(c) /\ new.credit = c.manifest.credit
          BY <1>1, <2>1, <3>1, AnalysisFacts
        <4>2. QED
          BY <4>1 DEF Exact, V1, Legacy
      <3>2. CASE a.credit = NoCredit
        BY <1>1, <1>3, <2>3, <3>2 DEF Vouched
      <3>3. QED
        BY <3>1, <3>2
    <2>4. RecognizeProfile(c) = V1 /\ V1Sound(c) => c.signed \/ new.codes \cap Standing # {}
      BY <1>1, <2>1, CodesStand
    <2>5. QED
      BY <1>1, <1>4, <2>1, <2>2, <2>3, <2>4 DEF new, Vouched
  <1>6. CASE work[p].pc \in {"INFECTED", "UNAVAILABLE"}
    <2>1. new.credit = rec.credit /\ new.codes \cap Standing # {} /\ new.submission = "QUARANTINED"
      BY <1>1, <1>2, <1>6, AnalysisFacts, CodesStand
    <2>2. QED
      BY <1>1, <1>3, <1>4, <2>1 DEF new, Vouched
  <1>7. QED
    BY <1>5, <1>6

\* The broker's changes keep the submission, the credit and the codes that
\* stand.
LEMMA ChangedVouched ==
  ASSUME NEW c, NEW rec, Vouched(c, rec), NEW new, IsCase(new),
         new.submission = rec.submission, new.format = rec.format, new.artifacts = rec.artifacts,
         new.credit = rec.credit, rec.codes \cap Standing \subseteq new.codes
  PROVE  Vouched(c, new) /\ (Confirmable(rec) => Confirmable(new))
  BY DEF Vouched, Confirmable

\* A credit is expected only of a generic package that was cleared.
LEMMA ExpectingVouched ==
  ASSUME NEW c, NEW rec, Vouched(c, rec), Confirmable(rec), NEW credit \in Enterable
  PROVE  Vouched(c, Expecting(rec, credit))
  <1> DEFINE new == Expecting(rec, credit)
  <1>1. /\ IsCase(new) /\ new.submission = rec.submission /\ new.format = rec.format
        /\ new.artifacts = rec.artifacts /\ new.credit = credit
    BY DEF Expecting, Vouched, IsCase
  <1>2. c.refusal = None /\ RecognizeProfile(c) \notin {Legacy, V1}
    BY DEF Confirmable, Vouched
  <1>3. Exact(c, credit)
    BY EnterableIsExact
  <1> HIDE DEF new
  <1>4. QED
    BY <1>1, <1>2, <1>3 DEF new, Vouched

----------------------------------------------------------------------------
(* What the steps share.                                                   *)

\* A step that writes one row and leaves the other copies alone.
LEMMA RowStep ==
  ASSUME RecordsInv, NEW p \in Packages, NEW rec, Vouched(contents[p], rec),
         rows' = [rows EXCEPT ![p] = Saved(rec)], UNCHANGED <<contents, work, walks>>
  PROVE  RecordsInv'
  <1>1. DOMAIN rows' = Packages /\ rows'[p] = Saved(rec) /\ \A q \in Packages : q # p => rows'[q] = rows[q]
    BY DEF RecordsInv, TablesInv
  <1>2. TablesInv'
    BY <1>1 DEF RecordsInv, TablesInv
  <1>3. ASSUME NEW q \in Packages PROVE RowInv(q)' /\ WorkInv(q)' /\ WalkInv(q)'
    BY <1>1, SavedVouched DEF RecordsInv, RowInv, WorkInv, WalkInv
  <1>4. QED
    BY <1>2, <1>3 DEF RecordsInv

\* The next process starts from the rows that are stored.
LEMMA ResumedStep ==
  ASSUME RecordsInv, DOMAIN rows' = Packages, \A p \in Packages : Vouched(contents[p], rows'[p]),
         Resumed
  PROVE  RecordsInv'
  <1>1. /\ contents' = contents /\ walks' = [p \in Packages |-> NoCase]
        /\ work' = [p \in Packages |-> IF Unfinished(jobs'[p]) THEN Started(rows'[p]) ELSE NoWork]
    BY DEF Resumed
  <1>2. ASSUME NEW p \in Packages
        PROVE  RowInv(p)' /\ WorkInv(p)' /\ WalkInv(p)' /\ DOMAIN work'[p] = {"pc", "rec"}
    <2>1. walks'[p] = NoCase /\ (work'[p] = Started(rows'[p]) \/ work'[p] = NoWork)
      BY <1>1
    <2>2. Vouched(contents'[p], work'[p].rec) /\ work'[p].pc # "CLEAN"
      BY <1>1, <2>1, StartedVouched, NewRecords
    <2>3. DOMAIN work'[p] = {"pc", "rec"}
      BY <2>1 DEF Started, NoWork
    <2>4. QED
      BY <1>1, <2>1, <2>2, <2>3 DEF RowInv, WorkInv, WalkInv
  <1>3. TablesInv'
    BY <1>1, <1>2 DEF TablesInv
  <1>4. QED
    BY <1>2, <1>3 DEF RecordsInv

\* What rows a torn step may leave.
LEMMA TornRows ==
  ASSUME RecordsInv, NEW p \in Packages, NEW rec, Vouched(contents[p], rec),
         rows' \in {rows, [rows EXCEPT ![p] = Saved(rec)]}
  PROVE  DOMAIN rows' = Packages /\ \A q \in Packages : Vouched(contents[q], rows'[q])
  <1>1. CASE rows' = rows
    BY <1>1 DEF RecordsInv, TablesInv, RowInv
  <1>2. CASE rows' = [rows EXCEPT ![p] = Saved(rec)]
    <2>1. DOMAIN rows' = Packages /\ rows'[p] = Saved(rec) /\ \A q \in Packages : q # p => rows'[q] = rows[q]
      BY <1>2 DEF RecordsInv, TablesInv
    <2>2. QED
      BY <2>1, SavedVouched DEF RecordsInv, RowInv
  <1>3. QED
    BY <1>1, <1>2

----------------------------------------------------------------------------
(* The steps.                                                              *)

\* A submission adds at most a record that vouches for nothing yet.
LEMMA SubmitStep ==
  ASSUME RecordsInv, NEW p \in Packages, NEW id, Submit(p, id)
  PROVE  RecordsInv'
  <1>1. /\ rows' = [rows EXCEPT ![p] = Saved(Saved(NewCase))] /\ UNCHANGED <<contents, walks>>
        /\ work' = [work EXCEPT ![p] = Started(rows'[p])]
    BY DEF Submit, Receive
  <1>2. DOMAIN rows' = Packages /\ \A q \in Packages : Vouched(contents[q], rows'[q])
    BY <1>1, NewRecords, SavedVouched, TornRows
  <1>3. DOMAIN work' = Packages /\ work'[p] = Started(rows'[p]) /\ \A q \in Packages : q # p => work'[q] = work[q]
    BY <1>1 DEF RecordsInv, TablesInv
  <1>4. Vouched(contents[p], work'[p].rec) /\ work'[p].pc # "CLEAN" /\ DOMAIN work'[p] = {"pc", "rec"}
    <2>1. DOMAIN Started(rows'[p]) = {"pc", "rec"}
      BY DEF Started
    <2>2. QED
      BY <1>2, <1>3, <2>1, StartedVouched
  <1>5. TablesInv'
    BY <1>1, <1>2, <1>3, <1>4 DEF RecordsInv, TablesInv
  <1>6. ASSUME NEW q \in Packages PROVE RowInv(q)' /\ WorkInv(q)' /\ WalkInv(q)'
    BY <1>1, <1>2, <1>3, <1>4 DEF RecordsInv, RowInv, WorkInv, WalkInv
  <1>7. QED
    BY <1>5, <1>6 DEF RecordsInv

\* So does a submission that a restart cut off after its first write.
LEMMA SubmitTornStep ==
  ASSUME RecordsInv, NEW p \in Packages, NEW id, SubmitTorn(p, id)
  PROVE  RecordsInv'
  <1>1. rows' \in {rows, [rows EXCEPT ![p] = Saved(Saved(NewCase))]} /\ Restart
    BY DEF SubmitTorn, Receive
  <1>2. QED
    BY <1>1, NewRecords, SavedVouched, TornRows, ResumedStep DEF Restart

\* The scanner clears only a package that the archive reader accepts.
LEMMA ScannedStep ==
  ASSUME RecordsInv, NEW p \in Packages, Scanned(p)
  PROVE  RecordsInv'
  <1>1. PICK outcome \in Outcomes(p) : work' = [work EXCEPT ![p].pc = outcome]
    BY DEF Scanned
  <1>2. outcome = "CLEAN" => contents[p].refusal = None
    <2>1. Outcomes(p) \subseteq (IF contents[p].refusal = None THEN {"CLEAN", "INFECTED", "UNAVAILABLE"}
                                 ELSE {"REFUSED", "INFECTED", "UNAVAILABLE"})
      BY DEF Outcomes, None
    <2>2. QED
      BY <2>1
  <1>3. UNCHANGED <<contents, rows, walks>>
    BY DEF Scanned
  <1>4. /\ DOMAIN work' = Packages /\ \A q \in Packages : q # p => work'[q] = work[q]
        /\ work'[p].rec = work[p].rec /\ work'[p].pc = outcome /\ DOMAIN work'[p] = {"pc", "rec"}
    BY <1>1 DEF RecordsInv, TablesInv
  <1>5. TablesInv'
    BY <1>3, <1>4 DEF RecordsInv, TablesInv
  <1>6. ASSUME NEW q \in Packages PROVE RowInv(q)' /\ WorkInv(q)' /\ WalkInv(q)'
    BY <1>2, <1>3, <1>4 DEF RecordsInv, RowInv, WorkInv, WalkInv
  <1>7. QED
    BY <1>5, <1>6 DEF RecordsInv

\* The job ends with a record that is vouched for.
LEMMA JobEndsStep ==
  ASSUME RecordsInv, NEW p \in Packages, NEW rec, Vouched(contents[p], rec),
         rows' = [rows EXCEPT ![p] = Saved(rec)], work' = [work EXCEPT ![p] = NoWork],
         UNCHANGED <<contents, walks>>
  PROVE  RecordsInv'
  <1>1. DOMAIN rows' = Packages /\ \A q \in Packages : Vouched(contents[q], rows'[q])
    BY TornRows
  <1>2. DOMAIN work' = Packages /\ work'[p] = NoWork /\ \A q \in Packages : q # p => work'[q] = work[q]
    BY DEF RecordsInv, TablesInv
  <1>3. DOMAIN NoWork = {"pc", "rec"}
    BY DEF NoWork
  <1>4. TablesInv'
    BY <1>1, <1>2, <1>3 DEF RecordsInv, TablesInv
  <1>5. ASSUME NEW q \in Packages PROVE RowInv(q)' /\ WorkInv(q)' /\ WalkInv(q)'
    BY <1>1, <1>2, NewRecords DEF RecordsInv, RowInv, WorkInv, WalkInv
  <1>6. QED
    BY <1>4, <1>5 DEF RecordsInv

\* Every way in which the validation job ends keeps RecordsInv.
LEMMA ValidationStep ==
  ASSUME RecordsInv, NEW p \in Packages,
         ValidationFails(p) \/ Validate(p) \/ SaveRefused(p) \/ ValidateTorn(p)
  PROVE  RecordsInv'
  <1>1. Vouched(contents[p], Rejected(p))
    BY RejectedVouched DEF RecordsInv
  <1>2. Stores(p) => Vouched(contents[p], Validated(p))
    BY ValidatedVouched DEF Stores, RecordsInv
  <1>3. CASE ValidationFails(p)
    BY <1>1, <1>3, JobEndsStep DEF ValidationFails
  <1>4. CASE Validate(p)
    BY <1>2, <1>4, JobEndsStep DEF Validate
  <1>5. CASE ValidateTorn(p)
    BY <1>1, <1>2, <1>5, TornRows, ResumedStep DEF ValidateTorn, Restart
  <1>6. CASE SaveRefused(p)
    BY <1>6, ResumedStep DEF SaveRefused, RecordsInv, TablesInv, RowInv
  <1>7. QED
    BY <1>3, <1>4, <1>5, <1>6

\* A change of the broker is a save of the record as it is.
LEMMA BrokerChangeStep ==
  ASSUME RecordsInv, NEW p \in Packages, BrokerChange(p)
  PROVE  RecordsInv'
  <1>1. Vouched(contents[p], rows[p])
    BY DEF RecordsInv, RowInv
  <1>2. PICK s \in {rows[p].status, "REJECTED", "INFORMATION_REQUIRED"} :
          rows' = [rows EXCEPT ![p] = Saved([rows[p] EXCEPT !.status = s, !.changes = @ \cup {changes'}])]
    BY DEF BrokerChange
  <1> DEFINE new == [rows[p] EXCEPT !.status = s, !.changes = @ \cup {changes'}]
  <1>3. /\ IsCase(new) /\ new.submission = rows[p].submission /\ new.format = rows[p].format
        /\ new.artifacts = rows[p].artifacts /\ new.credit = rows[p].credit /\ new.codes = rows[p].codes
    BY <1>1 DEF Vouched, IsCase
  <1>4. UNCHANGED <<contents, work, walks>> /\ rows' = [rows EXCEPT ![p] = Saved(new)]
    BY <1>2 DEF BrokerChange
  <1> HIDE DEF new
  <1>5. Vouched(contents[p], new)
    BY <1>1, <1>3, ChangedVouched
  <1>6. QED
    BY <1>4, <1>5, RowStep

\* An amendment leaves what attests to the package.
LEMMA AmendStep ==
  ASSUME RecordsInv, NEW p \in Packages, Amend(p)
  PROVE  RecordsInv'
  <1>1. Vouched(contents[p], rows[p])
    BY DEF RecordsInv, RowInv
  <1>2. PICK resolved \in Resolutions(rows[p].codes \ NonAmendable), credit \in Enterable \cup {NoCredit} :
          LET rec == [rows[p] EXCEPT !.codes = @ \ resolved, !.status = "AWAITING_BROKER",
                                     !.changes = @ \cup {changes'}]
          IN /\ credit # NoCredit => Confirmable(rows[p]) /\ ValidMoney(credit)
             /\ rows' = [rows EXCEPT ![p] = Saved(IF credit = NoCredit THEN rec ELSE Expecting(rec, credit))]
    BY DEF Amend
  <1> DEFINE rec == [rows[p] EXCEPT !.codes = @ \ resolved, !.status = "AWAITING_BROKER",
                                    !.changes = @ \cup {changes'}]
             new == IF credit = NoCredit THEN rec ELSE Expecting(rec, credit)
  <1>3. /\ IsCase(rec) /\ rec.submission = rows[p].submission /\ rec.format = rows[p].format
        /\ rec.artifacts = rows[p].artifacts /\ rec.credit = rows[p].credit /\ rec.codes = rows[p].codes \ resolved
    BY <1>1 DEF Vouched, IsCase
  <1>4. /\ rows' = [rows EXCEPT ![p] = Saved(new)] /\ (credit # NoCredit => Confirmable(rows[p]))
        /\ UNCHANGED <<contents, work, walks>>
    BY <1>2 DEF Amend
  <1> HIDE DEF rec
  <1>5. rows[p].codes \cap Standing \subseteq rec.codes
    <2>1. resolved \cap NonAmendable = {}
      BY DEF Resolutions
    <2>2. Standing \subseteq NonAmendable
      BY DEF Standing, NonAmendable, SafetyCodes, SignatureCodes
    <2>3. QED
      BY <1>3, <2>1, <2>2
  <1>6. Vouched(contents[p], rec) /\ (Confirmable(rows[p]) => Confirmable(rec))
    BY <1>1, <1>3, <1>5, ChangedVouched
  <1>7. Vouched(contents[p], new)
    BY <1>4, <1>6, ExpectingVouched
  <1> HIDE DEF new
  <1>8. QED
    BY <1>4, <1>7, RowStep

\* The walkthrough starts from a copy of the record as it is.
LEMMA WalkthroughStartStep ==
  ASSUME RecordsInv, NEW p \in Packages, WalkthroughStart(p)
  PROVE  RecordsInv'
  <1>1. /\ walks' = [walks EXCEPT ![p] = rows[p]] /\ Confirmable(rows[p])
        /\ UNCHANGED <<contents, rows, work>>
    BY DEF WalkthroughStart
  <1>2. DOMAIN walks' = Packages /\ walks'[p] = rows[p] /\ \A q \in Packages : q # p => walks'[q] = walks[q]
    BY <1>1 DEF RecordsInv, TablesInv
  <1>3. QED
    BY <1>1, <1>2 DEF RecordsInv, TablesInv, RowInv, WorkInv, WalkInv

\* The walkthrough writes back the record it read, however late.
LEMMA WalkthroughEndStep ==
  ASSUME RecordsInv, NEW p \in Packages, WalkthroughEnd(p)
  PROVE  RecordsInv'
  <1>1. /\ walks' = [walks EXCEPT ![p] = NoCase] /\ walks[p] # NoCase
        /\ UNCHANGED <<contents, work>>
    BY DEF WalkthroughEnd
  <1>2. DOMAIN walks' = Packages /\ walks'[p] = NoCase /\ \A q \in Packages : q # p => walks'[q] = walks[q]
    BY <1>1 DEF RecordsInv, TablesInv
  <1>3. DOMAIN rows' = Packages /\ \A q \in Packages : Vouched(contents[q], rows'[q])
    <2>1. CASE UNCHANGED rows
      BY <2>1 DEF RecordsInv, TablesInv, RowInv
    <2>2. ASSUME NEW credit \in Enterable,
                 rows' = [rows EXCEPT ![p] = Saved(Expecting([walks[p] EXCEPT
                   !.status = "AWAITING_BROKER", !.codes = @ \ Diagnostic, !.changes = @ \cup {changes'}], credit))]
          PROVE  DOMAIN rows' = Packages /\ \A q \in Packages : Vouched(contents[q], rows'[q])
      <3> DEFINE rec == [walks[p] EXCEPT !.status = "AWAITING_BROKER", !.codes = @ \ Diagnostic,
                                         !.changes = @ \cup {changes'}]
      <3>1. Vouched(contents[p], walks[p]) /\ Confirmable(walks[p])
        BY <1>1 DEF RecordsInv, WalkInv
      <3>2. /\ IsCase(rec) /\ rec.submission = walks[p].submission /\ rec.format = walks[p].format
            /\ rec.artifacts = walks[p].artifacts /\ rec.credit = walks[p].credit
            /\ rec.codes = walks[p].codes \ Diagnostic
        BY <3>1 DEF Vouched, IsCase
      <3>3. Standing \cap Diagnostic = {}
        BY DEF Standing, Diagnostic
      <3>4. rows' = [rows EXCEPT ![p] = Saved(Expecting(rec, credit))]
        BY <2>2
      <3> HIDE DEF rec
      <3>5. Vouched(contents[p], rec) /\ Confirmable(rec)
        BY <3>1, <3>2, <3>3, ChangedVouched
      <3>6. QED
        BY <3>4, <3>5, ExpectingVouched, TornRows
    <2>3. QED
      BY <2>1, <2>2 DEF WalkthroughEnd
  <1>4. TablesInv'
    BY <1>1, <1>2, <1>3 DEF RecordsInv, TablesInv
  <1>5. ASSUME NEW q \in Packages PROVE RowInv(q)' /\ WorkInv(q)' /\ WalkInv(q)'
    BY <1>1, <1>2, <1>3 DEF RecordsInv, RowInv, WorkInv, WalkInv
  <1>6. QED
    BY <1>4, <1>5 DEF RecordsInv

\* A reservation saves the record as it is, when it is made and when it ends.
LEMMA ReservationStep ==
  ASSUME RecordsInv, NEW p \in Packages, Reserve(p) \/ Release(p)
  PROVE  RecordsInv'
  <1>1. rows' = [rows EXCEPT ![p] = Saved(rows[p])] /\ UNCHANGED <<contents, work, walks>>
    BY DEF Reserve, Release
  <1>2. QED
    BY <1>1, RowStep DEF RecordsInv, RowInv

\* RecordsInv holds before the first submission.
LEMMA InitRecordsInv == Init => RecordsInv
  <1> SUFFICES ASSUME Init PROVE RecordsInv
    OBVIOUS
  <1>1. TablesInv
    BY DEF Init, TablesInv, NoWork
  <1>2. ASSUME NEW p \in Packages PROVE RowInv(p) /\ WorkInv(p) /\ WalkInv(p)
    BY NewRecords DEF Init, RowInv, WorkInv, WalkInv
  <1>3. QED
    BY <1>1, <1>2 DEF RecordsInv

\* Every step of intake, validation, walkthrough and restart keeps it.
LEMMA RecordsStep ==
  ASSUME RecordsInv, [Next]_vars
  PROVE  RecordsInv'
  <1>1. CASE Crash
    BY <1>1, ResumedStep DEF Crash, Restart, RecordsInv, TablesInv, RowInv
  <1>2. CASE UNCHANGED vars
    BY <1>2 DEF vars, RecordsInv, TablesInv, RowInv, WorkInv, WalkInv
  <1>3. QED
    BY <1>1, <1>2, SubmitStep, SubmitTornStep, ScannedStep, ValidationStep, BrokerChangeStep, AmendStep,
       WalkthroughStartStep, WalkthroughEndStep, ReservationStep DEF Next

\* What a record says of its package is true of it: in the table of cases, in
\* the validation job and in the walkthrough's copy, however late they are saved.
THEOREM RecordsInvariant == Spec => []RecordsInv
  <1>1. Init => RecordsInv
    BY InitRecordsInv
  <1>2. RecordsInv /\ [Next]_vars => RecordsInv'
    BY RecordsStep
  <1>3. QED
    BY <1>1, <1>2, PTL DEF Spec

----------------------------------------------------------------------------
(* What the invariant gives.                                               *)

\* A package that was not cleared shows no inventory (processSubmission).
THEOREM QuarantineShowsNothing == Spec => []NoInventoryInQuarantine
  <1>1. ASSUME RecordsInv PROVE NoInventoryInQuarantine
    BY <1>1 DEF RecordsInv, RowInv, Vouched, NoInventoryInQuarantine, Cases
  <1>2. QED
    BY <1>1, RecordsInvariant, PTL

\* A case expects what its package declares or what was typed, to the last
\* digit (parseDecimalToMinor, addAmendment, prepareSandboxWalkthrough).
THEOREM CreditsAreExact == Spec => []AmountsAreExact
  <1>1. ASSUME RecordsInv PROVE AmountsAreExact
    BY <1>1 DEF RecordsInv, RowInv, Vouched, Exact, AmountsAreExact, Cases
  <1>2. QED
    BY <1>1, RecordsInvariant, PTL

\* Money is moved only for a readable package that is no declaration of assets
\* and, where it names its credit, is whole and signed (refreshFunding,
\* addAmendment, processSubmission).
THEOREM FundingIsVouched == Spec => []FundableIsVouched
  <1>1. ASSUME RecordsInv PROVE FundableIsVouched
    <2>1. (Reconcilable \cup {"INCOMING_SETTLEMENT_UNOBSERVED"}) \cap Standing = {}
      BY DEF Reconcilable, Standing
    <2>2. ASSUME NEW p \in Cases, Fundable(rows[p])
          PROVE  /\ contents[p].refusal = None /\ RecognizeProfile(contents[p]) # Legacy
                 /\ RecognizeProfile(contents[p]) = V1 => contents[p].signed /\ V1Sound(contents[p])
      <3>1. Vouched(contents[p], rows[p])
        BY <1>1 DEF RecordsInv, RowInv, Cases
      <3>2. rows[p].credit # NoCredit /\ rows[p].codes \cap Standing = {}
        BY <2>1, <2>2 DEF Fundable
      <3>3. QED
        BY <3>1, <3>2 DEF Vouched
    <2>3. QED
      BY <2>2 DEF FundableIsVouched
  <1>2. QED
    BY <1>1, RecordsInvariant, PTL

\* An identity is bound to a second package by no step.
LEMMA IdentityStep ==
  ASSUME IdentityIsOnePackage, [Next]_vars
  PROVE  IdentityIsOnePackage'
  <1>1. ASSUME NEW p \in Packages, NEW id, Acceptable(p, id), Receive(p, id)
        PROVE  IdentityIsOnePackage'
    BY <1>1 DEF Acceptable, Receive, IdentityIsOnePackage
  <1>2. ASSUME NEW p \in Packages, Stores(p)
        PROVE  IdentityIsOnePackage'
    BY <1>2 DEF Stores, Conflicts, Bindable, IdentityIsOnePackage
  <1>3. CASE UNCHANGED identities
    BY <1>3 DEF IdentityIsOnePackage
  <1>4. ASSUME NEW p \in Packages, NEW id, Submit(p, id) \/ SubmitTorn(p, id)
        PROVE  IdentityIsOnePackage'
    BY <1>1, <1>3, <1>4 DEF Submit, SubmitTorn
  <1>5. ASSUME NEW p \in Packages, ValidateTorn(p) \/ Validate(p) \/ SaveRefused(p)
        PROVE  IdentityIsOnePackage'
    BY <1>2, <1>3, <1>5 DEF ValidateTorn, Validate, SaveRefused
  <1>6. ASSUME NEW p \in Packages,
               \/ Scanned(p) \/ ValidationFails(p) \/ BrokerChange(p) \/ Amend(p)
               \/ WalkthroughStart(p) \/ WalkthroughEnd(p) \/ Reserve(p) \/ Release(p)
        PROVE  UNCHANGED identities
    BY <1>6 DEF Scanned, ValidationFails, BrokerChange, Amend, WalkthroughStart, WalkthroughEnd,
                Reserve, Release
  <1>7. Crash \/ UNCHANGED vars => UNCHANGED identities
    BY DEF Crash, vars
  <1>8. QED
    BY <1>3, <1>4, <1>5, <1>6, <1>7 DEF Next

\* A submission identity stands for one package (bindSubmissionIdentity).
THEOREM IdentityStandsForOne == Spec => []IdentityIsOnePackage
  <1>1. Init => IdentityIsOnePackage
    BY DEF Init, IdentityIsOnePackage
  <1>2. IdentityIsOnePackage /\ [Next]_vars => IdentityIsOnePackage'
    BY IdentityStep
  <1>3. QED
    BY <1>1, <1>2, PTL DEF Spec

----------------------------------------------------------------------------
(* Reservations.                                                           *)

\* Nothing is known of a package that was not submitted.
Unknown(p) == rows[p] = NoCase /\ work[p] = NoWork /\ jobs[p] = None /\ walks[p] = NoCase

ReservedInv ==
  /\ DOMAIN jobs = Packages
  /\ \A p \in Packages : p \in evidence \/ Unknown(p)
  /\ reserved \subseteq Packages \cap evidence
  /\ ReservedIsFundable

\* A step on the case of one package, which another step may follow that starts
\* the next process: what is unknown has no job to resume.
LEMMA CaseStep ==
  ASSUME ReservedInv, NEW p \in Packages, p \in evidence', evidence \subseteq evidence',
         DOMAIN jobs' = Packages, reserved' = reserved, p \notin reserved \/ rows'[p] = rows[p],
         \A q \in Packages \ {p} : rows'[q] = rows[q] /\ jobs'[q] = jobs[q],
         Resumed \/ \A q \in Packages \ {p} : work'[q] = work[q] /\ walks'[q] = walks[q]
  PROVE  ReservedInv'
  <1>1. ASSUME NEW q \in Packages, q \notin evidence' PROVE Unknown(q)'
    <2>1. q # p /\ Unknown(q)
      BY <1>1 DEF ReservedInv
    <2>2. rows'[q] = NoCase /\ jobs'[q] = None
      BY <2>1 DEF Unknown
    <2>3. CASE Resumed
      BY <2>2, <2>3 DEF Resumed, Unknown, Unfinished, None
    <2>4. QED
      BY <2>1, <2>2, <2>3 DEF Unknown
  <1>2. ReservedIsFundable'
    BY DEF ReservedInv, ReservedIsFundable, Fundable
  <1>3. reserved' \subseteq Packages \cap evidence'
    BY DEF ReservedInv
  <1>4. QED
    BY <1>1, <1>2, <1>3 DEF ReservedInv

\* A package whose validation runs, or whose case is there, was submitted.
LEMMA KnownIsStored ==
  ASSUME ReservedInv, NEW p \in Packages, work[p].pc # "IDLE" \/ rows[p] # NoCase \/ walks[p] # NoCase
  PROVE  p \in evidence
  BY DEF ReservedInv, Unknown, NoWork

\* A submission, whole or cut off by a restart, concerns a package that nothing
\* is reserved for.
LEMMA ReservedSubmit ==
  ASSUME TablesInv, ReservedInv, NEW p \in Packages, NEW id, Submit(p, id) \/ SubmitTorn(p, id)
  PROVE  ReservedInv'
  <1>1. p \notin reserved
    BY DEF ReservedInv, Submit, SubmitTorn, Acceptable
  <1>2. p \in evidence' /\ evidence \subseteq evidence'
    BY DEF Submit, SubmitTorn, Receive
  <1>3. DOMAIN jobs' = Packages /\ \A q \in Packages \ {p} : rows'[q] = rows[q] /\ jobs'[q] = jobs[q]
    BY DEF ReservedInv, TablesInv, Submit, SubmitTorn, Receive
  <1>4. reserved' = reserved
    BY DEF Submit, SubmitTorn, Restart, Resumed
  <1>5. Resumed \/ \A q \in Packages \ {p} : work'[q] = work[q] /\ walks'[q] = walks[q]
    BY DEF TablesInv, Submit, SubmitTorn, Restart
  <1>6. QED
    BY <1>1, <1>2, <1>3, <1>4, <1>5, CaseStep

\* A validation saves nothing of a reserved case.
LEMMA ReservedValidation ==
  ASSUME TablesInv, ReservedInv, NEW p \in Packages,
         Scanned(p) \/ ValidationFails(p) \/ Validate(p) \/ SaveRefused(p) \/ ValidateTorn(p)
  PROVE  ReservedInv'
  <1>1. work[p].pc # "IDLE"
    BY DEF Scanned, ValidationFails, Validate, SaveRefused, ValidateTorn, Stores, Fails, Inventoried
  <1>2. evidence \subseteq evidence'
    BY DEF Scanned, ValidationFails, Validate, SaveRefused, ValidateTorn, Stores, Fails
  <1>3. DOMAIN jobs' = Packages /\ \A q \in Packages \ {p} : rows'[q] = rows[q] /\ jobs'[q] = jobs[q]
    BY DEF ReservedInv, TablesInv, Scanned, ValidationFails, Validate, SaveRefused, ValidateTorn
  <1>4. reserved' = reserved /\ (p \notin reserved \/ rows'[p] = rows[p])
    BY DEF Scanned, ValidationFails, Validate, SaveRefused, ValidateTorn, Restart, Resumed, MutationAllowed
  <1>5. Resumed \/ \A q \in Packages \ {p} : work'[q] = work[q] /\ walks'[q] = walks[q]
    BY DEF TablesInv, Scanned, ValidationFails, Validate, SaveRefused, ValidateTorn, Restart
  <1>6. QED
    BY <1>1, <1>2, <1>3, <1>4, <1>5, KnownIsStored, CaseStep

\* The broker and the walkthrough save nothing of a reserved case.
LEMMA ReservedBroker ==
  ASSUME TablesInv, ReservedInv, NEW p \in Packages,
         BrokerChange(p) \/ Amend(p) \/ WalkthroughStart(p) \/ WalkthroughEnd(p)
  PROVE  ReservedInv'
  <1>1. rows[p] # NoCase \/ walks[p] # NoCase
    BY DEF BrokerChange, Amend, WalkthroughStart, WalkthroughEnd, Cases
  <1>2. UNCHANGED <<evidence, jobs, work, reserved>>
    BY DEF BrokerChange, Amend, WalkthroughStart, WalkthroughEnd
  <1>3. p \notin reserved \/ rows'[p] = rows[p]
    BY DEF BrokerChange, Amend, WalkthroughStart, WalkthroughEnd, Allowed, MutationAllowed
  <1>4. \A q \in Packages \ {p} : rows'[q] = rows[q] /\ walks'[q] = walks[q]
    BY DEF TablesInv, BrokerChange, Amend, WalkthroughStart, WalkthroughEnd
  <1>5. DOMAIN jobs' = Packages
    BY <1>2 DEF ReservedInv
  <1>6. QED
    BY <1>1, <1>2, <1>3, <1>4, <1>5, KnownIsStored, CaseStep

\* A reservation is made for a case that may be funded, and leaves it so.
LEMMA ReservedReservation ==
  ASSUME RecordsInv, ReservedInv, NEW p \in Packages, Reserve(p) \/ Release(p)
  PROVE  ReservedInv'
  <1>1. p \in evidence /\ Fundable(rows[p])
    BY KnownIsStored DEF Reserve, Release, Cases, ReservedInv, ReservedIsFundable
  <1>2. /\ rows'[p] = Saved(rows[p]) /\ \A q \in Packages \ {p} : rows'[q] = rows[q]
        /\ UNCHANGED <<evidence, jobs, work, walks>>
    BY DEF Reserve, Release, RecordsInv, TablesInv
  <1>3. Saved(rows[p]).credit = rows[p].credit /\ Saved(rows[p]).codes = rows[p].codes
    BY DEF RecordsInv, RowInv, Vouched, IsCase, Saved
  <1>4. Fundable(rows'[p])
    BY <1>1, <1>2, <1>3 DEF Fundable
  <1>5. reserved' \subseteq reserved \cup {p}
    BY DEF Reserve, Release
  <1>6. ASSUME NEW q \in reserved' PROVE Fundable(rows'[q])
    BY <1>2, <1>4, <1>5, <1>6 DEF ReservedInv, ReservedIsFundable
  <1>7. \A q \in Packages : q \in evidence' \/ Unknown(q)'
    BY <1>1, <1>2 DEF ReservedInv, Unknown
  <1>8. reserved' \subseteq Packages \cap evidence' /\ DOMAIN jobs' = Packages
    BY <1>1, <1>2, <1>5 DEF ReservedInv
  <1>9. ReservedIsFundable'
    BY <1>6 DEF ReservedIsFundable, Fundable
  <1>10. QED
    BY <1>7, <1>8, <1>9 DEF ReservedInv

\* ReservedInv is kept by every step.
LEMMA ReservedStep ==
  ASSUME RecordsInv, ReservedInv, [Next]_vars
  PROVE  ReservedInv'
  <1>1. TablesInv
    BY DEF RecordsInv
  <1>2. CASE UNCHANGED vars
    BY <1>2 DEF vars, ReservedInv, Unknown, ReservedIsFundable, Fundable
  <1>3. CASE Crash
    <2>1. UNCHANGED <<evidence, rows, jobs, reserved>> /\ Resumed
      BY <1>3 DEF Crash, Restart, Resumed
    <2>2. ASSUME NEW q \in Packages, q \notin evidence' PROVE Unknown(q)'
      BY <2>1, <2>2 DEF ReservedInv, Unknown, Resumed, Unfinished, None
    <2>3. QED
      BY <2>1, <2>2 DEF ReservedInv, ReservedIsFundable, Fundable
  <1>4. QED
    BY <1>1, <1>2, <1>3, ReservedSubmit, ReservedValidation, ReservedBroker, ReservedReservation DEF Next

\* What allowed money to be moved for a case holds as long as it is on its way:
\* no resumed validation, late walkthrough or broker takes it back
\* (assertMutationAllowed, requireNoActiveExecution).
THEOREM ReservedStaysFundable == Spec => []ReservedIsFundable
  <1>1. Init => ReservedInv
    BY DEF Init, ReservedInv, Unknown, ReservedIsFundable
  <1>2. RecordsInv /\ ReservedInv /\ [Next]_vars => ReservedInv'
    BY ReservedStep
  <1>3. ReservedInv => ReservedIsFundable
    BY DEF ReservedInv
  <1>4. QED
    BY <1>1, <1>2, <1>3, RecordsInvariant, PTL DEF Spec

=============================================================================
