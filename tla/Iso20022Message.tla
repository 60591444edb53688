--------------------------- MODULE Iso20022Message ---------------------------
(***************************************************************************)
(* Iso20022ParserService.parse: what becomes of a pain.001 message.  A     *)
(* message is a record of its header and a sequence of payment-information *)
(* blocks, a block one of its fields and a sequence of transactions.  The  *)
(* checks of the bytes (size, encoding, syntax, namespace, nesting) come   *)
(* first: a message of the model is one that passed them.                  *)
(***************************************************************************)
EXTENDS Amounts, FiniteSetsExt

CONSTANTS
  MaxTransactions,
  StructuredAddressCutoff,  \* the first day without unstructured addresses
  SourceAccounts,           \* the account ids that are UUIDs
  Barred                    \* how a text that contains a '|' falls apart at it

ASSUME MessageAssumption == {MaxTransactions, StructuredAddressCutoff} \subseteq Nat

None == ""

When(condition, code) == IF condition THEN {code} ELSE {}

----------------------------------------------------------------------------
(* The transactions of a message, numbered through its blocks.             *)

InBlock(m, b) == [i \in DOMAIN m.blocks[b].txs |-> [block |-> m.blocks[b], tx |-> m.blocks[b].txs[i]]]
Transactions(m) == FlattenSeq([b \in DOMAIN m.blocks |-> InBlock(m, b)])

AmountsOf(txs) == [i \in DOMAIN txs |-> txs[i].amount]
AllAmounts(m) == [i \in DOMAIN Transactions(m) |-> Transactions(m)[i].tx.amount]

----------------------------------------------------------------------------
(* Document checks.                                                        *)

CheckDeclaredCount(declared, actual) ==
  When(declared = Malformed, "INVALID_TRANSACTION_COUNT")
    \cup When(Parses(declared) /\ declared.n # actual, "TRANSACTION_COUNT_MISMATCH")

CheckDeclaredControlSum(declared, amounts) ==
  When(declared = Malformed, "INVALID_CONTROL_SUM")
    \cup When(Parses(declared) /\ ~EqualExact(declared, Total(amounts)), "CONTROL_SUM_MISMATCH")

BlockErrors(block) ==
  When(block.id = None, "MISSING_PAYMENT_INFORMATION_ID")
    \cup When(block.method = None, "MISSING_PAYMENT_METHOD")
    \cup When(block.method \notin {None, "TRF"}, "UNSUPPORTED_PAYMENT_METHOD")
    \cup When(block.txs = <<>>, "EMPTY_PAYMENT_INFORMATION")
    \cup CheckDeclaredCount(block.count, Len(block.txs))
    \cup CheckDeclaredControlSum(block.sum, AmountsOf(block.txs))

\* Mutant: the header's count and sum are those of the last block.
HeaderChecks_LastBlock(m) ==
  IF m.blocks = <<>> THEN {}
  ELSE LET txs == m.blocks[Len(m.blocks)].txs
       IN CheckDeclaredCount(m.count, Len(txs)) \cup CheckDeclaredControlSum(m.sum, AmountsOf(txs))
HeaderChecks(m) ==
  CheckDeclaredCount(m.count, Len(Transactions(m)))
    \cup CheckDeclaredControlSum(m.sum, AllAmounts(m))

\* input: [map, default], the account the caller chose for a debtor account
\* and the one for all others.
InputErrors(input) ==
  When(\E d \in DOMAIN input.map : input.map[d] \notin SourceAccounts, "INVALID_SOURCE_ACCOUNT_ID")
    \cup When(input.default \notin SourceAccounts \cup {None}, "INVALID_SOURCE_ACCOUNT_ID")

DocumentErrors(m, input) ==
  When(m.id = None, "MISSING_MESSAGE_ID")
    \cup When(m.created = Absent, "MISSING_CREATION_DATE_TIME")
    \cup When(m.created = Malformed, "INVALID_CREATION_DATE_TIME")
    \cup When(m.count = Absent, "MISSING_TRANSACTION_COUNT")
    \cup When(~m.party, "MISSING_INITIATING_PARTY")
    \cup When(m.blocks = <<>>, "MISSING_PAYMENT_INFORMATION")
    \cup InputErrors(input)
    \cup (UNION {BlockErrors(m.blocks[b]) : b \in DOMAIN m.blocks})
    \cup When(Len(Transactions(m)) > MaxTransactions, "TRANSACTION_LIMIT_EXCEEDED")
    \cup HeaderChecks(m)

----------------------------------------------------------------------------
(* mapTransaction.                                                         *)

SourceAccount(block, input) ==
  IF block.debtor # None /\ block.debtor \in DOMAIN input.map
       /\ input.map[block.debtor] \in SourceAccounts
  THEN input.map[block.debtor]
  ELSE IF input.default \in SourceAccounts THEN input.default ELSE None

DebtorErrors(block, input) ==
  When(block.debtor = None, "MISSING_DEBTOR_ACCOUNT")
    \cup When(SourceAccount(block, input) = None, "SOURCE_ACCOUNT_UNRESOLVED")

AmountMinor(tx) == DecimalToMinorUnits(tx.amount, tx.currency)

AmountErrors(tx) ==
  When(tx.amount = Absent, "MISSING_AMOUNT")
    \cup When(tx.amount # Absent /\ tx.currency = None, "MISSING_CURRENCY")
    \cup When(tx.amount # Absent /\ tx.currency # None /\ AmountMinor(tx) = 0, "INVALID_AMOUNT")

\* creditor: [name, country, iban (its country), other, sortCode, lines, type]
CreditorErrors(c) ==
  When(c.name = None, "MISSING_CREDITOR_NAME")
    \cup When(c.iban = None /\ ~c.other, "MISSING_CREDITOR_ACCOUNT")
    \cup When(c.country = None /\ c.iban = None, "MISSING_CREDITOR_COUNTRY")
    \cup When(c.country # None /\ c.iban # None /\ c.country # c.iban, "CREDITOR_COUNTRY_CONFLICT")
    \cup When(c.iban = None /\ c.other /\ ~c.sortCode, "UNSUPPORTED_NON_IBAN_ACCOUNT")

DateErrors(date, today) ==
  When(date = Absent, "MISSING_EXECUTION_DATE")
    \cup When(date = Malformed, "INVALID_EXECUTION_DATE")
    \cup When(Parses(date) /\ date.n < today, "EXECUTION_DATE_IN_PAST")

\* A SEPA payment to an address that has lines and nothing else.
Unstructured(block, tx) == tx.currency = "EUR" /\ tx.sepa /\ tx.creditor.lines
EffectiveDay(date, today) == IF Parses(date) THEN date.n ELSE today

AddressErrors(block, tx, today) ==
  When(Unstructured(block, tx) /\ EffectiveDay(block.date, today) >= StructuredAddressCutoff,
       "UNSTRUCTURED_ADDRESS_NOT_PERMITTED")

\* bearer: the transaction's, or else the block's.
SupportedChargeBearers == {None, "SLEV", "SHAR", "DEBT", "CRED"}

ChargeBearerErrors(tx) == When(tx.bearer \notin SupportedChargeBearers, "UNSUPPORTED_CHARGE_BEARER")

\* The hash is of these fields, joined by '|', taken to tell apart any two texts
\* it is made of; name, date and remittance are not among them.  A text is what
\* lies between its bars: a '|' inside an id cannot be told from one that joins.
Pieces(text) == IF text \in DOMAIN Barred THEN Barred[text] ELSE <<text>>

BuildClientReference(m, i, source) ==
  LET t == Transactions(m)[i]
  IN FlattenSeq(<<Pieces(m.id), Pieces(t.block.id), <<ToString(i)>>, Pieces(t.tx.instr),
                  Pieces(t.tx.e2e), <<ToString(t.tx.amount)>>, <<t.tx.currency>>,
                  <<t.tx.creditor.iban>>, <<source>>>>)

\* The payment of a transaction, without the fields that no check compares.
Request(m, i, input) ==
  LET t == Transactions(m)[i]
      source == SourceAccount(t.block, input) IN
  [ref |-> BuildClientReference(m, i, source), account |-> <<source, t.tx.currency>>,
   amount |-> AmountMinor(t.tx), name |-> t.tx.creditor.name, date |-> t.block.date]

\* schema: what PaymentRequestSchema checks beyond these, an IBAN's checksum
\* and the lengths of texts.
TransactionErrors(m, i, input, today) ==
  LET t == Transactions(m)[i] IN
    When(t.tx.e2e = None, "MISSING_END_TO_END_ID")
      \cup DebtorErrors(t.block, input) \cup AmountErrors(t.tx) \cup CreditorErrors(t.tx.creditor)
      \cup DateErrors(t.block.date, today) \cup AddressErrors(t.block, t.tx, today)
      \cup ChargeBearerErrors(t.tx) \cup When(~t.tx.schema, "PAYMENT_SCHEMA_INVALID")

ValidPayments(m, input, today) ==
  {i \in DOMAIN Transactions(m) : TransactionErrors(m, i, input, today) = {}}

=============================================================================
