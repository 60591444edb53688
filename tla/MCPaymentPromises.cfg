\* Two overlapping calls, no imports.  Each promise is violated by a behaviour of its own: name one at a time.
CONSTANTS
  c1 = c1
  c2 = c2
  MaxSafeInteger = 1000
  MaxTransactions = 4
  StructuredAddressCutoff = 1
  SourceAccounts <- MCSources
  Barred <- MCBarred
  Uploads = {}
  File <- MCFile
  MaxDay = 0
  Payments <- MCByHand
  Fee = 1
  Batches <- MCOneReference
  Balances = {3, 5}
  Calls = {c1, c2}
  MaxStored = 4
SYMMETRY Alike
SPECIFICATION ImportSpec
INVARIANT OneTransferPerReference
\* INVARIANT ReferenceIsUnique
\* PROPERTY TransferStaysTraced
CHECK_DEADLOCK FALSE
