\* Two overlapping calls, imports and payments by hand.
CONSTANTS
  c1 = c1
  c2 = c2
  MaxSafeInteger = 1000
  MaxTransactions = 4
  StructuredAddressCutoff = 1
  SourceAccounts <- MCSources
  Barred <- MCBarred
  Uploads <- MCUploads
  File <- MCFile
  MaxDay = 0
  Payments <- MCPayments
  Fee = 1
  Batches <- MCBatches
  Balances = {3, 5}
  Calls = {c1, c2}
  MaxStored = 3
SYMMETRY Alike
SPECIFICATION ImportSpec
INVARIANTS RecordFollowsItsTransfer AggregateCovered ItemsAreStored AtomicImport WithinDeclaration
CHECK_DEADLOCK FALSE
