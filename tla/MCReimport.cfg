\* One import after the other, on two days.
CONSTANTS
  c1 = c1
  c2 = c2
  MaxSafeInteger = 1000
  MaxTransactions = 4
  StructuredAddressCutoff = 1
  SourceAccounts <- MCSources
  Barred <- MCBarred
  Uploads <- MCUploads
  File <- MCFile
  MaxDay = 1
  Payments <- MCPayments
  Fee = 1
  Batches <- MCBatches
  Balances = {3, 5}
  Calls = {c1}
  MaxStored = 2
SPECIFICATION ImportSpec
INVARIANT ReimportReturnsExisting
\* INVARIANT ReferencesAreDistinct
CHECK_DEADLOCK FALSE
