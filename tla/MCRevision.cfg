\* A review while the package is being scanned; nothing fails.
CONSTANTS
  Packages = {"p1", "p2"}
  Contents <- OneFile
  Entries <- MCEntries
  CaseMaximums <- MCMaximums
  MaxSafeInteger = 1000
  RequestedIds = {"TXN"}
  MaxChanges = 2
  MaxReserved = 0
  MaxCrashes = 0
SPECIFICATION Spec
PROPERTY RevisionAdvances
CHECK_DEADLOCK FALSE
