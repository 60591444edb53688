\* Two packages that share a file, restarts, and one change by the broker.  Each promise
\* is violated by a behaviour of its own: name one at a time.
CONSTANTS
  Packages = {"p1", "p2"}
  Contents <- OneFile
  Entries <- MCEntries
  CaseMaximums <- MCMaximums
  MaxSafeInteger = 1000
  RequestedIds = {"TXN"}
  MaxChanges = 1
  MaxReserved = 1
  MaxCrashes = 1
SPECIFICATION FairSpec
PROPERTY ClearedIsNotQuarantined
\* PROPERTY AttestingFindingsStand
\* PROPERTY ScansFinish
\* PROPERTY CasesAreScanned
CHECK_DEADLOCK FALSE
