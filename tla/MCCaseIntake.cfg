\* Two packages of every profile; the identity one claims may be requested for
\* the other. One change by the broker, one top-up or execution, and one restart of
\* the server besides those that refused saves bring about.
CONSTANTS
  Packages = {"p1", "p2"}
  Contents <- MCContents
  Entries <- MCEntries
  CaseMaximums <- MCMaximums
  MaxSafeInteger = 1000
  RequestedIds = {"TXN"}
  MaxChanges = 1
  MaxReserved = 1
  MaxCrashes = 1
SPECIFICATION FairSpec
INVARIANTS IdentityIsOnePackage NoInventoryInQuarantine FundableIsVouched ReservedIsFundable AmountsAreExact
PROPERTY JobsEnd
CHECK_DEADLOCK FALSE
