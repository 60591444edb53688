\* Three overlapping calls on one reference, two faults and a restart.
CONSTANTS
  c1 = c1
  c2 = c2
  c3 = c3
  ref1 = ref1
  ref2 = ref2
  Calls = {c1, c2, c3}
  Refs = {ref1}
  MaxTransfers = 2
  MaxFaults = 2
  MaxCrashes = 1
SPECIFICATION FairSpec
INVARIANTS MovedOnce OneSender
PROPERTY SavedIsReconciled
CHECK_DEADLOCK FALSE
