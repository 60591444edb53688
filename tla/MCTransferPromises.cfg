\* Two overlapping calls, one lost answer, time.  Each promise is violated by a
\* behaviour of its own: name one at a time.
CONSTANTS
  c1 = c1
  c2 = c2
  c3 = c3
  ref1 = ref1
  ref2 = ref2
  Calls = {c1, c2}
  Refs = {ref1}
  MaxTransfers = 2
  MaxFaults = 1
  MaxCrashes = 0
SPECIFICATION FairSpec
PROPERTY FinalResultStands
\* INVARIANT PreparedAgain
\* PROPERTY ReconciledInTheEnd
CHECK_DEADLOCK FALSE
