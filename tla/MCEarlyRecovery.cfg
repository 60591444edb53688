\* A check that began before the error it resolves.
CONSTANTS
  c1 = c1
  c2 = c2
  c3 = c3
  Operations = {"transfer_submit", "accounts_list"}
  Kinds = {"conflict", "network"}
  Critical = {"network"}
  Calls = {c1, c2}
  MaxCrashes = 1

SPECIFICATION Spec
PROPERTY ResolvedBySubsequentCheck
CHECK_DEADLOCK FALSE
