\* Three overlapping captures and a restart.
CONSTANTS
  c1 = c1
  c2 = c2
  c3 = c3
  Operations = {"transfer_submit", "accounts_list"}
  Kinds = {"conflict", "network"}
  Critical = {"network"}
  Calls = {c1, c2, c3}
  MaxCrashes = 1
SYMMETRY Alike
SPECIFICATION Spec
INVARIANT HealthFollowsOutcomes
CHECK_DEADLOCK FALSE
