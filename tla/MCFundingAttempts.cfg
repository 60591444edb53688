\* Two expectations of which one is topped up, a direct credit, two overlapping
\* calls, the execution of a plan, one restart at any point.
CONSTANTS
  w1 = w1
  w2 = w2
  e1 = e1
  e2 = e2
  e3 = e3
  Direct = Direct
  Workers = {w1, w2}
  Expectations = {e1, e2}
  First = e1
  MaxTopUps = 1
  MaxCrashes = 1
  TornSaves = TRUE
SYMMETRY Alike
SPECIFICATION Spec
INVARIANTS TopUpOnce OnlyExecutionOutdates
CHECK_DEADLOCK FALSE
