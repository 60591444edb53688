\* Every origin: the funding review, a declined top-up, two plans one after the
\* other, and a receipt that is reversed.
CONSTANTS
  r1 = r1
  credit = credit
  twin = twin
  Reconcilers = {r1}
  Versions = {1, 2}
  Credits = {credit, twin}
  Payouts = 1
  Recycle = TRUE
  MaxClaims = 2
  MaxOutages = 0
  MaxErrors = 0
  Origins <- MCOrigins
SYMMETRY Alike
SPECIFICATION LifecycleSpec
INVARIANTS OnePlanUnderWay AuthorizationIsCurrent
PROPERTIES ResultsAreFinal BlocksStand
CHECK_DEADLOCK FALSE
