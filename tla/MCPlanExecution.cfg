\* A crash and two lapsed leases, or two crashes and one: enough for two
\* takeovers and for a call that comes back after one.
CONSTANTS
  r1 = r1
  r2 = r2
  Reconcilers <- MCReconcilers
  Versions = {1}
  Credits = {"credit"}
  Payouts = 2
  Recycle = FALSE
  MaxClaims = 3
  MaxOutages = 2
  MaxErrors = 1
SPECIFICATION Spec
SYMMETRY Symmetry
INVARIANTS TypeOK WriteAhead CompletedIsPaid SettledIsDecided
PROPERTIES ResultsAreFinal PayoutsArePromised FollowsLockProtocol
CHECK_DEADLOCK FALSE
