\* An error answer stored as FAILED while the provider has accepted the payout.
CONSTANTS
  r1 = r1
  r2 = r2
  Reconcilers <- MCReconcilers
  Versions = {1}
  Credits = {"credit"}
  Payouts = 2
  Recycle = FALSE
  MaxClaims = 3
  MaxOutages = 2
  MaxErrors = 1
SPECIFICATION Spec
SYMMETRY Symmetry
INVARIANT SettledIsQuiet
CHECK_DEADLOCK FALSE
