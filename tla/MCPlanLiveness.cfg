\* No outage: what the calls achieve by themselves.  A claim number is reused once
\* nothing holds it; four are enough for two calls and the row.
CONSTANTS
  r1 = r1
  r2 = r2
  Reconcilers <- MCReconcilers
  Versions = {1}
  Credits = {"credit"}
  Payouts = 2
  Recycle = TRUE
  MaxClaims = 4
  MaxOutages = 0
  MaxErrors = 1
SPECIFICATION FairSpec
PROPERTIES SubmissionEnds CollectableIsSettled
CHECK_DEADLOCK FALSE
