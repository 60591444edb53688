\* Two plans, failed observations.  Each promise is violated by a behaviour of
\* its own: name one at a time.
CONSTANTS
  r1 = r1
  credit = credit
  twin = twin
  Reconcilers = {r1}
  Versions = {1, 2}
  Credits = {credit}
  Payouts = 1
  Recycle = TRUE
  MaxClaims = 2
  MaxOutages = 0
  MaxErrors = 1
  Origins <- MCFailing
SPECIFICATION LifecycleSpec
INVARIANT LatestPlanOnly
\* INVARIANT ReceiptPaidOnce
\* INVARIANT ReversalWithdraws
\* INVARIANT NothingElseUnderWay
CHECK_DEADLOCK FALSE
