\* One payout, one reconciler and one outage; the provider may refuse the payout with an
\* error text that is stored already.  Each promise is violated by a behaviour of its
\* own: name one at a time.
CONSTANTS
  r1 = r1
  r2 = r2
  Reconcilers = {r1}
  Versions = {1}
  Credits = {"credit"}
  Payouts = 1
  Recycle = TRUE
  MaxClaims = 4
  MaxOutages = 1
  MaxErrors = 0
SPECIFICATION FairSpec
PROPERTY QueuedEnds
\* PROPERTY CollectableIsSettled
CHECK_DEADLOCK FALSE
