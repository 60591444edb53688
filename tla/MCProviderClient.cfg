\* Seven tokens, so that they never run out: the first, one for each read's 401,
\* one for the expiry and three for refreshes whose answer gets lost.
CONSTANTS
  get1 = get1
  get2 = get2
  post = post
  Reads <- MCReads
  Posts = {post}
  MaxTokens = 7
  MaxFaults = 3
  MaxExpiries = 1
  MaxRevocations = 1
SPECIFICATION FairSpec
INVARIANT SendsBounded
PROPERTY CallsEnd
CHECK_DEADLOCK FALSE
