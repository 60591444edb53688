\* Nothing goes wrong but that the first token comes within the margin.
CONSTANTS
  get1 = get1
  get2 = get2
  post = post
  Reads <- MCReads
  Posts = {post}
  MaxTokens = 5
  MaxFaults = 0
  MaxExpiries = 1
  MaxRevocations = 0
SPECIFICATION ClientSpec
INVARIANT ReadsSurviveRefreshes
CHECK_DEADLOCK FALSE
