SPECIFICATION Spec
CONSTANTS
  Requests <- MCRequests
  Keys <- MCKeys
  MaxTime = 3
  MaxDisturbances = 1
  Replies <- MCReplies
INVARIANTS Accounted KeptUntilReported EarliestFirst Exclusion
PROPERTIES EventuallyReported SessionOpens
CHECK_DEADLOCK FALSE
