SPECIFICATION Spec
CONSTANTS
  NumLegsSet = 2
  MaxRetry = 1
  MaxLegsSet = 2
  SendmeInc = 2
  MaxSent = 4
  MaxCloses = 1
  NULL = NULL
CHECK_DEADLOCK FALSE
INVARIANT NothingLost
