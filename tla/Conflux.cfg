SPECIFICATION FairSpec
CONSTANTS
  NumLegsSet = 2
  MaxRetry = 2
  MaxLegsSet = 2
  SendmeInc = 1
  MaxSent = 3
  MaxCloses = 1
  NULL = NULL
CHECK_DEADLOCK FALSE
INVARIANTS
  TypeOK
  SeqExact
  LegsAgree
  CurrLegAhead
  FirstLegMeasured
  LossBounded
PROPERTIES
  FromClient
  FromExit
  CellsSettle
  SetLinks
