SPECIFICATION FairSpec
CONSTANTS
  MaxArrivals = 4
  MaxLen = 2
  QueueCap = 2
  BufLen = 1
INVARIANTS
  StrandedIsExplained
PROPERTIES
  AcceptedOnlyGrows
  LateDatagramsEchoed
CHECK_DEADLOCK FALSE
