SPECIFICATION FairSpec
CONSTANTS
  Clients = {a, b}
  Sendings <- Some
  MAX_CANDIDATE = 12
  INT_MAX = 127
  LONG_MAX = 511
  TailSize = 5
  Fills = {0, 1, 10}
INVARIANTS
  TypeOK
  CandidateOnlyGrows
  ExitIsExplained
  NobodyWaitsInVain
PROPERTIES
  ImplementsBallotBox
  EveryWaiterEnds
CHECK_DEADLOCK FALSE
