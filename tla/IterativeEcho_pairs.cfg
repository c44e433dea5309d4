SPECIFICATION FairSpec
CONSTANTS
  Clients = {a, b, c, d}
  Heedless = {b, c}
  None = None
  longOne = a
  emptyOne = d
  StrLen <- MCStrLen
  MaxLen = 4
  Greeting = 2
  BufSize = 2
  Backlog = 1
  UpCap = 1
  DownCap = 1
INVARIANTS
  DoneMeansEchoed
  ExitNeedsKilledClient
  MutualBlockNeedsLongString
  NobodyWaitsInVain
PROPERTIES
  ImplementsEcho
  EveryStepGoesOn
  EveryClientEnds
CHECK_DEADLOCK FALSE
