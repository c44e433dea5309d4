SPECIFICATION SelFairSpec
CONSTANTS
  Clients = {a, b, c}
  Heedless = {b}
  None = None
  first = a
  StrLen <- MCStrLen
  MaxLen = 2
  Greeting = 0
  BufSize = 1
  Backlog = 2
  UpCap = 1
  DownCap = 1
  NoPorts = 2
  Port <- MCPort
  MaxOpen = 2
INVARIANTS
  WaitIsExplained
  ExitIsExplained
PROPERTIES
  EveryClientEndsOnAnyPort
  ReturnShutsDown
CHECK_DEADLOCK FALSE
