SPECIFICATION FairSpec
CONSTANTS
  Clients = {a, b}
  MaxBytes = 3
  SndCap = 1
  Listener = Listener
  NoFd = NoFd
  InitSize = 1
  BufSize = 2
  MaxOpen = 2
INVARIANTS
  NoEchoLost
  DeathNeedsEarlyClose
PROPERTIES
  ImplementsEcho
  ScanEnds
  EveryByteAnswered
  EveryClientServed
CHECK_DEADLOCK FALSE
