SPECIFICATION ChatFairSpec
CONSTANTS
  Clients = {a, b}
  MaxBytes = 2
  SndCap = 1
  Listener = Listener
  NoFd = NoFd
  InitSize = 1
  BufSize = 2
  MaxOpen = 2
INVARIANTS
  SenderGetsEveryCopy
  CopiesInOrder
PROPERTIES
  AcceptFailureIsLocal
CHECK_DEADLOCK FALSE
