SPECIFICATION Spec
CONSTANTS
  Clients = {a, b, c, d}
  MaxBytes = 1
  SndCap = 1
  Listener = Listener
  NoFd = NoFd
  InitSize = 1
  BufSize = 1
  MaxOpen = 3
SYMMETRY Symmetry
INVARIANTS
  TypeOK
  TableMatchesDescriptors
  StallsAreExplained
CHECK_DEADLOCK FALSE
