SPECIFICATION Spec
CONSTANTS
  Clients = {a, b}
  Sendings <- OneRequest
  MAX_CANDIDATE = 12
  INT_MAX = 127
  LONG_MAX = 511
  TailSize = 5
  Fills = {10}
INVARIANTS
  CandidateInvariant
CHECK_DEADLOCK FALSE
