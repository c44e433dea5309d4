SPECIFICATION FairSpec
CONSTANTS
  Base = 8
  DELIM = 1
  BufSize = 10
  Waste = 10
  Message <- Puts
  MaxMsgs = 2
  TooLong = TooLong
  Stale <- Leftovers
INVARIANTS
  ResultsArePieces
  StopsAtTheEnd
  OwnMessagesMisread
PROPERTIES
  ImplementsChannel
  AllDealtWith
CHECK_DEADLOCK FALSE
