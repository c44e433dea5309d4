SPECIFICATION FairSpec
CONSTANTS
  MaxArrivals = 3
  MaxLen = 2
  QueueCap = 2
  BufLen = 1
PROPERTIES
  EchoingHappensInBackground
CHECK_DEADLOCK FALSE
