CONSTANTS
  StaleThreshold = 1
  FlushPeriod = 1
  Deadline = 0
  QueueSize = 1
  MaxIteration = 1
  MaxTime = 5
SPECIFICATION LiveSpec
INVARIANT NoQuotesOnStaleBook
CHECK_DEADLOCK FALSE
