CONSTANTS
  Prices = {1, 2, 3, 4, 5, 6}
  Quantities = {1, 2}
  MaxLevels = 4
  SnapshotDepth = 5

  Capacity = 4
  Refill = 1
  StartTime = 1
  MaxClock = 7

  Digits = {0, 1, 7}
  MaxInt = 127
  MaxScale = 2
  MaxLength = 5

  MaxEvents = 4
  MaxId = 2
  FlushThreshold = 5

  InitialDelay = 2
  MaxDelay = 6
  Multiplier = 2
  MaxAttempt = 4

  Hosts = {"testnet", "production"}
  TestnetHosts = {"testnet"}
  Scales = {0, 2}
  Windows = {0, 4, 7}
  MaxRecvWindow = 6
  MaxSkew = 3
  MaxLeg = 2

  StaleThreshold = 1
  FlushPeriod = 1
  Deadline = 3
  QueueSize = 1
  MaxIteration = 1
  MaxTime = 5
SPECIFICATION Spec
INVARIANTS SideIsSound SearchFindsLowerBound TopIsExact
INVARIANT RefillIsExact
INVARIANTS ParseIsExact ConversionsAgree
INVARIANTS LogTypeOK ReplayReproducesLive LogAgreesWithReplay ClosedLogIsComplete
INVARIANTS StreamsAreUsable RetriesBackOff
INVARIANTS RequestsAreSound GreenIsProved
INVARIANTS LossIsBounded ExitIsOrderly
PROPERTY LiveProgramEnds
CHECK_DEADLOCK FALSE
