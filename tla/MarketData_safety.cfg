CONSTANTS
  NumLevels = 2
  MaxLevelsPerEvent = 1
  MaxUpdates = 4
  SnapshotLag = 1
  QueueCapacity = 2
  MaxSnapshotRefetch = 2
SPECIFICATION Spec
INVARIANTS NoUndetectedGap LiveBookIsExchangeBook GroupsArriveWhole NoQuotesWithoutLiveBook
PROPERTY StrategySeesExchangeBook
