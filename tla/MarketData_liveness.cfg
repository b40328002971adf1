CONSTANTS
  NumLevels = 2
  MaxLevelsPerEvent = 1
  MaxUpdates = 2
  SnapshotLag = 1
  QueueCapacity = 1
  MaxSnapshotRefetch = 2
SPECIFICATION FairSpec
PROPERTIES ShutdownTerminates PushCompletes
