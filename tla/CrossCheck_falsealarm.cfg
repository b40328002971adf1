CONSTANTS
  NumLevels = 3
  MaxLevelsPerEvent = 1
  StartLevels = 0
  MaxUpdates = 3
  SnapshotLag = 1
  SnapshotDepth = 2
  CheckLevels = 2
  RingCap = 8
  RingKeep = 4
  CcCapacity = 1
  Faults = FALSE
SPECIFICATION Spec
PROPERTIES MismatchMeansDamage
