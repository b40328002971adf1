CONSTANTS
  NumLevels = 4
  MaxLevelsPerEvent = 1
  StartLevels = 4
  MaxUpdates = 6
  SnapshotLag = 1
  SnapshotDepth = 2
  CheckLevels = 1
  RingCap = 3
  RingKeep = 2
  CcCapacity = 1
  Faults = TRUE
SPECIFICATION Spec
INVARIANTS TypeOK
PROPERTIES NoFalseAlarm MatchIsExact
