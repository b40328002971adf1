CONSTANTS
  Prices = {1, 2, 3}
  Quantities = {1}
  MaxLevels = 2
  SnapshotDepth = 2
SPECIFICATION BookSpec
INVARIANT KeepsBestLevels
