CONSTANTS
  FeeBps = 10
  MaxPrice = 3
  Sizes = {1, 3}
  MaxTime = 2
  MaxFills = 2
  QMax = 2
  QuoteSize = 2
  Hysteresis = 2
  MinSamples = 1
  MinNotional = 2
SPECIFICATION Spec
INVARIANTS InventoryBounded RestingQuotesPostOnly
PROPERTIES SamplesWithinEpoch FillsAreConservative
