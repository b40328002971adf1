CONSTANTS
  BidQuotes = {q1}
  AskQuotes = {q1}
  NumSlots = 3
  MaxOrders = 2
  MaxCommands = 2
  DelayedReports = TRUE
SPECIFICATION Spec
INVARIANT OneRestingOrderPerSide
