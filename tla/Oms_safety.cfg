CONSTANTS
  BidQuotes = {q1, q2}
  AskQuotes = {q1}
  NumSlots = 3
  MaxOrders = 3
  MaxCommands = 2
  DelayedReports = FALSE
SPECIFICATION Spec
INVARIANTS TypeOK OneRestingOrderPerSide OpenOrdersTracked NoStuckSlot
