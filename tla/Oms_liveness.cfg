CONSTANTS
  BidQuotes = {q1}
  AskQuotes = {}
  NumSlots = 2
  MaxOrders = 2
  MaxCommands = 1
  DelayedReports = TRUE
SPECIFICATION FairSpec
PROPERTY AgainAndAgainFlat
