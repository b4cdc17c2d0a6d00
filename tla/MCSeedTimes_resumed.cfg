SPECIFICATION Spec
CONSTANTS
  TotalPerTenant = 12
  HistoricalPct = 30
  ConversationsPerTenant = 2
  BatchSize = 2
  From <- Begins
  To <- Ends
  HalfWindow = 1
  Clock <- TwoDays
  MaxRuns = 2
INVARIANT SingleSession
CHECK_DEADLOCK FALSE
