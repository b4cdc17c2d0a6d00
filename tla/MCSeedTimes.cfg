SPECIFICATION Spec
CONSTANTS
  TotalPerTenant = 12
  HistoricalPct = 30
  ConversationsPerTenant = 2
  BatchSize = 2
  From <- Begins
  To <- Ends
  HalfWindow = 1
  Clock <- TwoDays
  MaxRuns = 2
INVARIANTS
  TypeOK
  SessionPerCall
  WindowsArePopulated
  SharesUnlessResumed
  ClusteredAreOld
CHECK_DEADLOCK FALSE
