SPECIFICATION SeederSpec
CONSTANTS
  NTasks = 1
  Concurrency = 1
  TotalPerTenant = 8
  HistoricalPct = 50
  BatchSize = 2
  CountAttempts = 2
  Retries = 2
  MaxRuns = 2
INVARIANTS
  SeededMeansFull
  CleanIsExact
CHECK_DEADLOCK FALSE
