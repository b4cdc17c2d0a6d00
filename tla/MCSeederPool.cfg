SPECIFICATION SeederSpec
CONSTANTS
  NTasks = 3
  Concurrency = 2
  TotalPerTenant = 1
  HistoricalPct = 60
  BatchSize = 2
  CountAttempts = 1
  Retries = 1
  MaxRuns = 2
INVARIANTS
  PoolInv
PROPERTIES
  KeepsContract
  RunEnds
CHECK_DEADLOCK FALSE
