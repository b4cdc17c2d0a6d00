SPECIFICATION Spec
CONSTANTS
  TenantCount = 3
  Concurrency = 2
  Retries = 2
  SameDir = TRUE
  MaxInvocations = 2
  MaxLate = 1
  MaxRefused = 2
INVARIANTS
  TypeOK
  DroppedIsGone
  ReportIsTrue
PROPERTIES
  ListIsKept
  CommandEnds
CHECK_DEADLOCK FALSE
