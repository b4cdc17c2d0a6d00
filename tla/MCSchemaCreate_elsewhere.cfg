SPECIFICATION Spec
CONSTANTS
  TenantCount = 3
  Concurrency = 2
  Retries = 2
  SameDir = FALSE
  MaxInvocations = 2
  MaxLate = 1
  MaxRefused = 2
PROPERTIES
  ListIsKept
CHECK_DEADLOCK FALSE
