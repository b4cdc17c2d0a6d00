SPECIFICATION Spec
CONSTANTS
  TenantCount = 4
  WorkerCount = 3
  MaxInvocations = 2
INVARIANTS
  ExitZeroMeansSeeded
PROPERTIES
  CommandEnds
CHECK_DEADLOCK FALSE
