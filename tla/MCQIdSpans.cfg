SPECIFICATION Spec
CONSTANTS
  v1 = v1
  v2 = v2
  t1 = t1
  t2 = t2
  VUs <- TwoUsers
  Tenants <- TwoTenants
  Strategies = 2
  Seeded <- BothStrategies
  PageSize = 2
  MaxInserts = 1
  MaxErrors = 1
INVARIANTS
  QIdInv
PROPERTIES
  SweepCompletes
CHECK_DEADLOCK FALSE
