CONSTANTS
  Calls = {c1, c2, c3}
  Sessions = {s1, s2, s3}
  MaxLost = 1
  None = None
  Undefined = Undefined
  Workloads <- MCWorkloads
SPECIFICATION Spec
INVARIANT TypeOK
INVARIANT OneAutomaticRefresh
INVARIANT StoreIsLatest
INVARIANT StoreTokenUsable
CHECK_DEADLOCK FALSE
