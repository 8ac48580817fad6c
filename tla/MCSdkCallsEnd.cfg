CONSTANTS
  Calls = {c1, c2, c3}
  Sessions = {s1, s2, s3}
  MaxLost = 1
  None = None
  Undefined = Undefined
  Workloads <- MCWaiting
SPECIFICATION FairSpec
PROPERTY CallsEnd
CHECK_DEADLOCK FALSE
