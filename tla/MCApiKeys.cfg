CONSTANTS
  Users = {u1, u2}
  Codes = {c1, c2, c3}
  Keys = {k1, k2, k3}
  Requests = {r1, r2}
  MaxSetups = 2
  MaxKeys = 1
  None = None
  Workloads <- MCWorkloads
SPECIFICATION FairSpec
INVARIANT KeysTypeOK
INVARIANT OverlapBounds
INVARIANT EnabledByProof
INVARIANT EnabledHasCodes
INVARIANT KeyLimit
PROPERTY DeadKeyStaysDead
PROPERTY CreationEnds
CHECK_DEADLOCK FALSE
