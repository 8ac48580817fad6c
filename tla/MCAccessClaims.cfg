CONSTANTS
  Users = {u1, u2}
  Existing = {u1, u2}
  Tokens = {t1, t2}
  Keys = {k1}
  Servers = {n1, n2}
  Requests = {r1, r2}
  Workloads <- MCWorkloads
  None = None
SPECIFICATION FairSpec
INVARIANT TypeOK
INVARIANT DefaultRoleGiven
INVARIANT AuthorityTraced
PROPERTY RevokedLapses
CHECK_DEADLOCK FALSE
