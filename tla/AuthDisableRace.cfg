CONSTANTS
  Users = {u1}
  Verified = {u1}
  Tokens = {t1, t2, t3}
  Challenges = {c1}
  Requests = {r1, r2}
  MaxAttempts = 2
  Workload = {"login", "refresh", "disable", "enable"}
  None = None
SPECIFICATION Spec
INVARIANT DisabledAtThreeLayers
CHECK_DEADLOCK FALSE
