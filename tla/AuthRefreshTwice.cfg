CONSTANTS
  Users = {u1}
  Verified = {u1}
  Tokens = {t1, t2, t3}
  Challenges = {c1}
  Requests = {r1, r2}
  MaxAttempts = 2
  Workload = {"login", "refresh"}
  None = None
SPECIFICATION Spec
INVARIANT RefreshSingleUse
CHECK_DEADLOCK FALSE
