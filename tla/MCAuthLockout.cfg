CONSTANTS
  Users = {u1}
  Verified = {u1}
  Tokens = {t1}
  Challenges = {c1}
  Requests = {r1, r2, r3}
  MaxAttempts = 3
  Workload = {"login", "guess", "oauth", "mfa", "refresh", "expiry"}
  None = None
SPECIFICATION Spec
SYMMETRY Symmetry
INVARIANT GuessesBounded
PROPERTY LockHolds
CHECK_DEADLOCK FALSE
