CONSTANTS
  Users = {u1, u2}
  Verified = {u1, u2}
  Tokens = {t1, t2}
  Challenges = {c1}
  Requests = {r1, r2}
  MaxAttempts = 2
  Workload = {"login", "oauth", "mfa", "refresh", "logout", "revokeAll", "switch", "disable", "enable", "abort", "expiry"}
  None = None
SPECIFICATION Spec
SYMMETRY Symmetry
INVARIANT TypeOK
INVARIANT RotationRetiresParent
INVARIANT ChallengeSingleUse
PROPERTY DisableHolds
PROPERTY ImplementsLedger
