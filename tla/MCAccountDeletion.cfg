CONSTANTS
  Users = {u1, u2}
  Existing = {u1}
  Emails = {e1, e2, e3}
  Identities = {p1}
  Tokens = {k1, k2}
  Sessions = {s1, s2}
  Deletions = {d1, d2}
  States = {x1}
  Requests = {r1, r2}
  Runners = {w1, w2}
  MaxFaults = 1
  None = None
  Workloads <- MCWorkloads
SPECIFICATION FairSpec
INVARIANT DeletionTypeOK
INVARIANT OverlapBounds
INVARIANT ResetEndsSessions
INVARIANT CompletedMeansGone
PROPERTY SpentTokenStaysSpent
PROPERTY SafeWhileQuiet
PROPERTY PendingCarriedOut
CHECK_DEADLOCK FALSE
