CONSTANTS
  Endpoints = {e1}
  Deliveries = {d1, d2}
  Events = {v1}
  Runners = {w1, w2}
  MaxAttempts = 3
  MaxFaults = 1
  None = None
SPECIFICATION FairSpec
INVARIANT TypeOK
INVARIANT GivenUpAfterAllAttempts
PROPERTY SettledForGood
PROPERTY EventuallySettled
CHECK_DEADLOCK FALSE
