SPECIFICATION FairSpec
CONSTANTS
  j1 = j1
  Job = {j1}
  Worker = {w1, w2}
  Request = {r1, r2}
  JobOf <- SameEvent
  Nobody = Nobody
  MaxAttempts = 2
  MaxStops = 1
INVARIANTS JobsInv SucceededIsJustified ClaimsBounded
PROPERTIES JobsRest
CHECK_DEADLOCK FALSE
