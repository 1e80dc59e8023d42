SPECIFICATION Spec
CONSTANTS
  Url = {u1}
  Process = {p1}
  Nobody = Nobody
  Depth = 1
  MaxSources = 1
  Turns = 0
  CanAsk = FALSE
  MaxAttempts = 2
  MaxFaults = 0
INVARIANTS EmptyPlanIsRetried
CHECK_DEADLOCK FALSE
