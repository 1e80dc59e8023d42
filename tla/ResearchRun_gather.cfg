SPECIFICATION Spec
CONSTANTS
  Url = {u1, u2, u3}
  Process = {p1, p2}
  Nobody = Nobody
  Depth = 2
  MaxSources = 2
  Turns = 0
  CanAsk = FALSE
  MaxAttempts = 2
  MaxFaults = 3
SYMMETRY Symmetry
INVARIANTS PagesAccounted NoFetchLost SourcesCapped SucceededHasReport PaidOnce ReportMatchesRecord
PROPERTIES ImplementsPipeline
CHECK_DEADLOCK FALSE
