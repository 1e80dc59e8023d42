SPECIFICATION AgentFairSpec
CONSTANTS
  mine = mine
  other = other
  page = page
  Search = {query}
  Fetch = {page}
  Slot = {s1}
  Nobody = Nobody
  Lease = 1
  SearchBound = 2
  FetchBound = 1
  MaxAttempts = 2
  Run = {mine, other}
  Mine = mine
  Owner <- MCOwner
  MaxSteps <- MCMaxSteps
INVARIANTS AgentTypeOK CallHasClaim JoinHasRunner NothingOutlives
PROPERTIES ImplementsMembers CallReturns
CHECK_DEADLOCK FALSE
