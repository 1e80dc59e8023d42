SPECIFICATION Spec
CONSTANTS
  Url = {u1, u2}
  NoPage = NoPage
  Missing = Missing
  Gathered = {u2}
  Calls = 1
  Turns = 3
  CanAsk = TRUE
  MaxFaults = 3
INVARIANTS SuccessesReach TurnsCounted
PROPERTIES ResultsKept ReadsRecordedPage
CHECK_DEADLOCK FALSE
