SPECIFICATION Spec
CONSTANTS
  Url = {u1}
  NoPage = NoPage
  Missing = Missing
  Gathered = {}
  Calls = 2
  Turns = 1
  CanAsk = TRUE
  MaxFaults = 1
INVARIANTS LostIsError
CHECK_DEADLOCK FALSE
