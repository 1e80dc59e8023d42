SPECIFICATION Spec
CONSTANTS
  Url = {u1}
  NoPage = NoPage
  Missing = Missing
  Gathered = {}
  Calls = 1
  Turns = 2
  CanAsk = FALSE
  MaxFaults = 0
PROPERTIES FetchedOnce
CHECK_DEADLOCK FALSE
