SPECIFICATION Spec
CONSTANTS
  Url = {u1}
  NoPage = NoPage
  Missing = Missing
  Gathered = {}
  Calls = 2
  Turns = 2
  CanAsk = TRUE
  MaxFaults = 1
INVARIANTS TypeOK HistoryClosed MembersHaveCalls ReplyReachesCall
PROPERTIES ImplementsTurns
CHECK_DEADLOCK FALSE
