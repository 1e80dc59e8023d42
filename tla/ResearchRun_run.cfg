SPECIFICATION FairSpec
CONSTANTS
  Url = {u1}
  Process = {p1}
  Nobody = Nobody
  Depth = 1
  MaxSources = 1
  Turns = 2
  CanAsk = TRUE
  MaxAttempts = 2
  MaxFaults = 2
INVARIANTS TypeOK UsageDrift SourcesWereFetched
PROPERTIES RunEnds MembersReleased ImplementsTurns ImplementsQueue
CHECK_DEADLOCK FALSE
