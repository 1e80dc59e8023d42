SPECIFICATION FairSpec
CONSTANTS
  Run = {r1}
  Process = {p1, p2}
  Cancel = {c1}
  Reply = {c2}
  Nobody = Nobody
  Later = p2
  MaxFaults = 2
INVARIANTS TypeOK DeliveredIsAnswer ToldIsSo ClosedLeavesNoClaim
PROPERTIES CancelEnds ReplyIsDrained ImplementsQueue
ACTION_CONSTRAINTS OtherFirst
CHECK_DEADLOCK FALSE
