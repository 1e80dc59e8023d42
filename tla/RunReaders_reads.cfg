SPECIFICATION ReadersSpec
CONSTANTS
  Run = {r1}
  Process = {p1}
  Cancel = {c1}
  Reply = {}
  Nobody = Nobody
  MaxFaults = 1
  Reader = {d1}
INVARIANTS ReadersTypeOK ShownIsSo SucceededIsThere
PROPERTIES CancellationSeen
CONSTRAINTS SendOnly NoToolClaim Unresolved
CHECK_DEADLOCK FALSE
