SPECIFICATION Spec
CONSTANTS
  Run = {r1, r2}
  Process = {p1}
  Cancel = {}
  Reply = {}
  Nobody = Nobody
  Later = Nobody
  MaxFaults = 1
INVARIANTS NoClaimLeft
CHECK_DEADLOCK FALSE
