CONSTANTS
  Kind = "unknown"
  Keys = {k1}
  Procs = {p1, p2, p3}
  Limits = {1}
  MinLimit = 1
  MaxLimit = 1
  MaxNow = 6
  MaxRequests = 6
  Second = 2
  WindowS = 1
  Burst = 1
  GlobalLimit = 1
  AbuseMultiplier = 2
  MaxInt = 100
SYMMETRY Symmetry
SPECIFICATION Spec
INVARIANTS SlotBudget NoEarlyBlock HitsExact AllowedTrafficNotAbusive
PROPERTIES FixedWindowSpec
CHECK_DEADLOCK FALSE
