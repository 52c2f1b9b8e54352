CONSTANTS
  Kind = "known"
  Keys = {k1, k2}
  Procs = {p1, p2}
  Limits = {1, 2}
  MinLimit = 1
  MaxLimit = 2
  MaxNow = 3
  MaxRequests = 4
  Second = 1
  WindowS = 1
  Burst = 1
  GlobalLimit = 2
  AbuseMultiplier = 2
  MaxInt = 100
SYMMETRY Symmetry
SPECIFICATION Spec
INVARIANTS TypeOK SlotBudget HitsExact
PROPERTIES FixedWindowSpec
CHECK_DEADLOCK FALSE
