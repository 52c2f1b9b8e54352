CONSTANTS
  Kind = "known"
  Keys = {k1}
  Procs = {p1, p2}
  Limits = {1}
  MinLimit = 1
  MaxLimit = 1
  MaxNow = 3
  MaxRequests = 6
  Second = 1
  WindowS = 1
  Burst = 1
  GlobalLimit = 2
  AbuseMultiplier = 2
  MaxInt = 100
SYMMETRY Symmetry
SPECIFICATION Spec
INVARIANTS FixedWindowLimit
CHECK_DEADLOCK FALSE
