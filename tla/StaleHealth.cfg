CONSTANTS
  ApiKeys = {a}
  Ips = {}
  Procs = {p1, p2}
  KeysWithLimit = {}
  Limits = {1}
  Unparseable = Unparseable
  TransferThreshold = 1
  MaxLag = 1
  AllowShutdown = TRUE
  DrainMayTimeOut = FALSE
  MaxNow = 3
  MaxRequests = 4
  MaxFailures = 1
  MaxEdits = 0
  Second = 1
  WindowS = 1
  Burst = 0
  GlobalLimit = 1
  AbuseMultiplier = 1
  MaxInt = 100
SPECIFICATION Spec
INVARIANTS FinalFlush
SYMMETRY Symmetry
CHECK_DEADLOCK FALSE
