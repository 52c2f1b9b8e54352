CONSTANTS
  ApiKeys = {}
  Ips = {i}
  Procs = {p1}
  KeysWithLimit = {}
  Limits = {1}
  MinLimit = 1
  MaxLimit = 1
  Unparseable = Unparseable
  TransferThreshold = 1
  MaxLag = 1
  AllowShutdown = TRUE
  DrainMayTimeOut = TRUE
  MaxNow = 3
  MaxRequests = 3
  MaxFailures = 1
  MaxEdits = 0
  Second = 1
  WindowS = 1
  Burst = 0
  GlobalLimit = 1
  AbuseMultiplier = 1
  MaxInt = 100
SPECIFICATION FairServiceSpec
INVARIANTS RecordsAreAbusers FlushedAtExit
PROPERTIES TransferredWhenDropped EventuallyStopped InactiveCollected
CHECK_DEADLOCK FALSE
VIEW View
