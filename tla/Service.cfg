CONSTANTS
  ApiKeys = {a}
  Ips = {}
  Procs = {p1, p2}
  KeysWithLimit = {a}
  Limits = {1}
  MinLimit = 1
  MaxLimit = 1
  Unparseable = Unparseable
  TransferThreshold = 1
  MaxLag = 1
  AllowShutdown = FALSE
  DrainMayTimeOut = FALSE
  MaxNow = 2
  MaxRequests = 3
  MaxFailures = 1
  MaxEdits = 1
  Second = 1
  WindowS = 1
  Burst = 0
  GlobalLimit = 1
  AbuseMultiplier = 1
  MaxInt = 100
SPECIFICATION ServiceSpec
INVARIANTS TypeOK LimitedKeysNeverAbusers KeyBudget SteadyKeyBudget KeyNoEarlyBlock RecordedWereRefused
PROPERTIES CollectedEachCycle KnownMapSpec UnknownMapSpec AnswersFixedWindow
SYMMETRY Symmetry
