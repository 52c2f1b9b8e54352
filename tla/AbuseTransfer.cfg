CONSTANTS
  Ids = {a, b}
  Nobody = Nobody
  Interval = 2
  Ttl = 4
  IdleTime = 1
  CycleTime = 1
  MaxFailures = 1
  MaxRemovals = 1
  MaxCrashes = 1
SPECIFICATION FairSpec
INVARIANTS TypeOK RecordedInTime
PROPERTIES RecordsExpire
