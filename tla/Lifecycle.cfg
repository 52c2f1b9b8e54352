CONSTANTS
  Procs = {p1, p2}
  Nobody = Nobody
  Overlap = FALSE
  MaxStops = 3
  MaxFaults = 2
SPECIFICATION FairSpec
INVARIANTS TypeOK ReadyMeansReachable
PROPERTIES EventuallyReachable EventuallyEnds
CHECK_DEADLOCK FALSE
