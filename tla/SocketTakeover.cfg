CONSTANTS
  Procs = {p1, p2}
  Nobody = Nobody
  Overlap = TRUE
  MaxStops = 1
  MaxFaults = 0
SPECIFICATION Spec
INVARIANTS OneListener
CHECK_DEADLOCK FALSE
