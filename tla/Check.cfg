CONSTANTS
  Keys = {k1, k2}
  Ips = {ip1}
  Garbage = Garbage
  Empty = Empty
SPECIFICATION Spec
INVARIANTS IdentityAsDocumented FailOpen
PROPERTIES Answered
CHECK_DEADLOCK FALSE
