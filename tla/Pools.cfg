SPECIFICATION Spec
CONSTANTS
  Req = {r1, r2}
  Store = {s1, s2, s3}
  None = None
  TTL = 2
  MaxAges = {1}
  Interval = 1
  MaxFlight = 1
  MaxVersion = 1
  MaxTime = 3
SYMMETRY Symmetry
INVARIANTS
  NoPoolLeaks
  CachesAreFresh
\* The clock is bounded.
CHECK_DEADLOCK FALSE
