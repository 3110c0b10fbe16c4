\* Ids are bounded, so a run stops once every account and link has been used.
SPECIFICATION Spec
CONSTANTS
  User = {u1}
  Link = {l1, l2, l3}
  Password = {p1, p2}
  Req = {r1, r2}
  None = None
  Marker = Marker
  Required = TRUE
  Outages = FALSE
SYMMETRY Symmetry
CHECK_DEADLOCK FALSE
INVARIANTS
  ClaimedOnce
  
  SessionNeedsProof
PROPERTIES
  VerifiedPasswordIsSafe
