SPECIFICATION Spec
CONSTANTS
  Browser = {b1, b2}
  User = {u1, u2}
  Flow = {f1, f2}
  Req = {r1, r2}
  None = None
  Window = 1
  MaxTime = 2
SYMMETRY Symmetry
INVARIANTS
  SessionIsOwn
  EndedLinksNeverLand
  LinkNeedsSignIn
\* Ids are bounded, so an instance may stop.
CHECK_DEADLOCK FALSE
