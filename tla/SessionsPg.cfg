SPECIFICATION Spec
CONSTANTS
  User = {u1}
  Family = {f1, f2}
  Token = {t1, t2, t3}
  Req = {r1, r2}
  None = None
  Engine = "postgres"
  TTL = 1
  MaxTime = 2
  MaxRev = 1
SYMMETRY Symmetry
INVARIANTS
  OneLivePerFamily
  
  NoOrphanSession
PROPERTIES
  LockedRevocationIsTotal
  KeepsLedger
  
