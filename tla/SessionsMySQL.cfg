SPECIFICATION MCSpec
CONSTANTS
  User = {u1}
  Family = {f1, f2}
  Token = {t1, t2, t3}
  Req = {r1, r2}
  None = None
  Engine = "mysql"
  TTL = 1
  MaxTime = 1
  MaxRev = 1
  IOTimeout = 2
  RetryFirst = 2
  RetryMax = 5
PROPERTIES
  
  RequestsEnd
  WaitsEnd
