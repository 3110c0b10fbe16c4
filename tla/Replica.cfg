SPECIFICATION MCSpec
CONSTANTS
  Req = {r1, r2}
  Ip = {i1}
  Project = {j1}
  Addr = {a1}
  None = None
  Limit <- MCLimit
  Win <- MCWin
  Slots = 1
  MaxTime = 4
  MaxCalls = 3
  Origin = {"a"}
  OriginTTL = 2
  Kid = {k1}
  MaxAge = 2
  MinRefetch = 1
  MaxFetch = 1
  Hook = {"before_user_created"}
  SignInMaxAge = 1
  MaxFlight = 1
  MailLimit = 2
  Duration = 2
  MaxWait = 1
  Address = {"public1", "public2", "inside", "own", "carrier", "mapped"}
  Unmap <- MCUnmap
  Embeds <- MCEmbeds
  Internal = {"inside"}
  Deny = {"own"}
  Horizon = 5
SYMMETRY Symmetry
INVARIANTS
  AdmissionsBounded
  LockIsExact
  
\* The clocks are bounded.
CHECK_DEADLOCK FALSE
