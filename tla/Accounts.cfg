SPECIFICATION MCSpec
CONSTANTS
  Req = {r1, r2}
  None = None
  OwnPatches <- MCOwnPatches
  ManagedPatches <- MCManagedPatches
  MaxMetadata = 1
  Window = 1
  TTL = 2
  MaxPasswords = 2
  MaxPatches = 2
  MaxTime = 2
  MaxSessions = 2
  MaxTokens = 2
  Caller = {c1}
  Project = {p1, p2}
  Key = {k1, k2}
  Legacy = {k2}
  Ordinary = {"user", "editor"}
  Reserved = {"service"}
  RoleLists <- MCRoleLists
  Answers <- MCAnswers
  MaxAllowedRoles = 2
  MaxCustomClaims = 1
  MaxKeyAdminLifetime = 1
  TokenTTL = 1
  MaxFlight = 1
  MaxEdits = 1
  MaxSigned = 2
SYMMETRY Symmetry
INVARIANTS
  NoPatchLost
  SensitiveNeedsProof
  
  EachGateItsToken
  HookOnlyPicksARole
  TakenBackGrantsExpire
CHECK_DEADLOCK FALSE
