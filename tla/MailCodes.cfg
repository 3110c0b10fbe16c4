SPECIFICATION MCSpec
CONSTANTS
  Address = {a1, a2}
  Browser = {b1, b2}
  Client = {c1, c2}
  User = {u1}
  Req = {r1, r2}
  None = None
  MinInterval = 1
  PerAddressHour = 1
  PerIPDay = 1
  PerProjectDay = 1
  LinksPerAccountDay = 1
  PerCode = 2
  TTL = 3
  Hour = 2
  Day = 2
  MaxSends = 2
  MaxTime = 3
  GuestClient = {g1}
  PerClientHour = 1
  GuestsPerDay = 2
  PerAccountDay = 2
  PerGuestClientDay = 1
  GuestPerProjectDay = 1
  ChangeTTL = 2
  GuestHour = 1
  Every = 1
  InactiveAfter = 1
  MaxGuests = 2
  MaxChanges = 3
  MaxCalls = 5
  GuestTime = 2
SYMMETRY Symmetry

  
PROPERTIES
  ConsumedForGood
  EndedNeverMoves
  
CHECK_DEADLOCK FALSE
