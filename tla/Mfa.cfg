SPECIFICATION Spec
CONSTANTS
  Family = {s1, s2}
  Factor = {f1, f2}
  Challenge = {k1}
  Req = {r1, r2}
  None = None
  CodeCount = 1
  MaxFactors = 2
  MaxFailures = 1
  MaxDailyFailures = 2
  MaxAccountDailyFailures = 1
  Window = 1
  Day = 1
  MaxTime = 2
  MaxCalls = 4
SYMMETRY Symmetry
INVARIANTS
  CountsHold
  ElevatedIsProved
PROPERTIES
  StepsOnlyAdvance
  PlantedNeverLifts
  NoSetOutlivesFactor
