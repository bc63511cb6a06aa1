SPECIFICATION Spec
CONSTANTS
  c1 = c1
  g1 = g1
  g2 = g2
  a1 = a1
  a2 = a2
  a3 = a3
  Clients = {c1}
  Goroutines = {g1, g2}
  Addresses = {a1, a2, a3}
  Configs <- Submitted
  DefaultConfig <- DefaultBucket
  NoConfig = NoConfig
  nil = nil
  Unit = 2
  MaxDuration = 127
  OverflowTo = 127
  MaxClock = 2
  MaxRequests = 5
  MaxChanges = 2
SYMMETRY Symmetry
INVARIANTS
  TypeOK
  LimiterMatchesConfig
  OneLimiterPerEpoch
  ChangeTakesEffect
  AdmissionBound
  StatsExact
CHECK_DEADLOCK FALSE
