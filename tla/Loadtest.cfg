SPECIFICATION Spec
CONSTANTS
  Workers = {1, 2}
  Sizes = {2, 3}
  Expect = 1
  Tolerance = 1
  Capacity = 2
  Rate = 2
  Unit = 2
  MaxDuration = 127
  OverflowTo = 127
  MaxClock = 2
  MaxFaults = 1
  MaxPolls = 3
  MaxWatched = 2
INVARIANTS
  TalliedOnce
  TalliesMatchServer
  LatenciesReported
  VerdictSound
  RatesAddUp
PROPERTIES
  RunEnds
CHECK_DEADLOCK FALSE
