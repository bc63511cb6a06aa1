SPECIFICATION ServerSpec
CONSTANTS
  c1 = c1
  g1 = g1
  a1 = a1
  a2 = a2
  a3 = a3
  Clients = {c1}
  Goroutines = {g1}
  Addresses = {a1, a2, a3}
  Configs <- Submitted
  DefaultConfig <- DefaultBucket
  NoConfig = NoConfig
  nil = nil
  NoFile = NoFile
  Unit = 2
  MaxDuration = 127
  OverflowTo = 127
  MaxRequests = 2
  MaxChanges = 1
  MaxClock = 1
  MaxStarts = 2
SYMMETRY Symmetry
INVARIANTS
  DiskConsistent
  RestoredMatches
  CleanExitDurableIfStopped
  LossBound
CHECK_DEADLOCK FALSE
