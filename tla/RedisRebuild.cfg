SPECIFICATION Spec
CONSTANTS
  p1 = p1
  p2 = p2
  Processes = {p1, p2}
  Skew <- Apart
  Spread = 1
  MaxDelay = 1
  TTL = 4
  Configs <- Submitted
  DefaultConfig <- DefaultBucket
  NoConfig = NoConfig
  nil = nil
  Unit = 3
  MaxDuration = 127
  OverflowTo = 127
  MaxClock = 1
  MaxRequests = 2
  MaxChanges = 2
  MaxFaults = 1
INVARIANT
  StartsClean
CHECK_DEADLOCK FALSE
