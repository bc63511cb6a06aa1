SPECIFICATION Spec
CONSTANTS
  p1 = p1
  p2 = p2
  Processes = {p1, p2}
  Skew <- Agree
  Spread = 0
  MaxDelay = 1
  TTL = 8
  Configs <- Submitted
  DefaultConfig <- LargeBucket
  NoConfig = NoConfig
  nil = nil
  Unit = 3
  MaxDuration = 127
  OverflowTo = 127
  MaxClock = 1
  MaxRequests = 4
  MaxChanges = 2
  MaxFaults = 1
INVARIANTS
  RateBound
  PromiseKept
CHECK_DEADLOCK FALSE
