SPECIFICATION Spec
CONSTANTS
  p1 = p1
  p2 = p2
  Processes = {p1, p2}
  Skew <- Apart
  Spread = 1
  MaxDelay = 1
  TTL = 4
  Configs = {}
  DefaultConfig <- DefaultBucket
  NoConfig = NoConfig
  nil = nil
  Unit = 3
  MaxDuration = 127
  OverflowTo = 127
  MaxClock = 5
  MaxRequests = 3
  MaxChanges = 0
  MaxFaults = 1
INVARIANTS
  TypeOK
  RateBound
  AnswersPaid
  StatsOffByFaults
  TimesClose
CHECK_DEADLOCK FALSE
