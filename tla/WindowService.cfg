SPECIFICATION Spec
CONSTANTS
  Unit = 4
  MaxDuration = 127
  OverflowTo = 127
  Bursts = {8, 9}
  RPS = 2
  MaxClock = 9
  MaxAdmitted = 4
  MaxForward = 1
  MaxBack = 1
INVARIANTS
  CountersHonest
  ElapsedInRange
  DoubleBurstBlocked
  SustainedRate
PROPERTIES
  RemainingHonoured
  RetryAfterLate
