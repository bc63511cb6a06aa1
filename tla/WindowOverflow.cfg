SPECIFICATION Spec
CONSTANTS
  Unit = 3
  MaxDuration = 7
  OverflowTo = 7
  Bursts = {9}
  RPS = 2
  MaxClock = 10
  MaxAdmitted = 5
  MaxForward = 6
  MaxBack = 0
INVARIANT
  LimitPerWindow
