SPECIFICATION Spec
CONSTANTS
  Unit = 4
  MaxDuration = 127
  OverflowTo = 127
  Capacity = 10
  Rate = 3
  MaxClock = 7
  MaxSpan = 9
  MaxStep = 3
  Second = 2
INVARIANTS
  TypeOK
  RateBound
  HeadersTight
PROPERTIES
  ImplementsContract
  RetryAfterExact
  RemainingHonoured
