------------------------ MODULE WindowServiceProofs ------------------------
(***************************************************************************)
(* Theorems of WindowService, for every limit and rate whose window fits a *)
(* Duration.  What a client is told comes true, whatever is done to the    *)
(* clock; as long as it is not set back, the counters are the true counts, *)
(* the double burst is blocked and the rate is sustained.                  *)
(***************************************************************************)
EXTENDS WindowService, Arithmetic

\* A length whose double, and whose sum with any reading of the clock, is a
\* Duration.
Fits(length) == 2 * length <= MaxDuration /\ length + MaxClock <= MaxDuration

\* Beyond this range the code limits nothing: a window of no length lets no
\* request through, one that overflows lets through every one.
Usable == \A burst \in Bursts : burst \div RPS >= 1 /\ Fits(burst \div RPS)

Windows == [type : {AlgorithmSlidingWindow}, limit : Bursts, window : Nat \ {0},
            windowStart : 0 .. MaxClock, currentCount : Nat, previousCount : Nat]

\* A window of a usable length.
Fitting == {s \in Windows : Fits(s.window)}

\* int64 arithmetic does not wrap within the range of a Duration.
LEMMA WrapInRange == \A x \in Duration : Wrap(x) = x
<1> TAKE x \in Duration
<1> DEFINE a == x - MinDuration
           b == 2 * (MaxDuration + 1)
<1>1. x \in Int /\ MinDuration \in Int /\ a \in Nat /\ b \in Nat /\ b > 0 /\ a < b
  BY DurationAssumption DEF Duration, MinDuration
<1>2. \A p, q \in Nat : q > 0 /\ p < q => p % q = p
  OBVIOUS
<1>3. Wrap(x) = (a % b) + MinDuration
  BY DEF Wrap
<1> HIDE DEF b
<1>4. a % b = a
  BY <1>1, <1>2
<1>5. a + MinDuration = x
  BY <1>1
<1> QED
  BY <1>3, <1>4, <1>5

LEMMA LimitType == \A burst \in Bursts : burst \in Nat /\ burst > 0 /\ burst >= Unit
BY WindowAssumption, UnitAssumption DEF Validate

LEMMA FittingType ==
  ASSUME NEW s \in Fitting
  PROVE  /\ s \in Windows /\ s.limit \in Bursts /\ s.window \in Nat \ {0}
         /\ s.windowStart \in Nat /\ s.currentCount \in Nat /\ s.previousCount \in Nat
<1>1. s \in Windows /\ MaxClock \in Nat
  BY WindowAssumption DEF Fitting
<1> QED
  BY <1>1 DEF Windows

Rolled(s, n, m, start) ==
  [type |-> AlgorithmSlidingWindow, limit |-> s.limit, window |-> s.window,
   windowStart |-> start, currentCount |-> n, previousCount |-> m]

\* The head of Allow: the window of the grid that now falls into, or a fresh one
\* (slidingwindow.go:105-122).
LEMMA RollEffect ==
  ASSUME NEW s \in Fitting, NEW now \in 0 .. MaxClock
  PROVE  LET r == Roll(s, now)
             e == now - s.windowStart
         IN  /\ r \in Fitting /\ r.window = s.window /\ r.limit = s.limit
             /\ now - r.windowStart \in Int /\ now - r.windowStart <= s.window - 1
             /\ s.windowStart <= now => r.windowStart <= now
             /\ \/ e < s.window /\ r = s
                \/ /\ s.window <= e /\ e < 2 * s.window
                   /\ r.windowStart = s.windowStart + s.window
                   /\ r.currentCount = 0 /\ r.previousCount = s.currentCount
                \/ /\ 2 * s.window <= e /\ r.windowStart = now
                   /\ r.currentCount = 0 /\ r.previousCount = 0
<1> DEFINE r == Roll(s, now)
           e == now - s.windowStart
           w == s.window
<1>1. /\ w \in Nat \ {0} /\ s.windowStart \in Nat /\ e \in Int /\ 2 * w <= MaxDuration
      /\ s.currentCount \in Nat /\ s.previousCount \in Nat /\ now \in Nat /\ MaxClock \in Nat
      /\ now <= MaxClock
  BY WindowAssumption DEF Fitting, Windows, Fits
<1>2. Wrap(2 * w) = 2 * w
  <2>1. 2 * w \in Duration
    BY <1>1, DurationAssumption DEF Duration, MinDuration
  <2> QED
    BY <2>1, WrapInRange
<1>3. \A n, m \in Nat, start \in 0 .. MaxClock :
        LET v == Rolled(s, n, m, start)
        IN  /\ v \in Fitting /\ v.window = w /\ v.limit = s.limit
            /\ v.currentCount = n /\ v.previousCount = m /\ v.windowStart = start
  BY DEF Rolled, Fitting, Windows
<1>4. CASE e < w
  <2>1. r = s
    BY <1>1, <1>2, <1>4 DEF Roll
  <2> QED
    BY <1>1, <1>4, <2>1
<1>5. CASE w <= e /\ e < 2 * w
  <2>0. r = [s EXCEPT !.previousCount = s.currentCount, !.currentCount = 0,
                      !.windowStart = @ + w]
    BY <1>1, <1>2, <1>5 DEF Roll
  <2>1. r = Rolled(s, 0, s.currentCount, s.windowStart + w)
    BY <2>0 DEF Fitting, Windows, Rolled
  <2>2. PICK start \in 0 .. MaxClock, m \in Nat : start = s.windowStart + w /\ m = s.currentCount
    BY <1>1, <1>5
  <2>3. /\ r \in Fitting /\ r.window = w /\ r.limit = s.limit
        /\ r.windowStart = s.windowStart + w /\ r.currentCount = 0
        /\ r.previousCount = s.currentCount
    <3>1. r = Rolled(s, 0, m, start) /\ 0 \in Nat
      BY <2>1, <2>2
    <3> HIDE DEF r
    <3> QED
      BY <1>3, <2>2, <3>1
  <2> HIDE DEF r
  <2>4. now - r.windowStart \in Int /\ now - r.windowStart <= w - 1 /\ r.windowStart <= now
    BY <1>1, <1>5, <2>3
  <2> QED
    BY <1>5, <2>3, <2>4 DEF r
<1>6. CASE 2 * w <= e
  <2>0. r = [s EXCEPT !.currentCount = 0, !.previousCount = 0, !.windowStart = now]
    BY <1>1, <1>2, <1>6 DEF Roll
  <2>1. r = Rolled(s, 0, 0, now)
    BY <2>0 DEF Fitting, Windows, Rolled
  <2>2. /\ r \in Fitting /\ r.window = w /\ r.limit = s.limit
        /\ r.windowStart = now /\ r.currentCount = 0 /\ r.previousCount = 0
    BY <1>3, <2>1
  <2> HIDE DEF r
  <2>3. now - r.windowStart \in Int /\ now - r.windowStart <= w - 1 /\ r.windowStart <= now
    BY <1>1, <2>2
  <2> QED
    BY <1>6, <2>2, <2>3 DEF r
<1> QED
  BY <1>1, <1>4, <1>5, <1>6

-----------------------------------------------------------------------------
\* The weighted count e ticks into the window, as a multiple of its length.
Estimate(s, e) == s.previousCount * (s.window - e) + s.currentCount * s.window

LEMMA EstimateParts ==
  ASSUME NEW s \in Windows, NEW e \in Int
  PROVE  /\ Estimate(s, e) \in Int
         /\ Estimate(s, e) * Unit = (s.previousCount * Unit) * (s.window - e)
                                      + (s.currentCount * Unit) * s.window
<1> DEFINE p == s.previousCount
           c == s.currentCount
           w == s.window
<1>1. p \in Int /\ c \in Int /\ w \in Int /\ w - e \in Int /\ Unit \in Int
  BY UnitAssumption DEF Windows
<1>2. p * (w - e) \in Int /\ c * w \in Int
  BY <1>1, IntProduct
<1>3. (p * (w - e) + c * w) * Unit = (p * (w - e)) * Unit + (c * w) * Unit
  BY <1>1, <1>2, ProductOfSum
<1>4. \A a, b, u \in Int : (a * b) * u = (a * u) * b
  OBVIOUS
<1>5. (p * (w - e)) * Unit = (p * Unit) * (w - e) /\ (c * w) * Unit = (c * Unit) * w
  BY <1>1, <1>4
<1> QED
  BY <1>2, <1>3, <1>5 DEF Estimate

\* What Allow decides and tells, at an instant of the window it rolled to
\* (slidingwindow.go:124-160).
LEMMA AllowEffect ==
  ASSUME NEW s \in Fitting, NEW now \in 0 .. MaxClock
  PROVE  LET r == Roll(s, now)
             e == now - r.windowStart
             result == SlidingWindowAllow(s, now)
             left == result.limiter
             d == result.decision
         IN  /\ d.Allowed <=> Estimate(r, e) * Unit < r.limit * r.window
             /\ left \in Fitting /\ left.window = r.window /\ left.limit = r.limit
             /\ left.windowStart = r.windowStart /\ left.previousCount = r.previousCount
             /\ left.currentCount = r.currentCount + (IF d.Allowed THEN 1 ELSE 0)
             /\ ~d.Allowed => d.RetryAfter = r.window - e
             /\ d.Remaining >= 1 =>
                  (Estimate(r, e) + (IF d.Allowed THEN 1 ELSE 0) * r.window) * Unit + Unit * r.window
                    <= r.limit * r.window
<1> DEFINE r == Roll(s, now)
           e == now - r.windowStart
           w == r.window
           yes == BelowLimit(r, now)
           consumed == IF yes THEN 1 ELSE 0
           result == SlidingWindowAllow(s, now)
           est == Estimate(r, e)
<1>1. r \in Fitting /\ r.window = s.window /\ e \in Int /\ e <= w - 1 /\ w - e <= w + MaxClock
  <2>1. r \in Fitting /\ r.window = s.window /\ e \in Int /\ e <= w - 1
    BY RollEffect
  <2> HIDE DEF r
  <2>2. r.windowStart <= MaxClock /\ r.windowStart \in Int /\ w \in Int /\ now \in Nat
        /\ MaxClock \in Nat
    BY <2>1, WindowAssumption DEF Fitting, Windows
  <2> QED
    BY <2>1, <2>2
<1>2. /\ w \in Nat \ {0} /\ w + MaxClock <= MaxDuration /\ r.currentCount \in Nat
      /\ r.limit \in Int
  BY <1>1, LimitType DEF Fitting, Windows, Fits
<1>3. Wrap(w - e) = w - e
  <2>1. w - e \in Duration
    BY <1>1, <1>2, DurationAssumption, WindowAssumption DEF Duration, MinDuration
  <2> QED
    BY <2>1, WrapInRange
<1>4. Estimated(r, now) = est /\ Length(r) = w
  BY <1>2, <1>3 DEF Estimated, Length, elapsedInCurrent, Estimate
<1>5. yes <=> est * Unit < r.limit * w
  BY <1>2, <1>4 DEF BelowLimit
<1>6. /\ result.limiter = [r EXCEPT !.currentCount = @ + consumed]
      /\ result.decision.Allowed = yes
      /\ result.decision.RetryAfter = IF yes THEN 0 ELSE w - e
      /\ result.decision.Remaining = WindowRemaining(r, now, consumed)
  BY <1>3 DEF SlidingWindowAllow, elapsedInCurrent
<1>7. yes \in BOOLEAN /\ consumed \in Nat
  BY DEF BelowLimit
<1>8. est \in Int /\ Unit \in Nat \ {0}
  BY <1>1, EstimateParts, UnitAssumption DEF Fitting
<1>9. WindowRemaining(r, now, consumed)
        = MaxOf(0, (r.limit * w - (est + consumed * w) * Unit) \div (Unit * w))
  BY <1>2, <1>4, Zenon DEF WindowRemaining
<1> HIDE DEF r, e, yes, consumed, result, est
<1>10. ASSUME WindowRemaining(r, now, consumed) >= 1
       PROVE  (est + consumed * w) * Unit + Unit * w <= r.limit * w
  <2> DEFINE a == r.limit * w - (est + consumed * w) * Unit
             b == Unit * w
             q == a \div b
  <2>1. r.limit * w \in Int /\ (est + consumed * w) * Unit \in Int /\ b \in Nat /\ b # 0
    <3>1. consumed * w \in Int /\ est + consumed * w \in Int
      BY <1>2, <1>7, <1>8, IntProduct
    <3>2. 0 * w < Unit * w /\ 0 * w = 0
      BY <1>2, <1>8, ProductStrict
    <3> QED
      BY <1>2, <1>8, <3>1, <3>2, IntProduct, NatProduct
  <2>2. a \in Int /\ b \in Nat \ {0}
    BY <2>1
  <2> HIDE DEF a, b
  <2>3. q \in Int /\ q * b <= a
    BY <2>2, Quotient
  <2> HIDE DEF q
  <2>4. MaxOf(0, q) >= 1
    BY <1>9, <1>10 DEF a, b, q
  <2>5. 1 <= q
    BY <2>3, <2>4 DEF MaxOf
  <2>6. 1 * b <= q * b /\ q * b \in Int /\ 1 * b = b
    BY <2>2, <2>3, <2>5, ProductMonotone, IntProduct
  <2>7. b <= a
    BY <2>2, <2>3, <2>6
  <2> QED
    BY <2>1, <2>7 DEF a, b
<1>11. /\ result.limiter \in Fitting /\ result.limiter.window = w /\ result.limiter.limit = r.limit
       /\ result.limiter.windowStart = r.windowStart
       /\ result.limiter.previousCount = r.previousCount
       /\ result.limiter.currentCount = r.currentCount + consumed
  BY <1>1, <1>2, <1>6, <1>7 DEF Fitting, Windows
<1>12. consumed = IF result.decision.Allowed THEN 1 ELSE 0
  BY <1>6 DEF consumed
<1> QED
  BY <1>5, <1>6, <1>7, <1>10, <1>11, <1>12 DEF r, e, result, est

-----------------------------------------------------------------------------
\* The log of what was really let through, up to the present.
At(log, t) == log[MinOf(MaxOf(t, 0), MaxClock + 1)]

Log(log, now) ==
  /\ log \in [Ticks -> Nat]
  /\ \A t \in Int : At(log, t) \in Nat
  /\ \A a, b \in Int : a <= b => At(log, a) <= At(log, b)
  /\ \A t \in Int : t <= 0 => At(log, t) = 0
  /\ \A t \in Int : t > now => At(log, t) = At(log, MaxClock + 1)

Grown(log, j, now) == [t \in Ticks |-> IF t > now THEN log[t] + j ELSE log[t]]

\* One more request, or none (j = 0), is let through now.
LEMMA GrowLog ==
  ASSUME NEW now \in 0 .. MaxClock, NEW log, Log(log, now), NEW j \in {0, 1}
  PROVE  /\ \A t \in Int : At(Grown(log, j, now), t) = At(log, t) + (IF t > now THEN j ELSE 0)
         /\ Log(Grown(log, j, now), now)
<1> DEFINE log2 == Grown(log, j, now)
           Clamp(t) == MinOf(MaxOf(t, 0), MaxClock + 1)
<1>0. MaxClock \in Nat /\ now \in Nat
  BY WindowAssumption
<1>1. \A t \in Int : Clamp(t) \in Ticks /\ (Clamp(t) > now <=> t > now)
  BY <1>0 DEF MinOf, MaxOf, Ticks
<1>2. \A t \in Int : At(log, t) = log[Clamp(t)] /\ At(log2, t) = log2[Clamp(t)]
  BY DEF At
<1>3. log \in [Ticks -> Nat] /\ \A t \in Int : At(log, t) \in Nat
  BY DEF Log
<1>4. \A t \in Ticks : log2[t] = IF t > now THEN log[t] + j ELSE log[t]
  BY DEF Grown
<1> HIDE DEF Clamp, log2
<1>5. ASSUME NEW t \in Int PROVE At(log2, t) = At(log, t) + (IF t > now THEN j ELSE 0)
  <2>1. PICK u \in Ticks : u = Clamp(t) /\ (u > now <=> t > now)
    BY <1>1
  <2>2. At(log, t) = log[u] /\ At(log2, t) = (IF u > now THEN log[u] + j ELSE log[u]) /\ log[u] \in Nat
    BY <1>2, <1>3, <1>4, <2>1
  <2> QED
    BY <2>1, <2>2
<1>6. log2 \in [Ticks -> Nat]
  <2>1. \A t \in Ticks : (IF t > now THEN log[t] + j ELSE log[t]) \in Nat
    BY <1>3
  <2> QED
    BY <2>1 DEF log2, Grown
<1>7. \A a, b \in Int : a <= b => At(log2, a) <= At(log2, b)
  <2> TAKE a, b \in Int
  <2> HAVE a <= b
  <2>1. PICK x, y \in Nat : x = At(log, a) /\ y = At(log, b)
    BY <1>3
  <2>2. x <= y
    BY <2>1 DEF Log
  <2>3. At(log2, a) = x + (IF a > now THEN j ELSE 0) /\ At(log2, b) = y + (IF b > now THEN j ELSE 0)
    BY <1>5, <2>1
  <2> QED
    BY <1>0, <2>2, <2>3
<1>8. \A t \in Int : t <= 0 => At(log2, t) = 0
  BY <1>0, <1>5 DEF Log
<1>9. \A t \in Int : t > now => At(log2, t) = At(log2, MaxClock + 1)
  <2> TAKE t \in Int
  <2> HAVE t > now
  <2>1. At(log, t) = At(log, MaxClock + 1) /\ MaxClock + 1 > now /\ MaxClock + 1 \in Int
    BY <1>0 DEF Log
  <2> QED
    BY <1>5, <2>1
<1>10. \A t \in Int : At(log2, t) \in Nat
  BY <1>3, <1>5
<1> QED
  BY <1>5, <1>6, <1>7, <1>8, <1>9, <1>10 DEF Log, log2

\* The counters are the true counts: this window's are all since windowStart, the
\* previous one's those of the window's length before it.
Counted(log, s) ==
  /\ s.currentCount = At(log, MaxClock + 1) - At(log, s.windowStart)
  /\ s.previousCount = At(log, s.windowStart) - At(log, s.windowStart - s.window)
  /\ \A t \in Int : t >= s.windowStart + s.window => At(log, t) = At(log, MaxClock + 1)

\* Rolling on counts nothing twice and forgets only what is too old.
LEMMA RollCounted ==
  ASSUME NEW s \in Fitting, NEW now \in 0 .. MaxClock, s.windowStart <= now,
         NEW log, Log(log, now), Counted(log, s)
  PROVE  Counted(log, Roll(s, now))
<1> DEFINE r == Roll(s, now)
<1>1. PICK w \in Nat \ {0}, start \in Nat, n \in Nat :
         w = s.window /\ start = s.windowStart /\ n = s.currentCount
  BY DEF Fitting, Windows
<1>2. PICK total \in Nat : total = At(log, MaxClock + 1)
  BY WindowAssumption DEF Log
<1>3. now \in Nat /\ \A t \in Int : At(log, t) \in Nat
  BY WindowAssumption DEF Log
<1>4. n = total - At(log, start) /\ \A t \in Int : t >= start + w => At(log, t) = total
  BY <1>1, <1>2 DEF Counted
<1>5. r \in Fitting /\ r.window = w
  BY <1>1, RollEffect
<1>6. \/ r = s
      \/ /\ r.windowStart = start + w /\ r.currentCount = 0 /\ r.previousCount = n
      \/ /\ 2 * w <= now - start /\ r.windowStart = now
         /\ r.currentCount = 0 /\ r.previousCount = 0
  BY <1>1, <1>3, RollEffect
<1> HIDE DEF r
<1>7. CASE r = s
  BY <1>7 DEF r
<1>8. CASE r.windowStart = start + w /\ r.currentCount = 0 /\ r.previousCount = n
  <2>1. /\ At(log, start + w) = total /\ (start + w) - w = start
        /\ \A t \in Int : t >= (start + w) + w => At(log, t) = total
    BY <1>1, <1>4
  <2>2. 0 = total - At(log, start + w) /\ n = At(log, start + w) - At(log, (start + w) - w)
    BY <1>3, <1>4, <2>1
  <2> QED
    BY <1>2, <1>5, <1>8, <2>1, <2>2 DEF Counted, r
<1>9. CASE 2 * w <= now - start /\ r.windowStart = now /\ r.currentCount = 0 /\ r.previousCount = 0
  <2>1. /\ now \in Int /\ now - w \in Int /\ now >= start + w /\ now - w >= start + w
        /\ \A t \in Int : t >= now + w => t >= start + w
    BY <1>3, <1>9
  <2>2. /\ At(log, now) = total /\ At(log, now - w) = total
        /\ \A t \in Int : t >= now + w => At(log, t) = total
    BY <1>4, <2>1
  <2>3. 0 = total - total
    OBVIOUS
  <2> QED
    BY <1>2, <1>5, <1>9, <2>2, <2>3 DEF Counted, r
<1> QED
  BY <1>6, <1>7, <1>8, <1>9 DEF r

-----------------------------------------------------------------------------
\* A Burst in whole requests, rounded up.
CeilingOf(burst) == -((-burst) \div Unit)

LEMMA CeilingFits ==
  ASSUME NEW burst \in Bursts
  PROVE  /\ CeilingOf(burst) \in Nat
         /\ \A n \in Nat : n * Unit < burst + Unit => n <= CeilingOf(burst)
<1> DEFINE q == (-burst) \div Unit
<1>1. burst \in Int /\ burst > 0 /\ Unit \in Nat \ {0} /\ -burst \in Int
  BY LimitType, UnitAssumption
<1>2. q \in Int /\ q * Unit <= -burst
  BY <1>1, Quotient
<1>3. CeilingOf(burst) = -q
  BY DEF CeilingOf
<1> HIDE DEF q
<1>4. q < 0
  <2>1. CASE q >= 0
    <3>1. q * Unit \in Nat
      BY <1>1, <1>2, <2>1, NatProduct
    <3> QED
      BY <1>1, <1>2, <3>1
  <2> QED
    BY <1>2, <2>1
<1>5. ASSUME NEW n \in Nat, n * Unit < burst + Unit PROVE n <= -q
  <2>1. CASE n >= 1 - q
    <3>1. (1 - q) * Unit <= n * Unit
      BY <1>1, <1>2, <2>1, ProductMonotone
    <3>2. ((1 - q) + q) * Unit = (1 - q) * Unit + q * Unit /\ (1 - q) + q = 1 /\ 1 * Unit = Unit
      BY <1>1, <1>2, ProductOfSum
    <3>3. n * Unit \in Int /\ (1 - q) * Unit \in Int /\ q * Unit \in Int
      BY <1>1, <1>2, IntProduct
    <3> QED
      BY <1>1, <1>2, <1>5, <3>1, <3>2, <3>3
  <2> QED
    BY <1>2, <2>1
<1> QED
  BY <1>2, <1>3, <1>4, <1>5

\* No count exceeds the limit by a whole request.
Within(s) ==
  /\ s.currentCount * Unit < s.limit + Unit
  /\ s.previousCount * Unit < s.limit + Unit

\* Since the last request let through, the estimate exceeds the limit by less
\* than that request.
Fading(s, now) ==
  s.currentCount > 0 =>
    Estimate(s, now - s.windowStart) * Unit < s.limit * s.window + Unit * s.window

\* In each window that has gone by no more than the limit, rounded up, was let
\* through.
Sustained(log, s) ==
  \E k \in Nat : /\ k * s.window <= s.windowStart
                 /\ At(log, s.windowStart) <= k * CeilingOf(s.limit)

Sound(log, s, now) ==
  /\ Log(log, now) /\ s.windowStart <= now
  /\ Counted(log, s) /\ Fading(s, now) /\ Sustained(log, s)

\* Time only lowers an estimate.
LEMMA EstimateFades ==
  ASSUME NEW s \in Windows, NEW d \in Int, NEW e \in Int, d <= e
  PROVE  /\ Estimate(s, d) * Unit \in Int /\ Estimate(s, e) * Unit \in Int
         /\ Estimate(s, e) * Unit <= Estimate(s, d) * Unit
<1> DEFINE p == s.previousCount * Unit
           c == (s.currentCount * Unit) * s.window
<1>1. /\ s.previousCount \in Nat /\ s.currentCount \in Nat /\ s.window \in Nat /\ Unit \in Nat
  BY UnitAssumption DEF Windows
<1>2. p \in Nat /\ c \in Nat
  BY <1>1, NatProduct
<1>3. /\ Estimate(s, d) * Unit = p * (s.window - d) + c
      /\ Estimate(s, e) * Unit = p * (s.window - e) + c
  BY EstimateParts
<1> HIDE DEF p, c
<1>4. /\ (s.window - e) * p <= (s.window - d) * p
      /\ (s.window - e) * p = p * (s.window - e) /\ (s.window - d) * p = p * (s.window - d)
      /\ p * (s.window - e) \in Int /\ p * (s.window - d) \in Int
  <2>1. s.window - e \in Int /\ s.window - d \in Int /\ s.window - e <= s.window - d
    BY <1>1
  <2> QED
    BY <1>2, <2>1, ProductMonotone, IntProduct
<1> QED
  BY <1>2, <1>3, <1>4

LEMMA LaterSound ==
  ASSUME NEW s \in Windows, NEW log, NEW now \in Nat, NEW later \in Nat, now <= later,
         Sound(log, s, now)
  PROVE  Sound(log, s, later)
<1>1. ASSUME s.currentCount > 0
      PROVE  Estimate(s, later - s.windowStart) * Unit < s.limit * s.window + Unit * s.window
  <2>1. PICK d, e \in Int : d = now - s.windowStart /\ e = later - s.windowStart /\ d <= e
    BY DEF Windows
  <2>2. Estimate(s, d) * Unit < s.limit * s.window + Unit * s.window
    BY <1>1, <2>1 DEF Sound, Fading
  <2>3. s.limit * s.window + Unit * s.window \in Int
    BY LimitType, UnitAssumption, IntProduct DEF Windows
  <2>4. /\ Estimate(s, d) * Unit \in Int /\ Estimate(s, e) * Unit \in Int
        /\ Estimate(s, e) * Unit <= Estimate(s, d) * Unit
    BY <2>1, EstimateFades
  <2>5. Estimate(s, e) * Unit < s.limit * s.window + Unit * s.window
    BY <2>2, <2>3, <2>4
  <2> QED
    BY <2>1, <2>5
<1>2. Log(log, later) /\ s.windowStart <= later
  BY DEF Sound, Log, Windows
<1> QED
  BY <1>1, <1>2 DEF Sound, Fading

LEMMA RollSound ==
  ASSUME NEW s \in Fitting, NEW now \in 0 .. MaxClock,
         NEW log, Sound(log, s, now), Within(s)
  PROVE  Sound(log, Roll(s, now), now)
<1> DEFINE r == Roll(s, now)
<1>1. PICK w \in Nat \ {0}, start \in Nat, n \in Nat, b \in Bursts :
         w = s.window /\ start = s.windowStart /\ n = s.currentCount /\ b = s.limit
  BY DEF Fitting, Windows
<1>2. /\ now \in Nat /\ Unit \in Nat \ {0} /\ b \in Nat /\ b > 0
      /\ \A t \in Int : At(log, t) \in Nat
  BY WindowAssumption, UnitAssumption, LimitType DEF Sound, Log
<1>3. Counted(log, r) /\ r.windowStart <= now
  BY RollCounted, RollEffect DEF Sound
<1>4. r \in Fitting /\ r.window = w /\ r.limit = b
  BY <1>1, <1>2, RollEffect
<1>5. \/ r = s
      \/ /\ r.windowStart = start + w /\ r.currentCount = 0 /\ r.previousCount = n
      \/ /\ 2 * w <= now - start /\ r.windowStart = now
         /\ r.currentCount = 0 /\ r.previousCount = 0
  BY <1>1, <1>2, RollEffect
<1> HIDE DEF r
<1>6. CASE r = s
  BY <1>6 DEF r
<1>7. ASSUME r.currentCount = 0, r.previousCount \in {0, n}, r.windowStart >= start + w,
             r.windowStart \in Nat
      PROVE  Sound(log, r, now)
  <2>1. Fading(r, now)
    BY <1>7 DEF Fading
  <2>2. Sustained(log, r)
    <3>1. PICK k \in Nat : k * w <= start /\ At(log, start) <= k * CeilingOf(b)
      BY <1>1 DEF Sound, Sustained
    <3>2. n <= CeilingOf(b) /\ CeilingOf(b) \in Nat
      BY <1>1, CeilingFits DEF Within
    <3>3. PICK c \in Nat : c = CeilingOf(b)
      BY <3>2
    <3>4. (k + 1) * w = k * w + w /\ (k + 1) * c = k * c + c /\ k + 1 \in Nat
      <4>1. (k + 1) * w = k * w + 1 * w /\ (k + 1) * c = k * c + 1 * c /\ 1 * w = w /\ 1 * c = c
        BY <1>1, <3>3, ProductOfSum
      <4> QED
        BY <4>1
    <3>5. k * w \in Nat /\ k * c \in Nat
      BY <1>1, <3>3, NatProduct
    <3>6. At(log, start) + n = At(log, MaxClock + 1) /\ At(log, r.windowStart) = At(log, MaxClock + 1)
      <4>1. n = At(log, MaxClock + 1) - At(log, start) /\ MaxClock + 1 \in Int /\ start \in Int
        BY <1>1, WindowAssumption DEF Sound, Counted
      <4>2. r.windowStart \in Int /\ r.windowStart >= s.windowStart + s.window
        BY <1>1, <1>7
      <4>3. At(log, r.windowStart) = At(log, MaxClock + 1)
        BY <4>2 DEF Sound, Counted
      <4>4. At(log, MaxClock + 1) \in Nat /\ At(log, start) \in Nat
        BY <1>2, <4>1
      <4> QED
        BY <4>1, <4>3, <4>4
    <3>7. (k + 1) * w <= r.windowStart
      BY <1>1, <1>7, <3>1, <3>4, <3>5
    <3>8. At(log, r.windowStart) <= (k + 1) * c
      <4>1. PICK x, y \in Nat : x = At(log, start) /\ y = At(log, r.windowStart)
        BY <1>1, <1>2, <1>7
      <4>2. y = x + n /\ x <= k * c /\ n <= c
        BY <3>1, <3>2, <3>3, <3>6, <4>1
      <4>3. y <= (k + 1) * c
        BY <1>1, <3>3, <3>4, <3>5, <4>2
      <4> QED
        BY <4>1, <4>3
    <3> QED
      BY <1>4, <3>3, <3>4, <3>7, <3>8 DEF Sustained
  <2> QED
    BY <1>3, <2>1, <2>2 DEF Sound
<1>8. start + w \in Nat /\ (2 * w <= now - start => now >= start + w)
  BY <1>1, <1>2
<1>9. CASE r.windowStart = start + w /\ r.currentCount = 0 /\ r.previousCount = n
  BY <1>7, <1>8, <1>9 DEF r
<1>10. CASE 2 * w <= now - start /\ r.windowStart = now /\ r.currentCount = 0 /\ r.previousCount = 0
  BY <1>2, <1>7, <1>8, <1>10 DEF r
<1> QED
  BY <1>5, <1>6, <1>9, <1>10 DEF r

\* Rolling on keeps the counts within the limit.
LEMMA RollWithin ==
  ASSUME NEW s \in Fitting, NEW now \in 0 .. MaxClock, Within(s)
  PROVE  Within(Roll(s, now))
<1> DEFINE r == Roll(s, now)
<1>1. /\ r.limit = s.limit
      /\ \/ r = s
         \/ r.currentCount = 0 /\ r.previousCount = s.currentCount
         \/ r.currentCount = 0 /\ r.previousCount = 0
  BY RollEffect
<1> HIDE DEF r
<1>2. 0 * Unit = 0 /\ 0 < s.limit + Unit
  BY LimitType, UnitAssumption DEF Fitting, Windows
<1> QED
  BY <1>1, <1>2 DEF Within, r

\* A request let through (j = 1) or not (j = 0): left is what it leaves.
AllowStep(r, now, j, left) ==
  /\ j = 1 => Estimate(r, now - r.windowStart) * Unit < r.limit * r.window
  /\ left.window = r.window /\ left.limit = r.limit
  /\ left.windowStart = r.windowStart /\ left.previousCount = r.previousCount
  /\ left.currentCount = r.currentCount + j

LEMMA AllowWithin ==
  ASSUME NEW r \in Fitting, NEW now \in 0 .. MaxClock, now - r.windowStart <= r.window - 1,
         Within(r), NEW j \in {0, 1}, NEW left \in Fitting, AllowStep(r, now, j, left)
  PROVE  Within(left)
<1>1. PICK w \in Nat \ {0}, start \in Nat, n \in Nat, p \in Nat, b \in Bursts :
         /\ w = r.window /\ start = r.windowStart /\ n = r.currentCount
         /\ p = r.previousCount /\ b = r.limit
  BY FittingType
<1>2. /\ now \in Nat /\ Unit \in Nat \ {0} /\ b \in Nat /\ b > 0
  BY WindowAssumption, UnitAssumption, LimitType
<1> DEFINE e == now - start
           est == Estimate(r, e) * Unit
           nu == n * Unit
           nuw == nu * w
           pu == (p * Unit) * (w - e)
           bw == b * w
<1>3. /\ e \in Int /\ nu \in Nat /\ nuw \in Nat /\ pu \in Nat /\ bw \in Nat
      /\ est = pu + nuw
  <2>1. e \in Int /\ w - e \in Nat /\ r \in Windows
    BY <1>1, <1>2 DEF Fitting
  <2>2. p * Unit \in Nat /\ nu \in Nat
    BY <1>1, <1>2, NatProduct
  <2>3. nuw \in Nat /\ pu \in Nat /\ bw \in Nat
    BY <1>1, <1>2, <2>1, <2>2, NatProduct
  <2>4. est = pu + nuw
    BY <1>1, <2>1, EstimateParts
  <2> QED
    BY <2>1, <2>2, <2>3, <2>4
<1>4. j = 1 => est < bw
  BY <1>1 DEF AllowStep
<1>5. (n + j) * Unit = nu + j * Unit /\ (j = 0 => j * Unit = 0) /\ (j = 1 => j * Unit = Unit)
  BY <1>1, <1>2, ProductOfSum
<1>6. nu < b + Unit /\ p * Unit < b + Unit
  BY <1>1 DEF Within
<1>7. nuw < bw => nu < b
  <2>1. nu \in Int /\ b \in Int
    BY <1>2, <1>3
  <2> HIDE DEF nu
  <2>2. nu < b <=> nu * w < b * w
    BY <1>1, <2>1, ProductStrict
  <2> QED
    BY <2>2
<1>8. (n + j) * Unit < b + Unit
  <2> HIDE DEF nu, nuw, pu, bw, est
  <2>1. CASE j = 0
    BY <1>2, <1>3, <1>5, <1>6, <2>1
  <2>2. CASE j = 1
    <3>1. nuw < bw
      BY <1>3, <1>4, <2>2
    <3> QED
      BY <1>2, <1>3, <1>5, <1>7, <2>2, <3>1
  <2> QED
    BY <2>1, <2>2
<1> QED
  BY <1>1, <1>6, <1>8 DEF Within, AllowStep

LEMMA AllowSound ==
  ASSUME NEW r \in Fitting, NEW now \in 0 .. MaxClock, now - r.windowStart <= r.window - 1,
         NEW log, Sound(log, r, now),
         NEW j \in {0, 1}, NEW left \in Fitting, AllowStep(r, now, j, left)
  PROVE  Sound(Grown(log, j, now), left, now)
<1> DEFINE log2 == Grown(log, j, now)
<1>1. PICK w \in Nat \ {0}, start \in Nat, n \in Nat, p \in Nat, b \in Bursts :
         /\ w = r.window /\ start = r.windowStart /\ n = r.currentCount
         /\ p = r.previousCount /\ b = r.limit
  BY FittingType
<1>2. /\ now \in Nat /\ Unit \in Nat \ {0} /\ b \in Nat /\ b > 0 /\ MaxClock \in Nat
      /\ now <= MaxClock /\ \A t \in Int : At(log, t) \in Nat
  BY WindowAssumption, UnitAssumption, LimitType DEF Sound, Log
<1>3. start <= now /\ now < start + w
  BY <1>1, <1>2 DEF Sound
<1>4. (\A t \in Int : At(log2, t) = At(log, t) + (IF t > now THEN j ELSE 0)) /\ Log(log2, now)
  BY GrowLog DEF Sound
<1> HIDE DEF log2
<1>5. left.window = w /\ left.windowStart = start /\ left.currentCount = n + j
      /\ left.previousCount = p /\ left.limit = b
  BY <1>1 DEF AllowStep
<1>6. PICK total, first, before \in Nat :
        /\ total = At(log, MaxClock + 1) /\ first = At(log, start) /\ before = At(log, start - w)
  BY <1>1, <1>2
<1>7. /\ At(log2, MaxClock + 1) = total + j /\ At(log2, start) = first
      /\ At(log2, start - w) = before
  BY <1>1, <1>2, <1>3, <1>4, <1>6
<1>8. Counted(log2, left)
  <2>1. n = total - first /\ p = first - before
        /\ \A t \in Int : t >= start + w => At(log, t) = total
    BY <1>1, <1>6 DEF Sound, Counted
  <2>2. n + j = (total + j) - first
    BY <2>1
  <2>3. \A t \in Int : t >= start + w => At(log2, t) = total + j
    BY <1>1, <1>2, <1>3, <1>4, <2>1
  <2> QED
    BY <1>5, <1>7, <2>1, <2>2, <2>3 DEF Counted
<1> DEFINE e == now - start
           est == Estimate(r, e) * Unit
           nu == n * Unit
           nuw == nu * w
           pu == (p * Unit) * (w - e)
           uw == Unit * w
           bw == b * w
<1>9. /\ e \in 0 .. w - 1 /\ nu \in Nat /\ nuw \in Nat /\ pu \in Nat /\ uw \in Nat /\ bw \in Nat
      /\ est = pu + nuw
  <2>1. e \in 0 .. w - 1 /\ w - e \in Nat /\ e \in Int
    BY <1>1, <1>2, <1>3
  <2>2. p * Unit \in Nat /\ nu \in Nat
    BY <1>1, <1>2, NatProduct
  <2>3. nuw \in Nat /\ pu \in Nat /\ uw \in Nat /\ bw \in Nat
    BY <1>1, <1>2, <2>1, <2>2, NatProduct
  <2>4. est = pu + nuw
    <3>1. r \in Windows
      BY DEF Fitting
    <3> QED
      BY <1>1, <2>1, <3>1, EstimateParts
  <2> QED
    BY <2>1, <2>2, <2>3, <2>4
<1>10. j = 1 => est < bw
  BY <1>1 DEF AllowStep
<1>11. (n + j) * Unit = nu + j * Unit /\ (j = 1 => j * Unit = Unit)
  BY <1>1, <1>2, ProductOfSum
<1>12. Fading(left, now)
  <2>1. Estimate(left, e) * Unit = pu + ((n + j) * Unit) * w
    <3>1. left \in Windows /\ e \in Int
      BY <1>9 DEF Fitting
    <3> QED
      BY <1>5, <3>1, EstimateParts
  <2>2. j = 1 => ((n + j) * Unit) * w = nuw + uw
    <3> HAVE j = 1
    <3>1. (n + j) * Unit = nu + Unit
      BY <1>11
    <3>2. (nu + Unit) * w = nu * w + Unit * w
      BY <1>1, <1>2, <1>9, ProductOfSum
    <3> QED
      BY <3>1, <3>2
  <2>3. ASSUME n + j > 0 PROVE Estimate(left, e) * Unit < bw + uw
    <3>1. CASE j = 1
      <4> HIDE DEF nu, nuw, pu, uw, bw, est
      <4> QED
        BY <1>9, <1>10, <2>1, <2>2, <3>1
    <3>2. CASE j = 0
      <4>1. n + j = n /\ n > 0
        BY <1>1, <2>3, <3>2
      <4>2. est < bw + uw
        BY <1>1, <4>1 DEF Sound, Fading
      <4>3. Estimate(left, e) * Unit = est
        BY <1>9, <2>1, <4>1
      <4> QED
        BY <4>2, <4>3
    <3> QED
      BY <3>1, <3>2
  <2> QED
    BY <1>5, <2>3 DEF Fading
<1>13. Sustained(log2, left)
  BY <1>1, <1>5, <1>6, <1>7 DEF Sound, Sustained
<1> QED
  BY <1>3, <1>4, <1>5, <1>8, <1>12, <1>13 DEF Sound, log2

-----------------------------------------------------------------------------
\* A client told of whole requests left: so much room was under the limit, in the
\* estimate and in this window's own count.  One told to wait: until this
\* window's end.
Told(s, resp) ==
  /\ resp.remaining >= 1 =>
       /\ Estimate(s, resp.at - s.windowStart) * Unit + Unit * s.window <= s.limit * s.window
       /\ s.currentCount * Unit + Unit <= s.limit
  /\ resp # NoResponse /\ ~resp.allowed => resp.at + resp.retryAfter = s.windowStart + s.window

\* What holds of the window whatever is done to the clock.
Standing(s, resp) == s \in Fitting /\ Within(s) /\ Told(s, resp) /\ resp.at \in Int

IInv ==
  /\ clock \in 0 .. MaxClock
  /\ through \in [Ticks -> Nat]
  /\ Standing(window, response)

\* And what only a clock that is not set back leaves true.
HInv == steady => Sound(through, window, clock)

\* Both counters are zero and the log is empty at the start.
LEMMA StandingInit == Usable /\ Init => IInv /\ HInv
<1> SUFFICES ASSUME Usable, Init PROVE IInv /\ HInv
  OBVIOUS
<1>1. PICK burst \in Bursts : window = newLimiter(Config(burst), 0)
  BY DEF Init
<1>2. PICK w \in Nat \ {0} : w = burst \div RPS /\ Fits(w)
  <2>1. burst \in Nat /\ RPS \in Nat \ {0}
    BY LimitType, WindowAssumption DEF Validate
  <2>2. burst \div RPS \in Int
    BY <2>1, Quotient
  <2> QED
    BY <2>2 DEF Usable
<1>3. ToDuration(w) = w
  BY <1>2, DurationAssumption DEF ToDuration, Fits
<1>4. window = NewSlidingWindow(burst, w, 0)
  BY <1>1, <1>2, <1>3 DEF newLimiter, Config
<1>5. /\ window \in Fitting /\ window.window = w /\ window.windowStart = 0 /\ window.limit = burst
      /\ window.currentCount = 0 /\ window.previousCount = 0
  BY <1>2, <1>4, WindowAssumption DEF NewSlidingWindow, Fitting, Windows
<1>6. /\ clock = 0 /\ through = [t \in Ticks |-> 0] /\ response = NoResponse /\ MaxClock \in Nat
  BY WindowAssumption DEF Init
<1>7. \A t \in Int : At(through, t) = 0
  BY <1>6 DEF At, MinOf, MaxOf, Ticks
<1>8. Log(through, 0) /\ through \in [Ticks -> Nat]
  <2>1. MaxClock + 1 \in Int /\ through \in [Ticks -> Nat]
    BY <1>6
  <2> QED
    BY <1>7, <2>1 DEF Log
<1>9. Counted(through, window)
  <2>1. MaxClock + 1 \in Int /\ 0 - w \in Int
    BY <1>2, <1>6
  <2> QED
    BY <1>5, <1>7, <2>1 DEF Counted
<1>10. Within(window) /\ Fading(window, 0)
  BY <1>5, LimitType, UnitAssumption DEF Within, Fading
<1>11. Sustained(through, window)
  <2>1. PICK c \in Nat : c = CeilingOf(burst)
    BY CeilingFits
  <2>2. 0 * w = 0 /\ 0 * c = 0
    BY <1>2, <2>1
  <2> QED
    BY <1>5, <1>7, <2>1, <2>2 DEF Sustained
<1>12. Told(window, response) /\ response.at \in Int
  BY <1>6 DEF Told, NoResponse, Never
<1> QED
  BY <1>5, <1>6, <1>8, <1>9, <1>10, <1>11, <1>12 DEF IInv, HInv, Standing, Sound

LEMMA TickStanding == IInv /\ Tick => IInv' /\ (HInv => HInv')
<1> SUFFICES ASSUME IInv, Tick PROVE IInv' /\ (HInv => HInv')
  OBVIOUS
<1>1. PICK now \in Nat, later \in Nat :
        now = clock /\ later = clock' /\ now <= later /\ later \in 0 .. MaxClock
  BY WindowAssumption DEF IInv, Tick
<1>2. through' = through /\ window' = window /\ response' = response /\ steady' = steady
  BY DEF Tick
<1>3. window \in Windows
  BY DEF IInv, Standing, Fitting
<1>4. Sound(through, window, clock) => Sound(through, window, later)
  BY <1>1, <1>3, LaterSound
<1> QED
  BY <1>1, <1>2, <1>3, <1>4 DEF IInv, HInv

\* A snapshot restores the very window it was taken of (manager.go:189-231).
LEMMA Restored == \A s \in Windows : LimiterFromState(LimiterState(s)) = s
<1> TAKE s \in Windows
<1>1. s.type = AlgorithmSlidingWindow
  BY DEF Windows
<1>2. LimiterFromState(LimiterState(s)) =
        [type |-> AlgorithmSlidingWindow, limit |-> s.limit, window |-> s.window,
         windowStart |-> s.windowStart, currentCount |-> s.currentCount,
         previousCount |-> s.previousCount]
  BY <1>1 DEF LimiterFromState, LimiterState, SlidingWindowState, NewSlidingWindowFromState,
              AlgorithmSlidingWindow, AlgorithmTokenBucket
<1> QED
  BY <1>2 DEF Windows

\* The wall clock moves, over a restart or not, and the window stays.
LEMMA MovedStanding ==
  ASSUME IInv, HInv, NEW d \in Int, Moved(d),
         UNCHANGED <<window, response, through>>
  PROVE  IInv' /\ HInv'
<1>1. window \in Windows /\ clock' \in 0 .. MaxClock /\ clock' = clock + d
      /\ window' = window /\ response' = response /\ through' = through
  BY DEF IInv, Standing, Fitting, Moved
<1>2. IInv'
  BY <1>1 DEF IInv
<1>3. ASSUME steady' PROVE Sound(through, window, clock')
  <2>1. steady /\ d >= 0
    BY <1>3, Zenon DEF Moved
  <2>2. PICK now \in Nat, later \in Nat : now = clock /\ later = clock' /\ now <= later
    BY <1>1, <2>1, WindowAssumption DEF IInv
  <2>3. Sound(through, window, now)
    BY <2>1, <2>2 DEF HInv
  <2>4. Sound(through, window, later)
    BY <1>1, <2>2, <2>3, LaterSound
  <2> QED
    BY <2>2, <2>4
<1> QED
  BY <1>1, <1>2, <1>3 DEF HInv

LEMMA RestartStanding ==
  ASSUME IInv, HInv, NEW d \in -MaxBack .. MaxForward, Restart(d)
  PROVE  IInv' /\ HInv'
<1>1. window' = window
  BY Restored DEF IInv, Standing, Fitting, Restart
<1>2. d \in Int /\ Moved(d) /\ UNCHANGED <<window, response, through>>
  BY <1>1, WindowAssumption DEF Restart
<1> QED
  BY <1>2, MovedStanding

LEMMA SetClockStanding ==
  ASSUME IInv, HInv, NEW d \in -MaxBack .. MaxForward, SetClock(d)
  PROVE  IInv' /\ HInv'
<1>1. d \in Int /\ Moved(d) /\ UNCHANGED <<window, response, through>>
  BY WindowAssumption DEF SetClock
<1> QED
  BY <1>1, MovedStanding

-----------------------------------------------------------------------------
\* What a request does: j = 1 if it is let through, 0 if not.
LEMMA RequestEffect ==
  ASSUME IInv, Request
  PROVE  LET r == Roll(window, clock)
             e == clock - r.windowStart
         IN  /\ clock' = clock /\ steady' = steady
             /\ response' # NoResponse /\ response'.at = clock
             /\ r \in Fitting /\ e \in Int /\ e <= r.window - 1
             /\ response'.allowed <=> Estimate(r, e) * Unit < r.limit * r.window
             /\ window' \in Fitting
             /\ \E j \in {0, 1} :
                  /\ AllowStep(r, clock, j, window')
                  /\ through' = Grown(through, j, clock)
                  /\ response'.remaining >= 1 =>
                       (Estimate(r, e) + j * r.window) * Unit + Unit * r.window <= r.limit * r.window
             /\ ~response'.allowed => response'.at + response'.retryAfter = r.windowStart + r.window
<1> DEFINE r == Roll(window, clock)
           e == clock - r.windowStart
           result == SlidingWindowAllow(window, clock)
           d == result.decision
           j == IF d.Allowed THEN 1 ELSE 0
<1>1. clock \in 0 .. MaxClock /\ clock \in Nat /\ window \in Fitting
  BY WindowAssumption DEF IInv, Standing
<1>2. LimiterAllow(window, clock) = result
  BY <1>1 DEF LimiterAllow, Fitting, Windows
<1>3. /\ window' = result.limiter /\ clock' = clock /\ steady' = steady
      /\ response' = [at |-> clock, allowed |-> d.Allowed,
                      remaining |-> d.Remaining, retryAfter |-> d.RetryAfter]
      /\ through' = [t \in Ticks |-> IF d.Allowed /\ t > clock THEN through[t] + 1 ELSE through[t]]
  BY <1>2, Zenon DEF Request
<1>4. r \in Fitting /\ e \in Int /\ e <= r.window - 1
  BY <1>1, RollEffect
<1>5. /\ d.Allowed <=> Estimate(r, e) * Unit < r.limit * r.window
      /\ result.limiter \in Fitting /\ result.limiter.window = r.window
      /\ result.limiter.limit = r.limit
      /\ result.limiter.windowStart = r.windowStart
      /\ result.limiter.previousCount = r.previousCount
      /\ result.limiter.currentCount = r.currentCount + j
      /\ ~d.Allowed => d.RetryAfter = r.window - e
      /\ d.Remaining >= 1 =>
           (Estimate(r, e) + j * r.window) * Unit + Unit * r.window <= r.limit * r.window
  BY <1>1, AllowEffect
<1> HIDE DEF result
<1>6. /\ response'.at = clock /\ response'.allowed = d.Allowed
      /\ response'.remaining = d.Remaining /\ response'.retryAfter = d.RetryAfter
  BY <1>3
<1>7. response' # NoResponse
  BY <1>1, <1>6 DEF NoResponse, Never
<1>8. through' = Grown(through, j, clock)
  <2>1. \A t \in Ticks : through[t] \in Nat
    BY DEF IInv
  <2>2. \A t \in Ticks : (IF d.Allowed /\ t > clock THEN through[t] + 1 ELSE through[t])
                           = (IF t > clock THEN through[t] + j ELSE through[t])
    BY <2>1
  <2> QED
    BY <1>3, <2>2 DEF Grown
<1>9. ~response'.allowed => response'.at + response'.retryAfter = r.windowStart + r.window
  <2>1. r.windowStart \in Int /\ r.window \in Int
    BY <1>4, FittingType
  <2> QED
    BY <1>1, <1>5, <1>6, <2>1
<1>10. j \in {0, 1} /\ (j = 1 <=> d.Allowed)
  OBVIOUS
<1> HIDE DEF j, d
<1>11. AllowStep(r, clock, j, window') /\ window' \in Fitting
  BY <1>3, <1>5, <1>10 DEF AllowStep
<1>12. response'.allowed <=> Estimate(r, e) * Unit < r.limit * r.window
  BY <1>5, <1>6
<1>13. response'.remaining >= 1 =>
         (Estimate(r, e) + j * r.window) * Unit + Unit * r.window <= r.limit * r.window
  BY <1>5, <1>6
<1> HIDE DEF r, e
<1> QED
  BY <1>3, <1>4, <1>6, <1>7, <1>8, <1>9, <1>10, <1>11, <1>12, <1>13 DEF r, e

\* Room for a whole request more than a window's count.
LEMMA RoomLeft ==
  ASSUME NEW s \in Windows, NEW e \in Int, e <= s.window - 1,
         Estimate(s, e) * Unit + Unit * s.window <= s.limit * s.window
  PROVE  s.currentCount * Unit + Unit <= s.limit
<1> DEFINE cu == s.currentCount * Unit
           pu == (s.previousCount * Unit) * (s.window - e)
           room == cu + Unit
<1>1. PICK w \in Nat \ {0}, b \in Bursts : w = s.window /\ b = s.limit
  BY DEF Windows
<1>2. b \in Nat /\ Unit \in Nat /\ s.currentCount \in Nat /\ s.previousCount \in Nat
  BY LimitType, UnitAssumption DEF Windows
<1>3. cu \in Nat /\ pu \in Nat /\ cu * w \in Nat /\ Unit * w \in Nat /\ b * w \in Nat
  <2>1. w - e \in Nat
    BY <1>1
  <2>2. cu \in Nat /\ s.previousCount * Unit \in Nat
    BY <1>2, NatProduct
  <2> QED
    BY <1>1, <1>2, <2>1, <2>2, NatProduct
<1>4. Estimate(s, e) * Unit = pu + cu * w
  BY <1>1, EstimateParts
<1>5. room * w = cu * w + Unit * w
  BY <1>1, <1>2, <1>3, ProductOfSum
<1>6. room \in Int /\ b \in Int
  BY <1>2, <1>3
<1> HIDE DEF cu, pu
<1>7. room * w <= b * w
  BY <1>1, <1>3, <1>4, <1>5
<1> HIDE DEF room
<1>8. ~(b < room)
  <2>1. b < room <=> b * w < room * w
    BY <1>1, <1>6, ProductStrict
  <2>2. room * w \in Int /\ b * w \in Int
    BY <1>1, <1>6, IntProduct
  <2> QED
    BY <1>7, <2>1, <2>2
<1>9. room <= b
  BY <1>6, <1>8
<1> QED
  BY <1>1, <1>9 DEF room, cu

LEMMA RequestStanding == IInv /\ Request => IInv' /\ (HInv => HInv')
<1> SUFFICES ASSUME IInv, Request PROVE IInv' /\ (HInv => HInv')
  OBVIOUS
<1> DEFINE r == Roll(window, clock)
           e == clock - r.windowStart
<1>1. PICK j \in {0, 1} :
        /\ AllowStep(r, clock, j, window')
        /\ through' = Grown(through, j, clock)
        /\ response'.remaining >= 1 =>
             (Estimate(r, e) + j * r.window) * Unit + Unit * r.window <= r.limit * r.window
  BY RequestEffect
<1>2. /\ clock' = clock /\ steady' = steady /\ response'.at = clock /\ window' \in Fitting
      /\ r \in Fitting /\ e \in Int /\ e <= r.window - 1
      /\ ~response'.allowed => response'.at + response'.retryAfter = r.windowStart + r.window
  BY RequestEffect
<1>3. /\ clock \in 0 .. MaxClock /\ window \in Fitting /\ Within(window)
      /\ through \in [Ticks -> Nat]
  BY DEF IInv, Standing
<1>4. Within(r)
  BY <1>3, RollWithin
<1>5. Sound(through, window, clock) => Sound(through, r, clock)
  BY <1>3, RollSound
<1>6. PICK left, log, now, resp : left = window' /\ log = through' /\ now = clock /\ resp = response'
  OBVIOUS
<1> HIDE DEF r
<1>7. AllowStep(r, now, j, left) /\ left \in Fitting /\ now \in 0 .. MaxClock
      /\ now - r.windowStart <= r.window - 1
  BY <1>1, <1>2, <1>3, <1>6
<1>8. Within(left)
  BY <1>2, <1>4, <1>7, AllowWithin
<1>9. Sound(through, window, clock) => Sound(log, left, now)
  BY <1>1, <1>2, <1>5, <1>6, <1>7, AllowSound
<1>10. log \in [Ticks -> Nat]
  <2>1. \A t \in Ticks : (IF t > clock THEN through[t] + j ELSE through[t]) \in Nat
    BY <1>3
  <2> QED
    BY <1>1, <1>6, <2>1 DEF Grown
<1>11. ASSUME resp.remaining >= 1
       PROVE  /\ Estimate(left, e) * Unit + Unit * left.window <= left.limit * left.window
              /\ left.currentCount * Unit + Unit <= left.limit
  <2>1. Estimate(left, e) = Estimate(r, e) + j * r.window
    <3>1. PICK c \in Nat, w \in Nat, p \in Int :
            c = r.currentCount /\ w = r.window /\ p = r.previousCount * (r.window - e)
      <4>1. r.previousCount \in Int /\ r.window - e \in Int /\ r.window \in Nat
        BY <1>2, FittingType
      <4>2. r.previousCount * (r.window - e) \in Int
        BY <4>1, IntProduct
      <4> QED
        BY <1>2, <4>1, <4>2, FittingType
    <3>2. Estimate(r, e) = p + c * w /\ Estimate(left, e) = p + (c + j) * w
      BY <1>7, <3>1 DEF Estimate, AllowStep
    <3>3. (c + j) * w = c * w + j * w /\ c * w \in Int /\ j * w \in Int
      BY <3>1, ProductOfSum, IntProduct
    <3> QED
      BY <3>1, <3>2, <3>3
  <2>2. Estimate(left, e) * Unit + Unit * left.window <= left.limit * left.window
    BY <1>1, <1>6, <1>7, <1>11, <2>1 DEF AllowStep
  <2>3. left \in Windows /\ e \in Int /\ e <= left.window - 1
    BY <1>2, <1>7 DEF Fitting, AllowStep
  <2> QED
    BY <2>2, <2>3, RoomLeft
<1>12. Told(left, resp) /\ resp.at \in Int
  <2>1. e = resp.at - left.windowStart /\ resp.at \in Int
    BY <1>2, <1>3, <1>6, <1>7 DEF AllowStep
  <2>2. ~resp.allowed => resp.at + resp.retryAfter = left.windowStart + left.window
    BY <1>2, <1>6, <1>7 DEF AllowStep
  <2> HIDE DEF e
  <2> QED
    BY <1>11, <2>1, <2>2 DEF Told
<1> QED
  BY <1>2, <1>6, <1>7, <1>8, <1>9, <1>10, <1>12 DEF IInv, HInv, Standing

\* The window stands through every step, and under a clock that is not set back
\* so do its counts.
LEMMA Stands == Usable /\ Spec => [](IInv /\ HInv)
<1> SUFFICES ASSUME Usable PROVE Spec => [](IInv /\ HInv)
  OBVIOUS
<1>1. Init => IInv /\ HInv
  BY StandingInit
<1>2. IInv /\ HInv /\ [Next]_vars => IInv' /\ HInv'
  <2> SUFFICES ASSUME IInv, HInv, [Next]_vars PROVE IInv' /\ HInv'
    OBVIOUS
  <2>1. CASE Tick
    BY <2>1, TickStanding
  <2>2. CASE Request
    BY <2>2, RequestStanding
  <2>3. ASSUME NEW d \in -MaxBack .. MaxForward, Restart(d) PROVE IInv' /\ HInv'
    BY <2>3, RestartStanding
  <2>4. ASSUME NEW d \in -MaxBack .. MaxForward, SetClock(d) PROVE IInv' /\ HInv'
    BY <2>4, SetClockStanding
  <2>5. CASE UNCHANGED vars
    BY <2>5 DEF vars, IInv, HInv
  <2> QED
    BY <2>1, <2>2, <2>3, <2>4, <2>5 DEF Next
<1> QED
  BY <1>1, <1>2, PTL DEF Spec

-----------------------------------------------------------------------------
\* The two counters are the true counts of their windows (slidingwindow.go:39-41).
THEOREM CountsAreTrue == Usable /\ Spec => []CountersHonest
<1>1. IInv /\ HInv => CountersHonest
  <2> SUFFICES ASSUME IInv, HInv, steady PROVE CountersHonest
    BY DEF CountersHonest
  <2>1. Counted(through, window)
    BY DEF HInv, Sound
  <2>2. window.windowStart \in Int /\ window.windowStart + window.window \in Int
    BY FittingType DEF IInv, Standing
  <2>3. At(through, window.windowStart + window.window) = At(through, MaxClock + 1)
    BY <2>1, <2>2 DEF Counted
  <2> QED
    BY <2>1, <2>3 DEF CountersHonest, Counted, AdmittedIn, Through, At, W
<1> QED
  BY <1>1, Stands, PTL

\* The weight is a fraction of the window (slidingwindow.go:125).
THEOREM ElapsedFits == Usable /\ Spec => []ElapsedInRange
<1>1. IInv /\ HInv => ElapsedInRange
  <2> SUFFICES ASSUME IInv, HInv, steady PROVE ElapsedInRange
    BY DEF ElapsedInRange
  <2>1. clock \in 0 .. MaxClock /\ window \in Fitting /\ window.windowStart <= clock
    BY DEF IInv, HInv, Standing, Sound
  <2>2. PICK r \in Fitting, e \in Int :
          /\ r = Roll(window, clock) /\ e = clock - r.windowStart
          /\ r.windowStart <= clock /\ e <= window.window - 1
    BY <2>1, RollEffect
  <2>3. e \in 0 .. window.window - 1
    BY <2>1, <2>2, FittingType, WindowAssumption
  <2> QED
    BY <2>2, <2>3 DEF ElapsedInRange, elapsedInCurrent, Current, W
<1> QED
  BY <1>1, Stands, PTL

\* Over any window's length of time, up to now, fewer requests were let through
\* than the limit, one more and the faded part of the previous window
\* (slidingwindow.go:29-33).
THEOREM BurstsDoNotDouble == Usable /\ Spec => []DoubleBurstBlocked
<1>1. IInv /\ HInv => DoubleBurstBlocked
  <2> SUFFICES ASSUME IInv, HInv, steady PROVE DoubleBurstBlocked
    BY DEF DoubleBurstBlocked
  <2> DEFINE r == Roll(window, clock)
             e == clock - r.windowStart
  <2>1. /\ clock \in 0 .. MaxClock /\ clock \in Nat /\ MaxClock \in Nat
        /\ window \in Fitting /\ window.windowStart <= clock
        /\ Log(through, clock) /\ Sound(through, window, clock) /\ Within(window)
    BY WindowAssumption DEF IInv, HInv, Standing, Sound
  <2>2. r \in Fitting /\ r.window = window.window /\ r.limit = window.limit
        /\ e \in 0 .. r.window - 1
    <3>1. /\ r \in Fitting /\ r.window = window.window /\ r.limit = window.limit
          /\ e \in Int /\ e <= r.window - 1 /\ r.windowStart <= clock
      BY <2>1, RollEffect
    <3> HIDE DEF r
    <3>2. r.windowStart \in Nat /\ r.window \in Nat
      BY <3>1, FittingType
    <3> QED
      BY <2>1, <3>1, <3>2
  <2>3. Sound(through, r, clock) /\ Within(r)
    BY <2>1, RollSound, RollWithin
  <2>4. Current = r
    BY DEF Current
  <2> HIDE DEF r
  <2>5. PICK w \in Nat \ {0}, start \in Nat, c \in Nat, p \in Nat, b \in Bursts :
          /\ w = r.window /\ start = r.windowStart /\ c = r.currentCount
          /\ p = r.previousCount /\ b = r.limit
    BY <2>2, FittingType
  <2>6. b \in Nat /\ b > 0 /\ Unit \in Nat \ {0} /\ \A t \in Int : At(through, t) \in Nat
    BY <2>1, LimitType, UnitAssumption DEF Log
  <2>7. PICK total, first, before, since \in Nat :
          /\ total = At(through, clock + 1) /\ total = At(through, MaxClock + 1)
          /\ first = At(through, start) /\ before = At(through, start - w)
          /\ since = At(through, clock - w + 1)
    <3>1. clock + 1 \in Int /\ clock + 1 > clock /\ MaxClock + 1 \in Int /\ start - w \in Int
          /\ clock - w + 1 \in Int /\ start \in Int
      BY <2>1, <2>5
    <3>2. At(through, clock + 1) = At(through, MaxClock + 1)
      BY <2>1, <3>1 DEF Log
    <3> QED
      BY <2>6, <3>1, <3>2
  <2>8. before <= since
    <3>1. start - w \in Int /\ clock - w + 1 \in Int /\ start - w <= clock - w + 1
      BY <2>1, <2>2, <2>5
    <3> QED
      BY <2>1, <2>7, <3>1 DEF Log
  <2>9. c = total - first /\ p = first - before
    BY <2>3, <2>5, <2>7 DEF Sound, Counted
  <2> DEFINE recent == total - since
             ru == recent * Unit
             pu == p * Unit
             cu == c * Unit
             uw == Unit * w
             bw == b * w
  <2>10. recent \in Int /\ recent <= p + c
    BY <2>7, <2>8, <2>9
  <2>11. /\ ru \in Int /\ pu \in Nat /\ cu \in Nat /\ uw \in Nat /\ bw \in Nat /\ uw > 0
         /\ ru <= pu + cu
    <3>1. ru \in Int /\ pu \in Nat /\ cu \in Nat /\ uw \in Nat /\ bw \in Nat
      BY <2>5, <2>6, <2>10, NatProduct, IntProduct
    <3>2. (p + c) * Unit = pu + cu
      BY <2>5, <2>6, ProductOfSum
    <3>3. recent * Unit <= (p + c) * Unit
      BY <2>5, <2>6, <2>10, ProductMonotone
    <3>4. 0 * w < Unit * w /\ 0 * w = 0
      BY <2>5, <2>6, ProductStrict
    <3> QED
      BY <3>1, <3>2, <3>3, <3>4
  <2>12. e \in 0 .. w - 1 /\ e \in Nat /\ w - e \in Nat
    BY <2>2, <2>5
  <2> HIDE DEF ru, pu, cu, recent
  <2>13. /\ pu * e \in Nat /\ pu * (w - e) \in Nat /\ cu * w \in Nat /\ pu * w \in Nat
         /\ ru * w \in Int /\ pu * w = pu * e + pu * (w - e)
         /\ ru * w <= pu * w + cu * w
    <3>1. pu * e \in Nat /\ pu * (w - e) \in Nat /\ cu * w \in Nat /\ pu * w \in Nat /\ ru * w \in Int
      BY <2>5, <2>11, <2>12, NatProduct, IntProduct
    <3>2. pu * w = pu * e + pu * (w - e)
      <4>1. \A x, y, z \in Int : x * (y + z) = x * y + x * z
        OBVIOUS
      <4>2. e + (w - e) = w
        BY <2>5, <2>12
      <4> HIDE DEF e
      <4> QED
        BY <2>5, <2>11, <2>12, <4>1, <4>2
    <3>3. ru * w <= (pu + cu) * w /\ (pu + cu) * w = pu * w + cu * w
      BY <2>5, <2>11, ProductMonotone, ProductOfSum
    <3> QED
      BY <3>1, <3>2, <3>3
  <2>14. ru * w < bw + uw + pu * e
    <3>1. CASE c = 0
      <4>1. cu = 0
        BY <2>6, <3>1 DEF cu
      <4>2. pu < b + Unit
        BY <2>3, <2>5 DEF Within, pu
      <4>3. pu * w < (b + Unit) * w /\ (b + Unit) * w = bw + uw
        BY <2>5, <2>6, <2>11, <4>2, ProductStrict, ProductOfSum
      <4>4. cu * w = 0
        BY <2>5, <4>1
      <4> HIDE DEF bw, uw
      <4> QED
        BY <2>11, <2>13, <4>3, <4>4
    <3>2. CASE c > 0
      <4>1. Estimate(r, e) * Unit < bw + uw
        BY <2>3, <2>5, <3>2 DEF Sound, Fading
      <4>2. Estimate(r, e) * Unit = pu * (w - e) + cu * w
        <5>1. r \in Windows
          BY <2>2 DEF Fitting
        <5> QED
          BY <2>5, <2>12, <5>1, EstimateParts DEF pu, cu
      <4> HIDE DEF bw, uw
      <4> QED
        BY <2>11, <2>13, <4>1, <4>2
    <3> QED
      BY <2>5, <3>1, <3>2
  <2>15. (b + Unit) * w = bw + uw
    BY <2>5, <2>6, ProductOfSum
  <2>16. /\ AdmittedIn(clock - w + 1, clock + 1) = recent
         /\ AdmittedIn(start - w, start) = p
    BY <2>7, <2>9 DEF AdmittedIn, Through, At, recent
  <2>17. W = w /\ Burst = b /\ Current.windowStart = start /\ elapsedInCurrent(Current, clock) = e
    BY <2>2, <2>4, <2>5 DEF W, Burst, elapsedInCurrent
  <2>18. recent * Unit * w < (b + Unit) * w + p * Unit * e
    <3> HIDE DEF e, bw, uw
    <3> QED
      BY <2>14, <2>15 DEF ru, pu
  <2> HIDE DEF e
  <2> QED
    BY <2>16, <2>17, <2>18 DEF DoubleBurstBlocked
<1> QED
  BY <1>1, Stands, PTL

\* From the start, never more than the limit, rounded up, per window
\* (manager.go:58-62).
THEOREM RateIsSustained == Usable /\ Spec => []SustainedRate
<1>1. IInv /\ HInv => SustainedRate
  <2> SUFFICES ASSUME IInv, HInv, steady PROVE SustainedRate
    BY DEF SustainedRate
  <2>1. /\ clock \in Nat /\ MaxClock \in Nat /\ window \in Fitting /\ window.windowStart <= clock
        /\ Log(through, clock) /\ Sound(through, window, clock) /\ Within(window)
    BY WindowAssumption DEF IInv, HInv, Standing, Sound
  <2>2. PICK w \in Nat \ {0}, start \in Nat, n \in Nat, b \in Bursts :
          w = window.window /\ start = window.windowStart /\ n = window.currentCount /\ b = window.limit
    BY <2>1, FittingType
  <2>3. PICK ceiling \in Nat :
          /\ ceiling = CeilingOf(b)
          /\ \A m \in Nat : m * Unit < b + Unit => m <= ceiling
    BY CeilingFits
  <2>4. n <= ceiling
    BY <2>1, <2>2, <2>3 DEF Within
  <2>5. PICK k \in Nat : k * w <= start /\ At(through, start) <= k * ceiling
    BY <2>1, <2>2, <2>3 DEF Sound, Sustained
  <2>6. PICK total, first \in Nat :
          /\ total = At(through, clock + 1) /\ total = At(through, MaxClock + 1)
          /\ first = At(through, start) /\ At(through, 0) = 0
    <3>1. clock + 1 \in Int /\ clock + 1 > clock /\ MaxClock + 1 \in Int /\ start \in Int
      BY <2>1, <2>2
    <3> QED
      BY <2>1, <3>1 DEF Log
  <2>7. n = total - first
    BY <2>1, <2>2, <2>6 DEF Sound, Counted
  <2>8. PICK q \in Int : q = clock \div w /\ clock < (q + 1) * w
    <3>1. PICK now \in Int : now = clock
      BY <2>1
    <3>2. now \div w \in Int /\ now < (now \div w + 1) * w
      BY <2>2, <3>1, Quotient
    <3> QED
      BY <3>1, <3>2
  <2>9. k + 1 <= q + 1
    <3>1. k * w < (q + 1) * w
      <4>1. k * w \in Int /\ (q + 1) * w \in Int
        BY <2>2, <2>8, IntProduct
      <4> QED
        BY <2>1, <2>2, <2>5, <2>8, <4>1
    <3>2. k < q + 1
      BY <2>2, <2>8, <3>1, ProductStrict
    <3> QED
      BY <2>8, <3>2
  <2>10. total <= (k + 1) * ceiling
    <3>1. (k + 1) * ceiling = k * ceiling + 1 * ceiling /\ 1 * ceiling = ceiling
      BY <2>3, ProductOfSum
    <3>2. k * ceiling \in Nat
      BY <2>3, NatProduct
    <3>3. first <= k * ceiling
      BY <2>5, <2>6
    <3> QED
      BY <2>3, <2>4, <2>6, <2>7, <3>1, <3>2, <3>3
  <2>11. (k + 1) * ceiling <= (q + 1) * ceiling /\ (q + 1) * ceiling = ceiling * (q + 1)
    BY <2>3, <2>8, <2>9, ProductMonotone, IntProduct
  <2>12. (k + 1) * ceiling \in Int /\ ceiling * (q + 1) \in Int
    BY <2>3, <2>8, IntProduct
  <2>13. total <= ceiling * (q + 1)
    BY <2>10, <2>11, <2>12
  <2>14. AdmittedIn(0, clock + 1) = total
    BY <2>6 DEF AdmittedIn, Through, At
  <2>15. Ceiling = ceiling /\ W = w
    BY <2>2, <2>3 DEF Ceiling, CeilingOf, Burst, W
  <2> QED
    BY <2>8, <2>13, <2>14, <2>15 DEF SustainedRate
<1> QED
  BY <1>1, Stands, PTL

-----------------------------------------------------------------------------
\* The estimate once a window has ended, with its count now fading.
LEMMA FadedIsAllowed ==
  ASSUME NEW r \in Fitting, NEW e \in Nat, e <= r.window - 1, r.currentCount = 0,
         (r.previousCount * Unit) * (r.window - e) < r.limit * r.window
  PROVE  Estimate(r, e) * Unit < r.limit * r.window
<1>1. r \in Windows /\ r.window \in Nat /\ Unit \in Nat /\ e \in Int
  BY FittingType, UnitAssumption DEF Fitting
<1>2. Estimate(r, e) * Unit
        = (r.previousCount * Unit) * (r.window - e) + (r.currentCount * Unit) * r.window
  BY <1>1, EstimateParts
<1>3. (r.currentCount * Unit) * r.window = 0
  BY <1>1
<1>4. (r.previousCount * Unit) * (r.window - e) \in Int
  <2>1. r.previousCount * Unit \in Int /\ r.window - e \in Int
    BY <1>1, FittingType, IntProduct
  <2> QED
    BY <2>1, IntProduct
<1> QED
  BY <1>2, <1>3, <1>4

\* A count below the limit stays below it as it fades.
LEMMA CountFades ==
  ASSUME NEW p \in Nat, NEW b \in Nat, NEW w \in Nat, NEW e \in Nat, e <= w - 1, p < b
  PROVE  p * (w - e) < b * w
<1>1. PICK rest \in Nat \ {0} : rest = w - e /\ rest <= w
  OBVIOUS
<1>2. p * rest < b * rest
  BY <1>1, ProductStrict
<1>3. rest * b <= w * b /\ rest * b = b * rest /\ w * b = b * w
  BY <1>1, ProductMonotone, IntProduct
<1>4. p * rest \in Int /\ b * rest \in Int /\ b * w \in Int
  BY <1>1, IntProduct
<1> QED
  BY <1>1, <1>2, <1>3, <1>4

\* A window that is not the same after rolling began no later than now.
LEMMA RolledOn ==
  ASSUME NEW s \in Fitting, NEW now \in 0 .. MaxClock
  PROVE  LET r == Roll(s, now)
             e == now - r.windowStart
         IN  /\ r \in Fitting /\ r.window = s.window /\ r.limit = s.limit
             /\ e \in Int /\ e <= r.window - 1
             /\ now - s.windowStart >= s.window => e \in Nat
             /\ \/ r = s
                \/ e \in Nat /\ r.currentCount = 0 /\ r.previousCount \in {0, s.currentCount}
<1> DEFINE r == Roll(s, now)
           e == now - r.windowStart
<1>1. PICK w \in Nat \ {0}, start \in Nat, n \in Nat :
         w = s.window /\ start = s.windowStart /\ n = s.currentCount
  BY FittingType
<1>2. now \in Nat
  BY WindowAssumption
<1>3. r \in Fitting /\ r.window = w /\ r.limit = s.limit /\ e \in Int /\ e <= r.window - 1
      /\ (start <= now => r.windowStart <= now)
  BY <1>1, RollEffect
<1>4. \/ now - start < w /\ r = s
      \/ now - start >= w /\ r.currentCount = 0 /\ r.previousCount \in {0, n}
  BY <1>1, <1>2, RollEffect
<1> HIDE DEF r
<1>5. now - start >= w => e \in Nat
  <2>1. r.windowStart \in Nat
    BY <1>3, FittingType
  <2> QED
    BY <1>1, <1>2, <1>3, <2>1
<1> QED
  BY <1>1, <1>3, <1>4, <1>5 DEF r

\* A client told of whole requests left has its next one allowed: time only
\* lowers the estimate, and a full count fades (slidingwindow.go:131-139).
THEOREM RemainingComesTrue == Usable /\ Spec => RemainingHonoured
<1>1. ASSUME IInv, Request, response.remaining >= 1, clock >= response.at
      PROVE  response'.allowed
  <2> DEFINE r == Roll(window, clock)
             e == clock - r.windowStart
  <2>1. /\ clock \in 0 .. MaxClock /\ clock \in Nat /\ window \in Fitting
        /\ window \in Windows /\ Told(window, response) /\ response.at \in Int
    BY <1>1, WindowAssumption DEF IInv, Standing, Fitting
  <2>2. /\ r \in Fitting /\ r.window = window.window /\ r.limit = window.limit
        /\ e \in Int /\ e <= r.window - 1
        /\ \/ r = window
           \/ /\ e \in Nat /\ r.currentCount = 0
              /\ r.previousCount \in {0, window.currentCount}
    BY <2>1, RolledOn
  <2>3. response'.allowed <=> Estimate(r, e) * Unit < r.limit * r.window
    BY <1>1, RequestEffect
  <2>4. /\ Estimate(window, clock - window.windowStart) * Unit + Unit * window.window
             <= window.limit * window.window
        /\ window.currentCount * Unit + Unit <= window.limit
    <3>1. PICK early, later \in Int :
            /\ early = response.at - window.windowStart
            /\ later = clock - window.windowStart /\ early <= later
      BY <1>1, <2>1, FittingType
    <3>2. /\ Estimate(window, early) * Unit + Unit * window.window
               <= window.limit * window.window
          /\ window.currentCount * Unit + Unit <= window.limit
      BY <1>1, <2>1, <3>1 DEF Told
    <3>3. /\ Estimate(window, early) * Unit \in Int /\ Estimate(window, later) * Unit \in Int
          /\ Estimate(window, later) * Unit <= Estimate(window, early) * Unit
      BY <2>1, <3>1, EstimateFades
    <3>4. window.limit * window.window \in Int /\ Unit * window.window \in Int
      BY <2>1, LimitType, UnitAssumption, IntProduct DEF Windows
    <3>5. Estimate(window, later) * Unit + Unit * window.window <= window.limit * window.window
      BY <3>2, <3>3, <3>4
    <3> QED
      BY <3>1, <3>2, <3>5
  <2>5. /\ window.limit \in Nat /\ window.limit > 0 /\ Unit \in Nat \ {0}
        /\ window.currentCount * Unit \in Nat
    BY <2>1, LimitType, UnitAssumption, NatProduct DEF Fitting, Windows
  <2> HIDE DEF r
  <2>6. CASE r = window
    <3>1. window \in Windows /\ e \in Int /\ e = clock - window.windowStart
      BY <2>1, <2>2, <2>6 DEF Fitting, Windows
    <3> HIDE DEF e
    <3>2. Estimate(window, e) * Unit \in Int /\ window.limit * window.window \in Int
          /\ Unit * window.window \in Int /\ Unit * window.window > 0
      <4>1. PICK w \in Nat \ {0} : w = window.window
        BY <3>1 DEF Windows
      <4>2. 0 * w < Unit * w /\ 0 * w = 0
        BY <2>5, <4>1, ProductStrict
      <4>3. window.limit * window.window \in Int /\ Unit * window.window \in Int
        BY <2>5, <4>1, IntProduct
      <4>4. Estimate(window, e) * Unit \in Int
        <5>1. Estimate(window, e) \in Int
          BY <3>1, EstimateParts
        <5> QED
          BY <2>5, <5>1, IntProduct
      <4> QED
        BY <4>1, <4>2, <4>3, <4>4
    <3>3. Estimate(window, e) * Unit < window.limit * window.window
      BY <2>4, <3>1, <3>2
    <3> QED
      BY <2>3, <2>6, <3>3
  <2>7. CASE e \in Nat /\ r.currentCount = 0 /\ r.previousCount \in {0, window.currentCount}
    <3>1. r.previousCount * Unit < r.limit
      <4>1. 0 * Unit = 0
        BY <2>5
      <4> QED
        BY <2>2, <2>4, <2>5, <2>7, <4>1
    <3>2. (r.previousCount * Unit) * (r.window - e) < r.limit * r.window
      <4>1. r.previousCount * Unit \in Nat /\ r.limit \in Nat /\ r.window \in Nat
        BY <2>2, <2>5, FittingType, NatProduct
      <4> HIDE DEF e
      <4> QED
        BY <2>2, <2>7, <3>1, <4>1, CountFades
    <3> HIDE DEF e
    <3> QED
      BY <2>2, <2>3, <2>7, <3>2, FadedIsAllowed
  <2> QED
    BY <2>2, <2>6, <2>7
<1>2. IInv /\ [Next]_vars =>
        [(Request /\ response # NoResponse /\ response.remaining >= 1 /\ clock >= response.at)
           => response'.allowed]_vars
  BY <1>1
<1> QED
  BY <1>2, Stands, PTL DEF Spec, RemainingHonoured

\* Past RetryAfter a client is let in once enough has faded of the most a window
\* may count (slidingwindow.go:143-147).
THEOREM RetryAfterFades == Usable /\ Spec => RetryAfterLate
<1> DEFINE late == clock - (response.at + response.retryAfter)
<1>1. ASSUME IInv, Request, response # NoResponse, ~response.allowed,
             late >= 0, Ceiling * Unit * (W - late) < Burst * W
      PROVE  response'.allowed
  <2> DEFINE r == Roll(window, clock)
             e == clock - r.windowStart
  <2>1. /\ clock \in 0 .. MaxClock /\ clock \in Nat /\ window \in Fitting /\ window \in Windows
        /\ Told(window, response) /\ Within(window)
    BY <1>1, WindowAssumption DEF IInv, Standing, Fitting
  <2>2. PICK w \in Nat \ {0}, start \in Nat, n \in Nat, b \in Bursts :
          /\ w = window.window /\ start = window.windowStart
          /\ n = window.currentCount /\ b = window.limit
    BY <2>1, FittingType
  <2>3. late = clock - (start + w)
    BY <1>1, <2>1, <2>2 DEF Told
  <2>4. clock - start >= w
    BY <1>1, <2>1, <2>2, <2>3
  <2>5. /\ r \in Fitting /\ r.window = window.window /\ r.limit = window.limit
        /\ e \in Nat /\ e <= r.window - 1
        /\ \/ /\ r.windowStart = start + w
              /\ r.currentCount = 0 /\ r.previousCount = window.currentCount
           \/ r.currentCount = 0 /\ r.previousCount = 0
    <3>1. ~(clock - window.windowStart < window.window)
      BY <2>1, <2>2, <2>4
    <3> QED
      BY <2>1, <2>2, <3>1, RollEffect, RolledOn
  <2>6. response'.allowed <=> Estimate(r, e) * Unit < r.limit * r.window
    BY <1>1, RequestEffect
  <2>7. PICK ceiling \in Nat : ceiling = Ceiling /\ n <= ceiling
    <3>1. PICK ceiling \in Nat :
            /\ ceiling = CeilingOf(b)
            /\ \A m \in Nat : m * Unit < b + Unit => m <= ceiling
      BY CeilingFits
    <3> QED
      BY <2>1, <2>2, <3>1 DEF Within, Ceiling, CeilingOf, Burst
  <2>8. Unit \in Nat \ {0} /\ b \in Nat /\ b > 0
    BY LimitType, UnitAssumption
  <2> HIDE DEF r
  <2>9. CASE r.windowStart = start + w /\ r.currentCount = 0 /\ r.previousCount = window.currentCount
    <3>1. PICK rest \in Nat : rest = w - e /\ rest = W - late
      BY <2>1, <2>2, <2>3, <2>5, <2>9 DEF W
    <3>2. (n * Unit) * rest <= (ceiling * Unit) * rest
      <4>1. n * Unit <= ceiling * Unit /\ n * Unit \in Int /\ ceiling * Unit \in Int
        BY <2>2, <2>7, <2>8, ProductMonotone, IntProduct
      <4> QED
        BY <3>1, <4>1, ProductMonotone
    <3>3. (ceiling * Unit) * rest < b * w
      BY <1>1, <2>2, <2>7, <3>1 DEF Burst, W
    <3>4. (n * Unit) * rest \in Int /\ (ceiling * Unit) * rest \in Int /\ b * w \in Int
      <4>1. n * Unit \in Int /\ ceiling * Unit \in Int
        BY <2>7, <2>8, IntProduct
      <4> QED
        BY <2>2, <2>8, <3>1, <4>1, IntProduct
    <3>5. (n * Unit) * rest < b * w
      BY <3>2, <3>3, <3>4
    <3>6. (r.previousCount * Unit) * (r.window - e) < r.limit * r.window
      BY <2>2, <2>5, <2>9, <3>1, <3>5
    <3> HIDE DEF e
    <3> QED
      BY <2>5, <2>6, <2>9, <3>6, FadedIsAllowed
  <2>10. CASE r.currentCount = 0 /\ r.previousCount = 0
    <3>1. (r.previousCount * Unit) * (r.window - e) < r.limit * r.window
      <4>1. 0 * Unit = 0 /\ 0 < b
        BY <2>8
      <4> HIDE DEF e
      <4> QED
        BY <2>2, <2>5, <2>8, <2>10, <4>1, CountFades
    <3> HIDE DEF e
    <3> QED
      BY <2>5, <2>6, <2>10, <3>1, FadedIsAllowed
  <2> QED
    BY <2>5, <2>9, <2>10
<1>2. IInv /\ [Next]_vars =>
        [(Request /\ response # NoResponse /\ ~response.allowed
            /\ late >= 0 /\ Ceiling * Unit * (W - late) < Burst * W) => response'.allowed]_vars
  BY <1>1
<1> QED
  BY <1>2, Stands, PTL DEF Spec, RetryAfterLate
=============================================================================
