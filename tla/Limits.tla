------------------------------- MODULE Limits -------------------------------
(***************************************************************************)
(* Data shared by both rate-limiting algorithms: Config and Decision       *)
(* (internal/limiter/config.go, decision.go).                              *)
(*                                                                         *)
(* Abstraction.  Time is a whole number of ticks (a tick stands for the    *)
(* nanosecond of time.Duration).  The float64 quantities of the code       *)
(* (tokens, Burst, limit) are whole numbers of units, Unit of them making  *)
(* one token, and RPS is in units per tick; a fractional token count is a  *)
(* count that Unit does not divide.  Arithmetic on units is exact.         *)
(***************************************************************************)
EXTENDS Integers

CONSTANTS
  Unit,         \* units in one token (one request)
  MaxDuration,  \* largest time.Duration, 2^63-1 in the code
  OverflowTo    \* what a float64 beyond MaxDuration converts to on this CPU

ASSUME UnitAssumption == Unit \in Nat \ {0}

\* Go leaves an out-of-range float-to-integer conversion to the platform:
\* amd64 yields the smallest int64, arm64 saturates at the largest.
ASSUME DurationAssumption ==
  /\ MaxDuration \in Nat \ {0}
  /\ OverflowTo \in {MaxDuration, -MaxDuration - 1}

MinDuration == -MaxDuration - 1

Duration == MinDuration .. MaxDuration

neverRefills == MaxDuration

\* time.Duration(x) of a float64 x >= 0 measured in ticks.
ToDuration(x) == IF x > MaxDuration THEN OverflowTo ELSE x

\* Integer arithmetic on time.Duration, which wraps around.
Wrap(x) == ((x - MinDuration) % (2 * (MaxDuration + 1))) + MinDuration

AlgorithmTokenBucket == "token_bucket"
AlgorithmSlidingWindow == "sliding_window"
Algorithms == {AlgorithmTokenBucket, AlgorithmSlidingWindow}

\* A Config is [RPS, Burst, Algorithm]; Validate accepts the usable ones.
Validate(cfg) ==
  /\ cfg.RPS > 0
  /\ cfg.Burst >= Unit
  /\ cfg.Algorithm \in Algorithms

MinOf(a, b) == IF a <= b THEN a ELSE b
MaxOf(a, b) == IF a >= b THEN a ELSE b
=============================================================================
