--------------------------- MODULE SlidingWindow ---------------------------
(***************************************************************************)
(* The sliding-window counter (internal/limiter/slidingwindow.go) as       *)
(* operators on a window value; SlidingWindow.mu makes every method one    *)
(* atomic step.  Counts are whole requests, limit is in units, window and  *)
(* the clock in ticks.  The float64 estimate previousCount*weight +        *)
(* currentCount is kept as a fraction over |window|.                       *)
(*                                                                         *)
(* A window of zero length (RPS so large that Burst/RPS truncates to 0)    *)
(* makes the weight 0/0: the estimate is NaN, which is below no limit.     *)
(***************************************************************************)
EXTENDS Limits

NaN == -1  \* what Remaining is for a zero window; no real count is negative

NewSlidingWindow(limit, window, now) ==
  [type |-> AlgorithmSlidingWindow, limit |-> limit, window |-> window,
   windowStart |-> now, currentCount |-> 0, previousCount |-> 0]

\* SlidingWindowState: what persistence keeps of a window.
SlidingWindowState(s) ==
  [Limit |-> s.limit, Window |-> s.window, WindowStart |-> s.windowStart,
   CurrentCount |-> s.currentCount, PreviousCount |-> s.previousCount]

\* Mutant: a restored window counts from zero.
RestoredFresh(st) ==
  [type |-> AlgorithmSlidingWindow, limit |-> st.Limit, window |-> st.Window,
   windowStart |-> st.WindowStart, currentCount |-> 0, previousCount |-> 0]

NewSlidingWindowFromState(st) ==
  [type |-> AlgorithmSlidingWindow, limit |-> st.Limit, window |-> st.Window,
   windowStart |-> st.WindowStart, currentCount |-> st.CurrentCount,
   previousCount |-> st.PreviousCount]

\* Mutants of Roll: an idle gap is shifted over once like a single boundary; a
\* shift re-anchors at now.
RollOnce(s, now) ==
  IF now - s.windowStart >= s.window
    THEN [s EXCEPT !.previousCount = s.currentCount, !.currentCount = 0,
                   !.windowStart = @ + s.window]
  ELSE s
RollDrifts(s, now) ==
  IF now - s.windowStart >= 2 * s.window
    THEN [s EXCEPT !.currentCount = 0, !.previousCount = 0, !.windowStart = now]
  ELSE IF now - s.windowStart >= s.window
    THEN [s EXCEPT !.previousCount = s.currentCount, !.currentCount = 0, !.windowStart = now]
  ELSE s

\* The switch at the head of Allow: after two windows start afresh at now,
\* after one shift to the next window of the grid.  2*window is an int64.
Roll(s, now) ==
  LET elapsed == now - s.windowStart
  IN  IF elapsed >= Wrap(2 * s.window)
        THEN [s EXCEPT !.currentCount = 0, !.previousCount = 0,
                       !.windowStart = now]
      ELSE IF elapsed >= s.window
        THEN [s EXCEPT !.previousCount = s.currentCount, !.currentCount = 0,
                       !.windowStart = @ + s.window]
      ELSE s

elapsedInCurrent(s, now) == now - s.windowStart

\* estimated = Estimated(s, now) / Length(s), for a window that is not zero.
Length(s) == IF s.window > 0 THEN s.window ELSE -s.window
Estimated(s, now) ==
  LET num == s.previousCount * Wrap(s.window - elapsedInCurrent(s, now))
             + s.currentCount * s.window
  IN  IF s.window > 0 THEN num ELSE -num

\* Mutants: a fixed window, blind to the previous one; one request too many.
FixedWindow(s, now) == s.currentCount * Unit < s.limit
AtLimit(s, now) ==
  s.window # 0 /\ Estimated(s, now) * Unit <= s.limit * Length(s)

BelowLimit(s, now) ==
  s.window # 0 /\ Estimated(s, now) * Unit < s.limit * Length(s)

\* Mutant: what remained before this request was counted.
RemainingBefore(s, now, consumed) ==
  IF s.window = 0 THEN NaN
  ELSE MaxOf(0, (s.limit * Length(s) - Estimated(s, now) * Unit)
                \div (Unit * Length(s)))

\* max(0, floor(limit - (estimated + consumed))), in whole requests.
WindowRemaining(s, now, consumed) ==
  IF s.window = 0 THEN NaN
  ELSE MaxOf(0, (s.limit * Length(s)
                 - (Estimated(s, now) + consumed * Length(s)) * Unit)
                \div (Unit * Length(s)))

\* Allow at time now: the window it leaves behind and the Decision it returns.
SlidingWindowAllow(s, now) ==
  LET rolled   == Roll(s, now)
      allowed  == BelowLimit(rolled, now)
      consumed == IF allowed THEN 1 ELSE 0
      reset    == Wrap(rolled.window - elapsedInCurrent(rolled, now))
  IN  [limiter  |-> [rolled EXCEPT !.currentCount = @ + consumed],
       decision |-> [Allowed    |-> allowed,
                     Limit      |-> rolled.limit,
                     Remaining  |-> WindowRemaining(rolled, now, consumed),
                     RetryAfter |-> IF allowed THEN 0 ELSE reset,
                     ResetAfter |-> reset]]
=============================================================================
