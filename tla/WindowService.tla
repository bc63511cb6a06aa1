--------------------------- MODULE WindowService ---------------------------
(***************************************************************************)
(* One client's sliding window in service: time passes, requests arrive,   *)
(* and the process may be restarted with the window carried over by a      *)
(* snapshot, the wall clock having moved on or having been set back.  A    *)
(* restored windowStart has no monotonic reading, and adding to it gives   *)
(* it none: now.Sub(windowStart) follows the wall clock, whatever is done  *)
(* to it, until an idle gap puts a reading of the process's own there.     *)
(*                                                                         *)
(* through is the log the counter approximates: how many requests had      *)
(* really been let through before each tick.                               *)
(***************************************************************************)
EXTENDS Limiter

CONSTANTS
  Bursts, RPS,  \* the Config of the client: its Burst is one of Bursts
  MaxClock,     \* bound: the clock stops here
  MaxAdmitted,  \* bound: requests let through in one tick
  MaxForward,   \* bound: the longest downtime, or how far the wall clock is set on
  MaxBack       \* bound: how far the wall clock is set back

ASSUME WindowAssumption ==
  /\ Bursts \subseteq Int /\ RPS \in Int
  /\ \A burst \in Bursts :
       Validate([RPS |-> RPS, Burst |-> burst, Algorithm |-> AlgorithmSlidingWindow])
  /\ {MaxClock, MaxAdmitted, MaxForward, MaxBack} \subseteq Nat

VARIABLES
  clock,     \* time.Now
  window,    \* the SlidingWindow
  restored,  \* windowStart is without a monotonic reading
  response,  \* the last Decision and when it was given
  through,   \* observer: through[t] requests have been let through before tick t
  steady     \* observer: the clock has never been seen to go back

vars == <<clock, window, restored, response, through, steady>>

Config(burst) ==
  [RPS |-> RPS, Burst |-> burst, Algorithm |-> AlgorithmSlidingWindow]

\* The limit and the length of this client's window.
Burst == window.limit
W == window.window

Never == -1

Ticks == 0 .. MaxClock + 1

NoResponse == [at |-> Never, allowed |-> FALSE, remaining |-> 0, retryAfter |-> 0]

Init ==
  /\ clock = 0
  /\ \E burst \in Bursts : window = newLimiter(Config(burst), 0)
  /\ restored = FALSE
  /\ response = NoResponse
  /\ through = [t \in Ticks |-> 0]
  /\ steady = TRUE

Tick ==
  /\ clock < MaxClock
  /\ clock' = clock + 1
  /\ UNCHANGED <<window, restored, response, through, steady>>

Request ==
  LET result == LimiterAllow(window, clock)
      d      == result.decision
  IN  /\ through[clock + 1] - through[clock] < MaxAdmitted
      /\ window' = result.limiter
      /\ restored' = (restored /\ clock - window.windowStart < Wrap(2 * W))
      /\ response' = [at |-> clock, allowed |-> d.Allowed,
                      remaining |-> d.Remaining, retryAfter |-> d.RetryAfter]
      /\ through' = [t \in Ticks |-> IF d.Allowed /\ t > clock THEN through[t] + 1 ELSE through[t]]
      /\ UNCHANGED <<clock, steady>>

\* The wall clock as it will be seen next.
Moved(d) ==
  /\ clock + d \in 0 .. MaxClock
  /\ clock' = clock + d
  /\ steady' = (steady /\ d >= 0)

\* The process stops cleanly and starts again when the clock has moved by d.
Restart(d) ==
  /\ Moved(d)
  /\ window' = LimiterFromState(LimiterState(window))
  /\ restored' = TRUE
  /\ UNCHANGED <<response, through>>

\* The wall clock is set while the process runs: seen as long as windowStart is
\* a wall-clock time itself.
SetClock(d) ==
  /\ restored
  /\ Moved(d)
  /\ UNCHANGED <<window, restored, response, through>>

Next ==
  \/ Tick
  \/ Request
  \/ \E d \in -MaxBack .. MaxForward : Restart(d) \/ SetClock(d)

Spec == Init /\ [][Next]_vars
-----------------------------------------------------------------------------
\* Requests really let through before tick t, and from tick a (included) to
\* tick b (excluded), a <= b.
Through(t) == through[MinOf(MaxOf(t, 0), MaxClock + 1)]
AdmittedIn(a, b) == Through(b) - Through(a)

Current == Roll(window, clock)

\* Requests a whole number of which fits the limit, rounded up: a request is
\* let through while the estimate is below the limit.
Ceiling == -((-Burst) \div Unit)

\* The two counters are the true counts of the window of the grid they stand
\* for (slidingwindow.go:39-41): no request is lost or counted twice when the
\* window shifts, is reset after an idle gap, or is restored.  As the next three,
\* as long as no clock was set back: windowStart then lies in the future.
CountersHonest ==
  steady =>
    /\ window.currentCount = AdmittedIn(window.windowStart, window.windowStart + W)
    /\ window.currentCount = AdmittedIn(window.windowStart, MaxClock + 1)
    /\ window.previousCount = AdmittedIn(window.windowStart - W, window.windowStart)

\* slidingwindow.go:125: elapsedInCurrent is always in [0, window).
ElapsedInRange == steady => elapsedInCurrent(Current, clock) \in 0 .. W - 1

\* The double burst is blocked (slidingwindow.go:29-33): over the last window's
\* length of time, fewer requests were let through than the limit, the one that
\* may overshoot it and the faded part of the previous window's true count.
DoubleBurstBlocked ==
  LET before == AdmittedIn(Current.windowStart - W, Current.windowStart)
      recent == AdmittedIn(clock - W + 1, clock + 1)
  IN  steady =>
        recent * Unit * W
          < (Burst + Unit) * W + before * Unit * elapsedInCurrent(Current, clock)

\* Burst requests every window work out to the configured rate
\* (manager.go:58-62): from the start, never more than Ceiling per window.
SustainedRate == steady => AdmittedIn(0, clock + 1) <= Ceiling * (clock \div W + 1)

\* A client told it has whole requests left has its next one allowed, however
\* much later it comes by the server's clock, and whatever was done to that clock
\* meanwhile: time only ever lowers the estimate, across a window boundary, an
\* idle gap and a restart too.
RemainingHonoured ==
  [][(Request /\ response # NoResponse /\ response.remaining >= 1 /\ clock >= response.at)
       => response'.allowed]_vars

\* RetryAfter is called "always safe" and "never optimistic"
\* (slidingwindow.go:143-147), as if the count of the window that ends were to
\* have faded by its end, when it only begins to.  What is true of any limit: a
\* client is let in once, of the most a window may count, so much has faded as
\* exceeds the limit.  That is a tick late where the limit is a whole number of
\* requests, and close to half a window late where it is little more than one.
RetryAfterLate ==
  [][LET late == clock - (response.at + response.retryAfter)
     IN  (Request /\ response # NoResponse /\ ~response.allowed
            /\ late >= 0 /\ Ceiling * Unit * (W - late) < Burst * W)
           => response'.allowed]_vars

\* slidingwindow.go:37: limit is the "max requests allowed per window".
LimitPerWindow == AdmittedIn(Current.windowStart, clock + 1) * Unit <= Burst
=============================================================================
