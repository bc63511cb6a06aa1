--------------------------- MODULE BucketService ---------------------------
(***************************************************************************)
(* One client's token bucket in service: time passes, requests arrive, and *)
(* now and then the process is restarted with the bucket carried over by a *)
(* snapshot (State, then NewTokenBucketFromState).                         *)
(*                                                                         *)
(* clock is the reading of time.Now.  While the process runs it only       *)
(* advances (Go compares monotonic readings); a restored lastRefill has no *)
(* monotonic reading, so a wall clock set back before the restart shows as *)
(* a clock that steps back in Restart.                                     *)
(***************************************************************************)
EXTENDS TokenBucket

CONSTANTS
  Capacity, Rate,  \* the client's Burst and RPS
  MaxClock,        \* bound: the clock stops here
  MaxSpan,         \* bound: the longest interval observed
  MaxStep          \* bound: how far a restart moves the clock, either way

ASSUME ServiceAssumption ==
  /\ Capacity \in Nat /\ Capacity >= Unit
  /\ Rate \in Nat
  /\ MaxClock \in Nat /\ MaxSpan \in Nat /\ MaxStep \in Nat

VARIABLES
  clock,     \* time.Now
  bucket,    \* the TokenBucket
  response,  \* the last Decision of this process and when it was given
  since,     \* observer: requests admitted in the interval it watches ...
  span       \* ... and the length of that interval

vars == <<clock, bucket, response, since, span>>

Never == -1

NoResponse == [at |-> Never, allowed |-> FALSE, remaining |-> 0, retryAfter |-> 0]

Init ==
  /\ clock = 0
  /\ bucket = NewTokenBucket(Capacity, Rate, 0)
  /\ response = NoResponse
  /\ since = 0
  /\ span = 0

Tick ==
  /\ clock < MaxClock /\ span < MaxSpan
  /\ clock' = clock + 1
  /\ span' = span + 1
  /\ UNCHANGED <<bucket, response, since>>

Request ==
  LET result == TokenBucketAllow(bucket, clock)
      d      == result.decision
  IN  /\ bucket' = result.limiter
      /\ response' = [at |-> clock, allowed |-> d.Allowed,
                      remaining |-> d.Remaining, retryAfter |-> d.RetryAfter]
      /\ since' = IF d.Allowed THEN since + 1 ELSE since
      /\ UNCHANGED <<clock, span>>

\* The process stops cleanly and starts again when the clock has moved by d.
Restart(d) ==
  /\ clock + d \in 0 .. MaxClock
  /\ span + MaxOf(d, 0) <= MaxSpan
  /\ clock' = clock + d
  /\ bucket' = NewTokenBucketFromState(TokenBucketState(bucket))
  /\ response' = NoResponse
  /\ span' = span + MaxOf(d, 0)
  /\ UNCHANGED since

\* The observer starts a new interval.
Observe ==
  /\ since' = 0
  /\ span' = 0
  /\ UNCHANGED <<clock, bucket, response>>

Next ==
  \/ Tick
  \/ Request
  \/ \E d \in -MaxStep .. MaxStep : Restart(d)
  \/ Observe

Spec == Init /\ [][Next]_vars
-----------------------------------------------------------------------------
\* Type invariant.  The bucket keeps its configuration, never holds more than
\* its capacity, and may hold less than nothing after a clock set back.
TypeOK ==
  /\ clock \in 0 .. MaxClock
  /\ bucket \in [type : {AlgorithmTokenBucket}, tokens : Int, lastRefill : Nat,
                 capacity : {Capacity}, refillRate : {Rate}]
  /\ bucket.tokens <= Capacity
  /\ response \in [at : Int, allowed : BOOLEAN, remaining : Int, retryAfter : Int]
  /\ since \in Nat
  /\ span \in Nat

\* The rate limit itself (the promise of tokenbucket.go:9-14): over every
\* interval the requests let through are at most one full bucket plus what
\* the rate refills in that interval, restarts and clock steps included.
RateBound == since * Unit <= Capacity + Rate * span

\* Lazy refill is invisible (tokenbucket.go:16-19): seen through the tokens a
\* request would find now, the bucket is the eagerly refilled one.
Credit == Refill(bucket, clock).tokens

Outcome ==
  IF response.at # clock THEN "none"
  ELSE IF response.allowed THEN "allow" ELSE "deny"

Contract == INSTANCE RateContract
              WITH credit <- Credit, outcome <- Outcome

ImplementsContract == Contract!Spec

\* RetryAfter of a denial is exact (tokenbucket.go:125-139): whoever comes back
\* before it has run out is denied again, whoever comes back once the tick it
\* was truncated to is over is let in.
RetryAfterExact ==
  [][(Request /\ response # NoResponse /\ ~response.allowed) =>
       /\ clock < response.at + response.retryAfter => ~response'.allowed
       /\ clock > response.at + response.retryAfter => response'.allowed]_vars

\* Remaining is a promise (decision.go:17): a client told it has whole tokens
\* left has its next request allowed however much later it comes, and one told
\* it has none is denied if it asks again at once.
RemainingHonoured ==
  [][(Request /\ response # NoResponse) =>
       /\ response.remaining >= 1 => response'.allowed
       /\ (response.remaining < 1 /\ clock = response.at) => ~response'.allowed]_vars
=============================================================================
