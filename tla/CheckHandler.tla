---------------------------- MODULE CheckHandler ----------------------------
(***************************************************************************)
(* GET /check/{key} (internal/httpapi/check.go) in front of one bucket:    *)
(* how a Decision becomes a response, and what a client that obeys the     *)
(* whole seconds of the Retry-After header meets.                          *)
(***************************************************************************)
EXTENDS BucketService

CONSTANT Second  \* ticks in one second

ASSUME SecondAssumption == Second \in Nat \ {0}

\* Mutants: each rounds the other way.
SecondsUp(d) == -((-d) \div Second)
SecondsDown(d) == d \div Second

\* d rendered as whole seconds, rounded down, and rounded up.
formatSeconds(d) == d \div Second
formatSecondsCeil(d) == -((-d) \div Second)

\* The response to a decision; a header that is not set is <<>>.
check(d) ==
  [status     |-> IF d.Allowed THEN 200 ELSE 429,
   Limit      |-> d.Limit,
   Remaining  |-> d.Remaining,
   Reset      |-> formatSeconds(d.ResetAfter),
   RetryAfter |-> IF d.Allowed THEN <<>> ELSE <<formatSecondsCeil(d.RetryAfter)>>]

\* The answer a client would get at time t from the bucket as it is now, and
\* what it would find coming back s seconds later.
Answer(b, t) == check(TokenBucketAllow(b, t).decision)
Left(b, t) == TokenBucketAllow(b, t).limiter
Denied(b, t) == Answer(b, t).status = 429

\* The headers' seconds are right to a second and a tick.  Retry-After is "rounded
\* up so a client never retries before it actually has a token available"
\* (check.go:71-72); what was rounded up had been truncated, so it takes one tick
\* more, and nobody is made to wait a whole second longer than it has to.  Reset is
\* "seconds until the bucket is back to full capacity" (check.go:36), rounded
\* down: the bucket was not full any whole second before it.
HeadersTight ==
  LET answer == Answer(bucket, clock)
      left   == Left(bucket, clock)
      reset  == answer.Reset * Second
  IN  /\ answer.status = 429 =>
           LET wait == answer.RetryAfter[1] * Second
           IN  /\ ~Denied(left, clock + wait + 1)
               /\ \A t \in 0 .. wait - Second : Denied(left, clock + t)
      /\ Refill(left, clock + reset + Second).tokens = Capacity
      /\ \A t \in 0 .. reset - 1 : Refill(left, clock + t).tokens < Capacity
=============================================================================
