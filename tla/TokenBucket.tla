---------------------------- MODULE TokenBucket ----------------------------
(***************************************************************************)
(* The lazily refilled token bucket (internal/limiter/tokenbucket.go) as   *)
(* operators on a bucket value.  TokenBucket.mu makes every method one     *)
(* atomic step, and Allow reads the clock while it holds mu, so a method   *)
(* is a function of the bucket and of the time "now" at which it runs.     *)
(*                                                                         *)
(* "type" is the dynamic type of the Go value behind a Limiter interface,  *)
(* which Manager.Snapshot switches on.                                     *)
(***************************************************************************)
EXTENDS Limits

\* Mutant: lastRefill is left at the zero time.
Unanchored(capacity, refillRate, now) ==
  [type |-> AlgorithmTokenBucket, tokens |-> capacity, lastRefill |-> -1,
   capacity |-> capacity, refillRate |-> refillRate]

NewTokenBucket(capacity, refillRate, now) ==
  [type |-> AlgorithmTokenBucket, tokens |-> capacity, lastRefill |-> now,
   capacity |-> capacity, refillRate |-> refillRate]

\* BucketState: what persistence keeps of a bucket.
TokenBucketState(b) ==
  [Tokens |-> b.tokens, LastRefill |-> b.lastRefill,
   Capacity |-> b.capacity, RefillRate |-> b.refillRate]

\* Mutant: a restored bucket is a full one.
RestoredFull(s) ==
  [type |-> AlgorithmTokenBucket, tokens |-> s.Capacity,
   lastRefill |-> s.LastRefill, capacity |-> s.Capacity,
   refillRate |-> s.RefillRate]

NewTokenBucketFromState(s) ==
  [type |-> AlgorithmTokenBucket, tokens |-> s.Tokens,
   lastRefill |-> s.LastRefill, capacity |-> s.Capacity,
   refillRate |-> s.RefillRate]

\* Mutants of Refill: no cap; only whole tokens, the fraction is lost; the
\* tokens left over are forgotten.
RefillUncapped(b, now) ==
  [b EXCEPT !.tokens = @ + (now - b.lastRefill) * b.refillRate,
            !.lastRefill = now]
RefillWhole(b, now) ==
  [b EXCEPT
     !.tokens = MinOf(b.capacity,
                      b.tokens + (((now - b.lastRefill) * b.refillRate) \div Unit) * Unit),
     !.lastRefill = now]
RefillForgetful(b, now) ==
  [b EXCEPT !.tokens = MinOf(b.capacity, (now - b.lastRefill) * b.refillRate),
            !.lastRefill = now]

\* The lazy refill at the head of Allow.  elapsed is negative when the clock
\* was set back under a restored lastRefill: tokens then go down.
Refill(b, now) ==
  [b EXCEPT
     !.tokens = MinOf(b.capacity,
                      b.tokens + (now - b.lastRefill) * b.refillRate),
     !.lastRefill = now]

\* Mutant: waits for a full bucket instead of one token.
RetryWhenFull(b, allowed) ==
  IF allowed THEN 0
  ELSE IF b.refillRate <= 0 THEN neverRefills
  ELSE ToDuration((b.capacity - b.tokens) \div b.refillRate)

retryAfter(b, allowed) ==
  IF allowed THEN 0
  ELSE IF b.refillRate <= 0 THEN neverRefills
  ELSE ToDuration((Unit - b.tokens) \div b.refillRate)

resetAfter(b) ==
  IF b.tokens >= b.capacity THEN 0
  ELSE IF b.refillRate <= 0 THEN neverRefills
  ELSE ToDuration((b.capacity - b.tokens) \div b.refillRate)

\* Allow at time now: the bucket it leaves behind and the Decision it returns.
TokenBucketAllow(b, now) ==
  LET refilled == Refill(b, now)
      allowed  == refilled.tokens >= Unit
      left     == IF allowed
                    THEN [refilled EXCEPT !.tokens = @ - Unit]
                    ELSE refilled
  IN  [limiter  |-> left,
       decision |-> [Allowed    |-> allowed,
                     Limit      |-> left.capacity,
                     Remaining  |-> left.tokens \div Unit,
                     RetryAfter |-> retryAfter(left, allowed),
                     ResetAfter |-> resetAfter(left)]]
=============================================================================
