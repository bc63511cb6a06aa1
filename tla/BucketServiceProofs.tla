------------------------- MODULE BucketServiceProofs -------------------------
(***************************************************************************)
(* Theorems of BucketService and of the handler that serves a bucket: its  *)
(* type invariant; that the lazily refilled bucket implements the eager    *)
(* contract of RateContract and so keeps the rate limit over every         *)
(* interval; that Remaining, RetryAfter and the seconds in the headers of  *)
(* GET /check tell a client the truth.                                     *)
(***************************************************************************)
EXTENDS CheckHandler, Arithmetic

Buckets == [type : {AlgorithmTokenBucket}, tokens : Int, lastRefill : Nat,
            capacity : {Capacity}, refillRate : {Rate}]

\* Rendering a RetryAfter yields a number whatever the token count, negative
\* ones and overflow included (tokenbucket.go:128-139).
LEMMA RetryAfterType ==
  ASSUME NEW b \in Buckets, NEW allowed \in BOOLEAN
  PROVE  retryAfter(b, allowed) \in Int
<1>1. /\ b.tokens \in Int /\ b.refillRate \in Nat
      /\ Unit \in Nat /\ MaxDuration \in Int /\ OverflowTo \in Int
  BY UnitAssumption, DurationAssumption, ServiceAssumption DEF Buckets
<1>2. CASE b.refillRate > 0
  <2>1. (Unit - b.tokens) \div b.refillRate \in Int
    BY <1>1, <1>2
  <2> QED
    BY <1>1, <2>1 DEF retryAfter, ToDuration, neverRefills
<1> QED
  BY <1>1, <1>2 DEF retryAfter, neverRefills

\* Refill keeps a bucket a bucket and never overfills it (tokenbucket.go:99-108).
LEMMA RefillType ==
  ASSUME NEW b \in Buckets, NEW t \in Nat
  PROVE  /\ Refill(b, t) \in Buckets
         /\ Refill(b, t).tokens <= Capacity
         /\ Refill(b, t).lastRefill = t
         /\ Refill(b, t).tokens = MinOf(Capacity, b.tokens + (t - b.lastRefill) * Rate)
<1>1. /\ b.tokens \in Int /\ b.lastRefill \in Nat
      /\ b.capacity = Capacity /\ b.refillRate = Rate
      /\ Capacity \in Nat /\ Rate \in Nat
  BY ServiceAssumption DEF Buckets
<1> DEFINE gain == (t - b.lastRefill) * Rate
<1>2. gain \in Int
  BY <1>1, IntProduct
<1> HIDE DEF gain
<1>3. MinOf(Capacity, b.tokens + gain) \in Int /\ MinOf(Capacity, b.tokens + gain) <= Capacity
  BY <1>1, <1>2 DEF MinOf
<1>4. Refill(b, t) = [b EXCEPT !.tokens = MinOf(Capacity, b.tokens + gain), !.lastRefill = t]
  BY <1>1 DEF Refill, gain
<1>5. MinOf(Capacity, b.tokens + gain) = MinOf(Capacity, b.tokens + (t - b.lastRefill) * Rate)
  BY DEF gain
<1> HIDE DEF Refill
<1> QED
  BY <1>3, <1>4, <1>5 DEF Buckets

\* A refill for a later time is a refill for an earlier one and the gain of
\* the ticks between: refilling lazily or eagerly comes to the same.
LEMMA RefillLater ==
  ASSUME NEW b \in Buckets, b.tokens <= Capacity, NEW t \in Nat, NEW d \in Nat
  PROVE  Refill(b, t + d).tokens = MinOf(Capacity, Refill(b, t).tokens + d * Rate)
<1>1. /\ b.tokens \in Int /\ b.lastRefill \in Nat
      /\ Capacity \in Nat /\ Rate \in Nat
  BY ServiceAssumption DEF Buckets
<1> DEFINE gain == (t - b.lastRefill) * Rate
           more == d * Rate
<1>2. gain \in Int /\ more \in Nat
  BY <1>1, IntProduct, NatProduct
<1>3. ((t + d) - b.lastRefill) * Rate = gain + more
  <2>1. (t + d) - b.lastRefill = (t - b.lastRefill) + d
    BY <1>1
  <2> QED
    BY <1>1, <2>1, ProductOfSum
<1>4. Refill(b, t).tokens = MinOf(Capacity, b.tokens + gain)
  BY RefillType
<1>5. Refill(b, t + d).tokens = MinOf(Capacity, b.tokens + (gain + more))
  <2>1. t + d \in Nat
    OBVIOUS
  <2>2. Refill(b, t + d).tokens =
        MinOf(Capacity, b.tokens + ((t + d) - b.lastRefill) * Rate)
    BY <2>1, RefillType
  <2> QED
    BY <1>3, <2>2
<1> HIDE DEF gain, more
<1>6. MinOf(Capacity, b.tokens + (gain + more)) =
      MinOf(Capacity, MinOf(Capacity, b.tokens + gain) + more)
  BY <1>1, <1>2 DEF MinOf
<1> QED
  BY <1>4, <1>5, <1>6 DEF more

\* A clock set back never conjures up tokens.
LEMMA RefillEarlier ==
  ASSUME NEW b \in Buckets, b.tokens <= Capacity,
         NEW t \in Nat, NEW u \in Nat, u <= t
  PROVE  Refill(b, u).tokens <= Refill(b, t).tokens
<1>1. u = t \/ t > u
  OBVIOUS
<1>2. CASE t > u
  <2>1. PICK d \in Nat : t = u + d
    BY <1>2, TicksBetween
  <2>2. Refill(b, t).tokens = MinOf(Capacity, Refill(b, u).tokens + d * Rate)
    BY <2>1, RefillLater
  <2>3. d * Rate \in Nat
    BY ServiceAssumption, NatProduct
  <2>4. /\ Refill(b, u).tokens \in Int /\ Capacity \in Nat
        /\ Refill(b, u).tokens <= Capacity
    BY RefillType, ServiceAssumption DEF Buckets
  <2> QED
    BY <2>2, <2>3, <2>4 DEF MinOf
<1>3. Refill(b, t).tokens \in Int
  BY RefillType DEF Buckets
<1> QED
  BY <1>1, <1>2, <1>3

\* What one Allow does: it refills, takes a whole token if there is one, and
\* leaves a bucket anchored at the time of the call (tokenbucket.go:90-123).
LEMMA AllowEffect ==
  ASSUME NEW b \in Buckets, NEW t \in Nat
  PROVE  LET result == TokenBucketAllow(b, t)
             found  == Refill(b, t).tokens
             left   == result.limiter
         IN  /\ left \in Buckets
             /\ left.lastRefill = t
             /\ left.tokens <= Capacity
             /\ result.decision.Allowed \in BOOLEAN
             /\ result.decision.Allowed <=> (found >= Unit)
             /\ found >= Unit => left.tokens = found - Unit
             /\ ~(found >= Unit) => left.tokens = found
             /\ result.decision.Remaining \in Int
             /\ result.decision.RetryAfter \in Int
<1> DEFINE r       == Refill(b, t)
           allowed == r.tokens >= Unit
           left    == IF allowed THEN [r EXCEPT !.tokens = @ - Unit] ELSE r
<1>1. r \in Buckets /\ r.tokens <= Capacity /\ r.lastRefill = t
  BY RefillType
<1>2. TokenBucketAllow(b, t).limiter = left
  BY DEF TokenBucketAllow
<1>3. /\ TokenBucketAllow(b, t).decision.Allowed = allowed
      /\ allowed \in BOOLEAN
      /\ TokenBucketAllow(b, t).decision.Remaining = left.tokens \div Unit
      /\ TokenBucketAllow(b, t).decision.RetryAfter = retryAfter(left, allowed)
  BY DEF TokenBucketAllow
<1> HIDE DEF r
<1>4. Unit \in Nat \ {0} /\ Capacity \in Nat
  BY UnitAssumption, ServiceAssumption
<1>5. /\ left \in Buckets /\ left.lastRefill = t /\ left.tokens <= Capacity
      /\ allowed => left.tokens = r.tokens - Unit
      /\ ~allowed => left.tokens = r.tokens
  BY <1>1, <1>4 DEF Buckets
<1> HIDE DEF left
<1>6. left.tokens \div Unit \in Int
  BY <1>4, <1>5 DEF Buckets
<1>7. retryAfter(left, allowed) \in Int
  <2>1. allowed \in BOOLEAN
    OBVIOUS
  <2> QED
    BY <1>5, <2>1, RetryAfterType
<1> QED
  BY <1>2, <1>3, <1>5, <1>6, <1>7 DEF r

\* A restart carries the bucket over unchanged (persistence round trip).
LEMMA RestoreIsIdentity ==
  ASSUME NEW b \in Buckets
  PROVE  NewTokenBucketFromState(TokenBucketState(b)) = b
BY DEF Buckets, NewTokenBucketFromState, TokenBucketState
-----------------------------------------------------------------------------
\* The inductive invariant: types, and a response never dated in the future
\* (after a restart there is none, so a clock set back cannot make it so).
IInv == TypeOK /\ response.at <= clock

LEMMA InitIInv == Init => IInv
<1> SUFFICES ASSUME Init PROVE IInv
  OBVIOUS
<1>1. NewTokenBucket(Capacity, Rate, 0) \in Buckets
  BY ServiceAssumption DEF NewTokenBucket, Buckets
<1> QED
  BY <1>1, ServiceAssumption
  DEF Init, IInv, TypeOK, NewTokenBucket, NoResponse, Never, Buckets

\* Every action keeps the inductive invariant.
LEMMA StepIInv == IInv /\ [Next]_vars => IInv'
<1> SUFFICES ASSUME IInv, [Next]_vars PROVE IInv'
  OBVIOUS
<1>0. /\ clock \in Nat /\ clock <= MaxClock /\ MaxClock \in Nat
      /\ bucket \in Buckets /\ bucket.tokens <= Capacity
      /\ since \in Nat /\ span \in Nat
      /\ response.at \in Int /\ response.at <= clock
  BY ServiceAssumption DEF IInv, TypeOK, Buckets
<1>1. CASE Tick
  <2>1. /\ clock' = clock + 1 /\ span' = span + 1
        /\ UNCHANGED <<bucket, response, since>> /\ clock < MaxClock
    BY <1>1 DEF Tick
  <2> QED
    BY <1>0, <2>1 DEF IInv, TypeOK, Buckets
<1>2. CASE Request
  <2> DEFINE r == TokenBucketAllow(bucket, clock)
  <2>1. /\ bucket' = r.limiter
        /\ response' = [at |-> clock, allowed |-> r.decision.Allowed,
                        remaining |-> r.decision.Remaining,
                        retryAfter |-> r.decision.RetryAfter]
        /\ since' = IF r.decision.Allowed THEN since + 1 ELSE since
        /\ UNCHANGED <<clock, span>>
    BY <1>2 DEF Request
  <2>2. /\ r.limiter \in Buckets /\ r.limiter.tokens <= Capacity
        /\ r.decision.Allowed \in BOOLEAN
        /\ r.decision.Remaining \in Int /\ r.decision.RetryAfter \in Int
    BY <1>0, AllowEffect
  <2> HIDE DEF r
  <2>3. since' \in Nat
    BY <1>0, <2>1
  <2>4. response' \in [at : Int, allowed : BOOLEAN, remaining : Int, retryAfter : Int]
    BY <1>0, <2>1, <2>2
  <2>5. clock' \in 0 .. MaxClock /\ response'.at <= clock'
    BY <1>0, <2>1
  <2> QED
    BY <1>0, <2>1, <2>2, <2>3, <2>4, <2>5 DEF IInv, TypeOK, Buckets
<1>3. ASSUME NEW d \in -MaxStep .. MaxStep, Restart(d) PROVE IInv'
  <2>1. /\ bucket' = bucket /\ response' = NoResponse /\ since' = since
        /\ clock' \in 0 .. MaxClock /\ span' = span + MaxOf(d, 0)
    BY <1>0, <1>3, RestoreIsIdentity DEF Restart
  <2>2. span + MaxOf(d, 0) \in Nat
    BY <1>0, ServiceAssumption DEF MaxOf
  <2>3. -1 <= clock'
    BY <1>0, <2>1
  <2> QED
    BY <1>0, <2>1, <2>2, <2>3 DEF IInv, TypeOK, Buckets, NoResponse, Never
<1>4. CASE Observe
  BY <1>0, <1>4 DEF Observe, IInv, TypeOK, Buckets
<1>5. CASE UNCHANGED vars
  BY <1>5 DEF vars, IInv, TypeOK
<1> QED
  BY <1>1, <1>2, <1>3, <1>4, <1>5 DEF Next

\* Type correctness of the service for every capacity, rate and clock step.
THEOREM TypeCorrect == Spec => []TypeOK
<1>1. IInv => TypeOK
  BY DEF IInv
<1> QED
  BY InitIInv, StepIInv, <1>1, PTL DEF Spec
-----------------------------------------------------------------------------
\* The service starts where the contract starts: with a full bucket.
LEMMA InitContract == Init => Contract!Init
<1> SUFFICES ASSUME Init PROVE Contract!Init
  OBVIOUS
<1> DEFINE b == NewTokenBucket(Capacity, Rate, 0)
<1>1. b \in Buckets /\ b.tokens = Capacity /\ b.lastRefill = 0
  BY ServiceAssumption DEF NewTokenBucket, Buckets
<1>2. Refill(b, 0).tokens = MinOf(Capacity, Capacity + (0 - 0) * Rate)
  BY <1>1, RefillType
<1>3. (0 - 0) * Rate = 0 /\ Capacity \in Nat
  BY ServiceAssumption
<1>4. Credit = Capacity
  BY <1>2, <1>3 DEF Init, Credit, MinOf
<1>5. Outcome = "none"
  BY DEF Init, Outcome, NoResponse, Never
<1> QED
  BY <1>4, <1>5 DEF Contract!Init, Init

\* When d ticks have passed and the credit has grown by their refill, the
\* contract accrued.
LEMMA AccrueBy ==
  ASSUME NEW d \in Nat \ {0}, span \in Nat, Credit \in Int,
         span' = span + d, since' = since, Outcome' = "none",
         Credit' = MinOf(Capacity, Credit + d * Rate)
  PROVE  Contract!Accrue
<1>1. (span + d) - span = d /\ span + d > span /\ span + d \in Nat
  OBVIOUS
<1>2. Credit + d * Rate \in Int /\ Capacity \in Nat
  BY ServiceAssumption, IntProduct
<1>3. Credit' = Contract!Capped(Credit + d * Rate)
  BY <1>2 DEF MinOf, Contract!Capped
<1>4. span' \in Nat /\ span' > span /\ span' - span = d
  BY <1>1, Zenon
<1> QED
  BY <1>3, <1>4, Zenon DEF Contract!Accrue

\* Each step of the lazy bucket is a step of the contract or a stutter: a tick
\* accrues, a request is admitted or refused, a restart accrues the time that
\* passed or, with the clock set back, forfeits.
LEMMA StepContract == IInv /\ IInv' /\ [Next]_vars => [Contract!Next]_(Contract!vars)
<1> SUFFICES ASSUME IInv, IInv', [Next]_vars
             PROVE  Contract!Next \/ UNCHANGED Contract!vars
  BY DEF Contract!vars
<1>0. /\ clock \in Nat /\ bucket \in Buckets /\ bucket.tokens <= Capacity
      /\ clock' \in Nat /\ since \in Nat /\ span \in Nat /\ span' \in Nat
      /\ response.at \in Int /\ response.at <= clock
      /\ Capacity \in Nat /\ Rate \in Nat /\ Unit \in Nat
  BY ServiceAssumption, UnitAssumption DEF IInv, TypeOK, Buckets
<1>1. Credit = Refill(bucket, clock).tokens /\ Credit \in Int
  BY <1>0, RefillType DEF Credit, Buckets
<1>2. Credit' = Refill(bucket', clock').tokens
  BY DEF Credit, Refill, MinOf
<1>3. CASE Tick
  <2>1. /\ clock' = clock + 1 /\ span' = span + 1
        /\ bucket' = bucket /\ response' = response /\ since' = since
    BY <1>3 DEF Tick
  <2>2. Credit' = MinOf(Capacity, Credit + 1 * Rate)
    BY <1>0, <1>1, <1>2, <2>1, RefillLater
  <2>3. 1 \in Nat \ {0}
    OBVIOUS
  <2>4. Outcome' = "none"
    <3>1. response.at # clock + 1
      BY <1>0
    <3> QED
      BY <2>1, <3>1 DEF Outcome
  <2>5. Contract!Accrue
    BY <1>0, <1>1, <2>1, <2>2, <2>3, <2>4, AccrueBy
  <2> QED
    BY <2>5 DEF Contract!Next
<1>4. CASE Request
  <2> DEFINE r == TokenBucketAllow(bucket, clock)
  <2>1. /\ bucket' = r.limiter /\ clock' = clock /\ span' = span
        /\ response'.at = clock
        /\ response'.allowed = r.decision.Allowed
        /\ since' = IF r.decision.Allowed THEN since + 1 ELSE since
    BY <1>4 DEF Request
  <2>2. /\ r.limiter \in Buckets /\ r.limiter.lastRefill = clock
        /\ r.limiter.tokens <= Capacity
        /\ r.decision.Allowed \in BOOLEAN
        /\ r.decision.Allowed <=> (Credit >= Unit)
        /\ Credit >= Unit => r.limiter.tokens = Credit - Unit
        /\ ~(Credit >= Unit) => r.limiter.tokens = Credit
    BY <1>0, <1>1, AllowEffect
  <2> HIDE DEF r
  <2>3. Credit' = r.limiter.tokens
    <3>1. Refill(r.limiter, clock).tokens =
          MinOf(Capacity, r.limiter.tokens + (clock - clock) * Rate)
      BY <1>0, <2>2, RefillType
    <3>2. (clock - clock) * Rate = 0 /\ r.limiter.tokens \in Int
      BY <1>0, <2>2 DEF Buckets
    <3>3. Refill(r.limiter, clock).tokens = r.limiter.tokens
      BY <1>0, <2>2, <3>1, <3>2 DEF MinOf
    <3> QED
      BY <1>2, <2>1, <3>3
  <2>4. CASE Credit >= Unit
    <3>1. Outcome' = "allow"
      BY <2>1, <2>2, <2>4 DEF Outcome
    <3>2. Contract!Admit
      BY <2>1, <2>2, <2>3, <2>4, <3>1 DEF Contract!Admit
    <3> QED
      BY <3>2 DEF Contract!Next
  <2>5. CASE ~(Credit >= Unit)
    <3>1. Outcome' = "deny"
      BY <2>1, <2>2, <2>5 DEF Outcome
    <3>2. Credit < Unit
      BY <1>0, <1>1, <2>5
    <3>3. Contract!Refuse
      BY <2>1, <2>2, <2>3, <2>5, <3>1, <3>2 DEF Contract!Refuse
    <3> QED
      BY <3>3 DEF Contract!Next
  <2> QED
    BY <2>4, <2>5
<1>5. ASSUME NEW d \in -MaxStep .. MaxStep, Restart(d)
      PROVE  Contract!Next
  <2>1. /\ bucket' = bucket /\ clock' = clock + d
        /\ response' = NoResponse /\ since' = since
        /\ span' = span + MaxOf(d, 0)
    BY <1>0, <1>5, RestoreIsIdentity DEF Restart
  <2>2. Outcome' = "none"
    BY <1>0, <2>1 DEF Outcome, NoResponse, Never
  <2>3. d \in Int
    BY ServiceAssumption
  <2>4. CASE d > 0
    <3>1. Credit' = MinOf(Capacity, Credit + d * Rate)
      BY <1>0, <1>1, <1>2, <2>1, <2>3, <2>4, RefillLater
    <3>2. span' = span + d /\ d \in Nat \ {0}
      BY <1>0, <2>1, <2>3, <2>4 DEF MaxOf
    <3>3. Contract!Accrue
      BY <1>0, <1>1, <2>1, <2>2, <3>1, <3>2, AccrueBy
    <3> QED
      BY <3>3 DEF Contract!Next
  <2>5. CASE ~(d > 0)
    <3>1. clock + d <= clock /\ clock + d \in Nat
      BY <1>0, <2>1, <2>3, <2>5
    <3>2. /\ Refill(bucket, clock + d).tokens \in Int
          /\ Refill(bucket, clock + d).tokens <= Credit
      BY <1>0, <1>1, <3>1, RefillEarlier, RefillType DEF Buckets
    <3>3. Credit' = Refill(bucket, clock + d).tokens /\ span' = span
      BY <1>0, <1>2, <2>1, <2>3, <2>5 DEF MaxOf
    <3>4. Contract!Forfeit
      BY <2>1, <2>2, <3>2, <3>3 DEF Contract!Forfeit
    <3> QED
      BY <3>4 DEF Contract!Next
  <2> QED
    BY <2>4, <2>5
<1>6. CASE Observe
  <2>1. /\ clock' = clock /\ bucket' = bucket /\ response' = response
        /\ since' = 0 /\ span' = 0
    BY <1>6 DEF Observe
  <2>2. Credit' = Credit /\ Outcome' = Outcome
    BY <1>1, <1>2, <2>1 DEF Outcome
  <2> QED
    BY <2>1, <2>2 DEF Contract!Next, Contract!Observe
<1>7. CASE UNCHANGED vars
  <2>1. /\ clock' = clock /\ bucket' = bucket /\ response' = response
        /\ since' = since /\ span' = span
    BY <1>7 DEF vars
  <2> QED
    BY <1>1, <1>2, <2>1 DEF Contract!vars, Outcome
<1> QED
  BY <1>3, <1>4, <1>5, <1>6, <1>7 DEF Next

\* Lazy refill is invisible: the bucket in service, restarts included, behaves
\* as the eagerly refilled one of the contract.
THEOREM Refinement == Spec => ImplementsContract
<1>1. Spec => []IInv
  BY InitIInv, StepIInv, PTL DEF Spec
<1>2. Spec => Contract!Init
  BY InitContract DEF Spec
<1> QED
  BY <1>1, <1>2, StepContract, PTL DEF Spec, ImplementsContract, Contract!Spec

ContractTheory == INSTANCE RateContractProofs
                    WITH credit <- Credit, outcome <- Outcome

\* The rate limit over every interval, for every capacity, rate and clock step:
\* the contract's theorem carried over by the refinement.
THEOREM RateLimit == Spec => []RateBound
<1>1. ContractTheory!ContractAssumption
  BY UnitAssumption, ServiceAssumption DEF ContractTheory!ContractAssumption
<1>2. ContractTheory!Spec => []ContractTheory!RateBound
  BY <1>1, ContractTheory!ContractRateBound
<1>3. ImplementsContract => ContractTheory!Spec
  BY DEF ImplementsContract, Contract!Spec, ContractTheory!Spec,
         Contract!Init, ContractTheory!Init, Contract!Next, ContractTheory!Next,
         Contract!vars, ContractTheory!vars,
         Contract!Accrue, ContractTheory!Accrue, Contract!Capped, ContractTheory!Capped,
         Contract!Admit, ContractTheory!Admit, Contract!Refuse, ContractTheory!Refuse,
         Contract!Forfeit, ContractTheory!Forfeit, Contract!Observe, ContractTheory!Observe
<1>4. ContractTheory!RateBound => RateBound
  BY DEF ContractTheory!RateBound, RateBound
<1> QED
  BY Refinement, <1>2, <1>3, <1>4, PTL
-----------------------------------------------------------------------------

\* What a Decision tells is about the bucket Allow leaves behind, and that one
\* stays until the next request or a restart.
Told ==
  response # NoResponse =>
    /\ bucket.lastRefill = response.at
    /\ response.remaining = bucket.tokens \div Unit
    /\ response.allowed \in BOOLEAN
    /\ ~response.allowed => /\ bucket.tokens < Unit
                           /\ response.retryAfter = retryAfter(bucket, FALSE)

\* What the next request finds, dt ticks after the last one.
LEMMA NextFinds ==
  ASSUME IInv, Told, response # NoResponse
  PROVE  /\ bucket.tokens \in Int /\ clock - response.at \in Nat
         /\ TokenBucketAllow(bucket, clock).decision.Allowed <=>
              MinOf(Capacity, bucket.tokens + (clock - response.at) * Rate) >= Unit
<1>1. bucket \in Buckets /\ clock \in Nat
  BY DEF IInv, TypeOK, Buckets
<1>2. bucket.lastRefill = response.at /\ bucket.lastRefill \in Nat /\ bucket.tokens \in Int
  BY <1>1 DEF Told, Buckets
<1>3. clock - response.at \in Nat
  BY <1>1, <1>2 DEF IInv
<1>4. TokenBucketAllow(bucket, clock).decision.Allowed <=> Refill(bucket, clock).tokens >= Unit
  BY <1>1, AllowEffect
<1>5. Refill(bucket, clock).tokens = MinOf(Capacity, bucket.tokens + (clock - bucket.lastRefill) * Rate)
  BY <1>1, RefillType
<1> QED
  BY <1>2, <1>3, <1>4, <1>5, Zenon

LEMMA StepTold == IInv /\ Told /\ [Next]_vars => Told'
<1> SUFFICES ASSUME IInv, Told, [Next]_vars PROVE Told'
  OBVIOUS
<1>0. bucket \in Buckets /\ clock \in Nat
  BY DEF IInv, TypeOK, Buckets
<1>1. CASE Request
  <2> DEFINE r    == TokenBucketAllow(bucket, clock)
             left == r.limiter
             d    == r.decision
  <2>1. /\ bucket' = left
        /\ response' = [at |-> clock, allowed |-> d.Allowed, remaining |-> d.Remaining,
                        retryAfter |-> d.RetryAfter]
    BY <1>1 DEF Request
  <2>2. d.Remaining = left.tokens \div Unit /\ d.RetryAfter = retryAfter(left, d.Allowed)
    BY DEF TokenBucketAllow
  <2>3. /\ left \in Buckets /\ left.lastRefill = clock /\ d.Allowed \in BOOLEAN
        /\ ~d.Allowed => left.tokens = Refill(bucket, clock).tokens
        /\ d.Allowed <=> (Refill(bucket, clock).tokens >= Unit)
        /\ Refill(bucket, clock).tokens \in Int /\ Unit \in Nat
    BY <1>0, AllowEffect, RefillType, UnitAssumption DEF Buckets
  <2>4. ~d.Allowed => left.tokens < Unit /\ d.RetryAfter = retryAfter(left, FALSE)
    <3> SUFFICES ASSUME ~d.Allowed
                 PROVE  left.tokens < Unit /\ d.RetryAfter = retryAfter(left, FALSE)
      OBVIOUS
    <3>1. left.tokens < Unit
      <4> DEFINE found == Refill(bucket, clock).tokens
      <4> HIDE DEF left, d, found
      <4>1. found \in Int /\ Unit \in Nat /\ ~(found >= Unit) /\ left.tokens = found
        BY <2>3 DEF found
      <4> QED
        BY <4>1
    <3>2. d.Allowed = FALSE
      BY <2>3
    <3> QED
      BY <2>2, <3>1, <3>2, Zenon
  <2> HIDE DEF left, d
  <2> QED
    BY <2>1, <2>2, <2>3, <2>4 DEF Told
<1>2. ASSUME NEW d \in -MaxStep .. MaxStep, Restart(d) PROVE Told'
  BY <1>2 DEF Restart, Told, NoResponse
<1>3. CASE Tick \/ Observe \/ UNCHANGED vars
  BY <1>3 DEF Tick, Observe, vars, Told
<1> QED
  BY <1>1, <1>2, <1>3 DEF Next

LEMMA InitTold == Init => Told
BY DEF Init, Told

\* Whole tokens in hand and whole tokens told are the same.
LEMMA WholeTokens ==
  \A k \in Int : (k \div Unit >= 1 <=> k >= Unit) /\ k \div Unit \in Int
<1> TAKE k \in Int
<1> DEFINE q == k \div Unit
<1>1. Unit \in Nat \ {0}
  BY UnitAssumption
<1>2. q \in Int /\ q * Unit <= k /\ k < (q + 1) * Unit
  BY <1>1, Quotient
<1> HIDE DEF q
<1>3. CASE q >= 1
  <2>1. 1 * Unit <= q * Unit
    BY <1>1, <1>2, <1>3, ProductMonotone
  <2> QED
    BY <1>1, <1>2, <1>3, <2>1, IntProduct DEF q
<1>4. CASE ~(q >= 1)
  <2>1. (q + 1) * Unit <= 1 * Unit
    BY <1>1, <1>2, <1>4, ProductMonotone
  <2> QED
    BY <1>1, <1>2, <1>4, <2>1, IntProduct DEF q
<1> QED
  BY <1>3, <1>4

\* Remaining is a promise about the next request (decision.go:17,
\* tokenbucket.go:113-121), for every capacity, rate and time between.
THEOREM RemainingIsHonoured == Spec => RemainingHonoured
<1>1. IInv /\ Told =>
        ((Request /\ response # NoResponse) =>
           /\ response.remaining >= 1 => response'.allowed
           /\ (response.remaining < 1 /\ clock = response.at) => ~response'.allowed)
  <2> SUFFICES ASSUME IInv, Told, Request, response # NoResponse
               PROVE  /\ response.remaining >= 1 => response'.allowed
                      /\ (response.remaining < 1 /\ clock = response.at) => ~response'.allowed
    OBVIOUS
  <2> DEFINE k    == bucket.tokens
             dt   == clock - response.at
             gain == dt * Rate
  <2>1. /\ k \in Int /\ dt \in Nat /\ gain \in Nat /\ Rate \in Nat
        /\ Capacity \in Nat /\ Capacity >= Unit /\ Unit \in Nat
    BY NextFinds, ServiceAssumption, UnitAssumption, NatProduct
  <2>2. response'.allowed <=> MinOf(Capacity, k + gain) >= Unit
    <3>1. response'.allowed <=> TokenBucketAllow(bucket, clock).decision.Allowed
      BY DEF Request
    <3> QED
      BY <3>1, NextFinds
  <2>3. response.remaining = k \div Unit
    BY DEF Told
  <2>4. response.remaining >= 1 <=> k >= Unit
    BY <2>1, <2>3, WholeTokens
  <2>5. response.remaining < 1 => ~(response.remaining >= 1)
    BY <2>1, <2>3, WholeTokens
  <2>6. clock = response.at => gain = 0
    <3>1. clock = response.at => dt = 0
      BY <2>1 DEF IInv, TypeOK
    <3> QED
      BY <2>1, <3>1
  <2> HIDE DEF k, gain
  <2>7. k >= Unit => MinOf(Capacity, k + gain) >= Unit
    BY <2>1 DEF MinOf
  <2>8. ~(k >= Unit) /\ gain = 0 => ~(MinOf(Capacity, k + gain) >= Unit)
    BY <2>1 DEF MinOf
  <2> QED
    BY <2>2, <2>4, <2>5, <2>6, <2>7, <2>8
<1> QED
  BY <1>1, InitIInv, StepIInv, InitTold, StepTold, PTL DEF Spec, RemainingHonoured-----------------------------------------------------------------------------

\* The wait for "missing" units, truncated to whole ticks, is tight: before it is
\* over more than nothing is missing still, once its last tick is over nothing is.
LEMMA WaitIsTight ==
  \A missing \in Int, rate \in Nat \ {0}, t \in Int :
    /\ t < missing \div rate => t * rate <= missing - rate
    /\ t > missing \div rate => t * rate > missing
<1> TAKE missing \in Int, rate \in Nat \ {0}, t \in Int
<1> DEFINE q == missing \div rate
<1>1. q \in Int /\ q * rate <= missing /\ missing < (q + 1) * rate
  BY Quotient
<1> HIDE DEF q
<1>2. (q + 1) * rate = q * rate + rate /\ (t + 1) * rate = t * rate + rate
  BY <1>1, ProductOfSum, IntProduct
<1>3. t * rate \in Int /\ q * rate \in Int
  BY <1>1, IntProduct
<1>4. CASE t < q
  <2>1. t + 1 <= q
    BY <1>1, <1>4
  <2>2. (t + 1) * rate <= q * rate
    BY <1>1, <2>1, ProductMonotone
  <2> QED
    BY <1>1, <1>2, <1>3, <1>4, <2>2 DEF q
<1>5. CASE t > q
  <2>1. q + 1 <= t
    BY <1>1, <1>5
  <2>2. (q + 1) * rate <= t * rate
    BY <1>1, <2>1, ProductMonotone
  <2> QED
    BY <1>1, <1>2, <1>3, <1>5, <2>2 DEF q
<1> QED
  BY <1>1, <1>4, <1>5 DEF q

\* However often the clock was set back, the bucket misses no more than all the
\* time on the clock can refill.
Solvent(tokens, at) == tokens + (MaxClock - at) * Rate >= 0

\* The times told fit into a Duration: full units and all that a clock set back
\* can take are refilled in less than MaxDuration (292 years of nanoseconds).
TimesFit(full) == full + MaxClock * Rate <= MaxDuration * Rate

LEMMA WaitFits ==
  ASSUME NEW k \in Int, NEW at \in 0 .. MaxClock, NEW full \in Nat, Rate > 0,
         Solvent(k, at), TimesFit(full)
  PROVE  ToDuration((full - k) \div Rate) = (full - k) \div Rate
<1> DEFINE q    == (full - k) \div Rate
           all  == MaxClock * Rate
           owed == (MaxClock - at) * Rate
           most == MaxDuration * Rate
<1>1. Rate \in Nat \ {0} /\ MaxClock \in Nat /\ MaxDuration \in Nat /\ full - k \in Int
  BY ServiceAssumption, DurationAssumption
<1>2. q \in Int /\ q * Rate <= full - k
  BY <1>1, Quotient
<1>3. owed <= all
  BY <1>1, ProductMonotone
<1>4. owed \in Int /\ all \in Int /\ most \in Int /\ k + owed >= 0 /\ full + all <= most
  BY <1>1, IntProduct DEF Solvent, TimesFit
<1>5. q * Rate \in Int
  BY <1>1, <1>2, IntProduct
<1>6. q * Rate <= most
  <2> HIDE DEF owed, all, most, q
  <2> QED
    BY <1>1, <1>2, <1>3, <1>4, <1>5
<1>7. ~(q > MaxDuration)
  <2> HIDE DEF q
  <2>1. q > MaxDuration => MaxDuration * Rate < q * Rate
    BY <1>1, <1>2, ProductStrict
  <2> QED
    BY <1>1, <1>2, <1>4, <1>5, <1>6, <2>1
<1> QED
  BY <1>7 DEF ToDuration

\* Allow leaves a solvent bucket.
LEMMA AllowSolvent ==
  ASSUME NEW b \in Buckets, NEW t \in 0 .. MaxClock, b.tokens <= Capacity,
         Solvent(b.tokens, b.lastRefill)
  PROVE  Solvent(TokenBucketAllow(b, t).limiter.tokens, t)
<1> DEFINE found == Refill(b, t).tokens
           left  == TokenBucketAllow(b, t).limiter.tokens
           gain  == (t - b.lastRefill) * Rate
           rest  == (MaxClock - t) * Rate
<1>1. /\ Rate \in Nat /\ MaxClock \in Nat /\ Capacity \in Nat /\ Capacity >= Unit /\ Unit \in Nat
      /\ t \in Nat /\ b.lastRefill \in Nat /\ b.tokens \in Int
  BY ServiceAssumption, UnitAssumption DEF Buckets
<1>2. gain \in Int /\ rest \in Nat
  <2>1. MaxClock - t \in Nat /\ t - b.lastRefill \in Int
    BY <1>1
  <2> QED
    BY <1>1, <2>1, IntProduct, NatProduct
<1>3. (MaxClock - b.lastRefill) * Rate = gain + rest
  <2>1. MaxClock - b.lastRefill = (t - b.lastRefill) + (MaxClock - t)
    BY <1>1
  <2> QED
    BY <1>1, <2>1, ProductOfSum
<1>4. found = MinOf(Capacity, b.tokens + gain)
  BY <1>1, RefillType
<1>5. (found >= Unit => left = found - Unit) /\ (~(found >= Unit) => left = found)
  BY <1>1, AllowEffect
<1>6. b.tokens + (gain + rest) >= 0
  BY <1>3 DEF Solvent
<1>7. left + rest >= 0
  <2> HIDE DEF found, left, gain, rest
  <2>1. found \in Int /\ found + rest >= 0
    BY <1>1, <1>2, <1>4, <1>6 DEF MinOf
  <2> QED
    BY <1>1, <1>2, <1>5, <2>1
<1> QED
  BY <1>7 DEF Solvent

BucketSolvent == Solvent(bucket.tokens, bucket.lastRefill)

LEMMA InitSolvent == Init => BucketSolvent
<1>1. NewTokenBucket(Capacity, Rate, 0).tokens = Capacity
      /\ NewTokenBucket(Capacity, Rate, 0).lastRefill = 0
  BY DEF NewTokenBucket
<1>2. (MaxClock - 0) * Rate \in Nat
  BY ServiceAssumption, NatProduct
<1> QED
  BY <1>1, <1>2, ServiceAssumption DEF Init, BucketSolvent, Solvent

LEMMA StepSolvent == IInv /\ BucketSolvent /\ [Next]_vars => BucketSolvent'
<1> SUFFICES ASSUME IInv, BucketSolvent, [Next]_vars PROVE BucketSolvent'
  OBVIOUS
<1>0. bucket \in Buckets /\ clock \in 0 .. MaxClock /\ bucket.tokens <= Capacity
  BY DEF IInv, TypeOK, Buckets
<1>1. CASE Request
  <2>1. bucket' = TokenBucketAllow(bucket, clock).limiter
    BY <1>1 DEF Request
  <2>2. TokenBucketAllow(bucket, clock).limiter.lastRefill = clock
    <3>1. clock \in Nat
      BY <1>0, ServiceAssumption
    <3> QED
      BY <1>0, <3>1, AllowEffect
  <2>3. Solvent(TokenBucketAllow(bucket, clock).limiter.tokens, clock)
    BY <1>0, AllowSolvent DEF BucketSolvent
  <2> QED
    BY <2>1, <2>2, <2>3, Zenon DEF BucketSolvent
<1>2. ASSUME NEW d \in -MaxStep .. MaxStep, Restart(d) PROVE BucketSolvent'
  <2>1. bucket' = bucket
    BY <1>0, <1>2, RestoreIsIdentity DEF Restart
  <2> QED
    BY <2>1, Zenon DEF BucketSolvent
<1>3. CASE Tick \/ Observe \/ UNCHANGED vars
  <2>1. bucket' = bucket
    BY <1>3 DEF Tick, Observe, vars
  <2> QED
    BY <2>1, Zenon DEF BucketSolvent
<1> QED
  BY <1>1, <1>2, <1>3 DEF Next

\* Who was denied is denied until RetryAfter has run out, and let in one tick
\* later (tokenbucket.go:125-139): for every capacity, every rate that Validate
\* accepts and every move of the clock between, restarts and clocks set back
\* before the denial included, as long as the times fit into a Duration.
THEOREM RetryAfterIsExact ==
  ASSUME Rate > 0, TimesFit(Unit)
  PROVE  Spec => RetryAfterExact
<1>1. IInv /\ Told /\ BucketSolvent =>
        ((Request /\ response # NoResponse /\ ~response.allowed) =>
           /\ clock < response.at + response.retryAfter => ~response'.allowed
           /\ clock > response.at + response.retryAfter => response'.allowed)
  <2> SUFFICES ASSUME IInv, Told, BucketSolvent, Request, response # NoResponse, ~response.allowed
               PROVE  /\ clock < response.at + response.retryAfter => ~response'.allowed
                      /\ clock > response.at + response.retryAfter => response'.allowed
    OBVIOUS
  <2> DEFINE k       == bucket.tokens
             dt      == clock - response.at
             gain    == dt * Rate
             missing == Unit - k
             q       == missing \div Rate
  <2>1. /\ k \in Int /\ dt \in Nat /\ gain \in Nat /\ Rate \in Nat \ {0}
        /\ Capacity \in Nat /\ Capacity >= Unit /\ Unit \in Nat /\ missing \in Int
        /\ q \in Int
    BY NextFinds, ServiceAssumption, UnitAssumption, NatProduct, Quotient
  <2>2. response'.allowed <=> MinOf(Capacity, k + gain) >= Unit
    <3>1. response'.allowed <=> TokenBucketAllow(bucket, clock).decision.Allowed
      BY DEF Request
    <3> QED
      BY <3>1, NextFinds
  <2>3. response.retryAfter = q
    <3>1. response.retryAfter = retryAfter(bucket, FALSE)
      BY DEF Told
    <3>2. bucket.refillRate = Rate /\ bucket.lastRefill \in 0 .. MaxClock
      BY ServiceAssumption DEF IInv, TypeOK, Told
    <3>3. ToDuration(q) = q
      BY <2>1, <3>2, WaitFits DEF BucketSolvent
    <3>4. ~(Rate <= 0)
      BY <2>1
    <3> QED
      BY <3>1, <3>2, <3>3, <3>4 DEF retryAfter
  <2>4. /\ dt < q => gain <= missing - Rate
        /\ dt > q => gain > missing
    BY <2>1, WaitIsTight
  <2>5. /\ clock < response.at + q => dt < q
        /\ clock > response.at + q => dt > q
    <3>1. clock \in Int /\ response.at \in Int
      BY ServiceAssumption DEF IInv, TypeOK
    <3> HIDE DEF q
    <3> QED
      BY <2>1, <3>1
  <2> HIDE DEF q, gain
  <2>6. gain <= missing - Rate => ~(MinOf(Capacity, k + gain) >= Unit)
    <3> HIDE DEF k
    <3> QED
      BY <2>1 DEF MinOf
  <2>7. gain > missing => MinOf(Capacity, k + gain) >= Unit
    <3> HIDE DEF k
    <3> QED
      BY <2>1 DEF MinOf
  <2> QED
    BY <2>2, <2>3, <2>4, <2>5, <2>6, <2>7
<1> QED
  BY <1>1, InitIInv, StepIInv, InitTold, StepTold, InitSolvent, StepSolvent, PTL
  DEF Spec, RetryAfterExact

-----------------------------------------------------------------------------
\* Whole seconds, rounded down and rounded up.
LEMMA Seconds ==
  ASSUME NEW d \in Nat
  PROVE  /\ formatSeconds(d) * Second \in Nat
         /\ formatSeconds(d) * Second <= d /\ d < formatSeconds(d) * Second + Second
         /\ formatSecondsCeil(d) \in Int /\ formatSecondsCeil(d) * Second \in Nat
         /\ d <= formatSecondsCeil(d) * Second /\ formatSecondsCeil(d) * Second - Second < d
<1> DEFINE down == formatSeconds(d)
           up   == formatSecondsCeil(d)
           low  == (-d) \div Second
<1>1. Second \in Nat \ {0} /\ -d \in Int
  BY SecondAssumption
<1>2. down \in Int /\ down * Second <= d /\ d < (down + 1) * Second
  BY <1>1, Quotient DEF formatSeconds
<1>3. low \in Int /\ low * Second <= -d /\ -d < (low + 1) * Second
  BY <1>1, Quotient
<1>4. up = -low
  BY DEF formatSecondsCeil
<1> HIDE DEF down, up, low
<1>5. /\ (down + 1) * Second = down * Second + Second
      /\ (low + 1) * Second = low * Second + Second
      /\ down * Second \in Int /\ low * Second \in Int
  BY <1>1, <1>2, <1>3, ProductOfSum, IntProduct
<1>6. up * Second = -(low * Second)
  <2>1. (low + up) * Second = low * Second + up * Second /\ up \in Int /\ low + up = 0
    BY <1>1, <1>3, <1>4, ProductOfSum
  <2>2. 0 * Second = 0 /\ up * Second \in Int
    BY <1>1, <2>1, IntProduct
  <2> QED
    BY <1>5, <2>1, <2>2
<1>7. down * Second \in Nat
  <2>1. CASE down >= 0
    BY <1>1, <1>2, <2>1, NatProduct
  <2>2. CASE ~(down >= 0)
    <3>1. (down + 1) * Second <= 0 * Second
      BY <1>1, <1>2, <2>2, ProductMonotone
    <3> QED
      BY <1>1, <1>2, <3>1, <1>5
  <2> QED
    BY <2>1, <2>2
<1> QED
  BY <1>1, <1>2, <1>3, <1>4, <1>5, <1>6, <1>7 DEF down, up

\* What a request finds t ticks after the bucket was left with k units.
LEMMA LaterFinds ==
  ASSUME NEW b \in Buckets, NEW t \in Nat
  PROVE  /\ Refill(b, b.lastRefill + t).tokens = MinOf(Capacity, b.tokens + t * Rate)
         /\ Denied(b, b.lastRefill + t) <=> ~(MinOf(Capacity, b.tokens + t * Rate) >= Unit)
<1>1. b.lastRefill \in Nat /\ b.lastRefill + t \in Nat /\ (b.lastRefill + t) - b.lastRefill = t
  BY DEF Buckets
<1>2. Refill(b, b.lastRefill + t).tokens = MinOf(Capacity, b.tokens + t * Rate)
  BY <1>1, RefillType
<1>3. TokenBucketAllow(b, b.lastRefill + t).decision.Allowed
        <=> Refill(b, b.lastRefill + t).tokens >= Unit
  BY <1>1, AllowEffect
<1>4. Denied(b, b.lastRefill + t) <=> ~TokenBucketAllow(b, b.lastRefill + t).decision.Allowed
  BY DEF Denied, Answer, check
<1> QED
  BY <1>2, <1>3, <1>4, Zenon

\* The times a bucket tells that misses some of "full" units: the next tick after
\* them it does not, any tick before them it still misses a whole tick's refill.
LEMMA TimesTold ==
  ASSUME NEW k \in Int, NEW at \in 0 .. MaxClock, NEW full \in Nat, k < full,
         Rate > 0, Solvent(k, at), TimesFit(full)
  PROVE  LET d == ToDuration((full - k) \div Rate)
         IN  /\ d \in Nat
             /\ \A t \in Int : /\ t < d => k + t * Rate <= full - Rate
                               /\ t > d => k + t * Rate > full
<1> DEFINE q == (full - k) \div Rate
<1>1. Rate \in Nat \ {0} /\ full - k \in Int
  BY ServiceAssumption
<1>2. q \in Int /\ full - k < (q + 1) * Rate
  BY <1>1, Quotient
<1>3. ToDuration(q) = q
  BY WaitFits
<1>4. \A t \in Int : /\ t < q => t * Rate <= (full - k) - Rate
                     /\ t > q => t * Rate > full - k
  BY <1>1, WaitIsTight
<1> HIDE DEF q
<1>5. q \in Nat
  <2>1. CASE q + 1 <= 0
    <3>1. (q + 1) * Rate <= 0 * Rate
      BY <1>1, <1>2, <2>1, ProductMonotone
    <3>2. (q + 1) * Rate \in Int
      BY <1>1, <1>2, IntProduct
    <3> QED
      BY <1>1, <1>2, <3>1, <3>2
  <2> QED
    BY <1>2, <2>1
<1>6. ASSUME NEW t \in Int
      PROVE  /\ t < q => k + t * Rate <= full - Rate
             /\ t > q => k + t * Rate > full
  <2> PICK gain \in Int : gain = t * Rate
    BY <1>1, IntProduct
  <2>1. /\ t < q => gain <= (full - k) - Rate
        /\ t > q => gain > full - k
    BY <1>4
  <2>2. /\ t < q => k + gain <= full - Rate
        /\ t > q => k + gain > full
    BY <1>1, <2>1
  <2> QED
    BY <2>2
<1> QED
  BY <1>3, <1>5, <1>6 DEF q

\* The headers of an answer, from the bucket it leaves behind.
LEMMA HeadersOfAnswer ==
  ASSUME IInv, BucketSolvent, Rate > 0, TimesFit(Capacity)
  PROVE  HeadersTight
<1> DEFINE result == TokenBucketAllow(bucket, clock)
           left   == result.limiter
           k      == left.tokens
           d      == result.decision
           answer == Answer(bucket, clock)
<1>0. /\ Capacity \in Nat /\ Unit \in Nat /\ Unit <= Capacity /\ Rate \in Nat \ {0}
      /\ MaxClock \in Nat /\ MaxDuration \in Nat /\ Second \in Nat \ {0}
  BY ServiceAssumption, UnitAssumption, DurationAssumption, SecondAssumption
<1>1. bucket \in Buckets /\ clock \in 0 .. MaxClock /\ clock \in Nat /\ bucket.tokens <= Capacity
  BY <1>0 DEF IInv, TypeOK, Buckets
<1>2. /\ left \in Buckets /\ left.lastRefill = clock /\ k <= Capacity /\ k \in Int
      /\ left.capacity = Capacity /\ left.refillRate = Rate
      /\ d.Allowed \in BOOLEAN /\ (~d.Allowed => k < Unit)
  <2>1. /\ left \in Buckets /\ left.lastRefill = clock /\ k <= Capacity /\ d.Allowed \in BOOLEAN
        /\ d.Allowed <=> Refill(bucket, clock).tokens >= Unit
        /\ ~(Refill(bucket, clock).tokens >= Unit) => k = Refill(bucket, clock).tokens
    BY <1>1, AllowEffect
  <2>2. Refill(bucket, clock).tokens \in Int
    BY <1>1, RefillType DEF Buckets
  <2> HIDE DEF left, d
  <2>3. left.tokens \in Int /\ left.capacity = Capacity /\ left.refillRate = Rate
    BY <2>1 DEF Buckets
  <2> HIDE DEF k
  <2>4. ~(Refill(bucket, clock).tokens >= Unit) => k < Unit
    <3> PICK found \in Int : found = Refill(bucket, clock).tokens
      BY <2>2
    <3> QED
      BY <1>0, <2>1
  <2> QED
    BY <2>1, <2>3, <2>4 DEF k
<1>3. Solvent(k, clock)
  BY <1>1, AllowSolvent DEF BucketSolvent
<1>4. /\ d.RetryAfter = retryAfter(left, d.Allowed) /\ d.ResetAfter = resetAfter(left)
      /\ Left(bucket, clock) = left
      /\ answer.status = IF d.Allowed THEN 200 ELSE 429
      /\ answer.Reset = formatSeconds(d.ResetAfter)
      /\ ~d.Allowed => answer.RetryAfter = <<formatSecondsCeil(d.RetryAfter)>>
  BY DEF TokenBucketAllow, Left, Answer, check
<1> HIDE DEF result, left, k, d, answer
<1>5. \A t \in Nat : /\ Refill(left, clock + t).tokens = MinOf(Capacity, k + t * Rate)
                     /\ Denied(left, clock + t) <=> ~(MinOf(Capacity, k + t * Rate) >= Unit)
                     /\ t * Rate \in Int
  <2> TAKE t \in Nat
  <2>1. t * Rate \in Int
    BY <1>0, IntProduct
  <2> QED
    BY <1>2, <2>1, LaterFinds DEF k
<1>6. ASSUME answer.status = 429
      PROVE  LET wait == answer.RetryAfter[1] * Second
             IN  /\ ~Denied(left, clock + wait + 1)
                 /\ \A t \in 0 .. wait - Second : Denied(left, clock + t)
  <2> DEFINE q    == ToDuration((Unit - k) \div Rate)
             wait == formatSecondsCeil(q) * Second
  <2>1. ~d.Allowed /\ k < Unit
    BY <1>2, <1>4, <1>6
  <2>2. TimesFit(Unit)
    <3>1. MaxClock * Rate \in Int /\ MaxDuration * Rate \in Int
      BY <1>0, IntProduct
    <3> QED
      BY <1>0, <3>1 DEF TimesFit
  <2>3. /\ q \in Nat
        /\ \A t \in Int : /\ t < q => k + t * Rate <= Unit - Rate
                          /\ t > q => k + t * Rate > Unit
    BY <1>0, <1>1, <1>2, <1>3, <2>1, <2>2, TimesTold
  <2>4. d.RetryAfter = q
    <3>1. retryAfter(left, FALSE) = q
      BY <1>0, <1>2 DEF retryAfter, k
    <3>2. d.Allowed = FALSE
      BY <1>2, <2>1
    <3> QED
      BY <1>4, <3>1, <3>2
  <2>5. answer.RetryAfter[1] * Second = wait
    BY <1>4, <2>1, <2>4
  <2> HIDE DEF q
  <2>6. wait \in Nat /\ q <= wait /\ wait - Second < q
    BY <2>3, Seconds
  <2> HIDE DEF wait
  <2>7. ~Denied(left, clock + (wait + 1))
    <3> PICK t \in Nat : t = wait + 1
      BY <2>6
    <3>1. t > q
      BY <2>3, <2>6
    <3> PICK gain \in Int : gain = t * Rate
      BY <1>5
    <3>2. k + gain > Unit
      BY <2>3, <3>1
    <3>3. MinOf(Capacity, k + gain) >= Unit
      BY <1>0, <1>2, <3>2 DEF MinOf
    <3> QED
      BY <1>5, <3>3
  <2>8. ASSUME NEW t \in 0 .. wait - Second PROVE Denied(left, clock + t)
    <3>1. t \in Nat /\ t < q
      BY <1>0, <2>3, <2>6
    <3> PICK gain \in Int : gain = t * Rate
      BY <1>5, <3>1
    <3>2. k + gain <= Unit - Rate
      BY <2>3, <3>1
    <3>3. ~(MinOf(Capacity, k + gain) >= Unit)
      BY <1>0, <1>2, <3>2 DEF MinOf
    <3> QED
      BY <1>5, <3>1, <3>3
  <2>9. clock + (wait + 1) = clock + wait + 1
    BY <1>1, <2>6
  <2> QED
    BY <2>5, <2>7, <2>8, <2>9
<1>7. LET reset == answer.Reset * Second
      IN  /\ Refill(left, clock + reset + Second).tokens = Capacity
          /\ \A t \in 0 .. reset - 1 : Refill(left, clock + t).tokens < Capacity
  <2> PICK r \in Nat : /\ r = d.ResetAfter
                       /\ \A t \in Nat : t > r => k + t * Rate >= Capacity
                       /\ \A t \in Nat : t < r => k + t * Rate < Capacity
    <3>1. CASE k >= Capacity
      <4>1. d.ResetAfter = 0
        BY <1>2, <1>4, <3>1 DEF resetAfter, k
      <4>2. ASSUME NEW t \in Nat PROVE k + t * Rate >= Capacity
        <5> PICK gain \in Nat : gain = t * Rate
          BY <1>0, NatProduct
        <5> QED
          BY <1>0, <1>2, <3>1
      <4> QED
        BY <4>1, <4>2
    <3>2. CASE k < Capacity
      <4> DEFINE q == ToDuration((Capacity - k) \div Rate)
      <4>1. /\ q \in Nat
            /\ \A t \in Int : /\ t < q => k + t * Rate <= Capacity - Rate
                              /\ t > q => k + t * Rate > Capacity
        BY <1>0, <1>1, <1>2, <1>3, <3>2, TimesTold
      <4>2. d.ResetAfter = q
        <5>1. left.tokens < left.capacity /\ left.tokens \in Int /\ left.capacity \in Int
          BY <1>0, <1>2, <3>2 DEF k
        <5>2. ~(left.tokens >= left.capacity) /\ ~(left.refillRate <= 0)
          BY <1>0, <1>2, <5>1
        <5> QED
          BY <1>2, <1>4, <5>2, Zenon DEF resetAfter, k
      <4> HIDE DEF q
      <4>3. ASSUME NEW t \in Nat
            PROVE  (t > q => k + t * Rate >= Capacity) /\ (t < q => k + t * Rate < Capacity)
        <5> PICK gain \in Int : gain = t * Rate
          BY <1>5
        <5> QED
          BY <1>0, <1>2, <4>1
      <4> QED
        BY <4>1, <4>2, <4>3
    <3> QED
      BY <1>0, <1>2, <3>1, <3>2
  <2> DEFINE reset == formatSeconds(r) * Second
  <2>1. answer.Reset * Second = reset
    BY <1>4
  <2>2. reset \in Nat /\ reset <= r /\ r < reset + Second
    BY Seconds
  <2> HIDE DEF reset
  <2>3. Refill(left, clock + (reset + Second)).tokens = Capacity
    <3> PICK t \in Nat : t = reset + Second
      BY <1>0, <2>2
    <3>1. t > r
      BY <2>2
    <3> PICK gain \in Int : gain = t * Rate
      BY <1>5
    <3>2. k + gain >= Capacity
      BY <3>1
    <3>3. MinOf(Capacity, k + gain) = Capacity
      BY <1>0, <1>2, <3>2 DEF MinOf
    <3> QED
      BY <1>5, <3>3
  <2>4. ASSUME NEW t \in 0 .. reset - 1 PROVE Refill(left, clock + t).tokens < Capacity
    <3>1. t \in Nat /\ t < r
      BY <2>2
    <3> PICK gain \in Int : gain = t * Rate
      BY <1>5, <3>1
    <3>2. k + gain < Capacity
      BY <3>1
    <3>3. MinOf(Capacity, k + gain) < Capacity
      BY <1>0, <1>2, <3>2 DEF MinOf
    <3> QED
      BY <1>5, <3>1, <3>3
  <2>5. clock + (reset + Second) = clock + reset + Second
    BY <1>0, <1>1, <2>2
  <2> QED
    BY <2>1, <2>3, <2>4, <2>5
<1> QED
  BY <1>4, <1>6, <1>7 DEF HeadersTight, answer

\* Retry-After and Reset are right to a second and a tick (check.go:36, 71-72),
\* whatever the bucket went through, for every rate that Validate accepts, as long
\* as the times fit into a Duration.
THEOREM HeadersAreTight ==
  ASSUME Rate > 0, TimesFit(Capacity)
  PROVE  Spec => []HeadersTight
<1>1. IInv /\ BucketSolvent => HeadersTight
  BY HeadersOfAnswer
<1> QED
  BY <1>1, InitIInv, StepIInv, InitSolvent, StepSolvent, PTL DEF Spec
=============================================================================
