--------------------------- MODULE LoadtestProofs ---------------------------
(***************************************************************************)
(* Theorems of the load test and of the dashboard that watches it, for     *)
(* every number of workers and requests, capacity, rate and tolerance:     *)
(* the tallies are right, so is the verdict main makes of them, and the    *)
(* rates shown add up to the decisions made.                               *)
(***************************************************************************)
EXTENDS Dashboard, Arithmetic, FiniteSetTheorems

Places == {"claim", "get", "answer", "publish", "leave", "done"}
Requests == [start : Nat, status : {0, 200, 429, 502}]
Counts == [allowed : Nat, denied : Nat]
Buckets == [type : {AlgorithmTokenBucket}, tokens : Int, lastRefill : Nat,
            capacity : {Capacity}, refillRate : {Rate}]

\* A worker that waits for an answer has a status to come.
Typed ==
  /\ n \in Nat /\ sent \in Nat /\ allowed \in Nat /\ denied \in Nat /\ errs \in Nat
  /\ pc \in [Workers -> Places] /\ request \in [Workers -> Requests]
  /\ bucket \in Buckets /\ counts \in Counts
  /\ clock \in Nat /\ faults \in Nat
  /\ bucket.lastRefill <= clock
  /\ \A w \in Workers : pc[w] = "answer" => request[w].status # 0

\* What a request finds in the bucket: it refills, capped.
Found(b, now) == MinOf(Capacity, b.tokens + (now - b.lastRefill) * Rate)

\* The server's one step: it refills and takes a whole token if there is one
\* (tokenbucket.go:90-123).
LEMMA AllowEffect ==
  ASSUME NEW b \in Buckets, NEW now \in Nat
  PROVE  LET result == TokenBucketAllow(b, now)
             found  == Found(b, now)
         IN  /\ found \in Int /\ found <= Capacity
             /\ result.limiter \in Buckets
             /\ result.limiter.lastRefill = now
             /\ result.limiter.tokens = IF found >= Unit THEN found - Unit ELSE found
             /\ result.decision.Allowed <=> found >= Unit
<1> DEFINE gain == (now - b.lastRefill) * Rate
           refilled == Refill(b, now)
           result == TokenBucketAllow(b, now)
<1>1. /\ b.tokens \in Int /\ b.lastRefill \in Nat /\ b.capacity = Capacity
      /\ b.refillRate = Rate /\ Capacity \in Int /\ Rate \in Nat /\ Unit \in Nat
  BY LoadAssumption, UnitAssumption DEF Buckets
<1>2. gain \in Int
  BY <1>1, IntProduct
<1>3. refilled = [b EXCEPT !.tokens = Found(b, now), !.lastRefill = now]
  BY <1>1 DEF Refill, Found
<1>4. Found(b, now) = MinOf(Capacity, b.tokens + gain)
  BY DEF Found
<1> HIDE DEF gain
<1>5. Found(b, now) \in Int /\ Found(b, now) <= Capacity
  BY <1>1, <1>2, <1>4 DEF MinOf
<1> HIDE DEF refilled
<1>6. /\ refilled \in Buckets /\ refilled.tokens = Found(b, now) /\ refilled.lastRefill = now
  BY <1>3, <1>5 DEF Buckets
<1>7. /\ result.limiter = IF refilled.tokens >= Unit
                            THEN [refilled EXCEPT !.tokens = @ - Unit] ELSE refilled
      /\ result.decision.Allowed <=> refilled.tokens >= Unit
  BY DEF TokenBucketAllow, refilled
<1> HIDE DEF result
<1>8. /\ result.limiter \in Buckets /\ result.limiter.lastRefill = now
      /\ result.limiter.tokens
           = IF refilled.tokens >= Unit THEN refilled.tokens - Unit ELSE refilled.tokens
  BY <1>1, <1>6, <1>7 DEF Buckets
<1> QED
  BY <1>5, <1>6, <1>7, <1>8 DEF result

-----------------------------------------------------------------------------
\* The workers with a request under way, and those whose answer, of status s, is.
Sending(at) == {w \in Workers : at[w] \in {"get", "answer"}}
Bringing(at, req, s) == {w \in Workers : at[w] = "answer" /\ req[w].status = s}

Busy(at) == IF at \in {"get", "answer"} THEN 1 ELSE 0
Brings(at, q, s) == IF at = "answer" /\ q.status = s THEN 1 ELSE 0

LEMMA BusyType ==
  /\ \A at : Busy(at) \in {0, 1}
  /\ \A at, q, s : Brings(at, q, s) \in {0, 1}
BY DEF Busy, Brings

LEMMA PoolCounts ==
  /\ \A at : IsFiniteSet(Sending(at)) /\ Cardinality(Sending(at)) \in Nat
  /\ \A at, req, s : /\ IsFiniteSet(Bringing(at, req, s))
                     /\ Cardinality(Bringing(at, req, s)) \in Nat
<1>1. IsFiniteSet(Workers)
  BY LoadAssumption
<1>2. ASSUME NEW at PROVE IsFiniteSet(Sending(at)) /\ Cardinality(Sending(at)) \in Nat
  <2>1. Sending(at) \in SUBSET Workers
    BY DEF Sending
  <2> QED
    BY <1>1, <2>1, FS_Subset, FS_CardinalityType
<1>3. ASSUME NEW at, NEW req, NEW s
      PROVE  /\ IsFiniteSet(Bringing(at, req, s))
             /\ Cardinality(Bringing(at, req, s)) \in Nat
  <2>1. Bringing(at, req, s) \in SUBSET Workers
    BY DEF Bringing
  <2> QED
    BY <1>1, <2>1, FS_Subset, FS_CardinalityType
<1> QED
  BY <1>2, <1>3

\* One element enters or leaves a finite set of workers, or neither.
LEMMA OneMoves ==
  ASSUME NEW S, NEW T, NEW w, IsFiniteSet(S), T \ {w} = S \ {w}
  PROVE  Cardinality(T) = Cardinality(S) + (IF w \in T THEN 1 ELSE 0) - (IF w \in S THEN 1 ELSE 0)
<1>1. Cardinality(S) \in Nat
  BY FS_CardinalityType
<1>2. CASE w \in T /\ w \notin S
  <2>1. T = S \cup {w}
    BY <1>2
  <2>2. Cardinality(T) = Cardinality(S) + 1
    BY <1>2, <2>1, FS_AddElement
  <2> QED
    BY <1>1, <1>2, <2>2
<1>3. CASE w \notin T /\ w \in S
  <2>1. T = S \ {w}
    BY <1>3
  <2>2. Cardinality(T) = Cardinality(S) - 1
    BY <1>3, <2>1, FS_RemoveElement
  <2> QED
    BY <1>1, <1>3, <2>2
<1>4. CASE (w \in T) <=> (w \in S)
  <2>1. T = S
    BY <1>4
  <2> QED
    BY <1>1, <2>1
<1> QED
  BY <1>2, <1>3, <1>4
-----------------------------------------------------------------------------
\* What the actions do, each as one move of one worker.
Moves(w, to, q) ==
  /\ pc' = [pc EXCEPT ![w] = to] /\ request' = [request EXCEPT ![w] = q]
  /\ n' = n /\ report' = report /\ clock' = clock

HasToken == Found(bucket, clock) >= Unit

Decided ==
  /\ counts' = [allowed |-> counts.allowed + (IF HasToken THEN 1 ELSE 0),
                denied |-> counts.denied + (IF HasToken THEN 0 ELSE 1)]
  /\ bucket' \in Buckets /\ bucket'.lastRefill = clock
  /\ bucket'.tokens = Found(bucket, clock) - (IF HasToken THEN Unit ELSE 0)

LEMMA DecidesEffect == Typed /\ ServerDecides => Decided
<1> SUFFICES ASSUME Typed, ServerDecides PROVE Decided
  OBVIOUS
<1> USE DEF Typed
<1>0. /\ bucket \in Buckets /\ clock \in Nat /\ Unit \in Nat /\ counts \in Counts
      /\ Result = TokenBucketAllow(bucket, clock)
  BY UnitAssumption DEF Result
<1>1. /\ Result.limiter \in Buckets /\ Result.limiter.lastRefill = clock
      /\ Found(bucket, clock) \in Int
      /\ Result.limiter.tokens = IF HasToken THEN Found(bucket, clock) - Unit ELSE Found(bucket, clock)
      /\ Result.decision.Allowed <=> HasToken
  BY <1>0, AllowEffect DEF HasToken
<1>2. /\ bucket' = Result.limiter
      /\ counts' = IF Result.decision.Allowed THEN [counts EXCEPT !.allowed = @ + 1]
                                              ELSE [counts EXCEPT !.denied = @ + 1]
  BY DEF ServerDecides
<1>3. counts' = [allowed |-> counts.allowed + (IF HasToken THEN 1 ELSE 0),
                 denied |-> counts.denied + (IF HasToken THEN 0 ELSE 1)]
  <2>1. CASE HasToken
    BY <1>0, <1>1, <1>2, <2>1 DEF Counts
  <2>2. CASE ~HasToken
    BY <1>0, <1>1, <1>2, <2>2 DEF Counts
  <2> QED
    BY <2>1, <2>2
<1>4. bucket'.tokens = Found(bucket, clock) - (IF HasToken THEN Unit ELSE 0)
  BY <1>0, <1>1, <1>2
<1> QED
  BY <1>1, <1>2, <1>3, <1>4 DEF Decided

LEMMA ClaimEffect ==
  ASSUME Typed, NEW w \in Workers, Claim(w)
  PROVE  \E q \in Requests :
           /\ Moves(w, IF sent + 1 > n THEN "publish" ELSE "get", q)
           /\ pc[w] = "claim" /\ sent' = sent + 1
           /\ UNCHANGED <<allowed, denied, errs, bucket, counts, faults>>
<1> DEFINE q == [request[w] EXCEPT !.start = IF pc'[w] = "get" THEN clock ELSE 0]
<1>1. q \in Requests
  BY DEF Typed, Requests
<1>2. request' = [request EXCEPT ![w] = q]
  BY DEF Claim
<1>3. pc' = [pc EXCEPT ![w] = IF sent + 1 > n THEN "publish" ELSE "get"]
  BY DEF Claim, Goto, AfterClaim
<1>4. /\ pc[w] = "claim" /\ sent' = sent + 1 /\ n' = n /\ report' = report /\ clock' = clock
      /\ UNCHANGED <<allowed, denied, errs, bucket, counts, faults>>
  BY DEF Claim, server
<1> HIDE DEF q
<1> QED
  BY <1>1, <1>2, <1>3, <1>4, Zenon DEF Moves

LEMMA ServeEffect ==
  ASSUME Typed, NEW w \in Workers, Serve(w)
  PROVE  \E q \in Requests :
           /\ q.status = IF HasToken THEN 200 ELSE 429
           /\ Moves(w, "answer", q) /\ Decided
           /\ pc[w] = "get"
           /\ UNCHANGED <<sent, allowed, denied, errs, faults>>
<1> DEFINE q == [request[w] EXCEPT !.status = IF HasToken THEN 200 ELSE 429]
<1>1. q \in Requests /\ q.status = IF HasToken THEN 200 ELSE 429
  BY DEF Typed, Requests
<1>2. Result.decision.Allowed <=> HasToken
  BY AllowEffect, UnitAssumption DEF Typed, HasToken, Result
<1>3. request' = [request EXCEPT ![w] = q]
  BY <1>2 DEF Serve
<1>4. /\ pc' = [pc EXCEPT ![w] = "answer"] /\ n' = n /\ report' = report /\ clock' = clock
      /\ pc[w] = "get" /\ ServerDecides
      /\ UNCHANGED <<sent, allowed, denied, errs, faults>>
  BY DEF Serve, Goto
<1>5. Decided
  BY <1>4, DecidesEffect
<1> HIDE DEF q
<1> QED
  BY <1>1, <1>3, <1>4, <1>5, Zenon DEF Moves

LEMMA BadGatewayEffect ==
  ASSUME Typed, NEW w \in Workers, BadGateway(w)
  PROVE  \E q \in Requests :
           /\ q.status = 502 /\ Moves(w, "answer", q) /\ pc[w] = "get" /\ faults' = faults + 1
           /\ UNCHANGED <<sent, allowed, denied, errs, bucket, counts>>
<1> DEFINE q == [request[w] EXCEPT !.status = 502]
<1>1. q \in Requests /\ q.status = 502
  BY DEF Typed, Requests
<1>2. request' = [request EXCEPT ![w] = q]
  BY DEF BadGateway
<1>3. /\ pc' = [pc EXCEPT ![w] = "answer"] /\ n' = n /\ report' = report /\ clock' = clock
      /\ pc[w] = "get" /\ faults' = faults + 1
      /\ UNCHANGED <<sent, allowed, denied, errs, bucket, counts>>
  BY DEF BadGateway, Goto, Fault, server
<1> HIDE DEF q
<1> QED
  BY <1>1, <1>2, <1>3, Zenon DEF Moves

LEMMA GetFailsEffect ==
  ASSUME Typed, NEW w \in Workers, GetFails(w)
  PROVE  /\ Moves(w, "claim", NoRequest) /\ pc[w] \in {"get", "answer"}
         /\ errs' = errs + 1 /\ faults' = faults + 1
         /\ UNCHANGED <<sent, allowed, denied, bucket, counts>>
BY DEF GetFails, Goto, Fault, server, Moves

LEMMA ReceiveEffect ==
  ASSUME Typed, NEW w \in Workers, Receive(w)
  PROVE  /\ Moves(w, "claim", NoRequest) /\ pc[w] = "answer"
         /\ request[w].status \in {200, 429, 502}
         /\ allowed' = allowed + Brings(pc[w], request[w], 200)
         /\ denied' = denied + Brings(pc[w], request[w], 429)
         /\ errs' = errs + Brings(pc[w], request[w], 502)
         /\ UNCHANGED <<sent, bucket, counts, faults>>
<1> DEFINE s == request[w].status
<1>1. s \in {200, 429, 502} /\ pc[w] = "answer"
  BY DEF Typed, Requests, Receive
<1>2. /\ Moves(w, "claim", NoRequest) /\ UNCHANGED <<sent, bucket, counts, faults>>
      /\ Tally(s)
  BY DEF Receive, Goto, server, Moves
<1>3. /\ Brings(pc[w], request[w], 200) = (IF s = 200 THEN 1 ELSE 0)
      /\ Brings(pc[w], request[w], 429) = (IF s = 429 THEN 1 ELSE 0)
      /\ Brings(pc[w], request[w], 502) = (IF s \notin {200, 429} THEN 1 ELSE 0)
  BY <1>1 DEF Brings
<1> HIDE DEF s
<1>4. /\ allowed' = allowed + (IF s = 200 THEN 1 ELSE 0)
      /\ denied' = denied + (IF s = 429 THEN 1 ELSE 0)
      /\ errs' = errs + (IF s \notin {200, 429} THEN 1 ELSE 0)
  BY <1>2, Zenon DEF Tally
<1>5. /\ allowed' = allowed + Brings(pc[w], request[w], 200)
      /\ denied' = denied + Brings(pc[w], request[w], 429)
      /\ errs' = errs + Brings(pc[w], request[w], 502)
  BY <1>3, <1>4
<1> QED
  BY <1>1, <1>2, <1>5, Zenon DEF s

\* A worker without a request walks on.
LEMMA WalkEffect ==
  ASSUME Typed, NEW w \in Workers, Publish(w) \/ Leave(w)
  PROVE  \E to \in {"leave", "done"} :
           /\ Moves(w, to, request[w]) /\ pc[w] \in {"publish", "leave"}
           /\ UNCHANGED <<sent, allowed, denied, errs, bucket, counts, faults>>
<1>1. request' = [request EXCEPT ![w] = request[w]]
  BY DEF Typed, Publish, Leave
<1>2. \E to \in {"leave", "done"} : pc' = [pc EXCEPT ![w] = to]
  BY DEF Publish, Leave, Goto
<1>3. /\ pc[w] \in {"publish", "leave"} /\ n' = n /\ report' = report /\ clock' = clock
      /\ UNCHANGED <<sent, allowed, denied, errs, bucket, counts, faults>>
  BY DEF Publish, Leave, server
<1> QED
  BY <1>1, <1>2, <1>3, Zenon DEF Moves

LEMMA PassOnEffect ==
  ASSUME Typed, NEW w \in Workers, PassOn(w)
  PROVE  /\ Decided /\ pc[w] = "get" /\ faults' = faults + 1
         /\ UNCHANGED <<n, pc, request, report, clock, sent, allowed, denied, errs>>
<1>1. ServerDecides
  BY DEF PassOn
<1>2. Decided
  BY <1>1, DecidesEffect
<1> QED
  BY <1>2 DEF PassOn, Fault, pool
-----------------------------------------------------------------------------
\* Typed is an invariant.
LEMMA MovesTyped ==
  ASSUME Typed, NEW w \in Workers, NEW to \in Places, NEW q \in Requests, Moves(w, to, q),
         to = "answer" => q.status # 0
  PROVE  /\ pc' \in [Workers -> Places] /\ request' \in [Workers -> Requests]
         /\ n' \in Nat /\ clock' \in Nat
         /\ \A v \in Workers : pc'[v] = "answer" => request'[v].status # 0
BY DEF Typed, Moves

LEMMA DecidedTyped ==
  ASSUME Typed, Decided, clock' = clock
  PROVE  bucket' \in Buckets /\ counts' \in Counts /\ bucket'.lastRefill <= clock'
BY DEF Typed, Decided, Counts

LEMMA InitTyped == Init => Typed
<1> SUFFICES ASSUME Init PROVE Typed
  OBVIOUS
<1>1. n \in Nat /\ Capacity \in Nat /\ Rate \in Nat
  BY LoadAssumption DEF Init, LoadInit
<1>2. bucket \in Buckets /\ bucket.lastRefill = 0
  BY <1>1 DEF Init, LoadInit, NewTokenBucket, Buckets
<1>3. /\ pc \in [Workers -> Places] /\ request \in [Workers -> Requests]
      /\ \A w \in Workers : pc[w] = "claim"
  BY DEF Init, LoadInit, Places, Requests, NoRequest
<1>4. counts \in Counts /\ sent = 0 /\ allowed = 0 /\ denied = 0 /\ errs = 0 /\ clock = 0 /\ faults = 0
  BY DEF Init, LoadInit, Counts
<1> QED
  BY <1>1, <1>2, <1>3, <1>4 DEF Typed

LEMMA StepTyped == Typed /\ [LoadNext]_loadVars => Typed'
<1> SUFFICES ASSUME Typed, [LoadNext]_loadVars PROVE Typed'
  OBVIOUS
<1>0. NoRequest \in Requests
  BY DEF NoRequest, Requests
<1>1. ASSUME NEW w \in Workers, Claim(w) PROVE Typed'
  <2>1. PICK q \in Requests : /\ Moves(w, IF sent + 1 > n THEN "publish" ELSE "get", q)
                              /\ sent' = sent + 1
                              /\ UNCHANGED <<allowed, denied, errs, bucket, counts, faults>>
    BY <1>1, ClaimEffect
  <2>2. PICK to \in {"publish", "get"} : to = IF sent + 1 > n THEN "publish" ELSE "get"
    OBVIOUS
  <2>3. to \in Places /\ to # "answer" /\ Moves(w, to, q)
    BY <2>1, <2>2 DEF Places
  <2>4. clock' = clock
    BY <2>3 DEF Moves
  <2> QED
    BY <2>1, <2>3, <2>4, MovesTyped DEF Typed
<1>2. ASSUME NEW w \in Workers, Serve(w) PROVE Typed'
  <2>1. PICK q \in Requests : /\ q.status = IF HasToken THEN 200 ELSE 429
                              /\ Moves(w, "answer", q) /\ Decided
                              /\ UNCHANGED <<sent, allowed, denied, errs, faults>>
    BY <1>2, ServeEffect
  <2>2. q.status # 0 /\ "answer" \in Places /\ clock' = clock
    BY <2>1 DEF Places, Moves
  <2> QED
    BY <2>1, <2>2, MovesTyped, DecidedTyped DEF Typed
<1>3. ASSUME NEW w \in Workers, PassOn(w) PROVE Typed'
  <2>1. /\ Decided /\ faults' = faults + 1
        /\ UNCHANGED <<n, pc, request, report, clock, sent, allowed, denied, errs>>
    BY <1>3, PassOnEffect
  <2> QED
    BY <2>1, DecidedTyped DEF Typed
<1>4. ASSUME NEW w \in Workers, BadGateway(w) PROVE Typed'
  <2>1. PICK q \in Requests : /\ q.status = 502 /\ Moves(w, "answer", q) /\ faults' = faults + 1
                              /\ UNCHANGED <<sent, allowed, denied, errs, bucket, counts>>
    BY <1>4, BadGatewayEffect
  <2>2. q.status # 0 /\ "answer" \in Places /\ clock' = clock
    BY <2>1 DEF Places, Moves
  <2> QED
    BY <2>1, <2>2, MovesTyped DEF Typed
<1>5. ASSUME NEW w \in Workers, GetFails(w) PROVE Typed'
  <2>1. /\ Moves(w, "claim", NoRequest) /\ errs' = errs + 1 /\ faults' = faults + 1
        /\ UNCHANGED <<sent, allowed, denied, bucket, counts>>
    BY <1>5, GetFailsEffect
  <2>2. "claim" \in Places /\ clock' = clock
    BY <2>1 DEF Places, Moves
  <2> QED
    BY <1>0, <2>1, <2>2, MovesTyped DEF Typed
<1>6. ASSUME NEW w \in Workers, Receive(w) PROVE Typed'
  <2>1. /\ Moves(w, "claim", NoRequest)
        /\ allowed' = allowed + Brings(pc[w], request[w], 200)
        /\ denied' = denied + Brings(pc[w], request[w], 429)
        /\ errs' = errs + Brings(pc[w], request[w], 502)
        /\ UNCHANGED <<sent, bucket, counts, faults>>
    BY <1>6, ReceiveEffect
  <2>2. "claim" \in Places /\ clock' = clock
    BY <2>1 DEF Places, Moves
  <2>3. allowed' \in Nat /\ denied' \in Nat /\ errs' \in Nat
    BY <2>1, BusyType DEF Typed
  <2> QED
    BY <1>0, <2>1, <2>2, <2>3, MovesTyped DEF Typed
<1>7. ASSUME NEW w \in Workers, Publish(w) \/ Leave(w) PROVE Typed'
  <2>1. PICK to \in {"leave", "done"} :
          /\ Moves(w, to, request[w])
          /\ UNCHANGED <<sent, allowed, denied, errs, bucket, counts, faults>>
    BY <1>7, WalkEffect
  <2>2. to \in Places /\ to # "answer" /\ clock' = clock /\ request[w] \in Requests
    BY <2>1 DEF Places, Moves, Typed
  <2> QED
    BY <2>1, <2>2, MovesTyped DEF Typed
<1>8. ASSUME Report PROVE Typed'
  <2>1. UNCHANGED <<n, pc, request, clock, sent, allowed, denied, errs, bucket, counts, faults>>
    BY <1>8, Zenon DEF Report, server
  <2> QED
    BY <2>1 DEF Typed
<1>9. ASSUME Tick PROVE Typed'
  <2>1. /\ UNCHANGED <<n, pc, request, sent, allowed, denied, errs, bucket, counts, faults>>
        /\ clock' = clock + 1
    BY <1>9 DEF Tick, pool, server
  <2>2. bucket.lastRefill \in Nat
    BY DEF Typed, Buckets
  <2> QED
    BY <2>1, <2>2 DEF Typed
<1>10. ASSUME UNCHANGED loadVars PROVE Typed'
  BY <1>10 DEF Typed, loadVars, pool, server
<1> QED
  BY <1>1, <1>2, <1>3, <1>4, <1>5, <1>6, <1>7, <1>8, <1>9, <1>10, Zenon DEF LoadNext, Work

-----------------------------------------------------------------------------
\* Numbers of workers: with a request under way, and with an answer of each kind.
Sends == Cardinality(Sending(pc))
Yeses == Cardinality(Bringing(pc, request, 200))
Noes  == Cardinality(Bringing(pc, request, 429))
Bads  == Cardinality(Bringing(pc, request, 502))

LEMMA NumbersType ==
  /\ Sends \in Nat /\ Yeses \in Nat /\ Noes \in Nat /\ Bads \in Nat
  /\ Sends' \in Nat /\ Yeses' \in Nat /\ Noes' \in Nat /\ Bads' \in Nat
BY PoolCounts DEF Sends, Yeses, Noes, Bads

\* What a move of one worker makes of them.
LEMMA MoveSending ==
  ASSUME Typed, NEW w \in Workers, NEW to, NEW q, Moves(w, to, q)
  PROVE  Sends' = Sends + Busy(to) - Busy(pc[w])
<1> DEFINE S == Sending(pc)
           T == Sending(pc')
<1>0. pc \in [Workers -> Places] /\ pc' = [pc EXCEPT ![w] = to]
  BY DEF Typed, Moves
<1>1. T \ {w} = S \ {w}
  BY <1>0 DEF Sending
<1>2. IsFiniteSet(S)
  BY PoolCounts
<1>3. (w \in T <=> to \in {"get", "answer"}) /\ (w \in S <=> pc[w] \in {"get", "answer"})
  BY <1>0 DEF Sending
<1>4. Sends = Cardinality(S) /\ Sends' = Cardinality(T)
  BY DEF Sends, Sending
<1>5. Busy(to) = (IF w \in T THEN 1 ELSE 0) /\ Busy(pc[w]) = (IF w \in S THEN 1 ELSE 0)
  BY <1>3 DEF Busy
<1> HIDE DEF S, T
<1>6. Cardinality(T) = Cardinality(S) + (IF w \in T THEN 1 ELSE 0) - (IF w \in S THEN 1 ELSE 0)
  BY <1>1, <1>2, OneMoves
<1> QED
  BY <1>4, <1>5, <1>6

LEMMA MoveBringing ==
  ASSUME Typed, NEW w \in Workers, NEW to, NEW q, Moves(w, to, q), NEW s
  PROVE  Cardinality(Bringing(pc', request', s))
           = Cardinality(Bringing(pc, request, s)) + Brings(to, q, s) - Brings(pc[w], request[w], s)
<1> DEFINE S == Bringing(pc, request, s)
           T == Bringing(pc', request', s)
<1>0. /\ pc \in [Workers -> Places] /\ request \in [Workers -> Requests]
      /\ pc' = [pc EXCEPT ![w] = to] /\ request' = [request EXCEPT ![w] = q]
  BY DEF Typed, Moves
<1>1. T \ {w} = S \ {w}
  BY <1>0 DEF Bringing
<1>2. IsFiniteSet(S)
  BY PoolCounts
<1>3. /\ w \in T <=> (to = "answer" /\ q.status = s)
      /\ w \in S <=> (pc[w] = "answer" /\ request[w].status = s)
  BY <1>0 DEF Bringing
<1>4. Brings(to, q, s) = (IF w \in T THEN 1 ELSE 0) /\ Brings(pc[w], request[w], s) = (IF w \in S THEN 1 ELSE 0)
  BY <1>3 DEF Brings
<1> HIDE DEF S, T
<1>5. Cardinality(T) = Cardinality(S) + (IF w \in T THEN 1 ELSE 0) - (IF w \in S THEN 1 ELSE 0)
  BY <1>1, <1>2, OneMoves
<1>6. Cardinality(T) = Cardinality(S) + Brings(to, q, s) - Brings(pc[w], request[w], s)
  BY <1>4, <1>5
<1> QED
  BY <1>6, Zenon DEF S, T

LEMMA MovesNumbers ==
  ASSUME Typed, NEW w \in Workers, NEW to, NEW q, Moves(w, to, q)
  PROVE  /\ Sends' = Sends + Busy(to) - Busy(pc[w])
         /\ Yeses' = Yeses + Brings(to, q, 200) - Brings(pc[w], request[w], 200)
         /\ Noes' = Noes + Brings(to, q, 429) - Brings(pc[w], request[w], 429)
         /\ Bads' = Bads + Brings(to, q, 502) - Brings(pc[w], request[w], 502)
<1>1. /\ Yeses' = Cardinality(Bringing(pc', request', 200))
      /\ Noes' = Cardinality(Bringing(pc', request', 429))
      /\ Bads' = Cardinality(Bringing(pc', request', 502))
  BY DEF Yeses, Noes, Bads, Bringing
<1>2. ASSUME NEW s
      PROVE  Cardinality(Bringing(pc', request', s))
               = Cardinality(Bringing(pc, request, s)) + Brings(to, q, s) - Brings(pc[w], request[w], s)
  BY MoveBringing
<1> QED
  BY <1>1, <1>2, MoveSending DEF Yeses, Noes, Bads

LEMMA SameNumbers ==
  ASSUME UNCHANGED <<pc, request>>
  PROVE  Sends' = Sends /\ Yeses' = Yeses /\ Noes' = Noes /\ Bads' = Bads
BY DEF Sends, Yeses, Noes, Bads, Sending, Bringing

\* Every request claimed is under way or tallied.
Claimed(size, s, a, d, e, i) == a + d + e + i = MinOf(s, size)

\* The tallies a, d, e and the answers y, no, bad under way account for the
\* server's counts c, but for f faults.
Accounts(a, d, e, f, c, y, no, bad) ==
  /\ a + y <= c.allowed
  /\ d + no <= c.denied
  /\ c.allowed + c.denied <= a + d + f + y + no
  /\ e + bad <= f

Balanced ==
  /\ Claimed(n, sent, allowed, denied, errs, Sends)
  /\ Accounts(allowed, denied, errs, faults, counts, Yeses, Noes, Bads)

LEMMA InitBalanced == Init => Balanced
<1> SUFFICES ASSUME Init PROVE Balanced
  OBVIOUS
<1>1. \A w \in Workers : pc[w] = "claim"
  BY DEF Init, LoadInit
<1>2. Sends = 0 /\ Yeses = 0 /\ Noes = 0 /\ Bads = 0
  <2>1. Sending(pc) = {} /\ \A s : Bringing(pc, request, s) = {}
    BY <1>1 DEF Sending, Bringing
  <2> QED
    BY <2>1, FS_EmptySet DEF Sends, Yeses, Noes, Bads
<1>3. /\ n \in Nat /\ sent = 0 /\ allowed = 0 /\ denied = 0 /\ errs = 0 /\ faults = 0
      /\ counts = [allowed |-> 0, denied |-> 0]
  BY LoadAssumption DEF Init, LoadInit
<1> QED
  BY <1>2, <1>3 DEF Balanced, Claimed, Accounts, MinOf

LEMMA ClaimedSame ==
  ASSUME NEW size \in Nat, NEW s \in Nat, NEW a \in Nat, NEW d \in Nat, NEW e \in Nat, NEW i \in Nat,
         NEW a1 \in Nat, NEW d1 \in Nat, NEW e1 \in Nat, NEW i1 \in Nat,
         Claimed(size, s, a, d, e, i), a1 + d1 + e1 + i1 = a + d + e + i
  PROVE  Claimed(size, s, a1, d1, e1, i1)
BY DEF Claimed

\* The server decides a request, j for it; f1 of its answers are passed over.
LEMMA AccountsDecide ==
  ASSUME NEW a \in Nat, NEW d \in Nat, NEW e \in Nat, NEW f \in Nat, NEW c \in Counts,
         NEW y \in Nat, NEW no \in Nat, NEW bad \in Nat, NEW j \in {0, 1}, NEW c1,
         c1 = [allowed |-> c.allowed + j, denied |-> c.denied + (1 - j)],
         Accounts(a, d, e, f, c, y, no, bad)
  PROVE  /\ Accounts(a, d, e, f, c1, y + j, no + (1 - j), bad)
         /\ Accounts(a, d, e, f + 1, c1, y, no, bad)
         /\ Accounts(a, d, e, f + 1, c, y, no, bad + 1)
BY DEF Accounts, Counts

LEMMA StepBalanced == Typed /\ Typed' /\ Balanced /\ [LoadNext]_loadVars => Balanced'
<1> SUFFICES ASSUME Typed, Typed', Balanced, [LoadNext]_loadVars PROVE Balanced'
  OBVIOUS
<1> DEFINE After == /\ Claimed(n', sent', allowed', denied', errs', Sends')
                    /\ Accounts(allowed', denied', errs', faults', counts', Yeses', Noes', Bads')
<1>a. After => Balanced'
  BY DEF Balanced
<1>b. /\ n \in Nat /\ sent \in Nat /\ allowed \in Nat /\ denied \in Nat /\ errs \in Nat /\ faults \in Nat
      /\ counts \in Counts /\ Sends \in Nat /\ Yeses \in Nat /\ Noes \in Nat /\ Bads \in Nat
      /\ allowed' \in Nat /\ denied' \in Nat /\ errs' \in Nat /\ Sends' \in Nat
  BY NumbersType DEF Typed
<1>c. /\ Claimed(n, sent, allowed, denied, errs, Sends)
      /\ Accounts(allowed, denied, errs, faults, counts, Yeses, Noes, Bads)
  BY DEF Balanced
<1>d. PICK j \in {0, 1} : j = IF HasToken THEN 1 ELSE 0
  OBVIOUS
<1>e. /\ Busy("get") = 1 /\ Busy("answer") = 1 /\ Busy("claim") = 0 /\ Busy("publish") = 0
      /\ Busy("leave") = 0 /\ Busy("done") = 0
      /\ \A at, q, s : at # "answer" => Brings(at, q, s) = 0
  BY DEF Busy, Brings
<1> HIDE DEF After
<1>1. ASSUME NEW w \in Workers, Claim(w) PROVE Balanced'
  <2>1. PICK q \in Requests : /\ Moves(w, IF sent + 1 > n THEN "publish" ELSE "get", q)
                              /\ pc[w] = "claim" /\ sent' = sent + 1
                              /\ UNCHANGED <<allowed, denied, errs, bucket, counts, faults>>
    BY <1>1, ClaimEffect
  <2>2. PICK to \in {"publish", "get"} : to = IF sent + 1 > n THEN "publish" ELSE "get"
    OBVIOUS
  <2>3. Moves(w, to, q) /\ n' = n /\ to # "answer"
    BY <2>1, <2>2 DEF Moves
  <2>4. /\ Sends' = Sends + Busy(to) - Busy("claim")
        /\ Yeses' = Yeses + 0 - 0 /\ Noes' = Noes + 0 - 0 /\ Bads' = Bads + 0 - 0
    BY <1>e, <2>1, <2>3, MovesNumbers
  <2>5. Sends' = Sends + (IF sent + 1 > n THEN 0 ELSE 1)
    BY <1>b, <1>e, <2>2, <2>4
  <2>6. Claimed(n, sent + 1, allowed, denied, errs, Sends + (IF sent + 1 > n THEN 0 ELSE 1))
    BY <1>b, <1>c DEF Claimed, MinOf
  <2>7. Yeses' = Yeses /\ Noes' = Noes /\ Bads' = Bads
    BY <1>b, <2>4
  <2> QED
    BY <1>a, <1>c, <2>1, <2>3, <2>5, <2>6, <2>7, Zenon DEF After
<1>2. ASSUME NEW w \in Workers, Serve(w) PROVE Balanced'
  <2>1. PICK q \in Requests : /\ q.status = IF HasToken THEN 200 ELSE 429
                              /\ Moves(w, "answer", q) /\ Decided /\ pc[w] = "get"
                              /\ UNCHANGED <<sent, allowed, denied, errs, faults>>
    BY <1>2, ServeEffect
  <2>2. /\ Sends' = Sends + Busy("answer") - Busy("get")
        /\ Yeses' = Yeses + Brings("answer", q, 200) - 0
        /\ Noes' = Noes + Brings("answer", q, 429) - 0
        /\ Bads' = Bads + Brings("answer", q, 502) - 0
    BY <1>e, <2>1, MovesNumbers
  <2>3. Brings("answer", q, 200) = j /\ Brings("answer", q, 429) = 1 - j /\ Brings("answer", q, 502) = 0
    BY <1>d, <2>1 DEF Brings
  <2>4. Sends' = Sends /\ Yeses' = Yeses + j /\ Noes' = Noes + (1 - j) /\ Bads' = Bads
    BY <1>b, <1>e, <2>2, <2>3
  <2>5. PICK c1 : c1 = [allowed |-> counts.allowed + j, denied |-> counts.denied + (1 - j)]
    OBVIOUS
  <2>6. counts' = c1
    BY <1>d, <2>1, <2>5 DEF Decided
  <2>7. Accounts(allowed, denied, errs, faults, c1, Yeses + j, Noes + (1 - j), Bads)
    BY <1>b, <1>c, <2>5, AccountsDecide
  <2>8. n' = n
    BY <2>1 DEF Moves
  <2> QED
    BY <1>a, <1>c, <2>1, <2>4, <2>6, <2>7, <2>8, Zenon DEF After
<1>3. ASSUME NEW w \in Workers, PassOn(w) PROVE Balanced'
  <2>1. /\ Decided /\ pc[w] = "get" /\ faults' = faults + 1
        /\ UNCHANGED <<n, pc, request, report, clock, sent, allowed, denied, errs>>
    BY <1>3, PassOnEffect
  <2>2. Sends' = Sends /\ Yeses' = Yeses /\ Noes' = Noes /\ Bads' = Bads
    BY <2>1, SameNumbers
  <2>3. PICK c1 : c1 = [allowed |-> counts.allowed + j, denied |-> counts.denied + (1 - j)]
    OBVIOUS
  <2>4. counts' = c1
    BY <1>d, <2>1, <2>3 DEF Decided
  <2>5. Accounts(allowed, denied, errs, faults + 1, c1, Yeses, Noes, Bads)
    BY <1>b, <1>c, <2>3, AccountsDecide
  <2> QED
    BY <1>a, <1>c, <2>1, <2>2, <2>4, <2>5, Zenon DEF After
<1>4. ASSUME NEW w \in Workers, BadGateway(w) PROVE Balanced'
  <2>1. PICK q \in Requests : /\ q.status = 502 /\ Moves(w, "answer", q) /\ pc[w] = "get"
                              /\ faults' = faults + 1
                              /\ UNCHANGED <<sent, allowed, denied, errs, bucket, counts>>
    BY <1>4, BadGatewayEffect
  <2>2. /\ Sends' = Sends + Busy("answer") - Busy("get")
        /\ Yeses' = Yeses + Brings("answer", q, 200) - 0
        /\ Noes' = Noes + Brings("answer", q, 429) - 0
        /\ Bads' = Bads + Brings("answer", q, 502) - 0
    BY <1>e, <2>1, MovesNumbers
  <2>3. Brings("answer", q, 200) = 0 /\ Brings("answer", q, 429) = 0 /\ Brings("answer", q, 502) = 1
    BY <2>1 DEF Brings
  <2>4. Sends' = Sends /\ Yeses' = Yeses /\ Noes' = Noes /\ Bads' = Bads + 1
    BY <1>b, <1>e, <2>2, <2>3
  <2>5. Accounts(allowed, denied, errs, faults + 1, counts, Yeses, Noes, Bads + 1)
    BY <1>b, <1>c, <1>d, AccountsDecide
  <2>6. n' = n
    BY <2>1 DEF Moves
  <2> QED
    BY <1>a, <1>c, <2>1, <2>4, <2>5, <2>6, Zenon DEF After
<1>5. ASSUME NEW w \in Workers, GetFails(w) PROVE Balanced'
  <2>1. /\ Moves(w, "claim", NoRequest) /\ pc[w] \in {"get", "answer"}
        /\ errs' = errs + 1 /\ faults' = faults + 1
        /\ UNCHANGED <<sent, allowed, denied, bucket, counts>>
    BY <1>5, GetFailsEffect
  <2>2. PICK y, no, bad \in {0, 1} : /\ y = Brings(pc[w], request[w], 200)
                                     /\ no = Brings(pc[w], request[w], 429)
                                     /\ bad = Brings(pc[w], request[w], 502)
    BY BusyType
  <2>3. y + no + bad <= 1
    BY <2>2 DEF Brings
  <2>4. /\ Sends' = Sends + 0 - 1
        /\ Yeses' = Yeses + 0 - y /\ Noes' = Noes + 0 - no /\ Bads' = Bads + 0 - bad
    BY <1>e, <2>1, <2>2, MovesNumbers
  <2>5. Yeses' = Yeses - y /\ Noes' = Noes - no /\ Bads' = Bads - bad
    BY <1>b, <2>4
  <2>6. Accounts(allowed, denied, errs + 1, faults + 1, counts, Yeses - y, Noes - no, Bads - bad)
    BY <1>b, <1>c, <2>3 DEF Accounts, Counts
  <2>7. allowed' + denied' + errs' + Sends' = allowed + denied + errs + Sends
    BY <1>b, <2>1, <2>4
  <2>8. Claimed(n, sent, allowed', denied', errs', Sends')
    BY <1>b, <1>c, <2>7, ClaimedSame
  <2>9. n' = n
    BY <2>1 DEF Moves
  <2> QED
    BY <1>a, <2>1, <2>5, <2>6, <2>8, <2>9, Zenon DEF After
<1>6. ASSUME NEW w \in Workers, Receive(w) PROVE Balanced'
  <2>1. PICK y, no, bad \in {0, 1} : /\ y = Brings(pc[w], request[w], 200)
                                     /\ no = Brings(pc[w], request[w], 429)
                                     /\ bad = Brings(pc[w], request[w], 502)
    BY BusyType
  <2>2. /\ Moves(w, "claim", NoRequest) /\ pc[w] = "answer"
        /\ request[w].status \in {200, 429, 502}
        /\ allowed' = allowed + y /\ denied' = denied + no /\ errs' = errs + bad
        /\ UNCHANGED <<sent, bucket, counts, faults>>
    BY <1>6, <2>1, ReceiveEffect
  <2>3. y + no + bad = 1
    BY <2>1, <2>2 DEF Brings
  <2>4. /\ Sends' = Sends + 0 - 1
        /\ Yeses' = Yeses + 0 - y /\ Noes' = Noes + 0 - no /\ Bads' = Bads + 0 - bad
    BY <1>e, <2>1, <2>2, MovesNumbers
  <2>5. Yeses' = Yeses - y /\ Noes' = Noes - no /\ Bads' = Bads - bad
    BY <1>b, <2>4
  <2>6. Accounts(allowed + y, denied + no, errs + bad, faults, counts, Yeses - y, Noes - no, Bads - bad)
    BY <1>b, <1>c DEF Accounts, Counts
  <2>7. allowed' + denied' + errs' + Sends' = allowed + denied + errs + Sends
    BY <1>b, <2>1, <2>2, <2>3, <2>4
  <2>8. Claimed(n, sent, allowed', denied', errs', Sends')
    BY <1>b, <1>c, <2>7, ClaimedSame
  <2>9. n' = n
    BY <2>2 DEF Moves
  <2> QED
    BY <1>a, <2>2, <2>5, <2>6, <2>8, <2>9, Zenon DEF After
<1>7. ASSUME NEW w \in Workers, Publish(w) \/ Leave(w) PROVE Balanced'
  <2>1. PICK to \in {"leave", "done"} :
          /\ Moves(w, to, request[w]) /\ pc[w] \in {"publish", "leave"}
          /\ UNCHANGED <<sent, allowed, denied, errs, bucket, counts, faults>>
    BY <1>7, WalkEffect
  <2>2. /\ Sends' = Sends + 0 - 0
        /\ Yeses' = Yeses + 0 - 0 /\ Noes' = Noes + 0 - 0 /\ Bads' = Bads + 0 - 0
    BY <1>e, <2>1, MovesNumbers
  <2>3. Sends' = Sends /\ Yeses' = Yeses /\ Noes' = Noes /\ Bads' = Bads
    BY <1>b, <2>2
  <2>4. n' = n
    BY <2>1 DEF Moves
  <2> QED
    BY <1>a, <1>c, <2>1, <2>3, <2>4, Zenon DEF After
<1>8. ASSUME Report \/ Tick \/ UNCHANGED loadVars PROVE Balanced'
  <2>1. UNCHANGED <<n, pc, request, sent, allowed, denied, errs, bucket, counts, faults>>
    <3>1. CASE Report
      BY <3>1, Zenon DEF Report, server
    <3>2. CASE Tick \/ UNCHANGED loadVars
      BY <3>2 DEF Tick, loadVars, pool, server
    <3> QED
      BY <1>8, <3>1, <3>2
  <2>2. Sends' = Sends /\ Yeses' = Yeses /\ Noes' = Noes /\ Bads' = Bads
    BY <2>1, SameNumbers
  <2> QED
    BY <1>a, <1>c, <2>1, <2>2, Zenon DEF After
<1> QED
  BY <1>1, <1>2, <1>3, <1>4, <1>5, <1>6, <1>7, <1>8, Zenon DEF LoadNext, Work

-----------------------------------------------------------------------------
\* The dashboard changes nothing of the load test.
LEMMA LoadSteps == [Next]_vars => [LoadNext]_loadVars
BY DEF Next, LoadStep, DashboardNext, Poll, Deliver, PollFails, Render, vars

LoadInv == Typed /\ Balanced

LEMMA LoadInvariant == Spec => []LoadInv
<1>1. Init => LoadInv
  BY InitTyped, InitBalanced DEF LoadInv
<1>2. LoadInv /\ [Next]_vars => LoadInv'
  <2> SUFFICES ASSUME LoadInv, [Next]_vars PROVE LoadInv'
    OBVIOUS
  <2>1. [LoadNext]_loadVars /\ Typed /\ Balanced
    BY LoadSteps DEF LoadInv
  <2>2. Typed'
    BY <2>1, StepTyped
  <2>3. Balanced'
    BY <2>1, <2>2, StepBalanced
  <2> QED
    BY <2>2, <2>3 DEF LoadInv
<1> QED
  BY <1>1, <1>2, PTL DEF Spec

\* Every request is claimed by one worker and tallied once, for every number of
\* workers (main.go:101-144).
THEOREM EachIsTalliedOnce == Spec => []TalliedOnce
<1>1. LoadInv => TalliedOnce
  BY DEF LoadInv, Balanced, Claimed, TalliedOnce, Sends, Sending, InFlight
<1> QED
  BY <1>1, LoadInvariant, PTL

\* The tallies are the server's counts but for answers under way and faults
\* (main.go:129-143): an answer under way is a 200, a 429 or another, and no two
\* of them.
THEOREM TalliesAreTheServers == Spec => []TalliesMatchServer
<1>1. ASSUME LoadInv PROVE TalliesMatchServer
  <2> DEFINE A == {w \in Workers : pc[w] = "answer"}
             Y == Bringing(pc, request, 200)
             N == Bringing(pc, request, 429)
  <2>1. Y \subseteq A /\ N \subseteq A /\ Y \cap N = {}
    BY DEF Bringing
  <2>2. IsFiniteSet(A) /\ Cardinality(A) \in Nat
    <3>1. A \in SUBSET Workers /\ IsFiniteSet(Workers)
      BY LoadAssumption
    <3> QED
      BY <3>1, FS_Subset, FS_CardinalityType
  <2>3. /\ IsFiniteSet(Y) /\ IsFiniteSet(N) /\ Cardinality(Y) = Yeses /\ Cardinality(N) = Noes
        /\ Yeses \in Nat /\ Noes \in Nat
    BY PoolCounts, NumbersType DEF Yeses, Noes
  <2>4. Yeses + Noes <= Cardinality(A)
    <3> HIDE DEF A, Y, N
    <3>1. Cardinality(Y \cup N) = Cardinality(Y) + Cardinality(N) - Cardinality({})
      BY <2>1, <2>3, FS_Union
    <3>2. Y \cup N \in SUBSET A
      BY <2>1
    <3>3. Cardinality(Y \cup N) <= Cardinality(A)
      BY <2>2, <3>2, FS_Subset
    <3>4. Cardinality({}) = 0
      BY FS_EmptySet
    <3> QED
      BY <2>2, <2>3, <3>1, <3>3, <3>4
  <2>5. /\ allowed \in Nat /\ denied \in Nat /\ faults \in Nat
        /\ counts.allowed \in Nat /\ counts.denied \in Nat
    BY <1>1 DEF LoadInv, Typed, Counts
  <2>6. /\ allowed + Yeses <= counts.allowed
        /\ denied + Noes <= counts.denied
        /\ counts.allowed + counts.denied <= allowed + denied + faults + Yeses + Noes
    BY <1>1 DEF LoadInv, Balanced, Accounts
  <2>7. /\ allowed <= counts.allowed /\ denied <= counts.denied
        /\ counts.allowed + counts.denied <= allowed + denied + faults + Cardinality(A)
    <3> HIDE DEF A
    <3> QED
      BY <2>2, <2>3, <2>4, <2>5, <2>6
  <2> QED
    BY <2>7 DEF TalliesMatchServer
<1> QED
  BY <1>1, LoadInvariant, PTL

-----------------------------------------------------------------------------
\* The verdict.  ca allowed and cd denied requests leave k units at time "last":
\* the server let through no more than it had and was refilled, spent what it
\* had at the start before it denied a request, and wasted nothing.
Purse(ca, cd, k, last) ==
  /\ k \in 0 .. Capacity
  /\ ca * Unit + k <= Capacity + last * Rate
  /\ Capacity <= ca * Unit + k
  /\ cd > 0 => Capacity < ca * Unit + Unit

LEMMA PurseStep ==
  ASSUME NEW ca \in Nat, NEW cd \in Nat, NEW k \in Int, NEW last \in Nat, NEW now \in Nat,
         last <= now, Purse(ca, cd, k, last),
         NEW found, found = MinOf(Capacity, k + (now - last) * Rate)
  PROVE  /\ found >= Unit => Purse(ca + 1, cd, found - Unit, now)
         /\ ~(found >= Unit) => Purse(ca, cd + 1, found, now)
<1> DEFINE p == ca * Unit
           gain == (now - last) * Rate
           before == last * Rate
<1>1. Capacity \in Nat /\ Rate \in Nat /\ Unit \in Nat \ {0}
  BY LoadAssumption, UnitAssumption
<1>2. p \in Nat /\ gain \in Nat /\ before \in Nat
  <2>1. now - last \in Nat
    OBVIOUS
  <2> QED
    BY <1>1, <2>1, NatProduct
<1>3. now * Rate = before + gain
  <2>1. now = last + (now - last)
    OBVIOUS
  <2> QED
    BY <1>1, <2>1, ProductOfSum
<1>4. (ca + 1) * Unit = p + Unit
  <2>1. (ca + 1) * Unit = ca * Unit + 1 * Unit /\ 1 * Unit = Unit
    BY <1>1, ProductOfSum
  <2> QED
    BY <2>1
<1>5. /\ k \in 0 .. Capacity /\ p + k <= Capacity + before /\ Capacity <= p + k
      /\ cd > 0 => Capacity < p + Unit
  BY DEF Purse
<1>6. found = MinOf(Capacity, k + gain)
  OBVIOUS
<1> HIDE DEF p, gain, before
<1>7. /\ found \in 0 .. Capacity /\ k <= found /\ found <= k + gain
  BY <1>1, <1>2, <1>5, <1>6 DEF MinOf
<1>8. ASSUME found >= Unit
      PROVE  /\ found - Unit \in 0 .. Capacity
             /\ (p + Unit) + (found - Unit) <= Capacity + (before + gain)
             /\ Capacity <= (p + Unit) + (found - Unit)
             /\ cd > 0 => Capacity < (p + Unit) + Unit
  BY <1>1, <1>2, <1>5, <1>7, <1>8
<1>9. ASSUME ~(found >= Unit)
      PROVE  /\ p + found <= Capacity + (before + gain)
             /\ Capacity <= p + found
             /\ Capacity < p + Unit
  BY <1>1, <1>2, <1>5, <1>7, <1>9
<1>10. found >= Unit => Purse(ca + 1, cd, found - Unit, now)
  BY <1>3, <1>4, <1>8 DEF Purse
<1>11. ~(found >= Unit) => Purse(ca, cd + 1, found, now)
  BY <1>3, <1>7, <1>9 DEF Purse, p
<1> QED
  BY <1>10, <1>11

Solvent == Purse(counts.allowed, counts.denied, bucket.tokens, bucket.lastRefill)

LEMMA InitSolvent == Init => Solvent
<1> SUFFICES ASSUME Init PROVE Solvent
  OBVIOUS
<1>1. Capacity \in Nat /\ Rate \in Nat /\ Unit \in Nat
  BY LoadAssumption, UnitAssumption
<1>2. /\ bucket.tokens = Capacity /\ bucket.lastRefill = 0
      /\ counts.allowed = 0 /\ counts.denied = 0
  BY DEF Init, LoadInit, NewTokenBucket
<1>3. 0 * Unit = 0 /\ 0 * Rate = 0
  BY <1>1
<1> QED
  BY <1>1, <1>2, <1>3 DEF Solvent, Purse

LEMMA DecidedSolvent == Typed /\ Solvent /\ Decided => Solvent'
<1> SUFFICES ASSUME Typed, Solvent, Decided PROVE Solvent'
  OBVIOUS
<1>1. PICK ca, cd \in Nat : ca = counts.allowed /\ cd = counts.denied
  BY DEF Typed, Counts
<1>2. PICK k \in Int, last, now \in Nat :
         k = bucket.tokens /\ last = bucket.lastRefill /\ now = clock
  BY DEF Typed, Buckets
<1>3. PICK found : found = Found(bucket, clock)
  OBVIOUS
<1>4. last <= now /\ Purse(ca, cd, k, last) /\ found = MinOf(Capacity, k + (now - last) * Rate)
  BY <1>1, <1>2, <1>3 DEF Typed, Solvent, Found
<1>5. /\ found >= Unit => Purse(ca + 1, cd, found - Unit, now)
      /\ ~(found >= Unit) => Purse(ca, cd + 1, found, now)
  BY <1>4, PurseStep
<1>6. found \in Int
  BY <1>3, AllowEffect DEF Typed
<1>7. HasToken <=> found >= Unit
  BY <1>3 DEF HasToken
<1>8. /\ counts' = [allowed |-> ca + (IF found >= Unit THEN 1 ELSE 0),
                    denied |-> cd + (IF found >= Unit THEN 0 ELSE 1)]
      /\ bucket'.lastRefill = now /\ bucket'.tokens = found - (IF found >= Unit THEN Unit ELSE 0)
  BY <1>1, <1>2, <1>3, <1>7 DEF Decided
<1>9. CASE found >= Unit
  <2>1. /\ counts'.allowed = ca + 1 /\ counts'.denied = cd
        /\ bucket'.lastRefill = now /\ bucket'.tokens = found - Unit
    BY <1>8, <1>9
  <2> QED
    BY <1>5, <1>9, <2>1 DEF Solvent
<1>10. CASE ~(found >= Unit)
  <2>1. /\ counts'.allowed = ca /\ counts'.denied = cd + 1
        /\ bucket'.lastRefill = now /\ bucket'.tokens = found
    BY <1>6, <1>8, <1>10
  <2> QED
    BY <1>5, <1>10, <2>1 DEF Solvent
<1> QED
  BY <1>9, <1>10

\* A worker that quits has seen the counter past n.
Quit == \A w \in Workers : pc[w] \in {"publish", "leave", "done"} => sent > n

\* Nothing happens after the report.
Settled ==
  report # <<>> => /\ Done
                   /\ report.verdict = Verdict(allowed) /\ report.elapsed = clock

Verdicts == Solvent /\ Quit /\ Settled

LEMMA InitVerdicts == Init => Verdicts
<1>1. Init => \A w \in Workers : pc[w] = "claim"
  BY DEF Init, LoadInit
<1>2. Init => report = <<>>
  BY DEF Init, LoadInit
<1> QED
  BY <1>1, <1>2, InitSolvent DEF Verdicts, Quit, Settled

\* A worker's step before the report leaves it there, and quits only past n.
LEMMA MovesVerdicts ==
  ASSUME Typed, Verdicts, NEW w \in Workers, NEW to \in Places, NEW q, Moves(w, to, q),
         pc[w] # "done",
         sent' \in Nat, sent' >= sent,
         to \in {"publish", "leave", "done"} => sent' > n
  PROVE  Quit' /\ Settled'
<1>1. sent \in Nat /\ n \in Nat /\ pc \in [Workers -> Places]
  BY DEF Typed
<1>2. pc' = [pc EXCEPT ![w] = to] /\ n' = n /\ report' = report
  BY DEF Moves
<1>3. Quit'
  <2>1. \A v \in Workers : pc[v] \in {"publish", "leave", "done"} => sent > n
    BY DEF Verdicts, Quit
  <2>2. PICK s, s1, m \in Nat : s = sent /\ s1 = sent' /\ m = n
    BY <1>1
  <2>3. s1 >= s
    BY <2>2
  <2>4. ASSUME NEW v \in Workers, pc'[v] \in {"publish", "leave", "done"} PROVE sent' > n'
    <3>1. v = w \/ pc'[v] = pc[v]
      BY <1>1, <1>2
    <3>2. CASE v = w
      <4>1. to \in {"publish", "leave", "done"}
        BY <1>1, <1>2, <2>4, <3>2
      <4> QED
        BY <1>2, <4>1
    <3>3. CASE pc'[v] = pc[v]
      <4>1. s > m
        BY <2>1, <2>2, <2>4, <3>3
      <4>2. s1 > m
        BY <2>3, <4>1
      <4> QED
        BY <1>2, <2>2, <4>2
    <3> QED
      BY <3>1, <3>2, <3>3
  <2> QED
    BY <2>4 DEF Quit
<1>4. Settled'
  <2>1. report = <<>>
    BY DEF Verdicts, Settled, Done
  <2> QED
    BY <1>2, <2>1 DEF Settled
<1> QED
  BY <1>3, <1>4

LEMMA ReportVerdicts == Typed /\ Verdicts /\ Report => Verdicts'
<1> SUFFICES ASSUME Typed, Verdicts, Report PROVE Verdicts'
  OBVIOUS
<1>1. /\ Done
      /\ UNCHANGED <<n, sent, allowed, pc, bucket, counts, clock>>
  BY Zenon DEF Report, server
<1>2. PICK lat : report' = [verdict |-> Verdict(allowed), latencies |-> lat, elapsed |-> clock]
  BY Zenon DEF Report
<1>3. report'.verdict = Verdict(allowed) /\ report'.elapsed = clock
  BY <1>2
<1>4. Settled'
  BY <1>1, <1>3 DEF Settled, Done, Verdict
<1>5. Solvent' /\ Quit'
  BY <1>1 DEF Verdicts, Solvent, Quit
<1> QED
  BY <1>4, <1>5 DEF Verdicts

LEMMA StepVerdicts == Typed /\ Verdicts /\ [LoadNext]_loadVars => Verdicts'
<1> SUFFICES ASSUME Typed, Verdicts, [LoadNext]_loadVars PROVE Verdicts'
  OBVIOUS
<1>0. sent \in Nat /\ n \in Nat /\ sent + 1 >= sent /\ sent + 1 \in Nat
  BY DEF Typed
<1>a. UNCHANGED <<bucket, counts>> => Solvent'
  BY DEF Verdicts, Solvent
<1>b. Decided => Solvent'
  BY DecidedSolvent DEF Verdicts
<1>c. {"claim", "get", "answer", "publish", "leave", "done"} \subseteq Places
  BY DEF Places
<1>1. ASSUME NEW w \in Workers, Claim(w) PROVE Verdicts'
  <2>1. PICK q \in Requests : /\ Moves(w, IF sent + 1 > n THEN "publish" ELSE "get", q)
                              /\ pc[w] = "claim" /\ sent' = sent + 1
                              /\ UNCHANGED <<allowed, denied, errs, bucket, counts, faults>>
    BY <1>1, ClaimEffect
  <2>2. PICK to \in {"publish", "get"} : to = IF sent + 1 > n THEN "publish" ELSE "get"
    OBVIOUS
  <2>3. Moves(w, to, q) /\ (to = "publish" => sent' > n) /\ sent' >= sent /\ sent' \in Nat
    BY <1>0, <2>1, <2>2
  <2>4. Quit' /\ Settled'
    BY <1>c, <2>1, <2>3, MovesVerdicts
  <2> QED
    BY <1>a, <2>1, <2>4 DEF Verdicts
<1>2. ASSUME NEW w \in Workers, Serve(w) \/ BadGateway(w) \/ GetFails(w) \/ Receive(w)
      PROVE  Verdicts'
  <2>1. /\ Solvent' /\ sent' = sent /\ pc[w] \in {"get", "answer"}
        /\ \E to \in {"claim", "answer"}, q \in Requests : Moves(w, to, q)
    <3>0. NoRequest \in Requests
      BY DEF NoRequest, Requests
    <3>1. CASE Serve(w)
      <4>1. PICK q \in Requests : /\ Moves(w, "answer", q) /\ Decided /\ pc[w] = "get"
                                  /\ UNCHANGED <<sent, allowed, denied, errs, faults>>
        BY <3>1, ServeEffect
      <4> QED
        BY <1>b, <4>1
    <3>2. CASE BadGateway(w)
      <4>1. PICK q \in Requests : /\ Moves(w, "answer", q) /\ pc[w] = "get"
                                  /\ UNCHANGED <<sent, allowed, denied, errs, bucket, counts>>
        BY <3>2, BadGatewayEffect
      <4> QED
        BY <1>a, <4>1
    <3>3. CASE GetFails(w)
      BY <1>a, <3>0, <3>3, GetFailsEffect
    <3>4. CASE Receive(w)
      BY <1>a, <3>0, <3>4, ReceiveEffect
    <3> QED
      BY <1>2, <3>1, <3>2, <3>3, <3>4
  <2>2. PICK to \in {"claim", "answer"}, q \in Requests : Moves(w, to, q)
    BY <2>1
  <2>3. Quit' /\ Settled'
    BY <1>0, <1>c, <2>1, <2>2, MovesVerdicts
  <2> QED
    BY <2>1, <2>3 DEF Verdicts
<1>3. ASSUME NEW w \in Workers, PassOn(w) PROVE Verdicts'
  <2>1. /\ Decided /\ pc[w] = "get"
        /\ UNCHANGED <<n, pc, request, report, clock, sent, allowed, denied, errs>>
    BY <1>3, PassOnEffect
  <2>2. Quit' /\ Settled'
    BY <2>1 DEF Verdicts, Quit, Settled, Done
  <2> QED
    BY <1>b, <2>1, <2>2 DEF Verdicts
<1>4. ASSUME NEW w \in Workers, Publish(w) PROVE Verdicts'
  <2>1. Moves(w, "leave", request[w]) /\ pc[w] = "publish" /\ UNCHANGED <<sent, bucket, counts>>
    <3>1. request' = [request EXCEPT ![w] = request[w]]
      BY <1>4 DEF Typed, Publish
    <3>2. /\ pc[w] = "publish" /\ n' = n /\ report' = report /\ clock' = clock
          /\ pc' = [pc EXCEPT ![w] = "leave"] /\ UNCHANGED <<sent, bucket, counts>>
      BY <1>4 DEF Publish, Goto, server
    <3> QED
      BY <3>1, <3>2, Zenon DEF Moves
  <2>2. sent > n
    BY <2>1 DEF Verdicts, Quit
  <2>3. Quit' /\ Settled'
    BY <1>0, <1>c, <2>1, <2>2, MovesVerdicts
  <2> QED
    BY <1>a, <2>1, <2>3 DEF Verdicts
<1>5. ASSUME NEW w \in Workers, Leave(w) PROVE Verdicts'
  <2>1. Moves(w, "done", request[w]) /\ pc[w] = "leave" /\ UNCHANGED <<sent, bucket, counts>>
    <3>1. request' = [request EXCEPT ![w] = request[w]]
      BY <1>5 DEF Typed, Leave
    <3>2. /\ pc[w] = "leave" /\ n' = n /\ report' = report /\ clock' = clock
          /\ pc' = [pc EXCEPT ![w] = "done"] /\ UNCHANGED <<sent, bucket, counts>>
      BY <1>5 DEF Leave, Goto, server
    <3> QED
      BY <3>1, <3>2, Zenon DEF Moves
  <2>2. sent > n
    BY <2>1 DEF Verdicts, Quit
  <2>3. Quit' /\ Settled'
    BY <1>0, <1>c, <2>1, <2>2, MovesVerdicts
  <2> QED
    BY <1>a, <2>1, <2>3 DEF Verdicts
<1>6. ASSUME Report PROVE Verdicts'
  BY <1>6, ReportVerdicts
<1>7. ASSUME Tick PROVE Verdicts'
  <2>1. UNCHANGED <<n, pc, report, sent, bucket, counts>> /\ report = <<>>
    BY <1>7 DEF Tick, pool, server
  <2> QED
    BY <1>a, <2>1 DEF Verdicts, Quit, Settled
<1>8. ASSUME UNCHANGED loadVars PROVE Verdicts'
  BY <1>8 DEF Verdicts, Solvent, Quit, Settled, Done, Verdict, loadVars, pool, server
<1> QED
  BY <1>1, <1>2, <1>3, <1>4, <1>5, <1>6, <1>7, <1>8, Zenon DEF LoadNext, Work

\* What a correct server allows of n requests when none is lost: the burst of x
\* tokens at least, and fewer than y tokens more while they refill.
LEMMA BurstIsAllowed ==
  ASSUME NEW ca \in Nat, NEW cd \in Nat, NEW k \in Int, NEW last \in Nat, NEW now \in Nat,
         last <= now, Purse(ca, cd, k, last),
         NEW x \in Nat, NEW y \in Nat, Capacity = x * Unit, now * Rate < y * Unit
  PROVE  ca < x + y /\ (cd > 0 => x <= ca)
<1> DEFINE p == ca * Unit
           c == x * Unit
           over == y * Unit
           before == last * Rate
           until == now * Rate
<1>1. Rate \in Nat /\ Unit \in Nat \ {0}
  BY LoadAssumption, UnitAssumption
<1>2. p \in Nat /\ c \in Nat /\ over \in Nat /\ before \in Nat /\ until \in Nat
  BY <1>1, NatProduct
<1>3. before <= until
  BY <1>1, ProductMonotone
<1>4. (x + y) * Unit = c + over /\ (ca + 1) * Unit = p + Unit
  <2>1. (ca + 1) * Unit = ca * Unit + 1 * Unit /\ 1 * Unit = Unit
    BY <1>1, ProductOfSum
  <2>2. (x + y) * Unit = c + over
    BY <1>1, ProductOfSum
  <2> QED
    BY <2>1, <2>2
<1>5. k \in 0 .. c /\ p + k <= c + before /\ (cd > 0 => c < p + Unit) /\ until < over
  BY DEF Purse
<1>6. (ca < x + y <=> p < (x + y) * Unit) /\ (x < ca + 1 <=> c < (ca + 1) * Unit)
  BY <1>1, ProductStrict
<1> HIDE DEF p, c, over, before, until
<1>7. p < c + over
  BY <1>2, <1>3, <1>5
<1>8. ca < x + y
  BY <1>4, <1>6, <1>7
<1>9. cd > 0 => x <= ca
  <2> HAVE cd > 0
  <2>1. x < ca + 1
    BY <1>4, <1>5, <1>6
  <2> QED
    BY <2>1
<1> QED
  BY <1>8, <1>9

\* When all is over no request is under way.
LEMMA NoneUnderWay ==
  ASSUME Done
  PROVE  Sends = 0 /\ Yeses = 0 /\ Noes = 0 /\ Bads = 0
<1>1. Sending(pc) = {} /\ \A s : Bringing(pc, request, s) = {}
  BY DEF Done, Sending, Bringing
<1> QED
  BY <1>1, FS_EmptySet DEF Sends, Yeses, Noes, Bads

\* When main reports, every one of the n requests is tallied.
LEMMA AllTallied == LoadInv /\ Verdicts /\ report # <<>> => allowed + denied + errs = n
<1> SUFFICES ASSUME LoadInv, Verdicts, report # <<>> PROVE allowed + denied + errs = n
  OBVIOUS
<1>1. Done
  BY DEF Verdicts, Settled
<1>2. Sends = 0 /\ Yeses = 0 /\ Noes = 0 /\ Bads = 0
  BY <1>1, NoneUnderWay
<1>3. sent > n
  <2>1. PICK w \in Workers : TRUE
    BY LoadAssumption
  <2> QED
    BY <1>1, <2>1 DEF Done, Verdicts, Quit
<1>4. allowed \in Nat /\ denied \in Nat /\ errs \in Nat /\ n \in Nat /\ sent \in Nat
  BY DEF LoadInv, Typed
<1>5. allowed + denied + errs + 0 = MinOf(sent, n)
  BY <1>2 DEF LoadInv, Balanced, Claimed
<1> QED
  BY <1>3, <1>4, <1>5 DEF MinOf

LEMMA VerdictFollows == LoadInv /\ Verdicts => VerdictSound
<1> SUFFICES ASSUME LoadInv, Verdicts, report # <<>> PROVE
      /\ (/\ faults = 0 /\ Capacity = Expect * Unit /\ Expect \in 1 .. n
          /\ report.elapsed * Rate < (Tolerance + 1) * Unit) => report.verdict = "PASS"
      /\ report.verdict = "PASS" => counts.allowed <= Expect + Tolerance + faults
  BY DEF VerdictSound
<1>1. Done /\ report.verdict = Verdict(allowed) /\ report.elapsed = clock
  BY DEF Verdicts, Settled
<1>2. Sends = 0 /\ Yeses = 0 /\ Noes = 0 /\ Bads = 0
  BY <1>1, NoneUnderWay
<1>4. /\ allowed \in Nat /\ denied \in Nat /\ errs \in Nat /\ n \in Nat /\ sent \in Nat
      /\ faults \in Nat /\ counts.allowed \in Nat /\ counts.denied \in Nat /\ clock \in Nat
      /\ bucket.tokens \in Int /\ bucket.lastRefill \in Nat /\ bucket.lastRefill <= clock
      /\ Expect \in Nat /\ Tolerance \in Nat
  BY LoadAssumption DEF LoadInv, Typed, Counts, Buckets
<1>5. /\ allowed + denied + errs + 0 = MinOf(sent, n)
      /\ Accounts(allowed, denied, errs, faults, counts, 0, 0, 0)
  BY <1>2 DEF LoadInv, Balanced, Claimed
<1>6. allowed + denied + errs = n
  BY AllTallied
<1>7. /\ allowed <= counts.allowed /\ denied <= counts.denied
      /\ counts.allowed + counts.denied <= allowed + denied + faults /\ errs <= faults
  BY <1>4, <1>5 DEF Accounts
<1>8. ASSUME faults = 0, Capacity = Expect * Unit, Expect \in 1 .. n,
             report.elapsed * Rate < (Tolerance + 1) * Unit
      PROVE  report.verdict = "PASS"
  <2>1. errs = 0 /\ counts.allowed = allowed /\ counts.denied = denied /\ allowed + denied = n
    BY <1>4, <1>6, <1>7, <1>8
  <2>2. Purse(counts.allowed, counts.denied, bucket.tokens, bucket.lastRefill)
    BY DEF Verdicts, Solvent
  <2>3. clock * Rate < (Tolerance + 1) * Unit /\ Tolerance + 1 \in Nat
    BY <1>1, <1>4, <1>8
  <2>4. counts.allowed < Expect + (Tolerance + 1) /\ (counts.denied > 0 => Expect <= counts.allowed)
    BY <1>4, <1>8, <2>2, <2>3, BurstIsAllowed
  <2>5. allowed \in Expect .. Expect + Tolerance
    BY <1>4, <1>8, <2>1, <2>4
  <2> QED
    BY <1>1, <1>4, <1>8, <2>5 DEF Verdict
<1>9. ASSUME report.verdict = "PASS"
      PROVE  counts.allowed <= Expect + Tolerance + faults
  <2>1. allowed \in Expect .. Expect + Tolerance
    BY <1>1, <1>9 DEF Verdict
  <2> QED
    BY <1>4, <1>7, <2>1
<1> QED
  BY <1>8, <1>9

\* The verdict accuses no correct server of a run that is over before Tolerance
\* tokens and one more are refilled, and clears no server that allowed more than
\* Expect + Tolerance requests, but for those that met a fault (main.go:175-183).
THEOREM VerdictIsSound == Spec => []VerdictSound
<1>1. Spec => []Verdicts
  <2>1. LoadInv /\ Verdicts /\ [Next]_vars => Verdicts'
    BY LoadSteps, StepVerdicts DEF LoadInv
  <2> QED
    BY InitVerdicts, LoadInvariant, <2>1, PTL DEF Spec
<1> QED
  BY <1>1, LoadInvariant, VerdictFollows, PTL

-----------------------------------------------------------------------------
\* The latencies: what sorting and merging do, and where percentile looks.

\* A nonempty set of naturals has a least element.  Applied to the lengths for
\* which a claim fails, it stands for an induction over them.
LEMMA LeastNat ==
  ASSUME NEW S, S \subseteq Nat, S # {}
  PROVE  \E m \in S : \A k \in S : m <= k
<1>1. PICK m \in S : \A k \in S : ~(<<k, m>> \in OpToRel(<, Nat))
  BY NatLessThanWellFounded, WFMin
<1>2. \A k \in S : ~(k < m)
  BY <1>1 DEF OpToRel
<1> QED
  BY <1>2

\* A nonempty sequence of naturals has a greatest element.
LEMMA GreatestAt ==
  ASSUME NEW m \in Nat \ {0}, NEW s \in [1 .. m -> Nat]
  PROVE  \E g \in 1 .. m : \A i \in 1 .. m : s[i] <= s[g]
<1> DEFINE Holds(k) == \E g \in 1 .. k : \A i \in 1 .. k : s[i] <= s[g]
           Bad == {k \in 1 .. m : ~Holds(k)}
<1> SUFFICES ASSUME Bad # {} PROVE FALSE
  <2>1. m \in 1 .. m
    OBVIOUS
  <2> QED
    BY <2>1
<1>1. PICK k \in Bad : \A j \in Bad : k <= j
  <2>1. Bad \subseteq Nat
    OBVIOUS
  <2> HIDE DEF Bad
  <2> QED
    BY <2>1, LeastNat
<1>2. CASE k = 1
  <2>1. 1 \in 1 .. k /\ \A i \in 1 .. k : s[i] <= s[1]
    BY <1>2
  <2> QED
    BY <1>1, <2>1
<1>3. CASE k # 1
  <2>1. k - 1 \in 1 .. m /\ k - 1 \notin Bad
    <3>1. k \in 1 .. m /\ k - 1 \in 1 .. m /\ ~(k <= k - 1)
      BY <1>1, <1>3
    <3> HIDE DEF Bad
    <3> QED
      BY <1>1, <3>1
  <2>2. PICK g \in 1 .. (k - 1) : \A i \in 1 .. (k - 1) : s[i] <= s[g]
    BY <2>1
  <2>3. \A i \in 1 .. k : i \in 1 .. (k - 1) \/ i = k
    BY <1>1
  <2>4. s[g] \in Nat /\ s[k] \in Nat /\ g \in 1 .. k /\ k \in 1 .. k
    BY <1>1, <2>1
  <2>5. CASE s[k] <= s[g]
    <3>1. \A i \in 1 .. k : s[i] <= s[g]
      BY <2>2, <2>3, <2>5
    <3> QED
      BY <1>1, <2>4, <3>1
  <2>6. CASE ~(s[k] <= s[g])
    <3>1. \A i \in 1 .. k : s[i] <= s[k]
      <4> TAKE i \in 1 .. k
      <4> DEFINE a == s[i]
                 b == s[g]
                 c == s[k]
      <4>1. CASE i = k
        BY <2>4, <4>1
      <4>2. CASE i \in 1 .. (k - 1)
        <5>1. i \in 1 .. m
          BY <2>1, <4>2
        <5>2. a <= b /\ a \in Nat /\ b \in Nat /\ c \in Nat /\ ~(c <= b)
          BY <2>2, <2>4, <2>6, <4>2, <5>1
        <5> HIDE DEF a, b, c
        <5>3. a <= c
          BY <5>2
        <5> QED
          BY <5>3 DEF a, c
      <4> QED
        BY <2>3, <4>1, <4>2
    <3> QED
      BY <1>1, <2>4, <3>1
  <2> QED
    BY <2>5, <2>6
<1> QED
  BY <1>2, <1>3

\* p puts the naturals s into ascending order.
Ascends(s, p) == \A i, j \in DOMAIN s : i < j => s[p[i]] <= s[p[j]]

\* Every sequence can be sorted: its greatest element last, the others, with its
\* last one in the place of the greatest, sorted before it.
LEMMA SortStep ==
  ASSUME NEW m \in Nat, NEW s \in [1 .. (m + 1) -> Nat],
         \A t \in [1 .. m -> Nat] : \E p \in Bijection(1 .. m, 1 .. m) : Ascends(t, p)
  PROVE  \E p \in Bijection(1 .. (m + 1), 1 .. (m + 1)) : Ascends(s, p)
<1> DEFINE all == 1 .. (m + 1)
           most == 1 .. m
<1>1. PICK g \in all : \A i \in all : s[i] <= s[g]
  <2>1. m + 1 \in Nat \ {0}
    OBVIOUS
  <2> QED
    BY <2>1, GreatestAt
<1>2. \A i \in all : i \in most \/ i = m + 1
  OBVIOUS
<1>3. /\ \A i \in most : i \in all /\ i < m + 1 /\ i # m + 1 /\ i \in Int
      /\ m + 1 \in all /\ g \in all
  OBVIOUS
<1> DEFINE t == [i \in most |-> IF i = g THEN s[m + 1] ELSE s[i]]
<1>4. t \in [most -> Nat]
  BY <1>3
<1>5. PICK p \in Bijection(most, most) : Ascends(t, p)
  BY <1>4
<1>6. /\ p \in [most -> most]
      /\ \A i, j \in most : p[i] = p[j] => i = j
      /\ \A y \in most : \E i \in most : p[i] = y
  BY <1>5 DEF Bijection, Injection, Surjection, IsInjective
<1>7. \A i, j \in most : i < j => t[p[i]] <= t[p[j]]
  BY <1>4, <1>5 DEF Ascends
<1> DEFINE q == [i \in all |-> IF i = m + 1 THEN g ELSE IF p[i] = g THEN m + 1 ELSE p[i]]
<1> HIDE DEF t
<1>8. q \in [all -> all]
  BY <1>2, <1>3, <1>6
<1>9. \A i, j \in all : q[i] = q[j] => i = j
  BY <1>2, <1>3, <1>6
<1>10. \A y \in all : \E i \in all : q[i] = y
  <2> TAKE y \in all
  <2>1. CASE y = g
    <3>1. q[m + 1] = y
      BY <1>3, <2>1
    <3> QED
      BY <1>3, <3>1
  <2>2. CASE y # g /\ y = m + 1
    <3>1. g \in most
      BY <1>2, <2>2
    <3>2. PICK i \in most : p[i] = g
      BY <1>6, <3>1
    <3>3. q[i] = y
      BY <1>3, <2>2, <3>2
    <3> QED
      BY <1>3, <3>3
  <2>3. CASE y # g /\ y # m + 1
    <3>1. PICK i \in most : p[i] = y
      BY <1>2, <1>6, <2>3
    <3>2. q[i] = y
      BY <1>3, <2>3, <3>1
    <3> QED
      BY <1>3, <3>2
  <2> QED
    BY <2>1, <2>2, <2>3
<1>11. \A i \in most : s[q[i]] = t[p[i]]
  BY <1>3, <1>6 DEF t
<1>12. s[q[m + 1]] = s[g]
  BY <1>3
<1>13. \A i, j \in all : i < j => s[q[i]] <= s[q[j]]
  <2> TAKE i, j \in all
  <2> HAVE i < j
  <2>1. i \in most
    BY <1>2
  <2>2. CASE j = m + 1
    BY <1>1, <1>8, <1>12, <2>2
  <2>3. CASE j \in most
    BY <1>7, <1>11, <2>1, <2>3
  <2> QED
    BY <1>2, <2>2, <2>3
<1> HIDE DEF q
<1>14. q \in Bijection(all, all) /\ Ascends(s, q)
  BY <1>8, <1>9, <1>10, <1>13 DEF Bijection, Injection, Surjection, IsInjective, Ascends
<1> QED
  BY <1>14

LEMMA CanBeSorted ==
  ASSUME NEW m \in Nat, NEW s \in [1 .. m -> Nat]
  PROVE  \E p \in Bijection(1 .. m, 1 .. m) : Ascends(s, p)
<1> DEFINE Holds(k) == \A t \in [1 .. k -> Nat] : \E p \in Bijection(1 .. k, 1 .. k) : Ascends(t, p)
           Bad == {k \in Nat : ~Holds(k)}
<1> SUFFICES ASSUME Bad # {} PROVE FALSE
  OBVIOUS
<1>1. PICK k \in Bad : \A j \in Bad : k <= j
  BY LeastNat
<1>2. k # 0
  <2> SUFFICES ASSUME NEW t \in [1 .. 0 -> Nat]
               PROVE  \E p \in Bijection(1 .. 0, 1 .. 0) : Ascends(t, p)
    BY <1>1
  <2> DEFINE p == [i \in 1 .. 0 |-> 0]
  <2>1. 1 .. 0 = {} /\ DOMAIN t = 1 .. 0
    OBVIOUS
  <2>2. p \in [1 .. 0 -> 1 .. 0] /\ DOMAIN p = {}
    BY <2>1
  <2> HIDE DEF p
  <2>3. p \in Bijection(1 .. 0, 1 .. 0) /\ Ascends(t, p)
    BY <2>1, <2>2 DEF Bijection, Injection, Surjection, IsInjective, Ascends
  <2> QED
    BY <2>3
<1>3. PICK j \in Nat : k = j + 1
  BY <1>1, <1>2
<1>4. Holds(j)
  <2>1. j \notin Bad
    <3>1. ~(k <= j)
      BY <1>3
    <3> HIDE DEF Bad
    <3> QED
      BY <1>1, <3>1
  <2> HIDE DEF Holds
  <2> QED
    BY <2>1
<1>5. Holds(j + 1)
  BY <1>4, SortStep
<1> QED
  BY <1>1, <1>3, <1>5

\* What sorting leaves: as many, in ascending order.
LEMMA SortedSorts ==
  ASSUME NEW s \in Seq(Nat)
  PROVE  /\ Sorted(s) \in Seq(Nat) /\ Len(Sorted(s)) = Len(s)
         /\ \A i, j \in 1 .. Len(s) : i < j => Sorted(s)[i] <= Sorted(s)[j]
<1>1. s \in [1 .. Len(s) -> Nat] /\ Len(s) \in Nat /\ DOMAIN s = 1 .. Len(s)
  OBVIOUS
<1>2. \E p \in Bijection(DOMAIN s, DOMAIN s) : Ascends(s, p)
  BY <1>1, CanBeSorted
<1> DEFINE order == CHOOSE p \in Bijection(DOMAIN s, DOMAIN s) :
                      \A i, j \in DOMAIN s : i < j => s[p[i]] <= s[p[j]]
<1>3. order \in Bijection(DOMAIN s, DOMAIN s) /\ Ascends(s, order)
  BY <1>2 DEF Ascends
<1>4. order \in [DOMAIN s -> DOMAIN s]
  BY <1>3 DEF Bijection, Injection
<1>5. Sorted(s) = [i \in DOMAIN s |-> s[order[i]]]
  BY DEF Sorted
<1> HIDE DEF order
<1>6. Sorted(s) \in [1 .. Len(s) -> Nat]
  BY <1>1, <1>4, <1>5
<1>7. \A i, j \in 1 .. Len(s) : i < j => Sorted(s)[i] <= Sorted(s)[j]
  <2> TAKE i, j \in 1 .. Len(s)
  <2> HAVE i < j
  <2>1. i \in DOMAIN s /\ j \in DOMAIN s
    BY <1>1
  <2>2. s[order[i]] <= s[order[j]]
    BY <1>3, <2>1 DEF Ascends
  <2>3. Sorted(s)[i] = s[order[i]] /\ Sorted(s)[j] = s[order[j]]
    BY <1>5, <2>1
  <2> QED
    BY <2>2, <2>3
<1>8. Sorted(s) \in Seq(Nat) /\ Len(Sorted(s)) = Len(s)
  BY <1>1, <1>6
<1> QED
  BY <1>7, <1>8

-----------------------------------------------------------------------------
\* f concatenates the first k of the slices, one after the other.
Appends(slices, k, f) ==
  f = [i \in 1 .. k |-> IF i = 1 THEN slices[i] ELSE f[i - 1] \o slices[i]]

LEMMA CanAppend ==
  ASSUME NEW c \in Nat \ {0}, NEW slices \in [1 .. c -> Seq(Nat)]
  PROVE  \E f : Appends(slices, c, f)
<1> DEFINE Holds(k) == \E f : Appends(slices, k, f)
           Bad == {k \in 1 .. c : ~Holds(k)}
<1> SUFFICES ASSUME Bad # {} PROVE FALSE
  <2>1. c \in 1 .. c
    OBVIOUS
  <2> QED
    BY <2>1
<1>1. PICK k \in Bad : \A j \in Bad : k <= j
  <2>1. Bad \subseteq Nat
    OBVIOUS
  <2> HIDE DEF Bad
  <2> QED
    BY <2>1, LeastNat
<1>2. k \in 1 .. c /\ ~Holds(k)
  BY <1>1
<1>3. CASE k = 1
  <2> DEFINE f == [i \in 1 .. k |-> slices[i]]
  <2>1. \A i \in 1 .. k : i = 1
    BY <1>3
  <2>2. f = [i \in 1 .. k |-> IF i = 1 THEN slices[i] ELSE f[i - 1] \o slices[i]]
    BY <2>1, Zenon
  <2> HIDE DEF f
  <2> QED
    BY <1>2, <2>2 DEF Appends
<1>4. CASE k # 1
  <2>1. k - 1 \in 1 .. c /\ ~(k <= k - 1)
    BY <1>2, <1>4
  <2>2. k - 1 \notin Bad
    <3> HIDE DEF Bad
    <3> QED
      BY <1>1, <2>1
  <2>3. PICK g : Appends(slices, k - 1, g)
    BY <2>1, <2>2
  <2> DEFINE f == [i \in 1 .. k |-> IF i = k THEN g[k - 1] \o slices[k] ELSE g[i]]
  <2>4. \A i \in 1 .. k : i # k => i \in 1 .. (k - 1)
    BY <1>2
  <2>5. k \in 1 .. k /\ k - 1 \in 1 .. k /\ k - 1 # k
    BY <1>2, <2>1
  <2>6. \A i \in 1 .. k : i # 1 => i - 1 \in 1 .. k /\ (i # k => i - 1 # k)
    BY <1>2
  <2>7. \A i \in 1 .. k : f[i] = IF i = 1 THEN slices[i] ELSE f[i - 1] \o slices[i]
    <3> TAKE i \in 1 .. k
    <3>1. CASE i = k
      <4>1. f[i] = g[k - 1] \o slices[k] /\ f[k - 1] = g[k - 1]
        BY <2>5, <3>1
      <4> HIDE DEF f
      <4> QED
        BY <1>4, <3>1, <4>1
    <3>2. CASE i # k
      <4>1. g[i] = IF i = 1 THEN slices[i] ELSE g[i - 1] \o slices[i]
        BY <2>3, <2>4, <3>2, Zenon DEF Appends
      <4>2. f[i] = g[i] /\ (i # 1 => f[i - 1] = g[i - 1])
        BY <2>6, <3>2
      <4> HIDE DEF f
      <4> QED
        BY <4>1, <4>2
    <3> QED
      BY <3>1, <3>2
  <2>8. f = [i \in 1 .. k |-> f[i]]
    OBVIOUS
  <2> HIDE DEF f
  <2>9. f = [i \in 1 .. k |-> IF i = 1 THEN slices[i] ELSE f[i - 1] \o slices[i]]
    BY <2>7, <2>8, Zenon
  <2> QED
    BY <1>2, <2>9 DEF Appends
<1> QED
  BY <1>3, <1>4

\* The places of the elements of the first k slices.
Cells(slices, k) == {x \in (1 .. k) \X Nat : x[2] \in 1 .. Len(slices[x[1]])}

\* One more slice has as many more as it is long.
LEMMA CellsStep ==
  ASSUME NEW c \in Nat, NEW slices \in [1 .. c -> Seq(Nat)], NEW k \in 1 .. c,
         NEW S, IsFiniteSet(S), S = Cells(slices, k - 1)
  PROVE  /\ IsFiniteSet(Cells(slices, k))
         /\ Cardinality(Cells(slices, k)) = Cardinality(S) + Len(slices[k])
<1> DEFINE m == Len(slices[k])
           T == {k} \X (1 .. m)
<1>1. m \in Nat /\ IsFiniteSet(1 .. m) /\ Cardinality(1 .. m) = m
  <2>1. slices[k] \in Seq(Nat)
    OBVIOUS
  <2>2. m \in Nat
    BY <2>1
  <2> HIDE DEF m
  <2>3. m \in Int /\ 1 \in Int
    BY <2>2
  <2>4. IsFiniteSet(1 .. m) /\ Cardinality(1 .. m) = IF 1 > m THEN 0 ELSE m - 1 + 1
    BY <2>3, FS_Interval
  <2> QED
    BY <2>2, <2>4
<1>2. IsFiniteSet({k}) /\ Cardinality({k}) = 1
  BY FS_Singleton
<1>3. IsFiniteSet(T) /\ Cardinality(T) = m
  <2> HIDE DEF m
  <2>1. PICK A, B : A = {k} /\ B = 1 .. m
    OBVIOUS
  <2>2. IsFiniteSet(A) /\ IsFiniteSet(B) /\ Cardinality(A) = 1 /\ Cardinality(B) = m
    BY <1>1, <1>2, <2>1
  <2>3. IsFiniteSet(A \X B) /\ Cardinality(A \X B) = Cardinality(A) * Cardinality(B)
    BY <2>2, FS_Product
  <2> QED
    BY <1>1, <2>1, <2>2, <2>3
<1>4. Cells(slices, k) = S \cup T
  <2>1. ASSUME NEW x PROVE x \in Cells(slices, k) <=> x \in S \cup T
    <3>1. \A i : i \in 1 .. k <=> i \in 1 .. (k - 1) \/ i = k
      OBVIOUS
    <3>2. 1 .. m \subseteq Nat
      OBVIOUS
    <3> HIDE DEF m
    <3>3. x \in Cells(slices, k) => x \in S \cup T
      BY <3>1 DEF Cells, m
    <3>4. x \in S => x \in Cells(slices, k)
      BY <3>1 DEF Cells
    <3>5. x \in T => x \in Cells(slices, k)
      BY <3>1, <3>2 DEF Cells, m
    <3> QED
      BY <3>3, <3>4, <3>5
  <2> QED
    BY <2>1
<1>5. S \cap T = {}
  <2>1. k \notin 1 .. (k - 1)
    OBVIOUS
  <2> QED
    BY <2>1 DEF Cells
<1>6. Cardinality(S \cap T) = 0
  BY <1>5, FS_EmptySet
<1>7. Cardinality(S) \in Nat
  BY FS_CardinalityType
<1> HIDE DEF m, T
<1>8. /\ IsFiniteSet(S \cup T)
      /\ Cardinality(S \cup T) = Cardinality(S) + Cardinality(T) - Cardinality(S \cap T)
  BY <1>3, FS_Union
<1>9. Cardinality(S \cup T) = Cardinality(S) + m
  BY <1>1, <1>3, <1>6, <1>7, <1>8
<1> QED
  BY <1>4, <1>8, <1>9 DEF m

LEMMA ConcatLength ==
  \A x, y \in Seq(Nat) : x \o y \in Seq(Nat) /\ Len(x \o y) = Len(x) + Len(y)
OBVIOUS

LEMMA AppendedLength ==
  ASSUME NEW c \in Nat \ {0}, NEW slices \in [1 .. c -> Seq(Nat)], NEW f, Appends(slices, c, f)
  PROVE  \A k \in 1 .. c : /\ f[k] \in Seq(Nat) /\ IsFiniteSet(Cells(slices, k))
                           /\ Len(f[k]) = Cardinality(Cells(slices, k))
<1> DEFINE Holds(k) == /\ f[k] \in Seq(Nat) /\ IsFiniteSet(Cells(slices, k))
                       /\ Len(f[k]) = Cardinality(Cells(slices, k))
           Bad == {k \in 1 .. c : ~Holds(k)}
<1> SUFFICES ASSUME Bad # {} PROVE FALSE
  OBVIOUS
<1>1. PICK k \in Bad : \A j \in Bad : k <= j
  <2>1. Bad \subseteq Nat
    OBVIOUS
  <2> HIDE DEF Bad
  <2> QED
    BY <2>1, LeastNat
<1>2. k \in 1 .. c /\ ~Holds(k) /\ slices[k] \in Seq(Nat)
  BY <1>1
<1>3. f[k] = IF k = 1 THEN slices[k] ELSE f[k - 1] \o slices[k]
  BY <1>2, Zenon DEF Appends
<1>4. CASE k = 1
  <2>1. Cells(slices, k - 1) = {}
    <3>1. 1 .. (k - 1) = {}
      BY <1>4
    <3> QED
      BY <3>1 DEF Cells
  <2>2. IsFiniteSet({}) /\ Cardinality({}) = 0
    BY FS_EmptySet
  <2>3. PICK S : S = Cells(slices, k - 1) /\ IsFiniteSet(S) /\ Cardinality(S) = 0
    BY <2>1, <2>2
  <2>4. /\ IsFiniteSet(Cells(slices, k))
        /\ Cardinality(Cells(slices, k)) = Cardinality(S) + Len(slices[k])
    BY <1>2, <2>3, CellsStep
  <2>5. Len(slices[k]) \in Nat
    BY <1>2
  <2>6. Len(f[k]) = Cardinality(Cells(slices, k)) /\ f[k] \in Seq(Nat)
    BY <1>2, <1>3, <1>4, <2>3, <2>4, <2>5
  <2> QED
    BY <1>2, <2>4, <2>6
<1>5. CASE k # 1
  <2>1. k - 1 \in 1 .. c /\ ~(k <= k - 1)
    BY <1>2, <1>5
  <2>2. k - 1 \notin Bad
    <3> HIDE DEF Bad
    <3> QED
      BY <1>1, <2>1
  <2>3. Holds(k - 1)
    BY <2>1, <2>2
  <2>4. PICK S : S = Cells(slices, k - 1)
    OBVIOUS
  <2>5. PICK g : g = f[k - 1]
    OBVIOUS
  <2>6. g \in Seq(Nat) /\ IsFiniteSet(S) /\ Len(g) = Cardinality(S) /\ f[k] = g \o slices[k]
    BY <1>3, <1>5, <2>3, <2>4, <2>5
  <2>7. /\ IsFiniteSet(Cells(slices, k))
        /\ Cardinality(Cells(slices, k)) = Cardinality(S) + Len(slices[k])
    BY <1>2, <2>4, <2>6, CellsStep
  <2>8. f[k] \in Seq(Nat) /\ Len(f[k]) = Len(g) + Len(slices[k])
    <3>1. PICK h \in Seq(Nat) : h = slices[k]
      BY <1>2
    <3>2. g \o h \in Seq(Nat) /\ Len(g \o h) = Len(g) + Len(h)
      BY <2>6, ConcatLength
    <3> QED
      BY <2>6, <3>1, <3>2
  <2> QED
    BY <1>2, <2>6, <2>7, <2>8
<1> QED
  BY <1>4, <1>5

\* The merged slices are as long as all of them together.
LEMMA FlattenLength ==
  ASSUME NEW c \in Nat \ {0}, NEW slices \in [1 .. c -> Seq(Nat)]
  PROVE  /\ FlattenSeq(slices) \in Seq(Nat)
         /\ Len(FlattenSeq(slices)) = Cardinality(Cells(slices, c))
<1>1. Len(slices) = c /\ c # 0 /\ c \in 1 .. c
  OBVIOUS
<1> DEFINE f == CHOOSE g : Appends(slices, c, g)
<1>2. Appends(slices, c, f)
  BY CanAppend
<1>3. FlattenSeq(slices) = f[c]
  BY <1>1 DEF FlattenSeq, Appends
<1> HIDE DEF f
<1> QED
  BY <1>1, <1>2, <1>3, AppendedLength

-----------------------------------------------------------------------------
Ascending(lat) == \A i, j \in 1 .. Len(lat) : i < j => lat[i] <= lat[j]

\* Where percentile looks: the smallest rank that is p% of m, rounded up.
LEMMA RankCeils ==
  ASSUME NEW m \in Nat \ {0}, NEW p \in 1 .. 99
  PROVE  \E r \in 1 .. m :
           /\ r = MinOf(MaxOf(-((-p * m) \div 100), 1), m)
           /\ p * m <= r * 100 /\ (r - 1) * 100 < p * m
<1>1. 1 * m <= p * m /\ p * m <= 99 * m /\ p * m \in Nat
  BY ProductMonotone, NatProduct
<1>2. PICK a \in Nat : a = p * m
  BY <1>1
<1>3. -p * m = -a
  BY <1>2
<1>4. PICK z : z = (-a) \div 100
  OBVIOUS
<1>5. z \in Int /\ z * 100 <= -a /\ -a < (z + 1) * 100
  <2>1. -a \in Int /\ 100 \in Nat \ {0}
    OBVIOUS
  <2> QED
    BY <1>4, <2>1, Quotient
<1>6. m <= a /\ a <= 99 * m
  BY <1>1, <1>2
<1>7. -z \in 1 .. m /\ a <= (-z) * 100 /\ ((-z) - 1) * 100 < a
  BY <1>5, <1>6
<1>8. -z = MinOf(MaxOf(-((-p * m) \div 100), 1), m)
  BY <1>3, <1>4, <1>7 DEF MinOf, MaxOf
<1> QED
  BY <1>2, <1>7, <1>8

\* The element of that rank: at least p% of all are no greater, fewer than p%
\* are smaller.
LEMMA PercentileIsNearest ==
  ASSUME NEW lat \in Seq(Nat), lat # <<>>, Ascending(lat), NEW p \in 1 .. 99
  PROVE  IsNearestRank(percentile(lat, p), lat, p)
<1>1. PICK m \in Nat \ {0} : m = Len(lat)
  OBVIOUS
<1>2. DOMAIN lat = 1 .. m /\ \A i \in 1 .. m : lat[i] \in Nat
  BY <1>1
<1>3. PICK r \in 1 .. m : /\ r = MinOf(MaxOf(-((-p * m) \div 100), 1), m)
                          /\ p * m <= r * 100 /\ (r - 1) * 100 < p * m
  BY RankCeils
<1>4. PICK v \in Nat : v = lat[r]
  BY <1>2
<1>5. percentile(lat, p) = v
  BY <1>1, <1>3, <1>4 DEF percentile
<1> DEFINE A == {i \in DOMAIN lat : lat[i] <= v}
           B == {i \in DOMAIN lat : lat[i] <= v - 1}
<1>6. IsFiniteSet(1 .. m)
  BY FS_Interval
<1>7. A \in SUBSET (1 .. m) /\ B \in SUBSET (1 .. m)
  BY <1>2
<1>8. IsFiniteSet(A) /\ Cardinality(A) \in Nat /\ IsFiniteSet(B) /\ Cardinality(B) \in Nat
  <2> HIDE DEF A, B
  <2> QED
    BY <1>6, <1>7, FS_Subset, FS_CardinalityType
<1>9. 1 .. r \in SUBSET A
  <2>1. ASSUME NEW i \in 1 .. r PROVE i \in A
    <3>1. i \in 1 .. m /\ (i < r \/ i = r)
      OBVIOUS
    <3>2. CASE i = r
      BY <1>2, <1>4, <3>1, <3>2
    <3>3. CASE i < r
      <4>1. lat[i] <= lat[r]
        BY <1>1, <3>1, <3>3 DEF Ascending
      <4> QED
        BY <1>2, <1>4, <3>1, <4>1
    <3> QED
      BY <3>1, <3>2, <3>3
  <2> QED
    BY <2>1
<1>10. B \in SUBSET (1 .. (r - 1))
  <2>1. ASSUME NEW i \in B, ~(i < r) PROVE FALSE
    <3>1. i \in 1 .. m /\ lat[i] <= v - 1
      BY <1>2, <2>1
    <3>2. lat[r] <= lat[i] \/ i = r
      BY <1>1, <2>1, <3>1 DEF Ascending
    <3>3. PICK u \in Nat : u = lat[i]
      BY <1>2, <3>1
    <3> QED
      BY <1>4, <3>1, <3>2, <3>3
  <2>2. \A i \in B : i \in 1 .. m /\ i < r
    BY <1>2, <2>1
  <2> HIDE DEF B
  <2> QED
    BY <2>2
<1>11. /\ IsFiniteSet(1 .. r) /\ Cardinality(1 .. r) = r
       /\ IsFiniteSet(1 .. (r - 1)) /\ Cardinality(1 .. (r - 1)) = r - 1
  <2>1. \A k \in Nat : IsFiniteSet(1 .. k) /\ Cardinality(1 .. k) = k
    <3> TAKE k \in Nat
    <3>1. IsFiniteSet(1 .. k) /\ Cardinality(1 .. k) = IF 1 > k THEN 0 ELSE k - 1 + 1
      BY FS_Interval
    <3> QED
      BY <3>1
  <2>2. r \in Nat /\ r - 1 \in Nat
    OBVIOUS
  <2> QED
    BY <2>1, <2>2
<1> HIDE DEF A, B
<1>12. r <= Cardinality(A) /\ Cardinality(B) <= r - 1
  <2>1. Cardinality(1 .. r) <= Cardinality(A)
    BY <1>8, <1>9, FS_Subset
  <2>2. Cardinality(B) <= Cardinality(1 .. (r - 1))
    BY <1>10, <1>11, FS_Subset
  <2> QED
    BY <1>11, <2>1, <2>2
<1>13. Cardinality(A) * 100 >= p * Len(lat) /\ Cardinality(B) * 100 < p * Len(lat)
  <2>1. PICK a \in Nat : a = p * m
    BY NatProduct
  <2>2. r * 100 <= Cardinality(A) * 100 /\ Cardinality(B) * 100 <= (r - 1) * 100
    BY <1>8, <1>12
  <2>3. a <= r * 100 /\ (r - 1) * 100 < a /\ p * Len(lat) = a
    BY <1>1, <1>3, <2>1
  <2>4. PICK x, y \in Nat : x = Cardinality(A) /\ y = Cardinality(B)
    BY <1>8
  <2>5. x * 100 >= a /\ y * 100 < a
    <3>1. a <= r * 100 /\ (r - 1) * 100 < a /\ r * 100 <= x * 100 /\ y * 100 <= (r - 1) * 100
      BY <2>2, <2>3, <2>4
    <3> QED
      BY <3>1
  <2> QED
    BY <2>3, <2>4, <2>5
<1>14. v \in {lat[i] : i \in DOMAIN lat}
  BY <1>2, <1>4
<1> QED
  BY <1>5, <1>13, <1>14 DEF IsNearestRank, A, B

-----------------------------------------------------------------------------
\* The latencies in the workers' slices, each by its place.
Held(slices) == Cells(slices, Cardinality(Workers))

LEMMA WorkersNumbered ==
  /\ Cardinality(Workers) \in Nat \ {0} /\ Workers = 1 .. Cardinality(Workers)
<1>1. IsFiniteSet(Workers) /\ Workers # {} /\ Workers = 1 .. Cardinality(Workers)
  BY LoadAssumption
<1>2. Cardinality(Workers) \in Nat
  BY <1>1, FS_CardinalityType
<1>3. Cardinality(Workers) # 0
  BY <1>1, FS_EmptySet
<1> QED
  BY <1>1, <1>2, <1>3

\* A latency for each answer tallied as one, none beyond the answers and errors.
Gathered(slices, a, d, e) ==
  /\ IsFiniteSet(Held(slices))
  /\ a + d <= Cardinality(Held(slices)) /\ Cardinality(Held(slices)) <= (a + d) + e

Kept ==
  /\ local \in [Workers -> Seq(Nat)] /\ perWorker \in [Workers -> Seq(Nat)]
  /\ \A w \in Workers : request[w].start <= clock
  /\ Gathered(local, allowed, denied, errs)
  /\ \A w \in Workers : pc[w] \in {"leave", "done"} => perWorker[w] = local[w]
  /\ report # <<>> =>
       \E slices : slices = perWorker /\ report.latencies = Sorted(FlattenSeq(slices))

\* One more latency takes one more place.
LEMMA HeldStep ==
  ASSUME NEW slices \in [Workers -> Seq(Nat)], NEW w \in Workers, NEW x \in Nat,
         IsFiniteSet(Held(slices))
  PROVE  \A more : more = [slices EXCEPT ![w] = Append(@, x)] =>
           /\ more \in [Workers -> Seq(Nat)] /\ IsFiniteSet(Held(more))
           /\ Cardinality(Held(more)) = Cardinality(Held(slices)) + 1
<1> SUFFICES ASSUME NEW more, more = [slices EXCEPT ![w] = Append(@, x)]
             PROVE  /\ more \in [Workers -> Seq(Nat)] /\ IsFiniteSet(Held(more))
                    /\ Cardinality(Held(more)) = Cardinality(Held(slices)) + 1
  OBVIOUS
<1>1. PICK s \in Seq(Nat) : s = slices[w]
  OBVIOUS
<1>2. PICK k \in Nat : k = Len(s)
  OBVIOUS
<1>3. Append(s, x) \in Seq(Nat) /\ Len(Append(s, x)) = k + 1
  BY <1>2
<1>4. more = [slices EXCEPT ![w] = Append(s, x)]
  BY <1>1
<1>5. more \in [Workers -> Seq(Nat)]
  BY <1>3, <1>4
<1>6. more[w] = Append(s, x) /\ \A v \in Workers : v # w => more[v] = slices[v]
  BY <1>4
<1>7. Workers = 1 .. Cardinality(Workers)
  BY WorkersNumbered
<1> DEFINE e == <<w, k + 1>>
<1>8. e \notin Held(slices)
  BY <1>1, <1>2 DEF Held, Cells
<1>9. Held(more) = Held(slices) \cup {e}
  <2>1. ASSUME NEW i \in Workers, NEW j \in Nat
        PROVE  <<i, j>> \in Held(more) <=> <<i, j>> \in Held(slices) \/ <<i, j>> = e
    <3>1. CASE i = w
      <4>1. <<i, j>> \in Held(more) <=> j \in 1 .. (k + 1)
        BY <1>3, <1>6, <1>7, <3>1 DEF Held, Cells
      <4>2. <<i, j>> \in Held(slices) <=> j \in 1 .. k
        BY <1>1, <1>2, <1>7, <3>1 DEF Held, Cells
      <4>3. <<i, j>> = e <=> j = k + 1
        BY <3>1
      <4> QED
        BY <4>1, <4>2, <4>3
    <3>2. CASE i # w
      BY <1>6, <1>7, <3>2 DEF Held, Cells
    <3> QED
      BY <3>1, <3>2
  <2>2. PICK P : P = Workers \X Nat
    OBVIOUS
  <2>3. \A y \in P : \E i \in Workers, j \in Nat : y = <<i, j>>
    BY <2>2
  <2>4. Held(more) \subseteq P /\ Held(slices) \subseteq P /\ e \in P
    <3>1. PICK c : c = Cardinality(Workers)
      OBVIOUS
    <3>2. Held(more) \subseteq (1 .. c) \X Nat /\ Held(slices) \subseteq (1 .. c) \X Nat
      BY <3>1, Zenon DEF Held, Cells
    <3>3. e \in P
      BY <2>2
    <3> QED
      BY <1>7, <2>2, <3>1, <3>2, <3>3
  <2> HIDE DEF e
  <2>5. \A y \in P : y \in Held(more) <=> y \in Held(slices) \/ y = e
    <3> TAKE y \in P
    <3>1. PICK i \in Workers, j \in Nat : y = <<i, j>>
      BY <2>3
    <3> QED
      BY <2>1, <3>1, Zenon
  <2> QED
    BY <2>4, <2>5
<1> HIDE DEF e
<1>10. PICK H : H = Held(slices)
  OBVIOUS
<1>11. IsFiniteSet(H \cup {e}) /\ Cardinality(H \cup {e}) = Cardinality(H) + 1
  BY <1>8, <1>10, FS_AddElement
<1> QED
  BY <1>5, <1>9, <1>10, <1>11

\* Steps that gather and leave nothing.
LEMMA QuietKept ==
  ASSUME Typed, Kept, UNCHANGED <<local, perWorker, report, allowed, denied>>,
         errs' = errs \/ errs' = errs + 1,
         \A w \in Workers : request'[w].start <= clock',
         \A w \in Workers : pc'[w] \in {"leave", "done"} => pc[w] \in {"leave", "done"}
  PROVE  Kept'
<1>1. PICK a, d, e \in Nat : a = allowed /\ d = denied /\ e = errs
  BY DEF Typed
<1>2. Gathered(local, a, d, e)
  BY <1>1 DEF Kept
<1>3. Gathered(local, a, d, e + 1)
  <2>1. PICK S : S = Held(local)
    OBVIOUS
  <2>2. IsFiniteSet(S) /\ a + d <= Cardinality(S) /\ Cardinality(S) <= (a + d) + e
    BY <1>2, <2>1 DEF Gathered
  <2>3. Cardinality(S) \in Nat
    BY <2>2, FS_CardinalityType
  <2>4. Cardinality(S) <= (a + d) + (e + 1)
    BY <2>2, <2>3
  <2> QED
    BY <2>1, <2>2, <2>4 DEF Gathered
<1>4. allowed' = a /\ denied' = d /\ (errs' = e \/ errs' = e + 1) /\ local' = local
  BY <1>1
<1>5. Gathered(local', allowed', denied', errs')
  BY <1>2, <1>3, <1>4
<1>6. Gathered(local, allowed, denied, errs)'
  BY <1>5 DEF Gathered, Held, Cells
<1> QED
  BY <1>6 DEF Kept

LEMMA ReceiveKept ==
  ASSUME Typed, Kept, NEW w \in Workers, Receive(w)
  PROVE  Kept'
<1>1. PICK a, d, e, now \in Nat : a = allowed /\ d = denied /\ e = errs /\ now = clock
  BY DEF Typed
<1>2. PICK i, j, k \in {0, 1} : /\ i = Brings(pc[w], request[w], 200)
                                /\ j = Brings(pc[w], request[w], 429)
                                /\ k = Brings(pc[w], request[w], 502)
  BY BusyType
<1>3. i + j + k = 1
  BY <1>2, ReceiveEffect DEF Brings
<1>4. allowed' = a + i /\ denied' = d + j /\ errs' = e + k
  BY <1>1, <1>2, ReceiveEffect
<1>5. PICK start \in Nat : start = request[w].start
  BY DEF Typed, Requests
<1>6. start <= now
  BY <1>1, <1>5 DEF Kept
<1>7. PICK x \in Nat : x = now - start
  BY <1>6
<1>8. local' = [local EXCEPT ![w] = Append(@, x)]
  BY <1>1, <1>5, <1>7 DEF Receive
<1>9. Gathered(local, a, d, e) /\ local \in [Workers -> Seq(Nat)]
  BY <1>1 DEF Kept
<1>10. PICK S, T : S = Held(local) /\ T = Held(local')
  OBVIOUS
<1>11. /\ local' \in [Workers -> Seq(Nat)] /\ IsFiniteSet(T) /\ IsFiniteSet(S)
       /\ Cardinality(T) = Cardinality(S) + 1
  <2>1. PICK slices \in [Workers -> Seq(Nat)] : slices = local
    BY <1>9
  <2>2. PICK more : more = local'
    OBVIOUS
  <2>3. more = [slices EXCEPT ![w] = Append(@, x)] /\ IsFiniteSet(Held(slices))
    BY <1>8, <1>9, <2>1, <2>2 DEF Gathered
  <2>4. /\ more \in [Workers -> Seq(Nat)] /\ IsFiniteSet(Held(more))
        /\ Cardinality(Held(more)) = Cardinality(Held(slices)) + 1
    BY <2>3, HeldStep
  <2>5. S = Held(slices) /\ T = Held(more)
    BY <1>10, <2>1, <2>2
  <2> QED
    BY <2>2, <2>3, <2>4, <2>5
<1>12. Cardinality(S) \in Nat /\ a + d <= Cardinality(S) /\ Cardinality(S) <= (a + d) + e
  BY <1>9, <1>10, <1>11, FS_CardinalityType DEF Gathered
<1>13. (a + i) + (d + j) <= Cardinality(T) /\ Cardinality(T) <= ((a + i) + (d + j)) + (e + k)
  BY <1>3, <1>11, <1>12
<1>14. Gathered(local', allowed', denied', errs')
  BY <1>4, <1>10, <1>11, <1>13 DEF Gathered
<1>15. Gathered(local, allowed, denied, errs)'
  BY <1>14 DEF Gathered, Held, Cells
<1>16. /\ pc[w] = "answer" /\ pc' = [pc EXCEPT ![w] = "claim"]
       /\ request' = [request EXCEPT ![w] = NoRequest]
       /\ UNCHANGED <<perWorker, report, clock>>
  BY DEF Receive, Goto
<1>17. \A v \in Workers : request'[v].start <= clock'
  BY <1>16 DEF Typed, Kept, NoRequest
<1>18. \A v \in Workers : pc'[v] \in {"leave", "done"} => perWorker'[v] = local'[v]
  <2> TAKE v \in Workers
  <2> HAVE pc'[v] \in {"leave", "done"}
  <2>1. v # w
    BY <1>16 DEF Typed
  <2>2. pc'[v] = pc[v] /\ local'[v] = local[v]
    BY <1>8, <1>9, <1>16, <2>1 DEF Typed
  <2> QED
    BY <1>16, <2>2 DEF Kept
<1> QED
  BY <1>11, <1>15, <1>16, <1>17, <1>18 DEF Kept

\* The slice is left behind as it was gathered.
LEMMA PublishKept ==
  ASSUME Typed, Verdicts, Kept, NEW w \in Workers, Publish(w)
  PROVE  Kept'
<1>1. /\ pc[w] = "publish" /\ pc' = [pc EXCEPT ![w] = "leave"]
      /\ perWorker' = [perWorker EXCEPT ![w] = local[w]]
      /\ UNCHANGED <<allowed, denied, errs, request, local, report, clock>>
  BY DEF Publish, Goto
<1>2. report' = <<>>
  BY <1>1 DEF Verdicts, Settled, Done
<1>3. Gathered(local, allowed, denied, errs)'
  BY <1>1 DEF Kept, Gathered, Held, Cells
<1>4. perWorker' \in [Workers -> Seq(Nat)]
  BY <1>1 DEF Kept
<1>5. \A v \in Workers : pc'[v] \in {"leave", "done"} => perWorker'[v] = local'[v]
  <2> TAKE v \in Workers
  <2> HAVE pc'[v] \in {"leave", "done"}
  <2>1. CASE v = w
    BY <1>1, <2>1 DEF Kept
  <2>2. CASE v # w
    <3>1. pc'[v] = pc[v] /\ perWorker'[v] = perWorker[v]
      BY <1>1, <2>2 DEF Typed, Kept
    <3> QED
      BY <1>1, <3>1 DEF Kept
  <2> QED
    BY <2>1, <2>2
<1> QED
  BY <1>1, <1>2, <1>3, <1>4, <1>5 DEF Kept

LEMMA InitKept == Init => Kept
<1> SUFFICES ASSUME Init PROVE Kept
  OBVIOUS
<1>1. /\ local = [w \in Workers |-> <<>>] /\ perWorker = [w \in Workers |-> <<>>]
      /\ request = [w \in Workers |-> NoRequest] /\ pc = [w \in Workers |-> "claim"]
      /\ report = <<>> /\ allowed = 0 /\ denied = 0 /\ errs = 0 /\ clock = 0
  BY DEF Init, LoadInit
<1>2. Held(local) = {}
  <2>1. \A w \in Workers : 1 .. Len(local[w]) = {}
    BY <1>1
  <2> QED
    BY <2>1, WorkersNumbered DEF Held, Cells
<1>3. Gathered(local, allowed, denied, errs)
  <2>1. PICK H : H = Held(local)
    OBVIOUS
  <2>2. IsFiniteSet(H) /\ Cardinality(H) = 0
    BY <1>2, <2>1, FS_EmptySet
  <2> QED
    BY <1>1, <2>1, <2>2 DEF Gathered
<1> QED
  BY <1>1, <1>3 DEF Kept, NoRequest

LEMMA StepKept == Typed /\ Verdicts /\ Kept /\ [LoadNext]_loadVars => Kept'
<1> SUFFICES ASSUME Typed, Verdicts, Kept, [LoadNext]_loadVars PROVE Kept'
  OBVIOUS
<1>0. /\ pc \in [Workers -> Places] /\ request \in [Workers -> Requests] /\ clock \in Nat
      /\ \A w \in Workers : request[w].start <= clock /\ request[w].start \in Nat
  BY DEF Typed, Kept, Requests
<1>1. ASSUME NEW w \in Workers, Claim(w) PROVE Kept'
  <2>1. PICK start \in {0, clock} :
          /\ request' = [request EXCEPT ![w].start = start]
          /\ pc' = [pc EXCEPT ![w] = IF sent + 1 > n THEN "publish" ELSE "get"]
          /\ UNCHANGED <<allowed, denied, errs, local, perWorker, report, clock>>
    BY <1>1 DEF Claim, Goto, AfterClaim
  <2>2. \A v \in Workers : request'[v].start <= clock'
    BY <1>0, <2>1 DEF Requests
  <2> QED
    BY <1>0, <2>1, <2>2, QuietKept
<1>2. ASSUME NEW w \in Workers, Serve(w) \/ BadGateway(w) PROVE Kept'
  <2>1. PICK status :
          /\ request' = [request EXCEPT ![w].status = status]
          /\ pc' = [pc EXCEPT ![w] = "answer"]
          /\ UNCHANGED <<allowed, denied, errs, local, perWorker, report, clock>>
    BY <1>2 DEF Serve, BadGateway, Goto
  <2>2. \A v \in Workers : request'[v].start <= clock'
    BY <1>0, <2>1 DEF Requests
  <2> QED
    BY <1>0, <2>1, <2>2, QuietKept
<1>3. ASSUME NEW w \in Workers, PassOn(w) PROVE Kept'
  <2>1. UNCHANGED <<allowed, denied, errs, local, perWorker, report, clock, pc, request>>
    BY <1>3 DEF PassOn, pool
  <2> QED
    BY <1>0, <2>1, QuietKept
<1>4. ASSUME NEW w \in Workers, GetFails(w) PROVE Kept'
  <2>1. /\ request' = [request EXCEPT ![w] = NoRequest]
        /\ pc' = [pc EXCEPT ![w] = "claim"] /\ errs' = errs + 1
        /\ UNCHANGED <<allowed, denied, local, perWorker, report, clock>>
    BY <1>4 DEF GetFails, Goto
  <2>2. \A v \in Workers : request'[v].start <= clock'
    BY <1>0, <2>1 DEF NoRequest
  <2> QED
    BY <1>0, <2>1, <2>2, QuietKept
<1>5. ASSUME NEW w \in Workers, Receive(w) PROVE Kept'
  BY <1>5, ReceiveKept
<1>6. ASSUME NEW w \in Workers, Publish(w) PROVE Kept'
  BY <1>6, PublishKept
<1>7. ASSUME NEW w \in Workers, Leave(w) PROVE Kept'
  <2>1. /\ pc[w] = "leave" /\ pc' = [pc EXCEPT ![w] = "done"]
        /\ UNCHANGED <<allowed, denied, errs, request, local, perWorker, report, clock>>
    BY <1>7 DEF Leave, Goto
  <2> QED
    BY <1>0, <2>1, QuietKept
<1>8. ASSUME Report PROVE Kept'
  <2>1. UNCHANGED <<allowed, denied, errs, pc, request, local, perWorker, clock>>
    BY <1>8, Zenon DEF Report
  <2>2. report' = [verdict |-> Verdict(allowed), latencies |-> Sorted(FlattenSeq(perWorker)),
                   elapsed |-> clock]
    BY <1>8, Zenon DEF Report
  <2>3. report'.latencies = Sorted(FlattenSeq(perWorker))
    BY <2>2
  <2>4. \E slices : slices = perWorker' /\ report'.latencies = Sorted(FlattenSeq(slices))
    BY <2>1, <2>3
  <2>5. (report # <<>> =>
           \E slices : slices = perWorker /\ report.latencies = Sorted(FlattenSeq(slices)))'
    BY <2>4
  <2>6. Gathered(local, allowed, denied, errs)'
    BY <2>1 DEF Kept, Gathered, Held, Cells
  <2> QED
    BY <2>1, <2>5, <2>6 DEF Kept
<1>9. ASSUME Tick PROVE Kept'
  <2>1. /\ clock' = clock + 1
        /\ UNCHANGED <<allowed, denied, errs, local, perWorker, report, pc, request>>
    BY <1>9 DEF Tick, pool
  <2>2. \A v \in Workers : request'[v].start <= clock'
    BY <1>0, <2>1
  <2> QED
    BY <2>1, <2>2, QuietKept
<1>10. ASSUME UNCHANGED loadVars PROVE Kept'
  <2>1. UNCHANGED <<allowed, denied, errs, local, perWorker, report, pc, request, clock>>
    BY <1>10 DEF loadVars, pool
  <2> QED
    BY <1>0, <2>1, QuietKept
<1> QED
  BY <1>1, <1>2, <1>3, <1>4, <1>5, <1>6, <1>7, <1>8, <1>9, <1>10, Zenon DEF LoadNext, Work

LEMMA LatenciesFollow == LoadInv /\ Verdicts /\ Kept => LatenciesReported
<1> SUFFICES ASSUME LoadInv, Verdicts, Kept, report # <<>>, NEW lat, lat = report.latencies
             PROVE  /\ Len(lat) \in allowed + denied .. n
                    /\ Len(lat) + errs >= n
                    /\ lat # <<>> => \A p \in {50, 95, 99} : IsNearestRank(percentile(lat, p), lat, p)
  BY DEF LatenciesReported
<1>1. perWorker = local
  <2>1. \A w \in Workers : pc[w] = "done"
    BY DEF Verdicts, Settled, Done
  <2>2. \A w \in Workers : perWorker[w] = local[w]
    BY <2>1 DEF Kept
  <2>3. /\ perWorker = [w \in Workers |-> perWorker[w]]
        /\ local = [w \in Workers |-> local[w]]
    BY DEF Kept
  <2> QED
    BY <2>2, <2>3, Zenon
<1>2. PICK s : s = FlattenSeq(local)
  OBVIOUS
<1>3. lat = Sorted(s)
  BY <1>1, <1>2 DEF Kept
<1>4. PICK c : c = Cardinality(Workers)
  OBVIOUS
<1>5. c \in Nat \ {0} /\ local \in [1 .. c -> Seq(Nat)]
  BY <1>4, WorkersNumbered DEF Kept
<1>6. s \in Seq(Nat) /\ Len(s) = Cardinality(Held(local))
  BY <1>2, <1>4, <1>5, FlattenLength DEF Held
<1>7. lat \in Seq(Nat) /\ Len(lat) = Cardinality(Held(local)) /\ Ascending(lat)
  <2>1. lat \in Seq(Nat) /\ Len(lat) = Len(s)
    BY <1>3, <1>6, SortedSorts
  <2>2. \A i, j \in 1 .. Len(s) : i < j => lat[i] <= lat[j]
    BY <1>3, <1>6, SortedSorts
  <2> QED
    BY <1>6, <2>1, <2>2 DEF Ascending
<1>8. PICK m \in Nat : m = Len(lat)
  BY <1>7
<1>9. allowed + denied <= m /\ m <= (allowed + denied) + errs
  BY <1>7, <1>8 DEF Kept, Gathered
<1>10. allowed + denied + errs = n /\ allowed \in Nat /\ denied \in Nat /\ errs \in Nat
  BY AllTallied DEF LoadInv, Typed
<1>11. m \in allowed + denied .. n /\ m + errs >= n
  BY <1>9, <1>10
<1>12. ASSUME lat # <<>>, NEW p \in {50, 95, 99} PROVE IsNearestRank(percentile(lat, p), lat, p)
  <2>1. PICK q \in 1 .. 99 : q = p
    OBVIOUS
  <2>2. PICK l \in Seq(Nat) : l = lat
    BY <1>7
  <2>3. l # <<>> /\ Ascending(l)
    BY <1>7, <1>12, <2>2
  <2>4. IsNearestRank(percentile(l, q), l, q)
    BY <2>3, PercentileIsNearest
  <2> QED
    BY <2>1, <2>2, <2>4
<1> QED
  BY <1>8, <1>11, <1>12

\* main reports a latency for every answer it tallied and none for a request that
\* failed, sees every worker's slice after wg.Wait, and its percentiles are nearest
\* ranks, for every number of workers and requests (main.go:110-116, 227-239).
THEOREM LatenciesAreReported == Spec => []LatenciesReported
<1>1. Spec => []Verdicts
  <2>1. LoadInv /\ Verdicts /\ [Next]_vars => Verdicts'
    BY LoadSteps, StepVerdicts DEF LoadInv
  <2> QED
    BY InitVerdicts, LoadInvariant, <2>1, PTL DEF Spec
<1>2. LoadInv /\ Verdicts /\ Kept /\ [Next]_vars => Kept'
  BY LoadSteps, StepKept DEF LoadInv
<1>3. Spec => []Kept
  BY InitKept, LoadInvariant, <1>1, <1>2, PTL DEF Spec
<1> QED
  BY <1>1, <1>3, LoadInvariant, LatenciesFollow, PTL

-----------------------------------------------------------------------------
\* The dashboard.  The snapshots known to it, on their way, queued and rendered,
\* are counts of the past, each componentwise no greater than the later ones.
UpTo(x, y) == x.allowed <= y.allowed /\ x.denied <= y.denied

Known ==
  ({poll[k].data : k \in 1 .. MaxPolls} \cup {updates[i] : i \in 1 .. Len(updates)}
     \cup {current}) \ {nil}

Chain(S, c) ==
  /\ S \subseteq Counts
  /\ \A x \in S : UpTo(x, c)
  /\ \A x, y \in S : UpTo(x, y) \/ UpTo(y, x)

LEMMA ChainKept ==
  ASSUME NEW S, NEW c \in Counts, Chain(S, c)
  PROVE  /\ \A T : T \subseteq S \cup {c} => Chain(T, c)
         /\ \A c1 \in Counts : UpTo(c, c1) => Chain(S, c1)
<1>1. UpTo(c, c)
  BY DEF Counts, UpTo
<1>2. ASSUME NEW c1 \in Counts, UpTo(c, c1) PROVE Chain(S, c1)
  <2>1. ASSUME NEW x \in S PROVE UpTo(x, c1)
    <3>1. x \in Counts /\ UpTo(x, c)
      BY DEF Chain
    <3> QED
      BY <1>2, <3>1 DEF UpTo, Counts
  <2> QED
    BY <2>1 DEF Chain
<1>3. ASSUME NEW T, T \subseteq S \cup {c} PROVE Chain(T, c)
  BY <1>1, <1>3 DEF Chain
<1> QED
  BY <1>2, <1>3

\* The server's counts only grow.
LEMMA CountsGrow == Typed /\ [LoadNext]_loadVars => UpTo(counts, counts')
<1> SUFFICES ASSUME Typed, [LoadNext]_loadVars PROVE UpTo(counts, counts')
  OBVIOUS
<1>1. PICK ca, cd \in Nat : ca = counts.allowed /\ cd = counts.denied
  BY DEF Typed, Counts
<1>2. ASSUME UNCHANGED counts PROVE UpTo(counts, counts')
  BY <1>1, <1>2 DEF UpTo
<1>3. ASSUME Decided PROVE UpTo(counts, counts')
  <2>1. PICK j \in {0, 1} : j = IF HasToken THEN 1 ELSE 0
    OBVIOUS
  <2>2. counts'.allowed = ca + j /\ counts'.denied = cd + (1 - j)
    BY <1>1, <1>3, <2>1 DEF Decided
  <2>3. ca <= ca + j /\ cd <= cd + (1 - j)
    OBVIOUS
  <2> QED
    BY <1>1, <2>2, <2>3 DEF UpTo
<1>4. ASSUME NEW w \in Workers, Work(w) PROVE Decided \/ UNCHANGED counts
  <2>1. CASE Serve(w) \/ PassOn(w)
    BY <2>1, DecidesEffect DEF Serve, PassOn
  <2>2. CASE Claim(w) \/ BadGateway(w) \/ GetFails(w) \/ Receive(w) \/ Publish(w) \/ Leave(w)
    BY <2>2 DEF Claim, BadGateway, GetFails, Receive, Publish, Leave, server
  <2> QED
    BY <1>4, <2>1, <2>2 DEF Work
<1>5. ASSUME Report PROVE UNCHANGED counts
  BY <1>5, Zenon DEF Report, server
<1>6. ASSUME Tick \/ UNCHANGED loadVars PROVE UNCHANGED counts
  BY <1>6 DEF Tick, loadVars, server
<1> QED
  BY <1>2, <1>3, <1>4, <1>5, <1>6, Zenon DEF LoadNext

\* The snapshot rendered and those queued after it, in order.
Seen(cur, ups, i) == IF i = 0 THEN cur ELSE ups[i]

Before(x, y) == x = nil \/ (y # nil /\ UpTo(x, y))

\* None is later than the ones behind it, and fst is the first of all.
InLine(cur, ups, fst) ==
  /\ \A i, j \in 0 .. Len(ups) : i <= j => Before(Seen(cur, ups, i), Seen(cur, ups, j))
  /\ \A i \in 0 .. Len(ups) :
       Seen(cur, ups, i) # nil => fst # nil /\ UpTo(fst, Seen(cur, ups, i))
  /\ \A i \in 1 .. Len(ups) :
       Seen(cur, ups, i - 1) = nil /\ Seen(cur, ups, i) # nil => fst = Seen(cur, ups, i)
  /\ Seen(cur, ups, Len(ups)) = nil => fst = nil

\* What the page has shown is part of the growth since the first snapshot, and all
\* of it if the snapshots were rendered one by one.
Adds(cur, fst, sum, bat) ==
  /\ cur = nil => sum.allowed = 0 /\ sum.denied = 0
  /\ cur # nil => /\ sum.allowed <= cur.allowed - fst.allowed
                  /\ sum.denied <= cur.denied - fst.denied
                  /\ ~bat => /\ sum.allowed = cur.allowed - fst.allowed
                             /\ sum.denied = cur.denied - fst.denied

Snapshots == {nil} \cup Counts
Polls == [1 .. MaxPolls -> [at : {"unsent", "answered", "over"}, data : Snapshots]]

Pages ==
  /\ poll \in Polls
  /\ updates \in Seq(Snapshots) /\ current \in Snapshots /\ first \in Snapshots
  /\ overtaken \in BOOLEAN /\ batched \in BOOLEAN
  /\ shown \in [allowed : Int, denied : Int]
  /\ Chain(Known, counts)
  /\ ~overtaken => InLine(current, updates, first) /\ Adds(current, first, shown, batched)

LEMMA InitPages == Init => Pages
<1> SUFFICES ASSUME Init PROVE Pages
  OBVIOUS
<1>1. /\ poll = [k \in 1 .. MaxPolls |-> [at |-> "unsent", data |-> nil]]
      /\ updates = <<>> /\ current = nil /\ first = nil
      /\ shown = Zero /\ overtaken = FALSE /\ batched = FALSE
  BY DEF Init
<1>2. poll \in Polls /\ updates \in Seq(Snapshots) /\ Len(updates) = 0
  BY <1>1 DEF Polls, Snapshots
<1>3. Known = {}
  BY <1>1, <1>2 DEF Known
<1>4. Chain(Known, counts)
  BY <1>3 DEF Chain
<1>5. Adds(current, first, shown, batched) /\ shown \in [allowed : Int, denied : Int]
  BY <1>1 DEF Adds, Zero
<1>6. InLine(current, updates, first)
  <2>1. \A i \in 0 .. Len(updates) : i = 0
    BY <1>2
  <2> QED
    BY <1>1, <1>2, <2>1 DEF InLine, Seen, Before
<1> QED
  BY <1>1, <1>2, <1>4, <1>5, <1>6 DEF Pages, Snapshots

LEMMA UpToGoesOn ==
  ASSUME NEW x \in Snapshots, NEW y \in Snapshots, NEW z \in Snapshots,
         Before(x, y), Before(y, z)
  PROVE  Before(x, z)
BY DEF Before, UpTo, Snapshots, Counts

\* A snapshot is queued that is not earlier than the last one.
LEMMA LineGrows ==
  ASSUME NEW cur \in Snapshots, NEW ups \in Seq(Snapshots), NEW fst \in Snapshots,
         NEW data \in Snapshots, InLine(cur, ups, fst),
         NEW last, last = Seen(cur, ups, Len(ups)),
         ~(last # nil /\ (data = nil \/ Total(data) < Total(last))),
         (last # nil /\ data # nil) => (UpTo(last, data) \/ UpTo(data, last)),
         NEW fst1, fst1 = IF fst = nil THEN data ELSE fst
  PROVE  InLine(cur, Append(ups, data), fst1)
<1>1. PICK len \in Nat : len = Len(ups)
  OBVIOUS
<1>2. PICK ups1 : ups1 = Append(ups, data)
  OBVIOUS
<1>3. /\ Len(ups1) = len + 1 /\ ups1[len + 1] = data
      /\ \A i \in 1 .. len : ups1[i] = ups[i] /\ ups[i] \in Snapshots
  BY <1>1, <1>2
<1>4. /\ Seen(cur, ups1, len + 1) = data
      /\ \A i \in 0 .. len : /\ Seen(cur, ups1, i) = Seen(cur, ups, i)
                             /\ Seen(cur, ups, i) \in Snapshots
  BY <1>1, <1>3 DEF Seen
<1>5. last \in Snapshots /\ last = Seen(cur, ups, len) /\ len \in 0 .. len
  BY <1>1, <1>4
<1>6. Before(last, data)
  <2>1. CASE last = nil
    BY <2>1 DEF Before
  <2>2. CASE last # nil
    <3>1. last \in Counts /\ data # nil /\ data \in Counts
      BY <1>5, <2>2 DEF Snapshots
    <3>2. /\ last.allowed \in Nat /\ last.denied \in Nat
          /\ data.allowed \in Nat /\ data.denied \in Nat
      BY <3>1 DEF Counts
    <3>3. ~(Total(data) < Total(last)) /\ (UpTo(last, data) \/ UpTo(data, last))
      BY <2>2, <3>1
    <3> QED
      BY <3>1, <3>2, <3>3 DEF Before, UpTo, Total
  <2> QED
    BY <2>1, <2>2
<1>7. /\ \A i, j \in 0 .. len : i <= j => Before(Seen(cur, ups, i), Seen(cur, ups, j))
      /\ \A i \in 0 .. len : Seen(cur, ups, i) # nil => fst # nil /\ UpTo(fst, Seen(cur, ups, i))
      /\ \A i \in 1 .. len :
           Seen(cur, ups, i - 1) = nil /\ Seen(cur, ups, i) # nil => fst = Seen(cur, ups, i)
      /\ last = nil => fst = nil
  BY <1>1 DEF InLine
<1>8. ASSUME NEW i \in 0 .. len PROVE Before(Seen(cur, ups, i), data)
  <2>1. Before(Seen(cur, ups, i), last)
    BY <1>5, <1>7
  <2> QED
    BY <1>4, <1>5, <1>6, <2>1, UpToGoesOn
<1>9. data # nil => /\ fst1 # nil /\ UpTo(fst1, data)
                    /\ last = nil => fst1 = data
  <2>1. CASE fst = nil
    BY <2>1 DEF UpTo, Snapshots, Counts
  <2>2. CASE fst # nil
    <3>1. last # nil /\ fst1 = fst /\ Before(fst, last)
      BY <1>5, <1>7, <2>2 DEF Before
    <3> QED
      BY <1>5, <1>6, <2>2, <3>1, UpToGoesOn DEF Before
  <2> QED
    BY <2>1, <2>2
<1>10. \A i \in 0 .. len + 1 : i \in 0 .. len \/ i = len + 1
  OBVIOUS
<1>11. ASSUME NEW i \in 0 .. len + 1, NEW j \in 0 .. len + 1, i <= j
       PROVE  Before(Seen(cur, ups1, i), Seen(cur, ups1, j))
  <2>1. CASE i \in 0 .. len /\ j \in 0 .. len
    BY <1>4, <1>7, <1>11, <2>1
  <2>2. CASE i \in 0 .. len /\ j = len + 1
    BY <1>4, <1>8, <2>2
  <2>3. CASE i = len + 1 /\ j = len + 1
    BY <1>4, <2>3 DEF Before, UpTo, Snapshots, Counts
  <2> QED
    BY <1>10, <1>11, <2>1, <2>2, <2>3
<1>12. ASSUME NEW i \in 0 .. len + 1, Seen(cur, ups1, i) # nil
       PROVE  fst1 # nil /\ UpTo(fst1, Seen(cur, ups1, i))
  <2>1. CASE i \in 0 .. len
    BY <1>4, <1>7, <1>12, <2>1
  <2>2. CASE i = len + 1
    BY <1>4, <1>9, <1>12, <2>2
  <2> QED
    BY <1>10, <2>1, <2>2
<1>13. ASSUME NEW i \in 1 .. len + 1, Seen(cur, ups1, i - 1) = nil, Seen(cur, ups1, i) # nil
       PROVE  fst1 = Seen(cur, ups1, i)
  <2>1. CASE i \in 1 .. len
    <3>1. Seen(cur, ups, i - 1) = nil /\ Seen(cur, ups, i) # nil
      BY <1>4, <1>13, <2>1
    <3> QED
      BY <1>4, <1>7, <2>1, <3>1
  <2>2. CASE i = len + 1
    <3>1. i - 1 = len
      BY <2>2
    <3> QED
      BY <1>4, <1>5, <1>9, <1>13, <2>2, <3>1
  <2> QED
    BY <2>1, <2>2
<1>14. data = nil => fst1 = nil
  BY <1>6, <1>7 DEF Before
<1>15. InLine(cur, ups1, fst1)
  BY <1>3, <1>4, <1>11, <1>12, <1>13, <1>14 DEF InLine
<1> QED
  BY <1>2, <1>15

\* Everything queued is applied and the last rate joins the sum.
LEMMA LineTaken ==
  ASSUME NEW cur \in Snapshots, NEW ups \in Seq(Snapshots), NEW fst \in Snapshots,
         NEW sum \in [allowed : Int, denied : Int], NEW bat \in BOOLEAN, ups # <<>>,
         InLine(cur, ups, fst), Adds(cur, fst, sum, bat),
         NEW last, last = ups[Len(ups)],
         NEW stash, stash = Seen(cur, ups, Len(ups) - 1),
         NEW r, r = Rates(last, stash)
  PROVE  /\ InLine(last, <<>>, fst)
         /\ Adds(last, fst, [allowed |-> sum.allowed + r.allowed, denied |-> sum.denied + r.denied],
                 bat \/ Len(ups) > 1)
<1>1. PICK len \in Nat : len = Len(ups) /\ len >= 1
  OBVIOUS
<1>2. /\ last = Seen(cur, ups, len) /\ stash = Seen(cur, ups, len - 1) /\ cur = Seen(cur, ups, 0)
      /\ len = 1 => stash = cur
      /\ last \in Snapshots /\ stash \in Snapshots
  BY <1>1 DEF Seen
<1>3. 0 \in 0 .. len /\ len \in 0 .. len /\ len - 1 \in 0 .. len /\ len \in 1 .. len
  BY <1>1
<1>4. Before(cur, stash) /\ Before(stash, last) /\ Before(last, last)
  BY <1>1, <1>2, <1>3 DEF InLine
<1>5. /\ last # nil => fst # nil /\ UpTo(fst, last)
      /\ stash # nil => fst # nil /\ UpTo(fst, stash)
      /\ stash = nil /\ last # nil => fst = last
      /\ last = nil => fst = nil
  BY <1>1, <1>2, <1>3 DEF InLine
<1>6. InLine(last, <<>>, fst)
  <2>1. \A i \in 0 .. Len(<<>>) : i = 0
    OBVIOUS
  <2>2. Seen(last, <<>>, 0) = last /\ Len(<<>>) = 0
    BY DEF Seen
  <2> QED
    BY <1>4, <1>5, <2>1, <2>2 DEF InLine
<1>7. PICK sa, sd \in Int : sa = sum.allowed /\ sd = sum.denied
  OBVIOUS
<1>8. CASE last = nil
  <2>1. cur = nil /\ r = Zero
    BY <1>2, <1>4, <1>8 DEF Before, Rates
  <2> QED
    BY <1>6, <1>7, <1>8, <2>1 DEF Adds, Zero
<1>9. CASE last # nil /\ stash = nil
  <2>1. cur = nil /\ r = Zero /\ fst = last
    BY <1>4, <1>5, <1>9 DEF Before, Rates
  <2>2. last.allowed \in Nat /\ last.denied \in Nat
    BY <1>2, <1>9 DEF Snapshots, Counts
  <2> QED
    BY <1>6, <1>7, <1>9, <2>1, <2>2 DEF Adds, Zero
<1>10. CASE last # nil /\ stash # nil
  <2>1. last \in Counts /\ stash \in Counts /\ fst \in Counts
    BY <1>2, <1>5, <1>10 DEF Snapshots
  <2>2. PICK la, ld, ta, td, fa, fd \in Nat :
          /\ la = last.allowed /\ ld = last.denied /\ ta = stash.allowed /\ td = stash.denied
          /\ fa = fst.allowed /\ fd = fst.denied
    BY <2>1 DEF Counts
  <2>3. ta <= la /\ td <= ld /\ fa <= ta /\ fd <= td
    BY <1>4, <1>5, <1>10, <2>2 DEF Before, UpTo
  <2>4. r.allowed = la - ta /\ r.denied = ld - td
    <3>1. r = [allowed |-> Rate1(la, ta), denied |-> Rate1(ld, td)]
      BY <1>10, <2>2, Zenon DEF Rates
    <3>2. Rate1(la, ta) = la - ta /\ Rate1(ld, td) = ld - td
      BY <2>3 DEF Rate1, MaxOf
    <3> QED
      BY <3>1, <3>2
  <2>5. CASE cur = nil
    <3>1. sa = 0 /\ sd = 0 /\ len > 1
      BY <1>1, <1>2, <1>7, <1>10, <2>5 DEF Adds
    <3>2. sa + (la - ta) <= la - fa /\ sd + (ld - td) <= ld - fd
      BY <2>3, <3>1
    <3> QED
      BY <1>1, <1>6, <1>7, <1>10, <2>2, <2>4, <3>1, <3>2 DEF Adds
  <2>6. CASE cur # nil
    <3>1. cur \in Counts /\ UpTo(cur, stash)
      BY <1>4, <2>6 DEF Before, Snapshots
    <3>2. PICK ca, cd \in Nat : ca = cur.allowed /\ cd = cur.denied
      BY <3>1 DEF Counts
    <3>3. /\ ca <= ta /\ cd <= td /\ sa <= ca - fa /\ sd <= cd - fd
          /\ ~bat => sa = ca - fa /\ sd = cd - fd
      BY <1>7, <2>2, <2>6, <3>1, <3>2 DEF Adds, UpTo
    <3>4. len = 1 => ca = ta /\ cd = td
      BY <1>2, <2>2, <3>2
    <3>5. /\ sa + (la - ta) <= la - fa /\ sd + (ld - td) <= ld - fd
          /\ ~bat /\ len = 1 => sa + (la - ta) = la - fa /\ sd + (ld - td) = ld - fd
      BY <3>3, <3>4
    <3>6. PICK sum1 : sum1 = [allowed |-> sum.allowed + r.allowed, denied |-> sum.denied + r.denied]
      OBVIOUS
    <3>7. sum1.allowed = sa + (la - ta) /\ sum1.denied = sd + (ld - td)
      BY <1>7, <2>4, <3>6
    <3>8. ~(bat \/ Len(ups) > 1) => ~bat /\ len = 1
      BY <1>1
    <3>9. Adds(last, fst, sum1, bat \/ Len(ups) > 1)
      BY <1>10, <2>2, <3>5, <3>7, <3>8 DEF Adds
    <3> QED
      BY <1>6, <3>6, <3>9
  <2> QED
    BY <2>5, <2>6
<1> QED
  BY <1>8, <1>9, <1>10

LEMMA LoadPages == Typed /\ Typed' /\ Pages /\ [LoadNext]_loadVars /\ UNCHANGED page => Pages'
<1> SUFFICES ASSUME Typed, Typed', Pages, [LoadNext]_loadVars, UNCHANGED page PROVE Pages'
  OBVIOUS
<1>1. UNCHANGED <<poll, updates, current, first, shown, overtaken, batched>>
  BY DEF page
<1>2. PICK S : S = Known
  OBVIOUS
<1>3. Known' = S
  BY <1>1, <1>2 DEF Known
<1>4. Chain(S, counts')
  <2>1. Chain(S, counts) /\ counts \in Counts /\ counts' \in Counts /\ UpTo(counts, counts')
    BY <1>2, CountsGrow DEF Pages, Typed
  <2> QED
    BY <2>1, ChainKept
<1>5. Chain(Known', counts')
  BY <1>3, <1>4
<1> QED
  BY <1>1, <1>5 DEF Pages

LEMMA PollPages ==
  ASSUME Typed, Pages, NEW k \in 1 .. MaxPolls, Poll(k)
  PROVE  Pages'
<1>1. /\ poll' = [poll EXCEPT ![k] = [at |-> "answered", data |-> Stats]]
      /\ UNCHANGED <<counts, updates, current, first, shown, overtaken, batched>>
  BY DEF Poll, loadVars, server
<1>2. Stats \in {nil, counts} /\ counts \in Counts
  BY DEF Stats, Typed
<1>3. poll' \in Polls /\ \A j \in 1 .. MaxPolls : poll'[j].data \in {poll[j].data, Stats}
  BY <1>1, <1>2 DEF Pages, Polls, Snapshots
<1>4. Known' \subseteq Known \cup {counts}
  BY <1>1, <1>2, <1>3 DEF Known
<1>5. Chain(Known', counts)
  BY <1>2, <1>4, ChainKept DEF Pages
<1> QED
  BY <1>1, <1>3, <1>5 DEF Pages

\* A poll is over: nothing new is known.
LEMMA OverKnown ==
  ASSUME Typed, Pages, NEW k \in 1 .. MaxPolls, Over(k)
  PROVE  /\ poll' \in Polls
         /\ \A j \in 1 .. MaxPolls : poll'[j].data \in {poll[j].data, nil}
BY DEF Over, Pages, Polls, Snapshots

LEMMA DeliverPages ==
  ASSUME Typed, Pages, NEW k \in 1 .. MaxPolls, Deliver(k)
  PROVE  Pages'
<1>1. PICK data \in Snapshots : data = poll[k].data
  BY DEF Pages, Polls
<1>2. PICK last : last = Seen(current, updates, Len(updates))
  OBVIOUS
<1>3. PICK len \in Nat : len = Len(updates)
  BY DEF Pages
<1>4. PICK fst1 : fst1 = IF first = nil THEN data ELSE first
  OBVIOUS
<1>5. Latest = last /\ (last = current \/ (len \in 1 .. len /\ last = updates[len]))
  <2>1. len = 0 <=> updates = <<>>
    BY <1>3 DEF Pages
  <2>2. len # 0 => len \in 1 .. len
    BY <1>3
  <2> QED
    BY <1>2, <1>3, <2>1, <2>2 DEF Latest, Seen
<1>6. /\ updates' = Append(updates, data)
      /\ overtaken' = (overtaken \/ (last # nil /\ (data = nil \/ Total(data) < Total(last))))
      /\ first' = fst1
      /\ UNCHANGED <<counts, current, shown, batched>>
      /\ Over(k)
  BY <1>1, <1>4, <1>5 DEF Deliver, loadVars, server
<1>7. poll' \in Polls /\ \A j \in 1 .. MaxPolls : poll'[j].data \in {poll[j].data, nil}
  BY <1>6, OverKnown
<1>8. /\ updates' \in Seq(Snapshots) /\ Len(updates') = len + 1 /\ updates'[len + 1] = data
      /\ \A i \in 1 .. len : updates'[i] = updates[i]
      /\ fst1 \in Snapshots
  BY <1>3, <1>4, <1>6 DEF Pages
<1>9. Known' \subseteq Known \cup {counts}
  <2>1. \A i \in 1 .. len + 1 : i \in 1 .. len \/ i = len + 1
    OBVIOUS
  <2>2. ASSUME NEW i \in 1 .. Len(updates'), updates'[i] # nil PROVE updates'[i] \in Known
    BY <1>1, <1>3, <1>8, <2>1, <2>2 DEF Known
  <2>3. ASSUME NEW x \in Known' PROVE x \in Known
    <3>1. \/ \E j \in 1 .. MaxPolls : x = poll'[j].data
          \/ \E i \in 1 .. Len(updates') : x = updates'[i]
          \/ x = current
      BY <1>6, <2>3 DEF Known
    <3>2. x # nil
      BY <2>3 DEF Known
    <3> QED
      BY <1>7, <2>2, <3>1, <3>2 DEF Known
  <2> QED
    BY <2>3
<1>10. Chain(Known', counts')
  BY <1>6, <1>9, ChainKept DEF Pages, Typed
<1>11. overtaken' \in BOOLEAN
  BY <1>6 DEF Pages
<1>12. ASSUME ~overtaken'
       PROVE  InLine(current, Append(updates, data), fst1) /\ Adds(current, fst1, shown, batched)
  <2>1. /\ ~overtaken /\ InLine(current, updates, first) /\ Adds(current, first, shown, batched)
        /\ ~(last # nil /\ (data = nil \/ Total(data) < Total(last)))
    BY <1>6, <1>12 DEF Pages
  <2>2. last # nil /\ data # nil => UpTo(last, data) \/ UpTo(data, last)
    <3>1. ASSUME last # nil, data # nil PROVE last \in Known /\ data \in Known
      BY <1>1, <1>3, <1>5, <3>1 DEF Known
    <3> QED
      BY <3>1 DEF Pages, Chain
  <2>3. current \in Snapshots /\ updates \in Seq(Snapshots) /\ first \in Snapshots
    BY DEF Pages
  <2>4. InLine(current, Append(updates, data), fst1)
    BY <1>2, <1>4, <2>1, <2>2, <2>3, LineGrows
  <2>5. current # nil => first # nil
    <3>1. 0 \in 0 .. Len(updates) /\ Seen(current, updates, 0) = current
      BY <1>3 DEF Seen
    <3> QED
      BY <2>1, <3>1 DEF InLine
  <2>6. Adds(current, fst1, shown, batched)
    BY <1>4, <2>1, <2>5 DEF Adds
  <2> QED
    BY <2>4, <2>6
<1>13. (~overtaken => InLine(current, updates, first) /\ Adds(current, first, shown, batched))'
  BY <1>6, <1>12
<1> QED
  BY <1>6, <1>7, <1>8, <1>10, <1>11, <1>13 DEF Pages

LEMMA FailPages ==
  ASSUME Typed, Pages, NEW k \in 1 .. MaxPolls, PollFails(k)
  PROVE  Pages'
<1>1. UNCHANGED <<counts, updates, current, first, shown, overtaken, batched>> /\ Over(k)
  BY DEF PollFails, loadVars, server
<1>2. poll' \in Polls /\ \A j \in 1 .. MaxPolls : poll'[j].data \in {poll[j].data, nil}
  BY <1>1, OverKnown
<1>3. Known' \subseteq Known \cup {counts}
  BY <1>1, <1>2 DEF Known
<1>4. Chain(Known', counts')
  BY <1>1, <1>3, ChainKept DEF Pages, Typed
<1> QED
  BY <1>1, <1>2, <1>4 DEF Pages

LEMMA RenderPages == Typed /\ Pages /\ Render => Pages'
<1> SUFFICES ASSUME Typed, Pages, Render PROVE Pages'
  OBVIOUS
<1>1. PICK len \in Nat : len = Len(updates) /\ len >= 1 /\ updates # <<>>
  BY DEF Render, Pages
<1>2. PICK last \in Snapshots : last = updates[len] /\ last = Latest
  BY <1>1 DEF Latest, Pages
<1>3. PICK stash : stash = Seen(current, updates, len - 1)
  OBVIOUS
<1>4. Stash = stash
  BY <1>1, <1>3 DEF Stash, Seen
<1>5. PICK r : r = Rates(last, stash)
  OBVIOUS
<1>6. PICK sum1 : sum1 = [allowed |-> shown.allowed + r.allowed, denied |-> shown.denied + r.denied]
  OBVIOUS
<1>7. PICK bat1 \in BOOLEAN : bat1 = (batched \/ len > 1)
  OBVIOUS
<1>8. /\ current' = last /\ updates' = <<>> /\ shown' = sum1 /\ batched' = bat1
      /\ UNCHANGED <<counts, poll, first, overtaken>>
  BY <1>1, <1>2, <1>4, <1>5, <1>6, <1>7 DEF Render, loadVars, server
<1>9. Known' \subseteq Known \cup {counts}
  <2>1. ASSUME NEW x \in Known' PROVE x \in Known
    <3>1. x # nil /\ (x = last \/ \E j \in 1 .. MaxPolls : x = poll[j].data)
      BY <1>8, <2>1 DEF Known
    <3>2. len \in 1 .. Len(updates)
      BY <1>1
    <3> QED
      BY <1>2, <3>1, <3>2 DEF Known
  <2> QED
    BY <2>1
<1>10. Chain(Known', counts')
  BY <1>8, <1>9, ChainKept DEF Pages, Typed
<1>11. stash \in Snapshots
  BY <1>1, <1>3 DEF Seen, Pages
<1>12. sum1 \in [allowed : Int, denied : Int]
  <2>1. r.allowed \in Int /\ r.denied \in Int
    <3>1. CASE last = nil \/ stash = nil
      BY <1>5, <3>1 DEF Rates, Zero
    <3>2. CASE ~(last = nil \/ stash = nil)
      <4>1. last \in Counts /\ stash \in Counts
        BY <1>11, <3>2 DEF Snapshots
      <4>2. r = [allowed |-> Rate1(last.allowed, stash.allowed),
                 denied |-> Rate1(last.denied, stash.denied)]
        BY <1>5, <3>2, Zenon DEF Rates
      <4>3. \A x, y \in Nat : Rate1(x, y) \in Int
        BY DEF Rate1, MaxOf
      <4> QED
        BY <4>1, <4>2, <4>3 DEF Counts
    <3> QED
      BY <3>1, <3>2
  <2> QED
    BY <1>6, <2>1 DEF Pages
<1>13. ASSUME ~overtaken PROVE InLine(last, <<>>, first) /\ Adds(last, first, sum1, bat1)
  <2>1. /\ InLine(current, updates, first) /\ Adds(current, first, shown, batched)
        /\ current \in Snapshots /\ updates \in Seq(Snapshots) /\ first \in Snapshots
        /\ shown \in [allowed : Int, denied : Int] /\ batched \in BOOLEAN
    BY <1>13 DEF Pages
  <2>2. last = updates[Len(updates)] /\ stash = Seen(current, updates, Len(updates) - 1)
    BY <1>1, <1>2, <1>3
  <2>3. /\ InLine(last, <<>>, first)
        /\ Adds(last, first, [allowed |-> shown.allowed + r.allowed, denied |-> shown.denied + r.denied],
                batched \/ Len(updates) > 1)
    BY <1>1, <1>5, <2>1, <2>2, LineTaken
  <2> QED
    BY <1>1, <1>6, <1>7, <2>3
<1>14. (~overtaken => InLine(current, updates, first) /\ Adds(current, first, shown, batched))'
  BY <1>8, <1>13
<1> QED
  BY <1>2, <1>8, <1>10, <1>12, <1>14 DEF Pages

\* No decision shows in two rates, however many polls overlap, fail or are
\* rendered together, until an answer is overtaken; and none is left out as long
\* as every answer is rendered before the next one comes (page.tsx:47-59, 77-95).
THEOREM RatesAreGrowth == Spec => []RatesAddUp
<1>1. LoadInv /\ LoadInv' /\ Pages /\ [Next]_vars => Pages'
  <2> SUFFICES ASSUME LoadInv, LoadInv', Pages, [Next]_vars PROVE Pages'
    OBVIOUS
  <2>0. Typed /\ Typed'
    BY DEF LoadInv
  <2>1. CASE LoadStep \/ UNCHANGED vars
    <3>1. [LoadNext]_loadVars /\ UNCHANGED page
      BY <2>1 DEF vars, LoadStep
    <3> QED
      BY <2>0, <3>1, LoadPages
  <2>2. CASE DashboardNext
    BY <2>0, <2>2, PollPages, DeliverPages, FailPages, RenderPages DEF DashboardNext
  <2> QED
    BY <2>1, <2>2 DEF Next
<1>2. Pages => RatesAddUp
  BY DEF Pages, Adds, RatesAddUp
<1>3. Spec => []Pages
  BY InitPages, LoadInvariant, <1>1, PTL DEF Spec
<1> QED
  BY <1>2, <1>3, PTL
=============================================================================
