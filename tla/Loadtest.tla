------------------------------ MODULE Loadtest ------------------------------
(***************************************************************************)
(* The load test (loadtest/main.go) against a server with one token bucket *)
(* for its key: a pool of workers that claims requests from a shared       *)
(* counter, main that waits for them, and the verdict or the latencies     *)
(* main reports.                                                           *)
(*                                                                         *)
(* A request may fail before it reaches the server, or after (a timeout,   *)
(* a connection cut) when the server has already decided it; nginx in      *)
(* between may answer with a status of its own, or send it a second time.  *)
(***************************************************************************)
EXTENDS TokenBucket, SequencesExt

CONSTANTS
  Workers,          \* -c of them, numbered as their slices are
  Sizes,            \* -n, the number of requests to send: one of these
  Expect,           \* -expect
  Tolerance,        \* 5 in the code
  Capacity, Rate,   \* the Config of the key
  MaxClock, MaxFaults  \* bounds

ASSUME LoadAssumption ==
  /\ IsFiniteSet(Workers) /\ Workers # {} /\ Workers = 1 .. Cardinality(Workers)
  /\ Sizes \subseteq Nat \ {0} /\ Expect \in Nat /\ Tolerance \in Nat
  /\ Capacity \in Nat /\ Capacity >= Unit /\ Rate \in Nat \ {0}
  /\ MaxClock \in Nat /\ MaxFaults \in Nat

VARIABLES
  n,                     \* the -n of this run
  sent,                  \* the shared counter of claims
  allowed, denied, errs, \* the shared tallies
  pc,         \* worker -> where it is
  request,    \* worker -> when its request was sent, and the status it got
  local,      \* worker -> the latencies it has gathered
  perWorker,  \* worker -> the slice it left behind
  report,     \* what main knows after the run, or <<>>
  bucket, counts,  \* the server: its bucket, its ClientStats for the key
  clock, faults

pool == <<n, sent, allowed, denied, errs, pc, request, local, perWorker, report>>
server == <<bucket, counts>>
loadVars == <<pool, server, clock, faults>>

NoRequest == [start |-> 0, status |-> 0]

LoadInit ==
  /\ n \in Sizes
  /\ sent = 0 /\ allowed = 0 /\ denied = 0 /\ errs = 0
  /\ pc = [w \in Workers |-> "claim"]
  /\ request = [w \in Workers |-> NoRequest]
  /\ local = [w \in Workers |-> <<>>]
  /\ perWorker = [w \in Workers |-> <<>>]
  /\ report = <<>>
  /\ bucket = NewTokenBucket(Capacity, Rate, 0)
  /\ counts = [allowed |-> 0, denied |-> 0]
  /\ clock = 0 /\ faults = 0

Goto(w, at) == pc' = [pc EXCEPT ![w] = at]
Fault == faults < MaxFaults /\ faults' = faults + 1

\* Where a worker goes that has claimed request i.  Mutant: one too many.
AfterClaimInclusive(i) == IF i > n + 1 THEN "publish" ELSE "get"
AfterClaim(i) == IF i > n THEN "publish" ELSE "get"

\* The next request is claimed (one atomic add), or there is none left.
Claim(w) ==
  /\ pc[w] = "claim"
  /\ sent' = sent + 1
  /\ Goto(w, AfterClaim(sent + 1))
  /\ request' = [request EXCEPT ![w].start = IF pc'[w] = "get" THEN clock ELSE 0]
  /\ UNCHANGED <<n, allowed, denied, errs, local, perWorker, report, server, clock, faults>>

\* The server decides a request and counts the decision.
Result == TokenBucketAllow(bucket, clock)
ServerDecides ==
  /\ bucket' = Result.limiter
  /\ counts' = IF Result.decision.Allowed THEN [counts EXCEPT !.allowed = @ + 1]
                                          ELSE [counts EXCEPT !.denied = @ + 1]

\* A request reaches the server.
Serve(w) ==
  /\ pc[w] = "get"
  /\ ServerDecides
  /\ request' = [request EXCEPT ![w].status = IF Result.decision.Allowed THEN 200 ELSE 429]
  /\ Goto(w, "answer")
  /\ UNCHANGED <<n, sent, allowed, denied, errs, local, perWorker, report, clock, faults>>

\* The instance decides the request but its answer does not reach nginx, which
\* passes the request on to the next one (proxy_next_upstream's default).
PassOn(w) ==
  /\ pc[w] = "get" /\ Fault
  /\ ServerDecides
  /\ UNCHANGED <<pool, clock>>

\* nginx answers in the server's place.
BadGateway(w) ==
  /\ pc[w] = "get" /\ Fault
  /\ request' = [request EXCEPT ![w].status = 502]
  /\ Goto(w, "answer")
  /\ UNCHANGED <<n, sent, allowed, denied, errs, local, perWorker, report, server, clock>>

\* client.Get returns an error; the server may have decided the request.
GetFails(w) ==
  /\ pc[w] \in {"get", "answer"} /\ Fault
  /\ errs' = errs + 1
  /\ request' = [request EXCEPT ![w] = NoRequest]
  /\ Goto(w, "claim")
  /\ UNCHANGED <<n, sent, allowed, denied, local, perWorker, report, server, clock>>

\* Mutant: every answer that is not a 200 is a denial.
TallyCoarse(s) ==
  /\ allowed' = allowed + (IF s = 200 THEN 1 ELSE 0)
  /\ denied' = denied + (IF s # 200 THEN 1 ELSE 0)
  /\ UNCHANGED errs

\* One atomic add for an answer of status s.
Tally(s) ==
  /\ allowed' = allowed + (IF s = 200 THEN 1 ELSE 0)
  /\ denied' = denied + (IF s = 429 THEN 1 ELSE 0)
  /\ errs' = errs + (IF s \notin {200, 429} THEN 1 ELSE 0)

\* The answer arrives, is tallied, and its latency kept.
Receive(w) ==
  /\ pc[w] = "answer"
  /\ Tally(request[w].status)
  /\ local' = [local EXCEPT ![w] = Append(@, clock - request[w].start)]
  /\ request' = [request EXCEPT ![w] = NoRequest]
  /\ Goto(w, "claim")
  /\ UNCHANGED <<n, sent, perWorker, report, server, clock, faults>>

\* The deferred calls of a worker, last one first: it leaves its slice behind ...
Publish(w) ==
  /\ pc[w] = "publish"
  /\ perWorker' = [perWorker EXCEPT ![w] = local[w]]
  /\ Goto(w, "leave")
  /\ UNCHANGED <<n, sent, allowed, denied, errs, request, local, report, server, clock, faults>>

\* Mutant: a worker that got no answer returns before it has deferred wg.Done.
LeaveWithAnswers(w) ==
  /\ pc[w] = "leave" /\ local[w] # <<>>
  /\ Goto(w, "done")
  /\ UNCHANGED <<n, sent, allowed, denied, errs, request, local, perWorker, report, server,
                 clock, faults>>

\* ... and calls wg.Done.
Leave(w) ==
  /\ pc[w] = "leave"
  /\ Goto(w, "done")
  /\ UNCHANGED <<n, sent, allowed, denied, errs, request, local, perWorker, report, server,
                 clock, faults>>

\* wg.Wait returns.  Mutant: wg.Done ran before the slice was left behind.
DoneBefore == \A w \in Workers : pc[w] \in {"publish", "leave", "done"}
Done == \A w \in Workers : pc[w] = "done"

\* Mutant: the first refilled token already counts against the server.
VerdictStrict(a) ==
  IF Expect <= 0 THEN "none" ELSE IF a = Expect THEN "PASS" ELSE "FAIL"

\* runCorrectness on the tally of allowed requests.
Verdict(a) ==
  IF Expect <= 0 THEN "none"
  ELSE IF a \in Expect .. Expect + Tolerance THEN "PASS" ELSE "FAIL"

\* Mutant: ranks counted from zero.
PercentileHigh(sorted, p) ==
  IF sorted = <<>> THEN 0 ELSE sorted[MinOf((p * Len(sorted)) \div 100 + 1, Len(sorted))]

\* The p-th percentile, p in hundredths: element ceil(p*len/100), clamped.  (The
\* float64 nearest to 0.95 or 0.99 is the smaller one, so that its product with a
\* length never rounds past a whole rank.)
percentile(sorted, p) ==
  IF sorted = <<>> THEN 0
  ELSE sorted[MinOf(MaxOf(-((-p * Len(sorted)) \div 100), 1), Len(sorted))]

\* sort.Slice: the same latencies in ascending order.
Sorted(s) ==
  LET order == CHOOSE p \in Bijection(DOMAIN s, DOMAIN s) :
                 \A i, j \in DOMAIN s : i < j => s[p[i]] <= s[p[j]]
  IN  [i \in DOMAIN s |-> s[order[i]]]

\* main goes on after the workers: the latencies are merged and sorted, and
\* each mode has what it reports.
Report ==
  /\ report = <<>> /\ Done
  /\ report' = [verdict   |-> Verdict(allowed),
                latencies |-> Sorted(FlattenSeq(perWorker)),
                elapsed   |-> clock]
  /\ UNCHANGED <<n, sent, allowed, denied, errs, pc, request, local, perWorker, server,
                 clock, faults>>

Tick ==
  /\ clock < MaxClock /\ report = <<>>
  /\ clock' = clock + 1
  /\ UNCHANGED <<pool, server, faults>>

Work(w) ==
  \/ Claim(w) \/ Serve(w) \/ PassOn(w) \/ BadGateway(w) \/ GetFails(w)
  \/ Receive(w) \/ Publish(w) \/ Leave(w)

LoadNext == (\E w \in Workers : Work(w)) \/ Report \/ Tick
-----------------------------------------------------------------------------
InFlight == {w \in Workers : pc[w] \in {"get", "answer"}}

\* Each of the n requests is claimed by one worker and tallied once, however
\* the workers' adds interleave (main.go:101-108): nothing is sent twice, left
\* undone or lost in a tally.
TalliedOnce == allowed + denied + errs + Cardinality(InFlight) = MinOf(sent, n)

\* The tallies are the server's own counts but for answers under way and
\* requests that met a fault.
TalliesMatchServer ==
  /\ allowed <= counts.allowed /\ denied <= counts.denied
  /\ counts.allowed + counts.denied
       <= allowed + denied + faults + Cardinality({w \in Workers : pc[w] = "answer"})

\* The nearest rank of p%: a latency that p% of all are no greater than, while
\* fewer than p% are below it.
IsNearestRank(v, lat, p) ==
  LET UpTo(x) == Cardinality({i \in DOMAIN lat : lat[i] <= x})
  IN  /\ v \in {lat[i] : i \in DOMAIN lat}
      /\ UpTo(v) * 100 >= p * Len(lat)
      /\ UpTo(v - 1) * 100 < p * Len(lat)

\* The merge after wg.Wait sees every worker's slice (main.go:110-116): a latency
\* for each answer, none for a request that failed; and the percentiles made of
\* it are nearest ranks (main.go:236-239).
LatenciesReported ==
  report # <<>> =>
    LET lat == report.latencies
    IN  /\ Len(lat) \in allowed + denied .. n
        /\ Len(lat) + errs >= n
        /\ lat # <<>> => \A p \in {50, 95, 99} : IsNearestRank(percentile(lat, p), lat, p)

\* The verdict (main.go:175-183) accuses no correct server as long as nothing
\* failed and the run took no longer than Tolerance tokens need to refill; and
\* it clears no server that let more through than it may, but for answers that
\* were lost.
VerdictSound ==
  report # <<>> =>
    /\ (/\ faults = 0 /\ Capacity = Expect * Unit /\ Expect \in 1 .. n
        /\ report.elapsed * Rate < (Tolerance + 1) * Unit) => report.verdict = "PASS"
    /\ report.verdict = "PASS" => counts.allowed <= Expect + Tolerance + faults

\* The run ends: every request is answered or times out.
RunEnds == <>(report # <<>>)
=============================================================================
