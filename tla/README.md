# Verification of the token-bucket rate limiter

TLA+ models, TLC runs and TLAPS proofs about the Go service in `src/`: an HTTP
server that decides, per client key, whether a request may proceed.

## 1. Inventory

| Part | Code | State | Operations | Talks to |
|---|---|---|---|---|
| Config, Decision | `internal/limiter/config.go`, `decision.go` | none | `Validate`, the sentinel `neverRefills` | everything |
| TokenBucket | `internal/limiter/tokenbucket.go` | tokens, lastRefill, capacity, refillRate, a mutex | `Allow`, `State`, `NewTokenBucket[FromState]` | called by Manager |
| SlidingWindow | `internal/limiter/slidingwindow.go` | limit, window, windowStart, two counts, a mutex | `Allow`, `State`, `NewSlidingWindow[FromState]` | called by Manager |
| Manager | `internal/limiter/manager.go`, `stats.go`, `persistence.go` | maps configs and limiters (mu), counts (statsMu) | `Allow`, `SetConfig`, `GetConfig`, `RemoveClient`, `Stats`, `Snapshot`, `Restore` | HTTP handlers, main |
| RedisStore | `internal/limiter/redisstore.go` | hashes in Redis: state, config, stats, with TTLs | the same Store interface, over a Lua script | Redis, shared by several servers |
| Snapshot file | `internal/store/snapshot.go` | one JSON file | `Save` (temporary file, rename), `Load` | main |
| Server process | `main.go` | goroutines: main, listener, snapshotter, one per request | start, serve, snapshot, shut down | all of the above |
| HTTP handlers | `internal/httpapi/` | none | `check`, admin set/get/remove, `stats` | a Store |
| Load test | `loadtest/main.go` | worker pool, tallies | correctness and throughput modes | the HTTP API |
| Dashboard | `dashboard/app/page.tsx` | two snapshots, updates React has queued | poll, queue an answer, render rates | `GET /stats` |
| Deployment | `deploy/` | none | nginx in front of several servers | |

What is hard here:

- *Arithmetic over a long life.* Lazy refill, the cap, truncation to a Duration,
  rounding to seconds, shifting windows: each call depends on what all earlier
  calls left behind.
- *Three critical sections per request.* Lookup, decision and statistics are
  separate; configuration changes and snapshots come in between.
- *Clock and restart.* Restored times are wall-clock times: they may lie in the
  future, and a window's stay so while the process runs.
- *Shutdown and crash.* Two goroutines may write the snapshot file; a crash may
  come at any step.
- *Redis.* Commands that fail, or take effect and lose their reply; two commands
  where one would be needed; clocks that differ; keys that expire; instances that
  die between two commands.
- *The tools around it.* A pool of workers over shared counters, requests that
  fail after the server has decided them, polls that overtake each other and are
  rendered together.

What makes each part correct: a bucket never admits more than a full bucket plus
the refill of any interval, and refuses nobody who has a token; a window blocks
the double burst and keeps the sustained rate; the durations and counts told to
a client come true; a client has one limiter at a time and it is the one of its
Config; statistics lose nothing; a snapshot is consistent; a clean exit loses
nothing and an unclean one a bounded amount; instances that share a Redis enforce
one limit; a change reported as done is in force; the load test accuses no correct
server and the dashboard shows no decision twice. `PROJECT.json` lists each hazard at
its line with the property that watches it.

## 2. Modules

    Limits ── TokenBucket ──┬── BucketService ── CheckHandler
       │                    │        └─ implements RateContract
       └──── SlidingWindow ─┴── Limiter ──┬── WindowService
                                          └── Manager ──┬── Server
                                                        └── ManagerContract
    Limits ── RedisStore (the admin handler on top of it) ── RedisContract
                                                 └─ implements SharedContract
    TokenBucket ── Loadtest ── Dashboard (the stats handler between them)
    MCManager, MCServer, MCRedisStore

    proofs: RateContractProofs ── BucketServiceProofs (also of CheckHandler)
            ManagerProofs ── ServerProofs
            WindowServiceProofs, RedisStoreProofs, LoadtestProofs (also of Dashboard)
            Arithmetic below all of them

**Limits, TokenBucket, SlidingWindow, Limiter** are operators, no state machine.
Every method of a limiter runs under that limiter's mutex and reads the clock
once while holding it, so a method is a function of the limiter and of `now`;
`TokenBucketAllow(b, now)` and `SlidingWindowAllow(s, now)` return the limiter
left behind and the Decision.

*Abstraction of numbers.* A tick stands for the nanosecond of `time.Duration`.
The float64 quantities of the code (tokens, Burst, limit, RPS) are whole numbers
of *units*, `Unit` of them to a token, so fractions of a token are represented
and arithmetic on them is exact: float64 rounding is not modelled. What the code
does truncate is truncated: a float64 converted to a Duration, `math.Floor` of
Remaining, seconds in the headers. Out-of-range conversions and `int64`
arithmetic on Durations are kept (`ToDuration`, `Wrap`): `OverflowTo` is what the
platform makes of an out-of-range float, the smallest integer on amd64 and the
largest on arm64, and `MaxDuration` stands for 2^63-1. The window's estimate is
a fraction over its length; a zero window gives the NaN of the code.

**BucketService** is one bucket with `Tick`, `Request`, `Restart(d)` and
`Observe`. While a process runs, Go compares monotonic clock readings, so time
only advances; a restored `lastRefill` has lost its monotonic reading, so a wall
clock that moved by `d` in either direction shows at a restart (or before the first
request after it, which is as another restart at that moment: a request puts a reading of
the process's own there). `since` and
`span` are an observer's count of admissions and of time, restarted at any moment by
`Observe`: an invariant over them speaks of every interval.

**RateContract** is what a token bucket promises, without laziness: credit that
accrues with time up to a capacity, admission exactly when a whole token is
there. `BucketService` implements it with `credit` mapped to the tokens a request
would find *now* (`Refill(bucket, clock).tokens`) and a clock set back mapped to
`Forfeit`. So does the memory Store, as a client of one sees it: **ManagerContract**
adds an observer that hears each answer (`heard`), counts the admissions of an
interval and guards nothing, and instantiates the contract with what a request would
find now. There a client without a limiter has a full bucket: that none is stored
until it is needed does not show.

**SharedContract** is what instances can promise whose clocks differ and whose scripts
are late: a bucket that admits is never smaller, one that refuses never larger, than
an ideal bucket give or take the refill of the time they disagree by (`Slack`). `most`
is the larger ideal bucket, `least` the smaller, and both pay for every request
admitted. **RedisContract** adds the observer (`answer`) and maps the hash in Redis to
the two; where there is none, both are full.

**CheckHandler** turns a Decision into status and headers and asks what a client
that obeys the headers meets.

**WindowService** is the same for a sliding window. Adding to a restored `windowStart`
gives it no monotonic reading, so it stays a wall-clock time while windows shift, until
an idle gap of two windows puts the present there (`restored`): meanwhile a wall clock
that is set on or back shows in a running process too (`SetClock`). Its observer
`through` is the exact log that the two counters approximate: how many requests had
been let through before each tick. It is cumulative, so the requests of any stretch of
time are a difference and no sum. `steady` says that the clock was never seen to go
back.

**Manager** is the memory Store. `Allow` is three actions of a goroutine:
`Get`/`Create` (under mu), `Decide` (under the limiter's mutex), `Record` (under
statsMu). `SetConfig` and `RemoveClient` are one critical section each. Limiters
are objects at addresses, because a goroutine may use one that the map no longer
holds; an address is reused when nothing refers to it, as the collector may.
`epoch`, `made`, `decided`, `watch`, `arrived` are observers and guard nothing
but bounds. `GetConfig` and `Stats` copy a map under its mutex and change
nothing.

**Server** puts the process around it: `Serve`/`ServeDecide` are Manager's
actions while the process lives; a snapshot is `PeriodicBegin`/`FinalBegin` (the
copy under mu), one `SnapRead` per limiter and `SnapSave` (the rename, or an
error); `Signal`, `Drained` (all answered, or ten seconds over), `FinalBegin`,
`Exit` are main; `SnapshotterStop` is the `ctx.Done` case of the snapshotter's
select, which Go may leave aside for a tick that is ready too; `Crash` ends the
process at any point; `Start` is `restoreState`. `clean`, `overlap`, `atDeath`,
`spent`, `losses` and `starts` are observers and a bound.

**RedisStore** is one client's three keys in a Redis and any number of `Processes`,
goroutines on any instances. A Redis command is a step, the Lua script included
(Redis runs a script to its end); what the Go code does between two commands
belongs to the step of the first. `Allow` is `ReadConfig` (HGETALL), `ReadClock`,
`RunScript`, `Record` (HINCRBY), `RefreshTTL` (EXPIRE); `SetConfig` is `Store`
(HSET) and `Drop` (DEL), `RemoveClient` one `Remove`. The admin handler is where a
change starts (`setClientConfig`, `removeClient`) and what its caller is told when
it ends (`told`): 400 for any error of SetConfig, 200 for every DELETE.
Keys of different clients never meet, so one client stands for all.
*Faults.* A command has no effect (`ScriptFails`, `CommandFails`, the fault
branches of `ReadConfig` and `RefreshTTL`); or it has its effect and the reply is
lost, after which go-redis sends it again, or the caller gets an error
(`LostReply`, `Resend`); or the instance dies (`Crash`). Each counts one in
`faults`.
*Time.* A tick is the millisecond of `UnixMilli`. `clock` is Redis's, by which keys
expire; an instance's clock is ahead of it by `Skew`. A script runs up to
`MaxDelay` after its `now` was read, so scripts run with times out of order.
`tokens` may then be negative: the script takes back what an earlier one refilled.
*Observers:* `granted` counts the tokens the script handed out, `mark` where an
interval began and how many scripts have run since under a Config that is not the one
in force (`strays`: their requests read it before a change, or could not read it),
`decided` the decisions, `built` the Config the bucket was created under,
`call.failed` that GetConfig failed.

**Loadtest** is `runWorkers` and what main makes of its result, against a server
with one token bucket. A worker claims a request (`Claim`), the server decides it
(`Serve`), the answer is tallied (`Receive`); `GetFails` is an error of
`client.Get` before or after the server's decision, `BadGateway` an answer of
nginx's own, `PassOn` nginx sending a request to a second instance. `Publish` and
`Leave` are a worker's two deferred calls, in the order Go runs them.

**Dashboard** watches that server. A poll is sent and answered (`Poll`); its answer
arrives and queues an update of the page's state (`Deliver`), or is lost
(`PollFails`), in any order, since `setInterval` does not wait for the poll before.
`Render` is React applying what is queued, one update after the other, and computing
the rates: the ref holds what the last update replaced. `first`, `shown`, `overtaken`
and `batched` are observers.

Definitions commented "Mutant" are faulty variants of the definition that follows.
They are not part of any specification; each is a plausible mistake that one of
the properties must notice.

## 3. Runs

`tlc -config X.cfg M`. Bounds are guards of the actions and named in the modules.

| Config | Module | Result | Shows |
|---|---|---|---|
| `CheckHandler` | CheckHandler (and BucketService below it) | holds | the rate over every interval; RateContract implemented; RetryAfter and Remaining come true; headers right up to a tick and a second |
| `WindowService` | WindowService | holds | counters true, double burst blocked and sustained rate until the clock is set back; promises kept even then; for limits of 2 and of 2 1/4 requests |
| `Manager` | MCManager | holds | every interleaving of two goroutines and two changes of one client |
| `Server` | MCServer | holds | snapshots usable; clean exit durable if the snapshotter has stopped; a loss costs at most one bucket |
| `ServerLiveness` | MCServer | holds | a signal ends the process |
| `Redis` | MCRedisStore | holds | two instances on one bucket: its cap, the rate over every interval, no answer without a token, statistics off by at most a fault each, times told close |
| `RedisConfig` | MCRedisStore | holds | requests and changes command by command: what was answered 200 is in force; a request that raced a change costs the new limits its token and a full bucket at most |
| `Loadtest` | Dashboard | holds | tallies, latencies, verdict, percentiles, rates; the run ends |
| `WindowOverflow` | WindowService | violated | `slidingwindow.go:51`: a window whose double overflows limits nothing |
| `ServerShutdown` | MCServer | violated | `main.go:221`: the snapshotter may overwrite the final snapshot |
| `RedisRebuild` | MCRedisStore | violated | `README.md:266`: a request that raced a change rebuilds the bucket under the old limits |
| `RedisFailOpen` | MCRedisStore | violated | `README.md:292`: a Redis error can let a request through |

*Bounds.* The bucket run has a capacity of two and a half tokens and a rate of
three quarters of a token per tick, so fractions, the cap, denials and truncated
waits all occur; seven ticks are more than the bucket takes to fill twice. The
window run has limits of two and of two and a quarter requests, both with a window of
four ticks, and nine ticks of time: two boundaries, an idle gap of two windows and a
restart or a set clock at each; the clock jumps by a tick, on or back. `MaxAdmitted`,
the admissions in one tick, lies above what any limit allows: it cuts off the runaway states of a faulty window, none of a
correct one. `Manager` has two goroutines (every race in `Allow` is
between two), three addresses (one in the map, one in the hands of each
goroutine), a bucket, a faster bucket, a window, a Config with too small a Burst
and one with an unknown algorithm; five requests with two changes let a
goroutine use a limiter two changes old. `Server` has one goroutine serving next
to main and the snapshotter, one change, one tick (which refills a whole token)
and two lives of the process; what two serving goroutines add is Manager's
matter. `Redis` has two processes whose clocks are a tick apart and scripts delayed by
up to a tick: times out of order by two ticks, more than a token's worth. A burst of
a token and a third and two thirds of a token per tick give fractions, the cap and
debt; the TTL of four ticks is as short as `TTLCovers` allows and keys expire within the six
instants; three requests and one fault let a script be lost, sent again and
followed by another. `RedisConfig` has a bucket of four tokens, a smaller and slower
second Config and an invalid one, four requests, two changes (with two processes: PUT
next to PUT, PUT next to DELETE, either next to a request) and one fault; the clocks
agree and one tick passes, so that what exceeds the new limits comes from scripts that
run under the old ones. `Loadtest` has two workers with two or three requests, a burst
of one token, a token per tick and a tolerance of one: a slow run is let through more
often than the tolerance allows and fails, a faster one must pass. One request meets a
fault. `MaxPolls` and `MaxWatched` keep the dashboard to three polls of
the shorter run, the least for two rates and for a poll that fails between two others;
from the first poll on the watched run meets no fault and is over within the tick. The
rates depend on the order of the polls and on the counts they bring. Symmetry is used
for goroutines and addresses, never in a run with a leads-to property.

*Deadlock.* It is checked for CheckHandler and WindowService. In
the other runs the bounds on requests, changes, time and starts let the model
stop, and a load test ends, so it is switched off there; `ShutdownCompletes` and
`RunEnds` say what must not get stuck. That a request to either Store is answered is
not a property: no step of `Allow` waits for anything but a mutex held for a few
statements or a command of go-redis, and the modules take both as single steps, so it
would hold by assumption.

*Fairness.* `FairServerSpec` assumes weak fairness of main's steps after the signal:
Shutdown has a deadline and a snapshot is a bounded number of file operations. No
request, change, tick, signal or step of the snapshotter is assumed to happen.
Dashboard's `Spec` assumes it of each worker, whose client has a timeout of ten
seconds, and of main; of no poll.
Safety properties use no fairness.

## 4. Proofs

`tlapm M.tla`. The theorems hold for all values of the constants, the bounds included,
that satisfy the named assumptions. These are what the code grants:
`UnitAssumption`, `DurationAssumption`, `SecondAssumption`, `DashboardAssumption` (units,
Durations, seconds and bounds are numbers); `ServiceAssumption`, `WindowAssumption`,
`ConfigAssumption`, `RedisAssumption` (the default Config passes `Validate`, or the one
in service does, and every Config holds numbers); finitely many goroutines, processes
and workers, at least one worker, the workers numbered from 1 as `runWorkers` numbers its
slices (`ManagerAssumption`, `RedisAssumption`, `LoadAssumption`;
`loadtest/main.go` exits for `-c` below 1); and that `nil` is none of the values it marks
the absence of (`ManagerAssumption`, `ServerAssumption`, `RedisAssumption`).
A theorem that needs more says so in its statement; those hypotheses are explained below.

**The token bucket** (`RateContractProofs`, `BucketServiceProofs`)

- `ContractRateBound`: under `ContractAssumption`, which the refinement discharges, the
  abstract bucket keeps `RateBound`. Not inductive by itself; the invariant is
  conservation, *admitted tokens plus credit left never exceed Capacity + Rate \* span*,
  together with `credit <= Capacity` and `RateBound` itself: credit may be negative after
  a clock set back, and then only the whole token that `Admit` demands bounds what was
  taken.
- `TypeCorrect`, `Refinement`, `RateLimit`: types and the cap on tokens; each step of the
  lazy bucket is a step of the contract (`Tick` and a restart forward accrue, a restart
  backward forfeits, a request admits or refuses); the rate limit of the real bucket is
  then the contract's. The key lemma is that refilling in two steps or in one gives the
  same tokens; the products of variables it needs are in `Arithmetic`.
- `RemainingIsHonoured`, `RetryAfterIsExact`, `HeadersAreTight`: from `Told`, which says what
  a response is about, the bucket that `Allow` left behind and that stays until the next
  request or a restart. The latter two also assume that the rate is positive, which
  `Validate` demands of every Config but the model does not need elsewhere, and
  `TimesFit`: the wait in question, even from a bucket in debt after a clock set back,
  fits a Duration. Beyond that, 292 years, the conversion of `tokenbucket.go:153` yields
  what the platform likes, and no statement about the times can hold. `BucketSolvent` bounds
  that debt.

**The sliding window** (`WindowServiceProofs`)

All assume `Usable`: the window has a length, and twice that length fits a Duration, as
does its sum with any reading of the clock. Where it fails the code limits nothing
(`WindowOverflow`) or denies everything, so the hypothesis is needed. It holds whenever
Burst/RPS is between a nanosecond and some 146 years.

- `CountsAreTrue`, `ElapsedFits`, `BurstsDoNotDouble`, `RateIsSustained`: of every state
  before which the clock was never seen to go back (`steady`). TLC finds all four violated
  without that: `windowStart` then lies in the future. The invariant `HInv` relates the
  counters to the log: each count is the log's difference over its window
  (`Counted`), since the last request let through the weighted estimate exceeds the limit
  by less than that request (`Fading`), and what was let through before this window is at
  most the limit, rounded up, per window gone by (`Sustained`). `Counted` makes the
  estimate one about true counts, from which the double burst follows.
- `RemainingComesTrue`, `RetryAfterFades`: whatever is done to the clock. `IInv`
  keeps each count below the limit plus a request (`Within`) and says what was told of
  the room left (`Told`); a shift of the windows can then only make room. A window may
  count up to its limit rounded up (`Ceiling`), so a client that was told to wait until
  its end is let in when that much has faded below the limit: at the next tick for a
  whole number of requests, up to almost half a window later for a limit a little above
  one.

**The memory Store** (`ManagerProofs`)

- `TypeCorrect`, `ConfigEnforced`: from `IInv`, the types together with `Links` (an address
  in the map or in a goroutine's hands holds a limiter, a goroutine past its lookup has
  one). Without `Links`, `Decide` could write to an address that holds nothing and
  `Create` overwrite a limiter in use.
- `OneLimiter`, `ChangesTakeEffect`: from `EInv` on top of it, which adds `Epochs`: every
  limiter still referred to was made for a client in an epoch up to its present one, and
  one made in the present epoch is the one in the map. Without it a new limiter could
  repeat the epoch of one a goroutine still holds. Actions that make nothing, open an
  epoch, make a limiter, or find one are a lemma each.
- `StatisticsExact`: the invariant is the property itself over cardinalities of the sets of
  pending goroutines; each action adds a goroutine to one set, takes one out, or leaves
  both.
- `Admissions`: the rate limit since any change, across goroutines that still hold older
  limiters. `AInv` keeps an account per client: the requests let through by the limiter in
  the map, and a request for each goroutine that may still use another one, are *paid*:
  for a bucket, by its capacity and the refill so far less what it holds; for a window,
  by a limit per window gone by and its present count. `WindowsFit` is to these Configs
  what `Usable` is to a single window.
- `OneBucketPerConfig`: for any client and any token-bucket Config (`Watchable`), the Store
  is the bucket of `RateContract` for as long as that Config is in force: a change is an
  initial state of the contract, and every other step a contract step or none. The limiter
  that was dropped may still answer a goroutine that holds it; `EInv` says it is then not the
  one in the map, nor is that of any other client, so what a request of the new epoch
  finds is untouched. `OneDefaultBucket` is the case of a client nobody configures, a
  plain refinement from the first state on. `WatchedRate` carries the contract's own
  theorem over: the rate limit over *every* interval under one Config, where `Admissions`
  speaks of the time since the change, of windows too, and of what older limiters add.

**The process** (`ServerProofs`, which builds on `ManagerProofs`: a step of the running
server is a Manager's step)

- `SnapshotsConsistent`, `RestoresMatch`: from `SInv`: the file and every snapshot under way
  hold limiters of the Configs they hold (the copies were made under one lock, and the
  limiters behind them are of those Configs for as long as they live), and a process that
  is down has no goroutine.
- `CleanExitLosesNothing`: from `CInv`, which follows the shutdown: who may still be running
  in which phase, and that the final snapshot holds what the store holds, read or still to
  be read.
- `LossesBounded`: from `LInv`: an unconfigured client's requests and the tokens it could
  still get, from the map if the process lives, from the file if not, are at most the
  bucket's refill and a bucket per loss; and no copy holds a bucket from the future.
  `DefaultIsBucket` is a fact of the code (`manager.go:10`).

**Redis** (`RedisStoreProofs`)

- `TypeCorrect`: the types with `Calls`, which adds which Config a command carries: what
  `Store` writes was submitted, what a script runs with was read. `Capped` is the cap of
  `redisstore.go:64`: a bucket holds at most some Config's Burst less the token just
  taken, or less than a token.
- `AnswersArePaid`: inductive with the types. Each step of the script moves `granted`,
  `decided` and `faults` together, in four ways.
- `RateIsBounded`: of the Config in force, whichever it is, as long as the TTL covers its
  refill, and of requests that still run under another. `RateInv` has three parts.
  `Validated`: only Configs that `Validate` accepts are stored and run with. `InTime`: a
  script's `now` lies between Redis's clock less `MaxDelay` and that clock plus `Spread`.
  `Sound` is the bound itself, and more: what was spent since the mark and what is left in
  the bucket (`Purse`: its tokens and their refill by the clock furthest ahead) come from
  one purse, a full bucket, the refill of the interval and of the slack, and for each stray
  script its token and another full bucket (`Total`); and the same of a full bucket at the
  moment the key expires, so that a new one may then be made. A script moves a token from
  what is left to what is spent, and the time that a late one takes back is refilled later,
  never twice (`ScriptSound`); a stray one may make the bucket, or leave it larger than the
  limits in force would, which is why it costs a full one (`StraySound`). A change begins a new interval, whose purse is full (`FreshSound`).
- `BetweenTwoBuckets`: the refinement of `SharedContract`, answer by answer, for a client
  nobody configures, by any number of instances with any skew and delay, lost replies,
  resent scripts, failures and crashes, where the TTL covers a refill. `ContractInv` keeps
  `InTime`, that every script runs under the default (`Untouched`), and `Refilling`: a
  bucket owes no more than the slack's refill, and is as good as full when its key
  expires. Without the last an expired key would forgive what was spent. With clocks that
  agree and no script late the two buckets are one, that of `RateContract`. The smaller
  bucket promises something only if the slack refills less than a burst less a token: a
  client of a burst of one token and a thousand tokens per second cannot be promised to be
  let in by instances a millisecond apart. The run `Redis`'s bucket is of that kind, so the
  refinement is not a property of it.
- `PromisesKept`: from `PInv`: a change that began alone and is still alone owns the
  configuration key, between its two commands and until the next change begins.
- `StatisticsOffByFaults`: each step moves the statistics, the decisions, the pending
  goroutines and the faults together; `LastsTTL` says that no statistics expire before
  the first TTL is over, until when nothing is missing.
- `TimesAreClose`: from `Validated` and arithmetic. `ResetFits` says of the script about
  to run that its ResetAfter is within a Duration; beyond it see `TimesFit`.

**The tools** (`LoadtestProofs`)

- `EachIsTalliedOnce`, `TalliesAreTheServers`: from `LoadInv`, the types and `Balanced`, which
  counts the workers by what they carry: claims, decisions and answers differ by the
  requests on their way and by faults, one each.
- `LatenciesAreReported`: the report holds a latency for every answer and none for a request
  that failed, and what it calls a percentile is one of them at its nearest rank.
  `Kept` says that the workers' slices together hold a latency for each request tallied, that a slice published is the worker's own, and that the report was made of the
  slices published. The rest is about the operators of the merge (`FlattenLength`,
  `SortedSorts`, `PercentileIsNearest`): a flattened sequence holds what its parts hold, each
  as often; sorting it loses nothing; a value at position `Ceil(p * n)` has that many at or
  below it. Those facts are inductions over the length of a sequence. The library's
  induction theorems are out of reach (they take an operator), so each takes the *least*
  number for which it fails (`LeastNat`, from the well-foundedness of the order on Nat) and
  shows it does not fail there.
- `VerdictIsSound`: from `Verdicts`: the server let through no more than a full bucket and
  the refill, and spent the bucket before it denied anybody (`Purse`), workers quit only
  when all is claimed (`Quit`), and nothing happens after the report (`Settled`). The
  verdict then compares what the tallies say with what the purse allows.
- `RatesAreGrowth`: from `Pages`. The totals that answers under way, queued updates and the
  page hold are a chain, each field growing along it, below the server's present totals;
  until an answer overtakes another, what is current and what is queued behind it are in
  the order of that chain (`InLine`), so each rate spans a stretch that begins where an
  earlier one ended, or later. What was shown is then part of the growth since the first
  snapshot, and all of it while no render applied two answers (`Adds`).

Every invariant and action property of the runs that hold is the statement of a theorem.
The refinements by the two Stores are proved and belong to no run.

Model-checked only:

- Liveness (`ShutdownCompletes`, `RunEnds`): fairness and ENABLED are beyond the prover.
- The findings below, which are counterexamples.

## 5. Findings

Four runs show the code doing something other than a document or comment says;
`PROJECT.json` quotes each.

- `ServerShutdown`: the snapshotter may overwrite the final snapshot by an older one.
  What holds is `CleanExitDurableIfStopped`.
- `WindowOverflow`: an RPS so small that Burst/RPS is more than half the range of a
  Duration (146 years) passes `Validate` and makes a window that limits nothing: twice
  its length, with which `Allow` compares, wraps and is negative (`slidingwindow.go:107`).
  Above 292 years the window itself is what the conversion makes of an overflow.
- `RedisRebuild`: "a client always starts clean under new limits". With the Redis Store a
  request that read the Config before the change, and runs its script after the old
  bucket was deleted, makes a bucket of the old Config, and the change was answered 200.
  What holds is `RateBound`: each such script costs the new limits its own token and one
  more full bucket, at most. The memory Store does start clean (`ChangeTakesEffect`).
- `RedisFailOpen`: README.md promises that an error of a RedisStore operation denies.
  An error of the first one, GetConfig, reads as "no config": the request is decided
  under the default limits and may be let through, from the client's own bucket, whose
  size may be another. What holds is `AnswersPaid`: it took a token.

Six more comments are not exact. Five have a property that states what is true
instead:

- `slidingwindow.go:143-147`: RetryAfter of a window is "always safe", "never optimistic".
  At the end of the window its count only begins to fade: a client that retries then is
  denied again. A whole number of requests is a tick late, a limit with a fraction by a
  part of the window, close to half of it for a limit a little above one request
  (`RetryAfterLate`).
- `slidingwindow.go:37`: "max requests allowed per window". A fractional limit is
  overshot by the request that crosses it (`SustainedRate`, `DoubleBurstBlocked`).
- `check.go:71`: Retry-After is "rounded up", but from a Duration already truncated
  down; a tick more is enough (`HeadersTight`).
- `slidingwindow.go:125`: "always in [0, window)" (`ElapsedInRange`). So as long as no wall
  clock was seen to go back, over a restart or while a restored window keeps its wall-clock
  grid; otherwise it fails, and so do the bounds on counts and rates. What a client was
  told comes true even then (`RemainingComesTrue`, `RetryAfterFades`).
- `page.tsx:47-55`: two snapshots are "exactly one interval's worth of delta". After a poll
  that failed they are two intervals apart; of answers applied in one render only the
  last shows, and the growth before it is in no rate; an answer overtaken by a later one
  shows a rate of zero and then growth that was already shown (`RatesAddUp`).
- `redisstore.go:205-207`: statistics expire "instead of accumulating forever". A hash made
  by an HINCRBY whose EXPIRE failed, or was never sent because the instance died, has no
  deadline until the client's next request. No property is spent on it: without a fault
  it holds by the order of two calls.

The same conversions make `X-RateLimit-Reset` negative for a tiny RPS on amd64,
and a window of zero, which denies everything, for an RPS above a thousand
million per second; the modules represent both, no run is spent on them.

Short of a contradiction, and worth knowing: a PUT that failed half-way leaves the new
Config with the old bucket and is answered 400, as is one that took effect and whose
replies were lost; a DELETE is answered 200 whatever Redis did; a Config whose bucket
takes more than the TTL of an hour to refill gets a full one when its key expires
(`TTLCovers`); a load test with an error or a request nginx sent twice fails its verdict
on a correct server.

## 6. Not modelled, and the plan

Not modelled for good: float64 rounding; JSON and HTTP text; loadConfig, routing and the
health check; container files; the markup of the dashboard. A command that Redis
executes after go-redis has given it up is not modelled either: it would let a
change be undone after any time, and no timeout in the code bounds it.

What would come next:

1. Two buckets or two windows side by side in `Server`, and the refinement of RateContract
   across a restart, with `Forfeit` for what an unclean end costs.
2. The rate a window still keeps when its clock was set back.
3. `BetweenTwoBuckets` between two changes in Redis, where a request may run its script
   under the Config before.
