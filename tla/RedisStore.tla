----------------------------- MODULE RedisStore -----------------------------
(***************************************************************************)
(* The Redis Store (internal/limiter/redisstore.go): one client's keys in  *)
(* a Redis that several server instances share.  Keys of different clients *)
(* never meet, so one client stands for all.                               *)
(*                                                                         *)
(* Every Redis command is one atomic step, the Lua script included.  A     *)
(* command may fail without effect; or it takes effect and the reply is    *)
(* lost, whereupon the client library sends it again or reports an error   *)
(* (go-redis resends, up to MaxRetries times).  An instance may crash.     *)
(* A tick is a millisecond; the keys' TTLs run by Redis's own clock.       *)
(***************************************************************************)
EXTENDS Limits, FiniteSets

CONSTANTS
  Processes,      \* goroutines that serve requests, on any instance
  Skew,           \* process -> how far its clock is ahead of Redis's
  Spread,         \* no two clocks are further apart
  MaxDelay,       \* longest time from reading the clock to running the script
  TTL,            \* redisStateTTL
  Configs, DefaultConfig, NoConfig, nil,
  MaxClock, MaxRequests, MaxChanges, MaxFaults  \* bounds

ASSUME RedisAssumption ==
  /\ Spread \in Nat /\ Skew \in [Processes -> 0 .. Spread]
  /\ MaxDelay \in Nat /\ TTL \in Nat \ {0}
  /\ \A cfg \in Configs \cup {DefaultConfig} : cfg.RPS \in Int /\ cfg.Burst \in Int
  /\ Validate(DefaultConfig) /\ NoConfig \notin Configs
  /\ IsFiniteSet(Processes)
  /\ nil \notin [tokens : Int, ts : Int, expires : Int]
                \cup [counts : [Allowed : Int, Denied : Int], expires : Int]
                \cup [tokens : Int, ts : Int, allowed : BOOLEAN]
  /\ MaxClock \in Nat /\ MaxRequests \in Nat /\ MaxChanges \in Nat /\ MaxFaults \in Nat

VARIABLES
  config,   \* the hash at configKey, or NoConfig
  bucket,   \* the hash at stateKey with its deadline, or nil
  stats,    \* the hash at statsKey with its deadline, or nil
  pc,       \* process -> the command it sends next
  call,     \* process -> the locals of its request
  clock,    \* Redis's clock
  arrived, changes, faults,  \* what the bounds count
  granted,  \* observer: tokens the script has handed out
  mark,     \* observer: granted and clock when it started watching, and the
            \* scripts run since under another Config than the one in force
  decided,  \* observer: decisions taken, by outcome
  built,    \* observer: the Config the bucket was created under
  told      \* observer: what the administrator of the last change was told

redis == <<config, bucket, stats>>
observers == <<granted, mark, decided, built, told>>
vars == <<config, bucket, stats, pc, call, clock, arrived, changes, faults,
          granted, mark, decided, built, told>>

Never == -1
NoCall == [cfg |-> NoConfig, now |-> 0, allowed |-> FALSE, failed |-> FALSE]
NoStats == [Allowed |-> 0, Denied |-> 0]

Counted(s, allowed) ==
  IF allowed THEN [s EXCEPT !.Allowed = @ + 1] ELSE [s EXCEPT !.Denied = @ + 1]

InForce == IF config = NoConfig THEN DefaultConfig ELSE config
-----------------------------------------------------------------------------
\* Mutants: nothing caps the refill; tokens are refilled but ts stays, so that the
\* same time counts again.
LuaUncapped(b, cfg, now) ==
  LET tokens  == IF b = nil THEN cfg.Burst ELSE b.tokens + (now - b.ts) * cfg.RPS
      allowed == tokens >= Unit
  IN  [tokens |-> IF allowed THEN tokens - Unit ELSE tokens, ts |-> now,
       allowed |-> allowed]
LuaKeepsTime(b, cfg, now) ==
  LET ts      == IF b = nil THEN now ELSE b.ts
      tokens  == IF b = nil THEN cfg.Burst
                 ELSE MinOf(cfg.Burst, b.tokens + (now - b.ts) * cfg.RPS)
      allowed == tokens >= Unit
  IN  [tokens |-> IF allowed THEN tokens - Unit ELSE tokens, ts |-> ts,
       allowed |-> allowed]

\* tokenBucketLua on the hash b: what it stores, and whether it allows.  now
\* comes from the caller and may be earlier than the stored ts.
tokenBucketLua(b, cfg, now) ==
  LET tokens  == IF b = nil THEN cfg.Burst
                 ELSE MinOf(cfg.Burst, b.tokens + (now - b.ts) * cfg.RPS)
      allowed == tokens >= Unit
  IN  [tokens |-> IF allowed THEN tokens - Unit ELSE tokens, ts |-> now,
       allowed |-> allowed]

\* Mutant: the wait for the tokens that remain, not for the one that is missing.
RetryForRemaining(allowed, remaining, rate) ==
  IF allowed THEN 0 ELSE MaxOf(0, ToDuration((remaining * Unit) \div rate))

retryAfterFromRemaining(allowed, remaining, rate) ==
  IF allowed THEN 0
  ELSE IF rate <= 0 THEN neverRefills
  ELSE ToDuration(MaxOf(0, ((1 - remaining) * Unit) \div rate))

resetAfterFromRemaining(limit, remaining, rate) ==
  IF remaining >= limit THEN 0
  ELSE IF rate <= 0 THEN neverRefills
  ELSE ToDuration(((limit - remaining) * Unit) \div rate)

\* The Decision made of a reply: Redis truncates tokens and capacity to whole
\* requests on the way.
Decision(r, cfg) ==
  LET limit     == cfg.Burst \div Unit
      remaining == r.tokens \div Unit
  IN  [Allowed |-> r.allowed, Limit |-> limit, Remaining |-> remaining,
       RetryAfter |-> retryAfterFromRemaining(r.allowed, remaining, cfg.RPS),
       ResetAfter |-> resetAfterFromRemaining(limit, remaining, cfg.RPS)]
-----------------------------------------------------------------------------
Init ==
  /\ config = NoConfig /\ bucket = nil /\ stats = nil
  /\ pc = [p \in Processes |-> "idle"]
  /\ call = [p \in Processes |-> NoCall]
  /\ clock = 0 /\ arrived = 0 /\ changes = 0 /\ faults = 0
  /\ granted = 0 /\ mark = [granted |-> 0, clock |-> 0, strays |-> 0]
  /\ decided = NoStats
  /\ built = DefaultConfig
  /\ told = [alone |-> FALSE, cfg |-> nil]

Goto(p, at) == pc' = [pc EXCEPT ![p] = at]
Fault == faults < MaxFaults /\ faults' = faults + 1
NoFault == UNCHANGED faults

Return(p) == Goto(p, "idle") /\ call' = [call EXCEPT ![p] = NoCall]

\* The command took effect and its reply arrives ...
Replied(p, next) == Goto(p, next) /\ NoFault /\ UNCHANGED call
Returned(p) == Return(p) /\ NoFault

\* ... or is lost: the client library sends the command again, or gives up and
\* the error makes the caller return.
LostReply(p) == Fault /\ (UNCHANGED <<pc, call>> \/ Return(p))

\* A request reaches p, which calls Allow.
Arrive(p) ==
  /\ pc[p] = "idle" /\ arrived < MaxRequests
  /\ arrived' = arrived + 1
  /\ Goto(p, "config")
  /\ UNCHANGED <<redis, call, clock, changes, faults, observers>>

\* GetConfig; an error reads as no Config.
ReadConfig(p) ==
  /\ pc[p] = "config"
  /\ Goto(p, "clock")
  /\ \/ call' = [call EXCEPT ![p].cfg = InForce] /\ NoFault
     \/ Fault /\ call' = [call EXCEPT ![p].cfg = DefaultConfig, ![p].failed = TRUE]
  /\ UNCHANGED <<redis, clock, arrived, changes, observers>>

ReadClock(p) ==
  /\ pc[p] = "clock"
  /\ call' = [call EXCEPT ![p].now = clock + Skew[p]]
  /\ Goto(p, "script")
  /\ UNCHANGED <<redis, clock, arrived, changes, faults, observers>>

Decide(p, allowed) ==
  /\ call' = [call EXCEPT ![p].allowed = allowed]
  /\ decided' = Counted(decided, allowed)
  /\ Goto(p, "record")

\* Mutant: without an answer from Redis the request goes through.
FailOpen(p) == Decide(p, TRUE)

\* No answer from the script: fail closed.
FailClosed(p) == Decide(p, FALSE)

Resend(p) == UNCHANGED <<pc, call, decided>>

\* The deadline EXPIRE gives a key.
Deadline == clock + TTL

\* The script runs; its reply arrives, or is lost.
RunScript(p) ==
  LET cfg == call[p].cfg
      r   == tokenBucketLua(bucket, cfg, call[p].now)
  IN  /\ pc[p] = "script"
      /\ bucket' = [tokens |-> r.tokens, ts |-> r.ts, expires |-> Deadline]
      /\ granted' = IF r.allowed THEN granted + 1 ELSE granted
      /\ built' = IF bucket = nil THEN cfg ELSE built
      /\ mark' = IF cfg = InForce THEN mark ELSE [mark EXCEPT !.strays = @ + 1]
      /\ \/ Decide(p, r.allowed) /\ NoFault
         \/ Fault /\ (Resend(p) \/ FailClosed(p))
      /\ UNCHANGED <<config, stats, clock, arrived, changes, told>>

\* The script never ran.
ScriptFails(p) ==
  /\ pc[p] = "script"
  /\ Fault /\ FailClosed(p)
  /\ UNCHANGED <<redis, clock, arrived, changes, granted, mark, built, told>>

\* One more in a field of the statistics.  Mutant: always the same field.
HIncrByAllowed(counts, allowed) == Counted(counts, TRUE)
HIncrBy(counts, allowed) == Counted(counts, allowed)

\* HINCRBY of recordDecision; it makes the hash if there is none, without a TTL.
Record(p) ==
  /\ pc[p] = "record"
  /\ LET s == IF stats = nil THEN [counts |-> NoStats, expires |-> Never] ELSE stats
     IN  stats' = [s EXCEPT !.counts = HIncrBy(@, call[p].allowed)]
  /\ Replied(p, "expire") \/ LostReply(p)
  /\ UNCHANGED <<config, bucket, clock, arrived, changes, observers>>

\* A key's new deadline, if it is still there.
Expire(key) == IF key = nil THEN nil ELSE [key EXCEPT !.expires = Deadline]

\* EXPIRE of recordDecision; Allow returns, whether it succeeded or not.
RefreshTTL(p) ==
  /\ pc[p] = "expire"
  /\ \/ NoFault /\ stats' = Expire(stats)
     \/ Fault /\ UNCHANGED stats
  /\ Return(p)
  /\ UNCHANGED <<config, bucket, clock, arrived, changes, observers>>
-----------------------------------------------------------------------------
\* The observer starts a new interval: when it likes, and when the Config changes
\* or its bucket is dropped.
WatchAnew == mark' = [granted |-> granted, clock |-> clock, strays |-> 0]

Changing == {p \in Processes : pc[p] \in {"store", "drop", "remove"}}

\* An administrator is answered 200 and takes cfg to be in force; not if there
\* were other changes between.
Promise(cfg) == told' = [told EXCEPT !.cfg = IF told.alone THEN cfg ELSE nil]
NoPromise == UNCHANGED told

BeginChange ==
  /\ changes < MaxChanges /\ changes' = changes + 1
  /\ told' = [alone |-> Changing = {}, cfg |-> nil]

\* PUT reaches p, which calls SetConfig; an invalid Config is refused.
setClientConfig(p, cfg) ==
  /\ pc[p] = "idle" /\ Validate(cfg)
  /\ BeginChange
  /\ call' = [call EXCEPT ![p].cfg = cfg]
  /\ Goto(p, "store")
  /\ UNCHANGED <<redis, clock, arrived, faults, granted, mark, decided, built>>

\* HSET; on an error SetConfig returns it and the old bucket stays.
Store(p) ==
  /\ pc[p] = "store"
  /\ config' = call[p].cfg
  /\ WatchAnew
  /\ Replied(p, "drop") \/ LostReply(p)
  /\ NoPromise
  /\ UNCHANGED <<bucket, stats, clock, arrived, changes, granted, decided, built>>

\* The bucket is deleted.
DelBucket == bucket' = nil

\* DEL of the bucket; SetConfig returns, and PUT is answered 200, or 400 on an
\* error.
Drop(p) ==
  /\ pc[p] = "drop"
  /\ DelBucket /\ WatchAnew
  /\ \/ Returned(p) /\ Promise(call[p].cfg)
     \/ LostReply(p) /\ NoPromise
  /\ UNCHANGED <<config, stats, clock, arrived, changes, granted, decided, built>>

\* DELETE reaches p, which calls RemoveClient.
removeClient(p) ==
  /\ pc[p] = "idle"
  /\ BeginChange
  /\ Goto(p, "remove")
  /\ UNCHANGED <<redis, call, clock, arrived, faults, granted, mark, decided, built>>

\* One DEL of both keys; DELETE is answered 200 whether it succeeded or not.
Remove(p) ==
  /\ pc[p] = "remove"
  /\ config' = NoConfig
  /\ DelBucket /\ WatchAnew
  /\ Returned(p) \/ LostReply(p)
  /\ IF pc'[p] = "idle" THEN Promise(NoConfig) ELSE NoPromise
  /\ UNCHANGED <<stats, clock, arrived, changes, granted, decided, built>>

\* Mutant: an HSET that failed is only logged.
StoreErrorLogged(p) ==
  /\ pc[p] = "store"
  /\ Fault /\ Goto(p, "drop")
  /\ UNCHANGED <<call, redis, clock, arrived, changes, observers>>

\* A command without effect: SetConfig and RemoveClient return, recordDecision
\* gives the decision up.
CommandFails(p) ==
  /\ pc[p] \in {"record", "store", "drop", "remove"}
  /\ Fault /\ Return(p)
  /\ IF pc[p] = "remove" THEN Promise(NoConfig) ELSE NoPromise
  /\ UNCHANGED <<redis, clock, arrived, changes, granted, mark, decided, built>>

\* The instance of p dies, whatever p was doing.
Crash(p) ==
  /\ pc[p] # "idle"
  /\ Fault /\ Return(p)
  /\ UNCHANGED <<redis, clock, arrived, changes, observers>>
-----------------------------------------------------------------------------
Expired(key, t) == key # nil /\ key.expires # Never /\ key.expires <= t

\* Time passes and takes expired keys with it.  No script is delayed for more
\* than MaxDelay: every try of the client library has a timeout.
Tick ==
  /\ clock < MaxClock
  /\ \A p \in Processes : pc[p] = "script" => clock + Skew[p] - call[p].now < MaxDelay
  /\ clock' = clock + 1
  /\ bucket' = IF Expired(bucket, clock') THEN nil ELSE bucket
  /\ stats' = IF Expired(stats, clock') THEN nil ELSE stats
  /\ UNCHANGED <<config, pc, call, arrived, changes, faults, observers>>

Observe ==
  /\ WatchAnew
  /\ UNCHANGED <<redis, pc, call, clock, arrived, changes, faults, granted, decided, built, told>>

Step(p) ==
  \/ ReadConfig(p) \/ ReadClock(p) \/ RunScript(p) \/ ScriptFails(p)
  \/ Record(p) \/ RefreshTTL(p) \/ Store(p) \/ Drop(p) \/ Remove(p)
  \/ CommandFails(p)

Next ==
  \/ \E p \in Processes : Arrive(p) \/ Step(p) \/ removeClient(p) \/ Crash(p)
  \/ \E p \in Processes, cfg \in Configs : setClientConfig(p, cfg)
  \/ Tick
  \/ Observe

Spec == Init /\ [][Next]_vars
-----------------------------------------------------------------------------
Buckets == [tokens : Int, ts : Int, expires : Nat]

\* A script leaves less than a token, or at most its Burst less the token taken.
Capped(b) ==
  b.tokens < Unit \/ \E cfg \in Configs \cup {DefaultConfig} : b.tokens <= cfg.Burst - Unit

\* Type invariant, with the cap on what a bucket holds.  It may hold less than
\* nothing after a script that came with an earlier time.  Only a statistics key
\* can be without a deadline.
TypeOK ==
  /\ config \in Configs \cup {NoConfig}
  /\ bucket \in Buckets \cup {nil} /\ (bucket # nil => Capped(bucket))
  /\ stats \in [counts : [Allowed : Nat, Denied : Nat], expires : Nat \cup {Never}] \cup {nil}
  /\ pc \in [Processes -> {"idle", "config", "clock", "script", "record", "expire",
                           "store", "drop", "remove"}]
  /\ call \in [Processes -> [cfg : Configs \cup {DefaultConfig, NoConfig}, now : Int,
                             allowed : BOOLEAN, failed : BOOLEAN]]
  /\ clock \in Nat /\ arrived \in Nat /\ changes \in Nat /\ faults \in Nat
  /\ granted \in Nat /\ mark \in [granted : Nat, clock : Nat, strays : Nat]
  /\ decided \in [Allowed : Nat, Denied : Nat]
  /\ built \in Configs \cup {DefaultConfig}
  /\ told \in [alone : BOOLEAN, cfg : Configs \cup {NoConfig, nil}]

\* How much time two scripts may disagree by.
Slack == Spread + MaxDelay

\* The TTL outlasts a bucket's refill: a key that expires was as good as full.
TTLCovers(cfg) == cfg.Burst <= (TTL - Slack) * cfg.RPS

\* A full bucket, and what refills in the time by which scripts may disagree.
FullPurse(cfg) == cfg.Burst + Slack * cfg.RPS

\* Instances that share one Redis enforce one limit (redisstore.go:14-30,
\* 91-98): over every interval in which nobody touches the Config, the tokens
\* handed out, whoever asked, are at most a full bucket plus the refill of the
\* interval and of the time by which clocks and delays disagree.  A stray script,
\* of a request that read the Config before it was changed or could not read it,
\* costs at most its own token and another full bucket.
RateBound ==
  TTLCovers(InForce) =>
    (granted - mark.granted) * Unit
      <= FullPurse(InForce) + mark.strays * (FullPurse(InForce) + Unit)
         + (clock - mark.clock) * InForce.RPS

\* Nobody is let through without a token of its own, and a token is lost only
\* to a fault (a reply that never came, a crash): redisstore.go:160-179.
AnswersPaid ==
  /\ decided.Allowed <= granted
  /\ granted <= decided.Allowed + faults

Reported == IF stats = nil THEN NoStats ELSE stats.counts

\* Statistics are off by at most one per fault (redisstore.go:205-220), and
\* short of that only by what expired with the key.
StatsOffByFaults ==
  LET pending(yes) == Cardinality({p \in Processes : pc[p] = "record" /\ call[p].allowed = yes})
  IN  /\ Reported.Allowed + pending(TRUE) <= decided.Allowed + faults
      /\ Reported.Denied + pending(FALSE) <= decided.Denied + faults
      /\ clock < TTL =>
           decided.Allowed + decided.Denied
             <= Reported.Allowed + Reported.Denied + pending(TRUE) + pending(FALSE) + faults

\* "A client always starts clean under new limits" (README.md:264-269), for after
\* SetConfig its bucket "rebuilds under the new limits on the next Allow call"
\* (redisstore.go:319-323): once a change is answered 200, and until another
\* begins, a bucket was created under it.
StartsClean == (told.cfg \in Configs /\ bucket # nil) => built = told.cfg

\* The answer to a GET of the client's Config.
getClientConfig ==
  IF config = NoConfig THEN [status |-> 404] ELSE [status |-> 200, cfg |-> config]

\* PUT "replies 200 on success" (admin.go:33-35): a change answered 200 is in
\* force, whatever was lost or sent again on the way, until another begins.
\* DELETE replies 200 in any case and can be trusted only where nothing failed.
PromiseKept ==
  (told.cfg # nil /\ (told.cfg = NoConfig => faults = 0)) =>
    getClientConfig = IF told.cfg = NoConfig THEN [status |-> 404]
                      ELSE [status |-> 200, cfg |-> told.cfg]

\* The times told from floored counts are close (redisstore.go:194-199): one
\* tick after RetryAfter a lone client is let in, and it waits for at most one
\* token more than it had to; after ResetAfter less than one token is missing.
TimesClose ==
  \A p \in Processes : pc[p] = "script" =>
    LET cfg == call[p].cfg
        now == call[p].now
        r   == tokenBucketLua(bucket, cfg, now)
        d   == Decision(r, cfg)
        At(t) == tokenBucketLua(r, cfg, now + t)
    IN  /\ ~d.Allowed =>
             /\ At(d.RetryAfter + 1).allowed
             /\ \A t \in 0 .. d.RetryAfter :
                  (d.RetryAfter - t) * cfg.RPS >= Unit => ~At(t).allowed
        /\ At(d.ResetAfter + 1).tokens > cfg.Burst - 2 * Unit

\* "If a RedisStore operation errors, Allow denies rather than allows"
\* (README.md:292-293).
FailsClosed ==
  \A p \in Processes : pc[p] = "record" /\ call[p].failed => ~call[p].allowed
=============================================================================
