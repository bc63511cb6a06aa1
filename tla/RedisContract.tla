--------------------------- MODULE RedisContract ---------------------------
(***************************************************************************)
(* Instances that share one Redis as one token bucket: the Redis Store     *)
(* with an observer that hears what each script answers, and the pair of   *)
(* ideal buckets of SharedContract between which it stays.                 *)
(***************************************************************************)
EXTENDS RedisStore

VARIABLE answer  \* observer: what the last script of this instant answered

contractVars == <<vars, answer>>

\* What the observer has heard after a step.
Heard ==
  IF \E p \in Processes : RunScript(p)
  THEN IF granted' > granted THEN "allow" ELSE "deny"
  ELSE IF clock' = clock THEN answer ELSE "none"

\* The observer constrains nothing: every behaviour of the Store has its answers.
ContractInit == Init /\ answer = "none"
ContractNext == Next /\ answer' = Heard
ContractSpec == ContractInit /\ [][ContractNext]_contractVars

\* What the bucket b holds at t by the clock that is furthest ahead; where there is
\* none, a full one can be made.
Purse(b, t, cfg) ==
  IF b = nil THEN FullPurse(cfg) ELSE b.tokens + (t + Spread - b.ts) * cfg.RPS

Held == Purse(bucket, clock, DefaultConfig)

\* What instances can lose sight of: the refill of the time by which they disagree.
Blur == Slack * DefaultConfig.RPS

Contract == INSTANCE SharedContract
              WITH Capacity <- DefaultConfig.Burst, Rate <- DefaultConfig.RPS,
                   most <- MinOf(FullPurse(DefaultConfig), Held),
                   least <- MinOf(DefaultConfig.Burst, Held) - Blur,
                   outcome <- answer

\* An unconfigured client's bucket in Redis is one token bucket up to the time by
\* which clocks and delays disagree (redisstore.go:14-30, 91-98): whichever
\* instance asks, whatever is lost, sent again or given up on the way, no script
\* admits what a bucket larger by that much would refuse, and none refuses what
\* one smaller by as much would admit.
ImplementsContract == Contract!Spec

\* Nobody sets or removes the client's Config.
NeverConfigured == [](changes = 0)
=============================================================================
