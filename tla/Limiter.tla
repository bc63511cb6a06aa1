------------------------------ MODULE Limiter ------------------------------
(***************************************************************************)
(* The Limiter interface (internal/limiter/limiter.go) and what the        *)
(* Manager does with the two types behind it: newLimiter builds one from a *)
(* Config, Snapshot and Restore take one apart and put it together again   *)
(* (manager.go:53-69, 189-231; persistence.go).                            *)
(***************************************************************************)
EXTENDS TokenBucket, SlidingWindow

newLimiter(cfg, now) ==
  IF cfg.Algorithm = AlgorithmSlidingWindow
    THEN NewSlidingWindow(cfg.Burst, ToDuration(cfg.Burst \div cfg.RPS), now)
    ELSE NewTokenBucket(cfg.Burst, cfg.RPS, now)

\* Allow through the interface: dispatch on the dynamic type.
LimiterAllow(lim, now) ==
  IF lim.type = AlgorithmSlidingWindow
    THEN SlidingWindowAllow(lim, now)
    ELSE TokenBucketAllow(lim, now)

\* A LimiterState: the algorithm tag and the one field that goes with it.
LimiterState(lim) ==
  IF lim.type = AlgorithmTokenBucket
    THEN [Algorithm |-> AlgorithmTokenBucket, TokenBucket |-> TokenBucketState(lim)]
    ELSE [Algorithm |-> AlgorithmSlidingWindow,
          SlidingWindow |-> SlidingWindowState(lim)]

LimiterFromState(st) ==
  IF st.Algorithm = AlgorithmSlidingWindow
    THEN NewSlidingWindowFromState(st.SlidingWindow)
    ELSE NewTokenBucketFromState(st.TokenBucket)
=============================================================================
