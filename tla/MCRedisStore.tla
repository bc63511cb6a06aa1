---------------------------- MODULE MCRedisStore ----------------------------
(***************************************************************************)
(* TLC instances of RedisStore: two instances of the server, whose clocks  *)
(* agree or are a tick apart.                                              *)
(***************************************************************************)
EXTENDS RedisStore, TLC

CONSTANTS p1, p2

Agree == p1 :> 0 @@ p2 :> 0
Apart == p1 :> 0 @@ p2 :> 1

\* Unit = 3: a token and a third, two thirds refilled per tick; four tokens of
\* the same; one, slower; an invalid Config.
DefaultBucket == [RPS |-> 2, Burst |-> 4, Algorithm |-> AlgorithmTokenBucket]
LargeBucket   == [RPS |-> 2, Burst |-> 12, Algorithm |-> AlgorithmTokenBucket]
SlowBucket    == [RPS |-> 1, Burst |-> 3, Algorithm |-> AlgorithmSlidingWindow]
BelowOne      == [RPS |-> 1, Burst |-> 2, Algorithm |-> AlgorithmTokenBucket]

Submitted == {SlowBucket, BelowOne}
=============================================================================
