----------------------------- MODULE MCManager -----------------------------
(***************************************************************************)
(* TLC instance of Manager: a client, two goroutines, two buckets and a    *)
(* window small enough for every limit to be reached, two invalid Configs. *)
(***************************************************************************)
EXTENDS Manager, TLC

CONSTANTS c1, g1, g2, a1, a2, a3

\* Unit = 2: buckets of one token (default) and of one and a half.
DefaultBucket == [RPS |-> 1, Burst |-> 2, Algorithm |-> AlgorithmTokenBucket]
FastBucket    == [RPS |-> 2, Burst |-> 3, Algorithm |-> AlgorithmTokenBucket]
SmallWindow   == [RPS |-> 1, Burst |-> 2, Algorithm |-> AlgorithmSlidingWindow]
BelowOne      == [RPS |-> 1, Burst |-> 1, Algorithm |-> AlgorithmTokenBucket]
NoSuch        == [RPS |-> 1, Burst |-> 2, Algorithm |-> "leaky_bucket"]

Submitted == {FastBucket, SmallWindow, BelowOne, NoSuch}

Symmetry == Permutations({g1, g2}) \cup Permutations({a1, a2, a3})
=============================================================================
