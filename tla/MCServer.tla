------------------------------ MODULE MCServer ------------------------------
(***************************************************************************)
(* TLC instance of Server: one client, whose bucket holds one token, and   *)
(* a Config that gives it a window instead; one goroutine serves requests  *)
(* next to main and the snapshotter.                                       *)
(***************************************************************************)
EXTENDS Server, TLC

CONSTANTS c1, g1, a1, a2, a3

\* Unit = 2: one token, refilled in a tick, and one request per two ticks.
DefaultBucket == [RPS |-> 2, Burst |-> 2, Algorithm |-> AlgorithmTokenBucket]
SmallWindow   == [RPS |-> 1, Burst |-> 2, Algorithm |-> AlgorithmSlidingWindow]

Submitted == {SmallWindow}

Symmetry == Permutations({a1, a2, a3})
=============================================================================
