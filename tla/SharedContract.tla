--------------------------- MODULE SharedContract ---------------------------
(***************************************************************************)
(* What instances that share one token bucket promise together, without    *)
(* saying how, when what they take for the time may differ by Slack.       *)
(*                                                                         *)
(* Two ideal buckets accrue at Rate and pay for every request admitted:    *)
(* most holds Slack's refill more than Capacity, least as much less.  A    *)
(* request is admitted only if most holds a token, and refused only if     *)
(* least does not; between the two the instances may do either.  outcome   *)
(* is the answer to the last request of this instant.                      *)
(***************************************************************************)
EXTENDS Integers

CONSTANTS Unit, Capacity, Rate, Slack

VARIABLES most, least, outcome

vars == <<most, least, outcome>>

Top == Capacity + Slack * Rate
Bottom == Capacity - Slack * Rate

Lower(a, b) == IF a <= b THEN a ELSE b

Init ==
  /\ most = Top /\ least = Bottom
  /\ outcome = "none"

\* An instant later.
Accrue ==
  /\ most' = Lower(Top, most + Rate)
  /\ least' = Lower(Bottom, least + Rate)
  /\ outcome' = "none"

\* most pays a token, or loses more; least pays no more than a token.
Admit ==
  /\ most >= Unit
  /\ most' \in Int /\ most' <= most - Unit
  /\ least' \in least - Unit .. most'
  /\ outcome' = "allow"

Refuse ==
  /\ least < Unit
  /\ outcome' = "deny"
  /\ UNCHANGED <<most, least>>

Next == Accrue \/ Admit \/ Refuse

Spec == Init /\ [][Next]_vars
=============================================================================
