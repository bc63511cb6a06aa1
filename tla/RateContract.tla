---------------------------- MODULE RateContract ----------------------------
(***************************************************************************)
(* What a token bucket promises its caller, without saying how: credit     *)
(* accrues continuously at Rate up to Capacity, a request is admitted      *)
(* exactly when a whole token of credit is there and costs that token, a   *)
(* refused request costs nothing.  There is no lazy refill, no anchor and  *)
(* no clock here, only the time that has passed.                           *)
(*                                                                         *)
(* since and span count the requests admitted and the time passed since an *)
(* observer last started watching (Observe): RateBound is the rate limit   *)
(* over every interval the observer may choose.  outcome is the answer to  *)
(* the last request of this instant, "none" once time has moved on.         *)
(***************************************************************************)
EXTENDS Integers

CONSTANTS Unit, Capacity, Rate

\* What the constants must satisfy; whoever instantiates the contract shows it.
ContractAssumption ==
  /\ Unit \in Nat \ {0}
  /\ Capacity \in Nat /\ Capacity >= Unit
  /\ Rate \in Nat

VARIABLES credit, outcome, since, span

vars == <<credit, outcome, since, span>>

Capped(c) == IF c <= Capacity THEN c ELSE Capacity

Init ==
  /\ credit = Capacity
  /\ outcome = "none"
  /\ since = 0
  /\ span = 0

\* Time passes: credit grows with it, never past Capacity.
Accrue ==
  /\ span' \in Nat /\ span' > span
  /\ credit' = Capped(credit + (span' - span) * Rate)
  /\ outcome' = "none"
  /\ UNCHANGED since

Admit ==
  /\ credit >= Unit
  /\ credit' = credit - Unit
  /\ outcome' = "allow"
  /\ since' = since + 1
  /\ UNCHANGED span

Refuse ==
  /\ credit < Unit
  /\ outcome' = "deny"
  /\ UNCHANGED <<credit, since, span>>

\* Credit may be lost, never conjured up (the clock was set back).
Forfeit ==
  /\ credit' \in Int /\ credit' <= credit
  /\ outcome' = "none"
  /\ UNCHANGED <<since, span>>

Observe ==
  /\ since' = 0
  /\ span' = 0
  /\ UNCHANGED <<credit, outcome>>

Next == Accrue \/ Admit \/ Refuse \/ Forfeit \/ Observe

Spec == Init /\ [][Next]_vars

\* Over any interval: at most a full bucket plus what the rate refills.
RateBound == since * Unit <= Capacity + Rate * span
=============================================================================
