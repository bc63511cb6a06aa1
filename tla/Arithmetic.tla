----------------------------- MODULE Arithmetic -----------------------------
(* Products of a rate and a time: the nonlinear facts the proofs rest on.  *)
EXTENDS Integers, TLAPS

\* A refill over a whole number of ticks (tokenbucket.go:104) is a whole
\* number of units, and not a negative one.
LEMMA NatProduct == \A a, b \in Nat : a * b \in Nat
OBVIOUS

\* The same for a clock that stepped back.
LEMMA IntProduct == \A a, b \in Int : a * b \in Int /\ a * b = b * a
OBVIOUS

\* The later of two clock readings is the earlier one and some ticks.
LEMMA TicksBetween ==
  \A a, b \in Nat : b > a => \E d \in Nat \ {0} : b = a + d /\ b - a = d
<1> TAKE a, b \in Nat
<1> HAVE b > a
<1>1. b - a \in Nat \ {0} /\ b = a + (b - a)
  OBVIOUS
<1> QED
  BY <1>1

\* Refilling for two stretches of time adds up.
LEMMA ProductOfSum == \A a, b, c \in Int : (a + b) * c = a * c + b * c
OBVIOUS

\* A longer stretch refills at least as much (at any rate, zero included).
LEMMA ProductMonotone ==
  \A a, b \in Int, c \in Nat : a <= b => a * c <= b * c
<1> TAKE a, b \in Int, c \in Nat
<1> HAVE a <= b
<1>1. b = a + (b - a) /\ b - a \in Nat
  OBVIOUS
<1>2. b * c = a * c + (b - a) * c
  BY <1>1, ProductOfSum
<1> QED
  BY <1>1, <1>2, NatProduct, IntProduct

\* What a truncated quotient is (tokenbucket.go:136, check.go:73): the largest
\* whole number of ticks, or seconds, that fits.
LEMMA Quotient ==
  \A a \in Int, b \in Nat \ {0} :
    /\ a \div b \in Int
    /\ (a \div b) * b <= a
    /\ a < (a \div b + 1) * b
OBVIOUS

\* Less time for the same rate refills less.
LEMMA ProductStrict ==
  \A a, b \in Int, c \in Nat \ {0} : (a < b) <=> (a * c < b * c)
OBVIOUS
=============================================================================
