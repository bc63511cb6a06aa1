------------------------- MODULE RateContractProofs -------------------------
(***************************************************************************)
(* The contract of RateContract implies the rate limit over any interval.  *)
(***************************************************************************)
EXTENDS RateContract, Arithmetic

TypeOK ==
  /\ credit \in Int
  /\ since \in Nat
  /\ span \in Nat

\* Credit in hand and requests let through are paid from one purse: a full
\* bucket at the start of the interval and what it was refilled with since.
Purse == since * Unit + credit <= Capacity + Rate * span

\* RateBound is a conjunct of its own: credit may be negative (Forfeit), so
\* it does not follow from Purse; Admit needs a whole token in hand.
IInv ==
  /\ TypeOK
  /\ credit <= Capacity
  /\ Purse
  /\ RateBound

\* The initial full bucket satisfies the purse invariant.
LEMMA InitPurse == ContractAssumption /\ Init => IInv
BY DEF ContractAssumption, Init, IInv, TypeOK, Purse, RateBound

\* Every step of the contract, passing time and lost credit included, keeps
\* the purse invariant.
LEMMA StepPurse == ContractAssumption /\ IInv /\ [Next]_vars => IInv'
<1> SUFFICES ASSUME ContractAssumption, IInv, [Next]_vars PROVE IInv'
  OBVIOUS
<1> DEFINE old  == Rate * span
           used == since * Unit
<1>0. /\ credit \in Int /\ since \in Nat /\ span \in Nat
      /\ Unit \in Nat \ {0} /\ Capacity \in Nat /\ Rate \in Nat
  BY DEF ContractAssumption, IInv, TypeOK
<1>1. /\ credit <= Capacity
      /\ used + credit <= Capacity + old
      /\ used <= Capacity + old
  BY DEF IInv, Purse, RateBound
<1>2. old \in Nat /\ used \in Nat
  BY <1>0, NatProduct
<1>3. CASE Accrue
  <2>1. /\ span' \in Nat /\ span' > span
        /\ credit' = Capped(credit + (span' - span) * Rate)
        /\ since' = since
    BY <1>3, Zenon DEF Accrue
  <2>2. PICK d \in Nat \ {0} : span' = span + d /\ span' - span = d
    BY <1>0, <2>1, TicksBetween, Zenon
  <2> DEFINE gain == d * Rate
  <2>3. gain \in Nat
    BY <1>0, NatProduct
  <2>4. Rate * (span + d) = old + gain
    BY <1>0, ProductOfSum, IntProduct
  <2>5. credit' = Capped(credit + gain)
    BY <2>1, <2>2, Zenon
  <2> DEFINE left == Capped(credit + gain)
  <2> HIDE DEF gain, old, used
  <2>6. left \in Int /\ left <= Capacity /\ left <= credit + gain
    BY <1>0, <2>3 DEF Capped
  <2> HIDE DEF left
  <2>7. used + left <= Capacity + (old + gain) /\ used <= Capacity + (old + gain)
    BY <1>0, <1>1, <1>2, <2>3, <2>6
  <2> DEFINE later == span + d
  <2>8. /\ later \in Nat
        /\ used + left <= Capacity + Rate * later
        /\ used <= Capacity + Rate * later
    BY <1>0, <2>4, <2>7
  <2>9. since' = since /\ span' = later /\ credit' = left
    BY <2>1, <2>2, <2>5 DEF left
  <2> HIDE DEF later
  <2> QED
    BY <1>0, <2>6, <2>8, <2>9 DEF IInv, TypeOK, Purse, RateBound, used
<1>4. CASE Admit
  <2>1. (since + 1) * Unit = used + Unit
    BY <1>0, ProductOfSum
  <2>2. /\ credit >= Unit /\ credit' = credit - Unit
        /\ since' = since + 1 /\ span' = span
    BY <1>4 DEF Admit
  <2> HIDE DEF old, used
  <2>3. /\ credit' \in Int /\ since' \in Nat /\ credit' <= Capacity
        /\ (used + Unit) + credit' <= Capacity + old
        /\ used + Unit <= Capacity + old
    BY <1>0, <1>1, <1>2, <2>2
  <2> QED
    BY <1>0, <2>1, <2>2, <2>3 DEF IInv, TypeOK, Purse, RateBound, old
<1>5. CASE Refuse
  BY <1>5 DEF Refuse, IInv, TypeOK, Purse, RateBound
<1>6. CASE Forfeit
  <2>1. PICK left \in Int : credit' = left /\ left <= credit
    BY <1>6, Zenon DEF Forfeit
  <2>2. since' = since /\ span' = span
    BY <1>6 DEF Forfeit
  <2> HIDE DEF old, used
  <2>3. left <= Capacity /\ used + left <= Capacity + old
    BY <1>0, <1>1, <1>2, <2>1
  <2> QED
    BY <1>0, <1>1, <2>1, <2>2, <2>3 DEF IInv, TypeOK, Purse, RateBound, old, used
<1>7. CASE Observe
  <2>1. /\ credit' = credit /\ since' = 0 /\ span' = 0
        /\ 0 * Unit = 0 /\ Rate * 0 = 0
    BY <1>0, <1>7 DEF Observe
  <2> QED
    BY <1>0, <1>1, <2>1 DEF IInv, TypeOK, Purse, RateBound
<1>8. CASE UNCHANGED vars
  BY <1>8 DEF vars, IInv, TypeOK, Purse, RateBound
<1> QED
  BY <1>3, <1>4, <1>5, <1>6, <1>7, <1>8 DEF Next

\* The rate limit of the contract: whatever interval an observer picks, the
\* requests admitted in it are at most a full bucket plus the refill.
THEOREM ContractRateBound ==
  ASSUME ContractAssumption
  PROVE  Spec => []RateBound
<1>1. Init => IInv
  BY InitPurse, ContractAssumption
<1>2. IInv /\ [Next]_vars => IInv'
  BY StepPurse, ContractAssumption
<1>3. IInv => RateBound
  BY DEF IInv
<1> QED
  BY <1>1, <1>2, <1>3, PTL DEF Spec
=============================================================================
