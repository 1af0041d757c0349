----------------------------- MODULE LeastIndex -----------------------------
(***************************************************************************)
(* That "the first entry such that ..." exists, for the finds over logs    *)
(* and maps.                                                               *)
(***************************************************************************)
EXTENDS Naturals, WellFoundedInduction, TLAPS

\* Any set of indexes that is not empty has a least one: what Array.find picks
\* in the transition log and among the granted approvals.
LEMMA SetOfNaturalsHasMin ==
  ASSUME NEW S \in SUBSET Nat, S # {}
  PROVE  \E i \in S : \A j \in S : i <= j
<1>1. PICK i \in S : \A j \in S : ~ (<<j, i>> \in OpToRel(<, Nat))
  BY NatLessThanWellFounded, WFMin
<1>2. ASSUME NEW j \in S PROVE i <= j
  <2>1. i \in Nat /\ j \in Nat /\ ~ (<<j, i>> \in OpToRel(<, Nat))
    BY <1>1
  <2> QED
    BY <2>1 DEF OpToRel
<1> QED
  BY <1>2

\* Induction up to a bound, for loops over a sequence: what holds before the
\* loop and is kept by each turn holds after every turn.
LEMMA EveryTurn ==
  ASSUME NEW n \in Nat, NEW S,
         0 \in S,
         \A i \in 1..n : i - 1 \in S => i \in S
  PROVE  0..n \subseteq S
<1> DEFINE Missing == (0..n) \ S
<1> SUFFICES ASSUME Missing # {} PROVE FALSE
  OBVIOUS
<1>1. PICK i \in Missing : \A j \in Missing : i <= j
  <2>1. Missing \in SUBSET Nat
    OBVIOUS
  <2> HIDE DEF Missing
  <2> QED
    BY <2>1, SetOfNaturalsHasMin
<1>2. i \in 1..n /\ i - 1 \in 0..n /\ ~ (i <= i - 1)
  OBVIOUS
<1>3. i - 1 \in S
  BY <1>1, <1>2
<1> QED
  BY <1>2, <1>3
=============================================================================
