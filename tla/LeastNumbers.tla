---------------------------- MODULE LeastNumbers ----------------------------
(***************************************************************************)
(* The induction that the other proofs take: a set of natural numbers that   *)
(* is not empty has a least element.                                          *)
(***************************************************************************)
EXTENDS Integers, FiniteSetsExt, WellFoundedInduction, TLAPS

(* A set of numbers that is not empty has a least element. *)
LEMMA LeastElement ==
  ASSUME NEW T, T \subseteq Nat, T # {}
  PROVE  \E x \in T : \A y \in T : x <= y
<1>1. PICK x \in T : \A y \in T : <<y, x>> \notin OpToRel(<, Nat)
  BY WFMin, NatLessThanWellFounded, Zenon
<1>2. \A y \in T : <<y, x>> \notin {ss \in Nat \X Nat : ss[1] < ss[2]}
  BY <1>1, Zenon DEF OpToRel
<1>3. ASSUME NEW y \in T PROVE x <= y
  <2>1. ~(y < x)
    BY <1>2
  <2>2. QED
    BY <2>1
<1>4. QED
  BY <1>3

(* Max() of some of the first n numbers is the greatest of them. *)
LEMMA MaxFacts ==
  ASSUME NEW n \in Nat, NEW T, T \subseteq 1..n, T # {}
  PROVE  Max(T) \in T /\ \A y \in T : y <= Max(T)
<1> DEFINE gaps == {n - x : x \in T}
<1>1. gaps \subseteq Nat /\ gaps # {}
  <2>1. \A x \in T : n - x \in Nat
    OBVIOUS
  <2>2. QED
    BY <2>1
<1>2. PICK g \in gaps : \A h \in gaps : g <= h
  BY <1>1, LeastElement
<1>3. PICK x \in T : g = n - x
  BY <1>2
<1>4. ASSUME NEW y \in T PROVE x >= y
  <2>1. n - x <= n - y
    BY <1>2, <1>3
  <2>2. QED
    BY <2>1
<1>5. Max(T) \in T /\ \A y \in T : Max(T) >= y
  BY <1>4 DEF Max
<1>6. QED
  BY <1>5

(* Min() is an element that no other is below. *)
LEMMA MinIs ==
  ASSUME NEW T, T \subseteq Nat, NEW a \in T, \A b \in T : a <= b
  PROVE  Min(T) = a
<1>1. Min(T) \in T /\ \A b \in T : Min(T) <= b
  BY DEF Min
<1>2. Min(T) <= a /\ a <= Min(T) /\ Min(T) \in Nat /\ a \in Nat
  BY <1>1
<1>3. QED
  BY <1>2
===============================================================================
