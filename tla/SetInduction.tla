------------------------------ MODULE SetInduction ------------------------------
(***************************************************************************)
(* Induction over the natural numbers stated of sets instead of predicates,*)
(* so that the back ends can use it: from the library's theorem that strict*)
(* inclusion of finite sets is well-founded. Proof modules take it for     *)
(* recursive functions and for least elements.                             *)
(***************************************************************************)
EXTENDS Integers, FiniteSetTheorems, WellFoundedInduction, TLAPS

(* Every set of natural numbers that is not empty has a least element.     *)
LEMMA Least ==
  ASSUME NEW T \in SUBSET Nat, T # {}
  PROVE  \E n \in T : \A m \in T : n <= m
<1> DEFINE Upto(n) == 1 .. n
           R == {Upto(n) : n \in T}
<1>1. R \subseteq FiniteSubsetsOf(Nat)
  BY FS_Interval DEF FiniteSubsetsOf
<1>2. R # {}
  OBVIOUS
<1>3. \E x \in R : \A y \in R : ~ (<<y, x>> \in StrictSubsetOrdering(Nat))
  <2> HIDE DEF R
  <2> QED BY <1>1, <1>2, FS_StrictSubsetOrderingWellFounded, WFMin
<1>4. PICK n \in T : \A m \in T : ~ (<<Upto(m), Upto(n)>> \in StrictSubsetOrdering(Nat))
  BY <1>3
<1>5. ASSUME NEW m \in T, ~ (n <= m)
      PROVE  FALSE
  <2>1. <<Upto(m), Upto(n)>> \in (SUBSET Nat) \X (SUBSET Nat)
    OBVIOUS
  <2>2. n \in Nat /\ m \in Nat /\ m < n
    BY <1>5
  <2>3. n \in Upto(n) /\ n \notin Upto(m)
    BY <2>2
  <2>4. Upto(m) \subseteq Upto(n)
    BY <2>2
  <2> QED BY <1>4, <2>1, <2>3, <2>4 DEF StrictSubsetOrdering
<1> QED BY <1>5

(* A set of numbers that is bounded and not empty has a greatest element.  *)
LEMMA Greatest ==
  ASSUME NEW bound \in Nat, NEW S \in SUBSET (0 .. bound), S # {}
  PROVE  \E n \in S : \A m \in S : m <= n
<1> DEFINE T == {bound - i : i \in S}
<1>1. T \in SUBSET Nat /\ T # {}
  <2>1. \A i \in S : bound - i \in Nat
    OBVIOUS
  <2>2. T # {}
    OBVIOUS
  <2> QED BY <2>1, <2>2
<1>2. PICK t \in T : \A m \in T : t <= m
  <2> HIDE DEF T
  <2> QED BY <1>1, Least
<1>3. PICK n \in S : t = bound - n
  OBVIOUS
<1>4. \A m \in S : bound - n <= bound - m
  BY <1>2, <1>3
<1> QED BY <1>4

(* What holds of 0 and of the successor of each member holds of all.       *)
LEMMA Induction ==
  ASSUME NEW T, 0 \in T, \A n \in Nat : n \in T => n + 1 \in T
  PROVE  \A n \in Nat : n \in T
<1> SUFFICES ASSUME Nat \ T # {} PROVE FALSE
  OBVIOUS
<1>1. PICK n \in Nat \ T : \A m \in Nat \ T : n <= m
  BY Least, Nat \ T \in SUBSET Nat
<1>2. n # 0 /\ n - 1 \in Nat
  BY <1>1
<1>3. n - 1 \in T
  BY <1>1, <1>2
<1> QED BY <1>1, <1>2, <1>3
=============================================================================
