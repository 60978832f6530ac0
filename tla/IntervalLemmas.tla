--------------------------- MODULE IntervalLemmas ---------------------------
(***************************************************************************)
(* Arithmetic the proofs cite by name: least and greatest elements of sets *)
(* of naturals, and the slots and pages of a log of p pages of n slots.    *)
(***************************************************************************)
EXTENDS Integers, FiniteSetsExt, WellFoundedInduction, TLAPS

\* A nonempty set of naturals has a least element.
LEMMA MinExists ==
  ASSUME NEW S, S \subseteq Nat, S # {}
  PROVE  Min(S) \in S /\ \A y \in S : Min(S) <= y
<1> DEFINE Less == {p \in Nat \X Nat : p[1] < p[2]}
<1>1. OpToRel(<, Nat) = Less
  BY Zenon DEF OpToRel
<1>2. IsWellFoundedOn(Less, Nat)
  BY <1>1, NatLessThanWellFounded
<1>3. PICK x \in S : \A y \in S : ~(<<y, x>> \in Less)
  BY <1>2, WFMin
<1>4. ASSUME NEW y \in S
      PROVE  x <= y
  <2>1. y < x => <<y, x>> \in Less
    OBVIOUS
  <2>2. QED
    BY <1>3, <2>1, SMT
<1>5. QED
  BY <1>4, Zenon DEF Min

\* A nonempty set of naturals with an upper bound has a greatest element.
LEMMA MaxExists ==
  ASSUME NEW n \in Nat, NEW S, S \subseteq 0 .. n, S # {}
  PROVE  Max(S) \in S /\ \A y \in S : y <= Max(S)
<1> DEFINE T == {k \in Nat : \E s \in S : k = n - s}
<1>1. T \subseteq Nat
  OBVIOUS
<1>2. \A s \in S : n - s \in T
  BY SMT
<1>3. T # {}
  BY <1>2
<1>4. Min(T) \in T /\ \A y \in T : Min(T) <= y
  BY <1>1, <1>3, MinExists
<1>5. PICK m \in S : Min(T) = n - m
  BY <1>4
<1>6. \A y \in S : n - m <= n - y
  BY <1>2, <1>4, <1>5
<1>7. \A y \in S : m >= y
  BY <1>6, SMT
<1>8. Max(S) \in S /\ \A y \in S : Max(S) >= y
  BY <1>7, Zenon DEF Max
<1>9. QED
  BY <1>8, SMT

\* A remainder lies below the modulus.
LEMMA ModRange ==
  ASSUME NEW n \in Nat \ {0}, NEW x \in Int
  PROVE  x % n \in 0 .. n - 1
  BY SMT

\* A log has at least as many slots as pages.
LEMMA ProductPositive ==
  ASSUME NEW p \in Nat \ {0}, NEW n \in Nat \ {0}
  PROVE  p * n \in Nat \ {0}
  BY SMT

\* A slot of the log lies on one of its pages.
LEMMA SlotPage ==
  ASSUME NEW p \in Nat \ {0}, NEW n \in Nat \ {0}, NEW s \in 0 .. p * n - 1
  PROVE  s \div n \in 0 .. p - 1
<1>1. s = n * (s \div n) + (s % n) /\ s % n \in 0 .. n - 1 /\ s \div n \in Int
  BY SMT
<1>2. s \div n >= 0
  BY <1>1, SMT
<1>3. ASSUME s \div n >= p
      PROVE  FALSE
  <2>1. \A k \in Int : k >= p => n * k >= p * n
    BY SMT
  <2>2. n * (s \div n) >= p * n
    BY <1>1, <1>3, <2>1
  <2>3. QED
    BY <1>1, <2>2, ProductPositive, SMT
<1>4. QED
  BY <1>1, <1>2, <1>3, SMT

\* The first slot of a page is a slot of the log.
LEMMA PageSlot ==
  ASSUME NEW p \in Nat \ {0}, NEW n \in Nat \ {0}, NEW v \in 0 .. p - 1
  PROVE  v * n \in 0 .. p * n - 1
<1>1. v * n \in Nat
  BY SMT
<1>2. (p - v) * n >= n
  BY SMT
<1>3. (p - v) * n = p * n - v * n
  BY SMT
<1>4. QED
  BY <1>1, <1>2, <1>3, ProductPositive, SMT

\* ... and lies on that page.
LEMMA PageSlotPage ==
  ASSUME NEW n \in Nat \ {0}, NEW v \in Nat
  PROVE  (v * n) \div n = v
  BY SMT
==============================================================================
