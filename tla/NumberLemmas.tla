---------------------------- MODULE NumberLemmas ----------------------------
(***************************************************************************)
(* Min and Max of sets of numbers, which stand for the ORDER BY ... LIMIT  *)
(* of the archive's queries, are well defined where the models use them;   *)
(* powers of two, which the backoff doubles by, are positive; elements of  *)
(* few ranks are few.                                                      *)
(***************************************************************************)
EXTENDS Naturals, FiniteSetsExt, FiniteSetTheorems, TLAPS, WellFoundedInduction

\* The order of the naturals, as the relation the library speaks of.
LEMMA LessThanRelation ==
  \A x, y \in Nat : <<x, y>> \in OpToRel(<, Nat) <=> x < y
BY DEF OpToRel

\* A non-empty set of numbers has a least element.
LEMMA MinExists ==
  ASSUME NEW S \in SUBSET Nat, S # {}
  PROVE  Min(S) \in S /\ \A j \in S : Min(S) <= j
<1> DEFINE R == OpToRel(<, Nat)
<1>1. \A x, y \in Nat : <<x, y>> \in R <=> x < y
  BY LessThanRelation
<1>2. IsWellFoundedOn(R, Nat)
  BY NatLessThanWellFounded
<1> HIDE DEF R
<1>3. \E x \in S : \A y \in S : ~(<<y, x>> \in R)
  BY <1>2, WFMin
<1>4. \A x \in S : x \in Nat
  OBVIOUS
<1>5. \E x \in S : \A y \in S : ~(y < x)
  BY <1>1, <1>3, <1>4, Zenon
<1>6. \E x \in S : \A y \in S : x <= y
  BY <1>4, <1>5
<1> QED
  BY <1>6 DEF Min

\* A non-empty bounded set of numbers has a greatest element.
LEMMA MaxExists ==
  ASSUME NEW n \in Nat, NEW S \in SUBSET (1..n), S # {}
  PROVE  Max(S) \in S /\ \A j \in S : j <= Max(S)
<1> DEFINE Above == {k \in Nat : \A j \in S : j <= k}
           m == Min(Above)
<1>1. n \in Above
  OBVIOUS
<1>2. m \in Above /\ \A k \in Above : m <= k
  BY <1>1, MinExists
<1> HIDE DEF m
<1>3. m \in S
  <2>1. SUFFICES ASSUME m \notin S PROVE FALSE
    OBVIOUS
  <2>2. \A j \in S : j \in Nat /\ j >= 1 /\ j <= m - 1
    BY <1>2, <2>1
  <2>3. m - 1 \in Nat
    <3>1. PICK j \in S : TRUE
      OBVIOUS
    <3>2. m \in Nat
      BY <1>2
    <3> QED
      BY <2>2, <3>1, <3>2
  <2>4. m - 1 \in Above
    BY <2>2, <2>3
  <2> QED
    BY <1>2, <2>4
<1>4. \E i \in S : \A j \in S : i >= j
  BY <1>2, <1>3
<1> QED
  BY <1>4 DEF Max

\* The lesser and the greater of two numbers.
LEMMA PairMin ==
  ASSUME NEW a \in Nat, NEW b \in Nat
  PROVE  Min({a, b}) = IF a <= b THEN a ELSE b
<1>1. Min({a, b}) \in {a, b} /\ \A j \in {a, b} : Min({a, b}) <= j
  BY MinExists
<1> QED
  BY <1>1

\* The larger of two numbers is one of them and bounds both.
LEMMA PairMax ==
  ASSUME NEW a \in Nat, NEW b \in Nat
  PROVE  Max({a, b}) = IF a <= b THEN b ELSE a
<1> DEFINE m == IF a <= b THEN b ELSE a
<1>1. m \in {a, b} /\ \A j \in {a, b} : m >= j
  OBVIOUS
<1>2. Max({a, b}) \in {a, b} /\ \A j \in {a, b} : Max({a, b}) >= j
  BY <1>1 DEF Max
<1> QED
  BY <1>2

\* A power of two counts the subsets of a set, so it is positive.
LEMMA PowerPositive ==
  ASSUME NEW k \in Nat
  PROVE  2 ^ k \in Nat /\ 2 ^ k >= 1
<1>1. IsFiniteSet(1..k) /\ Cardinality(1..k) = k
  BY FS_Interval
<1>2. IsFiniteSet(SUBSET (1..k)) /\ Cardinality(SUBSET (1..k)) = 2 ^ k
  BY <1>1, FS_SUBSET
<1>3. Cardinality(SUBSET (1..k)) \in Nat
  BY <1>2, FS_CardinalityType
<1>4. Cardinality(SUBSET (1..k)) # 0
  BY <1>2, FS_EmptySet
<1> QED
  BY <1>2, <1>3, <1>4

\* What has ranks below n, no two of them equal, are n things at most.
LEMMA RankedAreFew ==
  ASSUME NEW W, NEW n \in Nat, NEW rank \in [W -> Nat],
         \A i \in W : rank[i] < n,
         \A i, k \in W : rank[i] = rank[k] => i = k
  PROVE  IsFiniteSet(W) /\ Cardinality(W) \in Nat /\ Cardinality(W) <= n
<1>1. rank \in [W -> 0..(n - 1)]
  BY SMT
<1>2. rank \in Injection(W, 0..(n - 1))
  BY <1>1 DEF Injection, IsInjective
<1>3. IsFiniteSet(0..(n - 1)) /\ Cardinality(0..(n - 1)) = n
  BY FS_Interval
<1>4. IsFiniteSet(W) /\ Cardinality(W) <= n
  BY <1>2, <1>3, FS_Injection
<1> QED
  BY <1>4, FS_CardinalityType

\* How many elements of S are below i is a number, and so is how many are above;
\* two elements differ in both.
LEMMA RankedApart ==
  ASSUME NEW S \in SUBSET Nat, IsFiniteSet(S)
  PROVE  /\ \A i \in S : /\ Cardinality({j \in S : j > i}) \in Nat
                         /\ Cardinality({j \in S : j < i}) \in Nat
         /\ \A i, k \in S : i < k =>
              /\ Cardinality({j \in S : j > k}) # Cardinality({j \in S : j > i})
              /\ Cardinality({j \in S : j < i}) # Cardinality({j \in S : j < k})
<1> DEFINE A(i) == {j \in S : j > i}
           B(i) == {j \in S : j < i}
<1>1. \A i : /\ IsFiniteSet(A(i)) /\ Cardinality(A(i)) \in Nat
             /\ IsFiniteSet(B(i)) /\ Cardinality(B(i)) \in Nat
  BY FS_Subset, FS_CardinalityType
<1>2. ASSUME NEW i \in S, NEW k \in S, i < k
      PROVE  /\ Cardinality(A(k)) # Cardinality(A(i))
             /\ Cardinality(B(i)) # Cardinality(B(k))
  <2>1. i \in Nat /\ k \in Nat /\ \A j \in S : j \in Nat
    OBVIOUS
  <2>a. \A j \in S : (j > k => j > i) /\ (j < i => j < k)
    BY <1>2, <2>1
  <2>2. A(k) \subseteq A(i) /\ B(i) \subseteq B(k)
    BY <2>a
  <2>3. k \in A(i) \ A(k) /\ i \in B(k) \ B(i)
    BY <1>2, <2>1
  <2> HIDE DEF A, B
  <2> QED
    BY <1>1, <2>2, <2>3, FS_Subset
<1> QED
  BY <1>1, <1>2
=============================================================================
