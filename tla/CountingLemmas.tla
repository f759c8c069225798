--------------------------- MODULE CountingLemmas ---------------------------
(***************************************************************************)
(* Facts about numbers and positions that the proofs of the scheduler rest *)
(* on: a least element, the remainder of a successor, and the position of  *)
(* an element in the increasing order of a finite set of numbers, which is *)
(* what "ORDER BY camera_id" gives the scheduler.                          *)
(***************************************************************************)
EXTENDS Integers, FiniteSetTheorems, WellFoundedInduction, TLAPS

\* A non-empty set of naturals has a least element: what stands in for induction.
LEMMA LeastElement ==
  ASSUME NEW T \in SUBSET Nat, T # {}
  PROVE  \E n \in T : \A m \in T : n <= m
<1> DEFINE R == {ss \in Nat \X Nat : ss[1] < ss[2]}
<1>1. IsWellFoundedOn(R, Nat)
  BY NatLessThanWellFounded DEF OpToRel
<1>2. PICK n \in T : \A m \in T : ~ (<<m, n>> \in R)
  <2> HIDE DEF R
  <2> QED
    BY <1>1, WFMin
<1>3. ASSUME NEW m \in T
      PROVE  n <= m
  <2>1. ~ (m < n)
    BY <1>2, <<m, n>>[1] = m, <<m, n>>[2] = n
  <2> QED
    BY <2>1
<1> QED
  BY <1>3

-----------------------------------------------------------------------------
(* Remainders                                                              *)

LEMMA RemainderUnique ==
  ASSUME NEW n \in Nat \ {0}, NEW q \in Int, NEW r \in 0..(n - 1)
  PROVE  (n * q + r) % n = r
  OBVIOUS

LEMMA RemainderExists ==
  ASSUME NEW n \in Nat \ {0}, NEW x \in Nat
  PROVE  \E q \in Int : x = n * q + (x % n) /\ x % n \in 0..(n - 1)
<1> DEFINE T == {r \in Nat : \E q \in Int : x = n * q + r}
<1>1. x \in T
  <2>1. x = n * 0 + x
    OBVIOUS
  <2> QED
    BY <2>1
<1>2. PICK r \in T : \A s \in T : r <= s
  <2> HIDE DEF T
  <2>1. T # {}
    BY <1>1
  <2>2. T \in SUBSET Nat
    BY DEF T
  <2> QED
    BY <2>1, <2>2, LeastElement
<1>3. PICK q \in Int : x = n * q + r
  OBVIOUS
<1>4. r < n
  <2> SUFFICES ASSUME r >= n
               PROVE  FALSE
    OBVIOUS
  <2>1. n * (q + 1) = n * q + n
    OBVIOUS
  <2>2. r - n \in Nat /\ x = n * (q + 1) + (r - n)
    BY <1>3, <2>1
  <2>3. r - n \in T
    BY <2>2
  <2>4. r \in Nat /\ r <= r - n
    BY <1>2, <2>3
  <2> QED
    BY <2>4
<1>5. r \in 0..(n - 1)
  BY <1>4
<1> HIDE DEF T
<1>6. x % n = r
  BY <1>3, <1>5, RemainderUnique
<1> QED
  BY <1>3, <1>5, <1>6

\* Going round: the remainder of a successor is the next one, or zero again.
LEMMA RemainderOfSuccessor ==
  ASSUME NEW n \in Nat \ {0}, NEW x \in Nat
  PROVE  (x + 1) % n = IF (x % n) + 1 = n THEN 0 ELSE (x % n) + 1
<1> DEFINE r == x % n
<1>1. \E q \in Int : x = n * q + r /\ r \in 0..(n - 1)
  BY RemainderExists
<1> HIDE DEF r
<1>2. PICK q \in Int : x = n * q + r /\ r \in 0..(n - 1)
  BY <1>1
<1>3. CASE r + 1 = n
  <2>1. x + 1 = n * (q + 1) + 0
    <3>1. n * (q + 1) = n * q + n
      OBVIOUS
    <3> QED
      BY <1>2, <1>3, <3>1
  <2>2. (n * (q + 1) + 0) % n = 0
    BY RemainderUnique, q + 1 \in Int, 0 \in 0..(n - 1)
  <2> QED
    BY <1>3, <2>1, <2>2 DEF r
<1>4. CASE r + 1 # n
  <2>1. x + 1 = n * q + (r + 1) /\ r + 1 \in 0..(n - 1)
    BY <1>2, <1>4
  <2>2. (n * q + (r + 1)) % n = r + 1
    BY <2>1, RemainderUnique
  <2> QED
    BY <1>4, <2>1, <2>2 DEF r
<1> QED
  BY <1>3, <1>4

-----------------------------------------------------------------------------
(* Positions in a finite set of numbers                                    *)

\* How many elements of S come before c.
Rank(S, c) == Cardinality({d \in S : d < c})

LEMMA BelowFinite ==
  ASSUME NEW n \in Nat, NEW S \in SUBSET (1..n), NEW c \in Nat
  PROVE  /\ IsFiniteSet({d \in S : d < c})
         /\ Rank(S, c) \in Nat
         /\ IsFiniteSet(S) /\ Cardinality(S) \in Nat
         /\ Rank(S, c) <= Cardinality(S)
<1>1. IsFiniteSet(1..n)
  BY FS_Interval
<1>2. IsFiniteSet(S)
  BY <1>1, FS_Subset
<1>3. {d \in S : d < c} \subseteq S
  OBVIOUS
<1> QED
  BY <1>2, <1>3, FS_Subset, FS_CardinalityType DEF Rank

\* One position further passes over one element, if it is there.
LEMMA RankStep ==
  ASSUME NEW n \in Nat, NEW S \in SUBSET (1..n), NEW c \in Nat
  PROVE  Rank(S, c + 1) = IF c \in S THEN Rank(S, c) + 1 ELSE Rank(S, c)
<1>t. \A d \in S : d \in Nat
  OBVIOUS
<1>1. CASE c \in S
  <2>1. {d \in S : d < c + 1} = {d \in S : d < c} \cup {c}
    <3>1. \A d \in S : d < c + 1 <=> d < c \/ d = c
      BY <1>t
    <3> QED
      BY <1>1, <3>1
  <2>2. c \notin {d \in S : d < c}
    OBVIOUS
  <2> QED
    BY <1>1, <2>1, <2>2, BelowFinite, FS_AddElement DEF Rank
<1>2. CASE c \notin S
  <2>1. {d \in S : d < c + 1} = {d \in S : d < c}
    <3>1. \A d \in S : d < c + 1 <=> d < c \/ d = c
      BY <1>t
    <3> QED
      BY <1>2, <3>1
  <2> QED
    BY <1>2, <2>1 DEF Rank
<1> QED
  BY <1>1, <1>2

LEMMA RankMonotone ==
  ASSUME NEW n \in Nat, NEW S \in SUBSET (1..n), NEW c \in Nat, NEW d \in Nat, c <= d
  PROVE  Rank(S, c) <= Rank(S, d)
<1>t. \A e \in S : e \in Nat
  OBVIOUS
<1>1. {e \in S : e < c} \subseteq {e \in S : e < d}
  <2>1. \A e \in S : e < c => e < d
    BY <1>t
  <2> QED
    BY <2>1
<1> QED
  BY <1>1, BelowFinite, FS_Subset DEF Rank

\* Every position below the length is taken ...
LEMMA RankOnto ==
  ASSUME NEW n \in Nat, NEW S \in SUBSET (1..n), NEW k \in Nat, k < Cardinality(S)
  PROVE  \E c \in S : Rank(S, c) = k
<1> DEFINE T == {m \in Nat : Rank(S, m) > k}
<1>t. \A d \in S : d \in Nat /\ 0 < d /\ d <= n
  OBVIOUS
<1>1. n + 1 \in T
  <2>1. {d \in S : d < n + 1} = S
    <3>1. \A d \in S : d < n + 1
      BY <1>t
    <3> QED
      BY <3>1
  <2>2. Rank(S, n + 1) = Cardinality(S) /\ Cardinality(S) \in Nat
    BY <2>1, BelowFinite DEF Rank
  <2> QED
    BY <2>2
<1>2. PICK m \in T : \A l \in T : m <= l
  <2> HIDE DEF T
  <2>1. T # {}
    BY <1>1
  <2>2. T \in SUBSET Nat
    BY DEF T
  <2> QED
    BY <2>1, <2>2, LeastElement
<1>3. m # 0
  <2>1. {d \in S : d < 0} = {}
    <3>1. \A d \in S : ~ (d < 0)
      BY <1>t
    <3> QED
      BY <3>1
  <2>2. Rank(S, 0) = 0
    BY <2>1, FS_EmptySet DEF Rank
  <2> QED
    BY <2>2
<1>4. m - 1 \in Nat /\ m - 1 \notin T
  BY <1>2, <1>3
<1>5. Rank(S, m - 1) \in Nat /\ Rank(S, m - 1) <= k
  <2>1. Rank(S, m - 1) \in Nat
    BY <1>4, BelowFinite
  <2>2. ~ (Rank(S, m - 1) > k)
    BY <1>4
  <2> QED
    BY <2>1, <2>2
<1>6. Rank(S, m) = IF m - 1 \in S THEN Rank(S, m - 1) + 1 ELSE Rank(S, m - 1)
  <2>1. (m - 1) + 1 = m
    OBVIOUS
  <2> HIDE DEF T
  <2> QED
    BY <1>4, <2>1, RankStep
<1>7. m - 1 \in S /\ Rank(S, m - 1) = k
  BY <1>5, <1>6
<1> QED
  BY <1>7

\* ... by one element only.
LEMMA RankInjective ==
  ASSUME NEW n \in Nat, NEW S \in SUBSET (1..n), NEW c \in S, NEW d \in S,
         Rank(S, c) = Rank(S, d)
  PROVE  c = d
<1>t. \A x \in S : x \in Nat
  OBVIOUS
<1>1. ASSUME NEW x \in S, NEW y \in S, x < y
      PROVE  Rank(S, x) < Rank(S, y)
  <2>1. x \in Nat /\ y \in Nat /\ x + 1 \in Nat /\ x + 1 <= y
    BY <1>t, <1>1
  <2>2. Rank(S, x + 1) = Rank(S, x) + 1
    BY <2>1, RankStep
  <2>3. Rank(S, x + 1) <= Rank(S, y)
    BY <2>1, RankMonotone
  <2>4. Rank(S, x) \in Nat /\ Rank(S, y) \in Nat
    BY <2>1, BelowFinite
  <2> QED
    BY <2>2, <2>3, <2>4
<1>2. Rank(S, c) \in Nat
  BY <1>t, BelowFinite
<1> QED
  BY <1>t, <1>1, <1>2

\* A member's position is below the length.
LEMMA RankBelowLength ==
  ASSUME NEW n \in Nat, NEW S \in SUBSET (1..n), NEW c \in S
  PROVE  Rank(S, c) \in 0..(Cardinality(S) - 1)
<1>1. c \in Nat /\ c + 1 \in Nat
  OBVIOUS
<1>2. Rank(S, c + 1) = Rank(S, c) + 1
  BY <1>1, RankStep
<1>3. Rank(S, c) \in Nat /\ Rank(S, c + 1) <= Cardinality(S) /\ Cardinality(S) \in Nat
  BY <1>1, BelowFinite
<1> QED
  BY <1>2, <1>3
=============================================================================
