----------------------------- MODULE FiniteBounds -----------------------------
(***************************************************************************)
(* Smallest and largest elements of sets of integers: facts for the proofs *)
(* about modules that use Min and Max.                                     *)
(***************************************************************************)
EXTENDS Integers, FiniteSetsExt, WellFoundedInduction, FiniteSetTheorems, TLAPS

\* A set of natural numbers has a smallest element.
LEMMA SmallestNat ==
    ASSUME NEW T \in SUBSET Nat, T # {}
    PROVE  \E x \in T : \A y \in T : x <= y
<1> DEFINE R == {ss \in Nat \X Nat : ss[1] < ss[2]}
<1>1. IsWellFoundedOn(R, Nat)
  BY NatLessThanWellFounded DEF OpToRel, R
<1> HIDE DEF R
<1>2. PICK x \in T : \A y \in T : <<y, x>> \notin R
  BY <1>1, WFMin
<1>3. \A y \in T : ~ (y < x)
  BY <1>2 DEF R
<1> QED BY <1>2, <1>3

\* A set of integers with an upper bound has a largest element, which is its Max.
LEMMA LargestInt ==
    ASSUME NEW T \in SUBSET Int, T # {}, NEW b \in Int, \A x \in T : x <= b
    PROVE  Max(T) \in T /\ \A y \in T : y <= Max(T)
<1> DEFINE D == {b - x : x \in T}
<1>1. D \in SUBSET Nat /\ D # {}
  <2>1. \A x \in T : b - x \in Nat
    OBVIOUS
  <2>2. D # {}
    OBVIOUS
  <2> QED BY <2>1, <2>2
<1> HIDE DEF D
<1>2. PICK d \in D : \A e \in D : d <= e
  BY <1>1, SmallestNat
<1>3. PICK x \in T : d = b - x
  BY <1>2 DEF D
<1>4. ASSUME NEW y \in T PROVE y <= x
  <2>1. b - x <= b - y
    BY <1>2, <1>3, <1>4 DEF D
  <2> QED BY <1>4, <2>1
<1> QED BY <1>3, <1>4 DEF Max

\* A set of integers with a lower bound has a smallest element, which is its Min.
LEMMA SmallestInt ==
    ASSUME NEW T \in SUBSET Int, T # {}, NEW b \in Int, \A x \in T : b <= x
    PROVE  Min(T) \in T /\ \A y \in T : Min(T) <= y
<1> DEFINE D == {x - b : x \in T}
<1>1. D \in SUBSET Nat /\ D # {}
  <2>1. \A x \in T : x - b \in Nat
    OBVIOUS
  <2>2. D # {}
    OBVIOUS
  <2> QED BY <2>1, <2>2
<1> HIDE DEF D
<1>2. PICK d \in D : \A e \in D : d <= e
  BY <1>1, SmallestNat
<1>3. PICK x \in T : d = x - b
  BY <1>2 DEF D
<1>4. ASSUME NEW y \in T PROVE x <= y
  <2>1. x - b <= y - b
    BY <1>2, <1>3, <1>4 DEF D
  <2> QED BY <1>4, <2>1
<1> QED BY <1>3, <1>4 DEF Min

\* A finite set has a least element in a total order R.
LEMMA LeastElement ==
    ASSUME NEW S, IsFiniteSet(S), S # {}, NEW R,
           \A v, w \in S : <<v, w>> \in R \/ <<w, v>> \in R,
           \A u, v, w \in S : <<u, v>> \in R /\ <<v, w>> \in R => <<u, w>> \in R
    PROVE  \E v \in S : \A w \in S : <<v, w>> \in R
<1> DEFINE Below(v) == {w \in S : <<w, v>> \in R}
           size(v) == Cardinality(Below(v))
           Counts == {size(v) : v \in S}
<1>1. \A v \in S : IsFiniteSet(Below(v)) /\ Cardinality(Below(v)) \in Nat
  <2> SUFFICES ASSUME NEW v \in S PROVE IsFiniteSet(Below(v)) /\ Cardinality(Below(v)) \in Nat
    OBVIOUS
  <2>1. Below(v) \in SUBSET S
    OBVIOUS
  <2> HIDE DEF Below
  <2>2. IsFiniteSet(Below(v))
    BY <2>1, FS_Subset
  <2> QED BY <2>2, FS_CardinalityType
<1>2. Counts \in SUBSET Nat /\ Counts # {}
  <2> HIDE DEF Below
  <2>1. \A v \in S : size(v) \in Nat
    BY <1>1
  <2> HIDE DEF size
  <2> QED BY <2>1
<1> HIDE DEF Counts, size
<1>3. PICK n \in Counts : \A m \in Counts : n <= m
  BY <1>2, SmallestNat
<1>4. PICK v \in S : n = size(v)
  BY <1>3 DEF Counts
<1>5. ASSUME NEW w \in S, <<v, w>> \notin R PROVE FALSE
  <2>1. <<w, v>> \in R
    BY <1>5
  <2>2. Below(w) \in SUBSET Below(v)
    BY <2>1
  <2>3. v \in Below(v) /\ v \notin Below(w)
    BY <1>5
  <2>4. size(v) <= size(w)
    BY <1>3, <1>4 DEF Counts
  <2> HIDE DEF Below
  <2>5. /\ Cardinality(Below(w)) <= Cardinality(Below(v))
        /\ Cardinality(Below(v)) = Cardinality(Below(w)) => Below(v) = Below(w)
    BY <1>1, <2>2, FS_Subset
  <2>6. Cardinality(Below(v)) = Cardinality(Below(w))
    BY <1>1, <2>4, <2>5 DEF size
  <2> QED BY <2>3, <2>5, <2>6
<1> QED BY <1>5

\* In a finite set of integers, every position up to its size is somebody's.
LEMMA RankReached ==
    ASSUME NEW S \in SUBSET Int, IsFiniteSet(S), NEW n \in 1 .. Cardinality(S)
    PROVE  \E i \in S : Cardinality({j \in S : j <= i}) = n
<1> DEFINE Upto(i) == {j \in S : j <= i}
           size(i) == Cardinality(Upto(i))
           Early == {i \in S : size(i) < n}
<1>1. ASSUME NEW i \in S PROVE IsFiniteSet(Upto(i)) /\ size(i) \in Nat
  <2>1. Upto(i) \in SUBSET S
    OBVIOUS
  <2> HIDE DEF Upto
  <2>2. IsFiniteSet(Upto(i))
    BY <2>1, FS_Subset
  <2> QED BY <2>2, FS_CardinalityType
<1>2. \A i, k \in S : i <= k => size(i) <= size(k)
  <2> SUFFICES ASSUME NEW i \in S, NEW k \in S, i <= k PROVE size(i) <= size(k)
    OBVIOUS
  <2>1. Upto(i) \in SUBSET Upto(k)
    <3>1. \A j \in S : j <= i => j <= k
      OBVIOUS
    <3> QED BY <3>1
  <2> HIDE DEF Upto
  <2> QED BY <1>1, <2>1, FS_Subset
<1>3. ASSUME NEW T \in SUBSET S, T # {}
      PROVE  (\E i \in T : \A j \in T : i <= j) /\ (\E i \in T : \A j \in T : j <= i)
  <2>1. IsFiniteSet(T)
    BY FS_Subset
  <2> DEFINE Le == {p \in S \X S : p[1] <= p[2]}
             Ge == {p \in S \X S : p[2] <= p[1]}
  <2>2. \A i, j \in T : (<<i, j>> \in Le <=> i <= j) /\ (<<i, j>> \in Ge <=> j <= i)
    OBVIOUS
  <2> HIDE DEF Le, Ge
  <2>3. \E i \in T : \A j \in T : <<i, j>> \in Le
    <3>1. \A i, j \in T : <<i, j>> \in Le \/ <<j, i>> \in Le
      <4>1. \A i, j \in T : i <= j \/ j <= i
        OBVIOUS
      <4> QED BY <2>2, <4>1
    <3>2. \A i, j, k \in T : i <= j /\ j <= k => i <= k
      OBVIOUS
    <3>3. \A i, j, k \in T : <<i, j>> \in Le /\ <<j, k>> \in Le => <<i, k>> \in Le
      BY <2>2, <3>2
    <3> QED BY <1>3, <2>1, <3>1, <3>3, LeastElement
  <2>4. \E i \in T : \A j \in T : <<i, j>> \in Ge
    <3>1. \A i, j \in T : <<i, j>> \in Ge \/ <<j, i>> \in Ge
      <4>1. \A i, j \in T : i <= j \/ j <= i
        OBVIOUS
      <4> QED BY <2>2, <4>1
    <3>2. \A i, j, k \in T : j <= i /\ k <= j => k <= i
      OBVIOUS
    <3>3. \A i, j, k \in T : <<i, j>> \in Ge /\ <<j, k>> \in Ge => <<i, k>> \in Ge
      BY <2>2, <3>2
    <3> QED BY <1>3, <2>1, <3>1, <3>3, LeastElement
  <2> QED BY <2>2, <2>3, <2>4
<1>4. Cardinality(S) \in Nat /\ n \in Nat /\ n <= Cardinality(S) /\ n >= 1
  BY FS_CardinalityType
<1>5. S \ Early # {}
  <2> SUFFICES ASSUME S \ Early = {} PROVE FALSE
    OBVIOUS
  <2>1. S # {}
    <3> SUFFICES ASSUME S = {} PROVE FALSE
      OBVIOUS
    <3>1. Cardinality(S) = 0
      BY FS_EmptySet
    <3> QED BY <1>4, <3>1
  <2>2. PICK g \in S : \A j \in S : j <= g
    BY <1>3, <2>1
  <2>3. Upto(g) = S /\ size(g) < n
    BY <2>2
  <2> QED BY <1>4, <2>3
<1>6. PICK k \in S \ Early : \A j \in S \ Early : k <= j
  <2>1. S \ Early \in SUBSET S
    OBVIOUS
  <2> HIDE DEF Early
  <2> QED BY <1>3, <1>5, <2>1
<1>7. \A j \in S : j \in Early <=> j < k
  <2> SUFFICES ASSUME NEW j \in S PROVE j \in Early <=> j < k
    OBVIOUS
  <2>1. j < k => j \in Early
    BY <1>6
  <2>2. k <= j => size(k) <= size(j)
    BY <1>2, <1>6
  <2>3. size(k) \in Nat /\ size(j) \in Nat /\ ~(size(k) < n)
    BY <1>1, <1>6
  <2>4. j \in Early => size(j) < n
    OBVIOUS
  <2> HIDE DEF Early, size
  <2> QED BY <1>4, <2>1, <2>2, <2>3, <2>4
<1>8. Upto(k) = Early \cup {k} /\ k \notin Early
  <2>1. Early \subseteq S /\ k \in S /\ k \notin Early
    BY <1>6
  <2>2. \A j \in S : j <= k <=> j < k \/ j = k
    BY <2>1
  <2> HIDE DEF Early
  <2> QED BY <1>7, <2>1, <2>2
<1>9. IsFiniteSet(Early) /\ Cardinality(Early) \in Nat
  <2>1. Early \in SUBSET S
    OBVIOUS
  <2> HIDE DEF Early
  <2> QED BY <2>1, FS_Subset, FS_CardinalityType
<1>10. size(k) = Cardinality(Early) + 1
  <2> HIDE DEF Early, Upto
  <2> QED BY <1>8, <1>9, FS_AddElement
<1>11. Cardinality(Early) < n
  <2>1. CASE Early = {}
    <3>1. Cardinality(Early) = 0
      BY <2>1, FS_EmptySet
    <3> QED BY <1>4, <3>1
  <2>2. CASE Early # {}
    <3>1. PICK a \in Early : \A j \in Early : j <= a
      <4>1. Early \in SUBSET S
        OBVIOUS
      <4> HIDE DEF Early
      <4> QED BY <1>3, <2>2, <4>1
    <3>2. Upto(a) = Early
      <4>1. Early \subseteq S /\ k \in S
        BY <1>6
      <4> HIDE DEF Early
      <4>2. \A j \in S : j <= a => j < k
        BY <1>7, <3>1, <4>1
      <4> QED BY <1>7, <3>1, <4>1, <4>2
    <3>3. size(a) < n
      BY <3>1
    <3> QED BY <3>2, <3>3
  <2> QED BY <2>1, <2>2
<1>12. size(k) \in Nat /\ ~(size(k) < n)
  BY <1>1, <1>6
<1>13. size(k) = n
  <2> HIDE DEF Early, size
  <2> QED BY <1>4, <1>9, <1>10, <1>11, <1>12
<1> QED BY <1>6, <1>13

\* An integer beyond a finite set takes the next position and changes no other.
LEMMA RankGrows ==
    ASSUME NEW S \in SUBSET Int, IsFiniteSet(S), NEW b \in Int, \A j \in S : j < b
    PROVE  /\ IsFiniteSet(S \cup {b}) /\ Cardinality(S) \in Nat
           /\ Cardinality(S \cup {b}) = Cardinality(S) + 1
           /\ \A i \in S : /\ {j \in S \cup {b} : j <= i} = {j \in S : j <= i}
                           /\ Cardinality({j \in S : j <= i}) <= Cardinality(S)
           /\ {j \in S \cup {b} : j <= b} = S \cup {b}
<1>1. b \notin S
  OBVIOUS
<1>2. \A i \in S : {j \in S \cup {b} : j <= i} = {j \in S : j <= i}
  OBVIOUS
<1>3. {j \in S \cup {b} : j <= b} = S \cup {b}
  <2>1. \A j \in S \cup {b} : j <= b
    OBVIOUS
  <2> QED BY <2>1
<1>4. ASSUME NEW i \in S PROVE Cardinality({j \in S : j <= i}) <= Cardinality(S)
  <2>1. {j \in S : j <= i} \in SUBSET S
    OBVIOUS
  <2> QED BY <2>1, FS_Subset
<1> QED BY <1>1, <1>2, <1>3, <1>4, FS_AddElement, FS_CardinalityType

===============================================================================
