------------------------------ MODULE Lists_proofs ------------------------------
(***************************************************************************)
(* What InOrder and Pick return, for every list; and what proofs about     *)
(* lists and counters need besides: a least element, induction for sets,   *)
(* and powers of two by counting subsets.                                  *)
(***************************************************************************)
EXTENDS Lists, FiniteSetTheorems, WellFoundedInduction, TLAPS

\* A set of natural numbers that is not empty has a least one.
LEMMA LeastNatural ==
    ASSUME NEW S \in SUBSET Nat, S # {}
    PROVE  \E m \in S : \A k \in S : m <= k
<1> DEFINE R == OpToRel(<, Nat)
<1>1. IsWellFoundedOn(R, Nat)
  BY NatLessThanWellFounded
<1>2. \A k, m \in Nat : k < m => <<k, m>> \in R
  BY DEF OpToRel
<1> HIDE DEF R
<1>3. PICK m \in S : \A k \in S : ~(<<k, m>> \in R)
  BY <1>1, WFMin
<1>4. \A k \in S : ~(k < m)
  BY <1>2, <1>3
<1> QED BY <1>3, <1>4

\* Induction, for a set of numbers instead of a predicate.
LEMMA SetInduction ==
    ASSUME NEW S, 0 \in S, \A n \in Nat : n \in S => n + 1 \in S
    PROVE  Nat \subseteq S
<1> DEFINE T == {n \in Nat : n \notin S}
<1> SUFFICES ASSUME T # {} PROVE FALSE
  OBVIOUS
<1>1. PICK m \in T : \A k \in T : m <= k
  BY LeastNatural
<1>2. m # 0 /\ m \in Nat
  OBVIOUS
<1>3. m - 1 \in Nat /\ m - 1 \notin T
  BY <1>1, <1>2
<1> QED BY <1>1, <1>2, <1>3

\* InOrder lists every number of the set once, the smaller before the larger.
LEMMA InOrderEnumerates ==
    ASSUME NEW n \in Nat, NEW K \in SUBSET (1..n)
    PROVE  /\ IsFiniteSet(K) /\ Cardinality(K) \in Nat
           /\ InOrder(K) \in [1..Cardinality(K) -> K]
           /\ \A k \in K : \E r \in 1..Cardinality(K) : InOrder(K)[r] = k
           /\ \A q, r \in 1..Cardinality(K) :
                 q < r => InOrder(K)[q] < InOrder(K)[r]
<1> DEFINE Upto(k) == {j \in K : j <= k}
           rank == [k \in K |-> Cardinality(Upto(k))]
           m == Cardinality(K)
<1>1. IsFiniteSet(K) /\ m \in Nat
  <2>1. IsFiniteSet(1..n)
    BY FS_Interval
  <2> QED BY <2>1, FS_Subset, FS_CardinalityType
<1>0. K \subseteq Int
  OBVIOUS
<1>2. \A k \in K : IsFiniteSet(Upto(k)) /\ Cardinality(Upto(k)) \in 1..m
  <2> TAKE k \in K
  <2>1. IsFiniteSet(Upto(k)) /\ Cardinality(Upto(k)) <= m
    BY <1>1, FS_Subset
  <2>2. k \in Upto(k)
    OBVIOUS
  <2>3. Cardinality(Upto(k)) # 0 /\ Cardinality(Upto(k)) \in Nat
    BY <2>1, <2>2, FS_EmptySet, FS_CardinalityType
  <2> QED BY <2>1, <2>3, <1>1
<1>3. \A j, k \in K : j < k => Cardinality(Upto(j)) < Cardinality(Upto(k))
  <2> SUFFICES ASSUME NEW j \in K, NEW k \in K, j < k
               PROVE  Cardinality(Upto(j)) < Cardinality(Upto(k))
    OBVIOUS
  <2>1. Upto(j) \subseteq Upto(k) /\ k \in Upto(k) /\ k \notin Upto(j)
    <3>1. j \in Int /\ k \in Int
      OBVIOUS
    <3>2. ASSUME NEW i \in Upto(j) PROVE i \in Upto(k)
      BY <3>1, <1>0
    <3>3. k <= k /\ ~(k <= j)
      BY <3>1
    <3> QED BY <3>2, <3>3
  <2>2. /\ Cardinality(Upto(j)) <= Cardinality(Upto(k))
        /\ Cardinality(Upto(j)) # Cardinality(Upto(k))
    <3> HIDE DEF Upto
    <3> QED BY <1>2, <2>1, FS_Subset
  <2> QED BY <1>2, <2>2
<1>4. rank \in [K -> 1..m] /\ \A j, k \in K : rank[j] = rank[k] => j = k
  <2>1. \A j, k \in K : j < k \/ j = k \/ k < j
    OBVIOUS
  <2> HIDE DEF Upto
  <2> QED BY <1>2, <1>3, <2>1
<1>5. \A r \in 1..m : \E k \in K : rank[k] = r
  <2> HIDE DEF rank
  <2>1. rank \in Injection(K, 1..m)
    BY <1>4 DEF Injection, IsInjective
  <2>2. IsFiniteSet(1..m) /\ Cardinality(1..m) = m
    BY <1>1, FS_Interval
  <2>3. rank \in Surjection(K, 1..m)
    BY <2>1, <2>2, FS_Injection
  <2> QED BY <2>3 DEF Surjection
<1>6. \A r \in 1..m : InOrder(K)[r] \in K /\ Cardinality(Upto(InOrder(K)[r])) = r
  <2> TAKE r \in 1..m
  <2>1. \E k \in K : Cardinality(Upto(k)) = r
    BY <1>5
  <2>2. InOrder(K)[r] = CHOOSE k \in K : Cardinality(Upto(k)) = r
    BY DEF InOrder
  <2> HIDE DEF Upto
  <2> QED BY <2>1, <2>2
<1>7. InOrder(K) \in [1..m -> K]
  BY <1>6 DEF InOrder
<1>8. ASSUME NEW k \in K PROVE \E r \in 1..m : InOrder(K)[r] = k
  <2> DEFINE r == Cardinality(Upto(k))
  <2>1. r \in 1..m /\ InOrder(K)[r] \in K /\ rank[InOrder(K)[r]] = rank[k]
    BY <1>2, <1>6
  <2> HIDE DEF rank, r
  <2> QED BY <2>1, <1>4
<1>9. ASSUME NEW q \in 1..m, NEW r \in 1..m, q < r
      PROVE  InOrder(K)[q] < InOrder(K)[r]
  <2> DEFINE a == InOrder(K)[q]
             b == InOrder(K)[r]
  <2>1. a \in K /\ b \in K /\ Cardinality(Upto(a)) = q /\ Cardinality(Upto(b)) = r
    BY <1>6
  <2> HIDE DEF a, b, Upto
  <2>2. ~(b < a) /\ a # b
    BY <2>1, <1>3, <1>9
  <2>3. a < b
    BY <2>1, <2>2
  <2> QED BY <2>3 DEF a, b
<1> QED BY <1>1, <1>7, <1>8, <1>9

\* Pick keeps the elements at the positions in K, in their order.
LEMMA PickKeeps ==
    ASSUME NEW V, NEW s \in Seq(V), NEW K \in SUBSET (1..Len(s))
    PROVE  /\ Pick(s, K) \in Seq(V)
           /\ Len(Pick(s, K)) = Cardinality(K)
           /\ IsFiniteSet(K) /\ Cardinality(K) \in Nat
           /\ \E at \in [1..Cardinality(K) -> K] :
                 /\ \A k \in K : \E r \in 1..Cardinality(K) : at[r] = k
                 /\ \A q, r \in 1..Cardinality(K) : q < r => at[q] < at[r]
                 /\ \A r \in 1..Cardinality(K) : Pick(s, K)[r] = s[at[r]]
<1> DEFINE at == InOrder(K)
           m == Cardinality(K)
<1>1. Len(s) \in Nat
  OBVIOUS
<1>2. /\ IsFiniteSet(K) /\ m \in Nat
      /\ at \in [1..m -> K]
      /\ \A k \in K : \E r \in 1..m : at[r] = k
      /\ \A q, r \in 1..m : q < r => at[q] < at[r]
  BY <1>1, InOrderEnumerates
<1>3. Len(at) = m
  BY <1>2
<1>4. Pick(s, K) = [r \in 1..m |-> s[at[r]]]
  BY <1>3 DEF Pick
<1> HIDE DEF at
<1>5. \A r \in 1..m : s[at[r]] \in V
  <2>1. \A k \in 1..Len(s) : s[k] \in V
    OBVIOUS
  <2> QED BY <1>2, <2>1
<1>6. Pick(s, K) \in Seq(V) /\ Len(Pick(s, K)) = m
  BY <1>2, <1>4, <1>5
<1> QED BY <1>2, <1>4, <1>6

\* The same without the order: what is kept is what was at one of K.
LEMMA PickElements ==
    ASSUME NEW V, NEW s \in Seq(V), NEW K \in SUBSET (1..Len(s))
    PROVE  /\ Pick(s, K) \in Seq(V)
           /\ Pick(s, K) = <<>> <=> K = {}
           /\ \A r \in 1..Len(Pick(s, K)) : \E k \in K : Pick(s, K)[r] = s[k]
           /\ \A k \in K : \E r \in 1..Len(Pick(s, K)) : Pick(s, K)[r] = s[k]
<1> DEFINE p == Pick(s, K)
           m == Cardinality(K)
<1>1. /\ p \in Seq(V) /\ Len(p) = m /\ IsFiniteSet(K) /\ m \in Nat
      /\ \E at \in [1..m -> K] :
            /\ \A k \in K : \E r \in 1..m : at[r] = k
            /\ \A r \in 1..m : p[r] = s[at[r]]
  BY PickKeeps, SMTT(30)
<1>2. m = 0 <=> K = {}
  BY <1>1, FS_EmptySet
<1> HIDE DEF p, m
<1>3. p = <<>> <=> K = {}
  BY <1>1, <1>2
<1>4. PICK at \in [1..m -> K] :
            /\ \A k \in K : \E r \in 1..m : at[r] = k
            /\ \A r \in 1..m : p[r] = s[at[r]]
  BY <1>1
<1>5. ASSUME NEW r \in 1..Len(p) PROVE \E k \in K : p[r] = s[k]
  <2>1. r \in 1..m
    BY <1>1
  <2>2. at[r] \in K /\ p[r] = s[at[r]]
    BY <1>4, <2>1
  <2> QED  BY <2>2
<1>6. ASSUME NEW k \in K PROVE \E r \in 1..Len(p) : p[r] = s[k]
  <2>1. PICK r \in 1..m : at[r] = k
    BY <1>4
  <2>2. p[r] = s[k]
    BY <1>4, <2>1
  <2> QED  BY <1>1, <2>2
<1> QED  BY <1>1, <1>3, <1>5, <1>6 DEF p

\* Powers of two double: they count subsets, and one more element doubles them.
LEMMA PowerOfTwo ==
    /\ 2^0 = 1
    /\ \A n \in Nat : 2^n \in Nat /\ 2^(n + 1) = 2 * 2^n
<1> DEFINE Sub(n) == SUBSET (1..n)
<1>1. \A n \in Nat : IsFiniteSet(Sub(n)) /\ Cardinality(Sub(n)) = 2^n /\ 2^n \in Nat
  <2> TAKE n \in Nat
  <2>1. IsFiniteSet(1..n) /\ Cardinality(1..n) = n
    BY FS_Interval
  <2>2. IsFiniteSet(SUBSET (1..n)) /\ Cardinality(SUBSET (1..n)) = 2^Cardinality(1..n)
    BY <2>1, FS_SUBSET
  <2>3. Cardinality(SUBSET (1..n)) \in Nat
    BY <2>2, FS_CardinalityType
  <2> QED BY <2>1, <2>2, <2>3
<1>2. 2^0 = 1
  <2>1. 1..0 = {}
    OBVIOUS
  <2>2. Sub(0) = {{}}
    BY <2>1
  <2> QED BY <1>1, <2>2, FS_Singleton
<1>3. ASSUME NEW n \in Nat PROVE 2^(n + 1) = 2 * 2^n
  <2> DEFINE With == {T \in Sub(n + 1) : n + 1 \in T}
             add == [T \in Sub(n) |-> T \cup {n + 1}]
  <2>0. 1..n + 1 = (1..n) \cup {n + 1} /\ n + 1 \notin 1..n
    OBVIOUS
  <2>1. Sub(n + 1) = Sub(n) \cup With /\ Sub(n) \cap With = {}
    BY <2>0
  <2>2. add \in Bijection(Sub(n), With)
    <3>1. add \in [Sub(n) -> With]
      BY <2>0
    <3>2. \A T, U \in Sub(n) : add[T] = add[U] => T = U
      BY <2>0
    <3>3. \A T \in With : \E U \in Sub(n) : add[U] = T
      <4> TAKE T \in With
      <4>1. T \ {n + 1} \in Sub(n) /\ add[T \ {n + 1}] = T
        BY <2>0
      <4> QED BY <4>1
    <3> QED BY <3>1, <3>2, <3>3 DEF Bijection, Injection, IsInjective, Surjection
  <2>3. IsFiniteSet(With) /\ Cardinality(With) = 2^n
    <3>1. ExistsBijection(Sub(n), With)
      BY <2>2 DEF ExistsBijection
    <3> HIDE DEF Sub, With
    <3> QED BY <1>1, <3>1, FS_Bijection
  <2> HIDE DEF Sub, With
  <2>4. Cardinality(Sub(n + 1)) = 2^n + 2^n
    <3>1. Cardinality(Sub(n) \cup With) = Cardinality(Sub(n)) + Cardinality(With) - Cardinality(Sub(n) \cap With)
      BY <1>1, <2>3, FS_Union
    <3>2. Cardinality(Sub(n) \cap With) = 0
      BY <2>1, FS_EmptySet
    <3>3. Cardinality(Sub(n + 1)) = 2^n + 2^n - 0
      BY <1>1, <2>1, <2>3, <3>1, <3>2
    <3> QED BY <1>1, <3>3
  <2> QED BY <1>1, <2>4
<1> QED BY <1>1, <1>2, <1>3

=============================================================================
