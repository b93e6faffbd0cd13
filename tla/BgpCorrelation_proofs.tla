------------------------ MODULE BgpCorrelation_proofs ------------------------
(***************************************************************************)
(* correlate_divergence for every trace and every answer of the registry.  *)
(*                                                                         *)
(* The boundary flags look at prev_asn, the path at its own last element.  *)
(* The invariant says that the two are the same AS at all times, and that  *)
(* a boundary's hop found in prev_asn what the path has before its own AS. *)
(***************************************************************************)
EXTENDS BgpCorrelation, FiniteSetTheorems, SequenceTheorems, WellFoundedInduction, TLAPS

\* How many boundaries there are up to hop n.
Position(n) == Cardinality(Boundaries(n))

\* The AS after k boundaries.
AsAfter(k) == IF k = 0 THEN None ELSE as_path[k]

\* The flags of one hop, each by itself.
HopInv(h) ==
    /\ h.is_as_boundary <=> h.asn # None /\ h.asn # h.prev_asn
    /\ h.cause = IF h.has_divergence
                 THEN classify_divergence_cause(h.is_as_boundary, h.prev_asn, h.asn)
                 ELSE NoCause

\* Hop i against the path and the cache.
PathInv(i) ==
    /\ Position(i) \in 0..Len(as_path)
    /\ hops[i].asn # None => Position(i) # 0 /\ as_path[Position(i)] = hops[i].asn
    /\ hops[i].is_as_boundary => hops[i].prev_asn = AsAfter(Position(i) - 1)
    /\ hops[i].asn # None =>
           hops[i].addr \in DOMAIN cache /\ cache[hops[i].addr] = hops[i].asn

IInv ==
    /\ TypeOK
    /\ Len(as_path) = Position(Len(hops))
    /\ prev_asn = AsAfter(Len(as_path))
    /\ \A i \in DOMAIN hops : HopInv(hops[i]) /\ PathInv(i)
    /\ SameAddressSameAs

----------------------------------------------------------------------------
(* Counting boundaries.                                                     *)

\* The boundaries up to a hop can be counted.
LEMMA BoundariesAreFinite ==
    ASSUME NEW n \in Nat
    PROVE  /\ IsFiniteSet(Boundaries(n)) /\ IsFiniteSet(Boundaries(n))'
           /\ Position(n) \in Nat /\ Position(n)' \in Nat
<1>1. IsFiniteSet(1..n)
  BY FS_Interval
<1>2. Boundaries(n) \in SUBSET (1..n) /\ Boundaries(n)' \in SUBSET (1..n)
  BY DEF Boundaries
<1>3. IsFiniteSet(Boundaries(n)) /\ IsFiniteSet(Boundaries(n)')
  BY <1>1, <1>2, FS_Subset
<1> QED  BY <1>3, FS_CardinalityType DEF Position

\* A hop more leaves the positions of the others, and its own is one further if
\* it is a boundary.
LEMMA BoundariesGrow ==
    ASSUME NEW n \in Nat, NEW h \in Hop, hops \in Seq(Hop), n = Len(hops),
           hops' = Append(hops, h)
    PROVE  /\ \A i \in 0..n : Position(i)' = Position(i)
           /\ Position(n + 1)' = Position(n) + (IF h.is_as_boundary THEN 1 ELSE 0)
<1>1. /\ \A j \in 1..n : hops'[j] = hops[j]
      /\ hops'[n + 1] = h
      /\ 1..(n + 1) = (1..n) \cup {n + 1}
  BY AppendProperties, LenProperties
<1>2. ASSUME NEW i \in 0..n
      PROVE  Boundaries(i)' = Boundaries(i)
  BY <1>1 DEF Boundaries
<1>3. CASE h.is_as_boundary
  <2>1. Boundaries(n + 1)' = Boundaries(n) \cup {n + 1}
    BY <1>1, <1>3 DEF Boundaries
  <2>2. n + 1 \notin Boundaries(n)
    BY DEF Boundaries
  <2>3. IsFiniteSet(Boundaries(n))
    BY BoundariesAreFinite
  <2>4. Cardinality(Boundaries(n) \cup {n + 1}) = Cardinality(Boundaries(n)) + 1
    BY <2>2, <2>3, FS_AddElement
  <2> QED  BY <1>2, <1>3, <2>1, <2>4 DEF Position
<1>4. CASE ~h.is_as_boundary
  <2>1. Boundaries(n + 1)' = Boundaries(n)
    BY <1>1, <1>4 DEF Boundaries
  <2>2. Position(n) \in Nat
    BY BoundariesAreFinite
  <2> QED  BY <1>2, <1>4, <2>1, <2>2 DEF Position
<1> QED  BY <1>3, <1>4

----------------------------------------------------------------------------
(* The invariant.                                                           *)

\* The invariant holds before the first hop.
LEMMA InitInv ==
    ASSUME Init
    PROVE  IInv
<1>1. hops = <<>> /\ as_path = <<>> /\ prev_asn = None /\ DOMAIN cache = {}
  BY DEF Init
<1>2. trace \in Seq(TracedHops)
  <2>1. PICK n \in 0..MaxHops : trace \in [1..n -> TracedHops]
    BY DEF Init
  <2>2. n \in Nat
    BY MaxHopsAssumption
  <2> QED  BY <2>1, <2>2, IsASeq
<1>3. Boundaries(0) = {}
  BY DEF Boundaries
<1>4. Position(0) = 0
  BY <1>3, FS_EmptySet DEF Position
<1>5. Len(trace) \in Nat
  BY <1>2, LenProperties
<1>6. TypeOK
  BY <1>1, <1>2, <1>5 DEF TypeOK
<1>7. SameAddressSameAs
  BY <1>1 DEF SameAddressSameAs
<1> QED  BY <1>1, <1>4, <1>6, <1>7 DEF IInv, AsAfter

\* What lookup may return for the address of a hop.
LEMMA LookupIs ==
    ASSUME TypeOK, NEW addr, NEW asn \in Lookup(addr)
    PROVE  /\ asn \in Asns \cup {None}
           /\ asn # None => addr # None /\ addr \notin Private
           /\ addr \in DOMAIN cache => asn = cache[addr]
  BY AddrsAssumption DEF Lookup, TypeOK, Addrs

\* The step of one hop keeps the invariant.
LEMMA HopKeepsInv ==
    ASSUME IInv, Len(hops) < Len(trace),
           NEW addr \in FirstAddr(trace[Len(hops) + 1]),
           NEW asn \in Lookup(addr), CorrelateHop(addr, asn)
    PROVE  IInv'
<1> DEFINE hop == trace[Len(hops) + 1]
           b == IsBoundary(asn)
           cause == IF hop.has_divergence
                    THEN classify_divergence_cause(b, prev_asn, asn)
                    ELSE NoCause
           e == [addr |-> addr, asn |-> asn, has_divergence |-> hop.has_divergence,
                 is_as_boundary |-> b, prev_asn |-> prev_asn, cause |-> cause]
<1>0. PICK n \in Nat, m \in Nat, k \in Nat :
          /\ n = Len(hops)
          /\ m = Len(as_path)
          /\ k = m + (IF b THEN 1 ELSE 0)
  <2>1. Len(hops) \in Nat /\ Len(as_path) \in Nat
    BY LenProperties DEF IInv, TypeOK
  <2> QED  BY <2>1
<1>1. /\ TypeOK /\ n = Len(hops) /\ Len(trace) \in Nat /\ Len(as_path) \in Nat
      /\ hops \in Seq(Hop) /\ as_path \in Seq(Asns)
      /\ DOMAIN hops = 1..n
  BY <1>0, LenProperties DEF IInv, TypeOK
<1>2. hop \in TracedHops
  BY <1>0, <1>1, ElementOfSeq DEF TypeOK
<1>3. hop.has_divergence \in BOOLEAN /\ addr \in Addrs \cup {None}
  BY <1>2 DEF TracedHops, FirstAddr
<1>4. /\ asn \in Asns \cup {None}
      /\ asn # None => addr # None /\ addr \in Public
      /\ addr \in DOMAIN cache => asn = cache[addr]
  BY <1>1, <1>3, LookupIs DEF Addrs
<1>5. prev_asn \in Asns \cup {None}
  BY <1>1 DEF TypeOK
<1>6. /\ hops' = Append(hops, e)
      /\ cache' = Remember(addr, asn)
      /\ as_path' = PathWith(asn)
      /\ prev_asn' = NextPrevAsn(asn)
      /\ trace' = trace
  BY DEF CorrelateHop
<1>7. b \in BOOLEAN /\ (b <=> asn # None /\ asn # prev_asn)
  BY DEF IsBoundary
<1>8. e \in Hop
  <2>1. cause \in [kind : {"none", "unknown", "cloud", "transit", "policy", "intra"},
                   from : Asns \cup {None}, to : Asns \cup {None}]
    BY <1>3, <1>4, <1>5, <1>7
       DEF classify_divergence_cause, NoCause, Unknown, Cause, Asns
  <2> QED  BY <1>3, <1>4, <1>5, <1>7, <2>1 DEF Hop
<1>9. e.addr = addr /\ e.asn = asn /\ e.is_as_boundary = b /\ e.prev_asn = prev_asn
      /\ e.has_divergence = hop.has_divergence /\ e.cause = cause
  OBVIOUS
<1>10. HopInv(e)
  BY <1>7, <1>9 DEF HopInv
<1> HIDE DEF e, cause, b, hop
<1>11. /\ hops' \in Seq(Hop) /\ Len(hops') = n + 1 /\ DOMAIN hops' = 1..(n + 1)
       /\ \A i \in 1..n : hops'[i] = hops[i]
       /\ hops'[n + 1] = e
  BY <1>1, <1>6, <1>8, AppendProperties, LenProperties
<1>12. /\ \A i \in 0..n : Position(i)' = Position(i)
       /\ Position(n + 1)' = Position(n) + (IF b THEN 1 ELSE 0)
  BY <1>0, <1>1, <1>6, <1>8, <1>9, BoundariesGrow
<1>13. /\ Position(n) = m
       /\ prev_asn = IF m = 0 THEN None ELSE as_path[m]
  BY <1>0 DEF IInv, AsAfter
\* The path grows at a boundary and nowhere else.
<1>14. /\ as_path' \in Seq(Asns)
       /\ Len(as_path') = k
       /\ \A j \in 1..m : as_path'[j] = as_path[j]
       /\ b => as_path'[m + 1] = asn
  <2>1. as_path = <<>> <=> m = 0
    BY <1>0, <1>1, EmptySeq
  <2>2. CASE b
    <3>1. as_path' = Append(as_path, asn) /\ asn \in Asns
      BY <1>0, <1>4, <1>6, <1>7, <1>13, <2>1, <2>2 DEF PathWith
    <3> QED  BY <1>0, <1>1, <2>2, <3>1, AppendProperties
  <2>3. CASE ~b
    <3>1. as_path' = as_path
      BY <1>0, <1>4, <1>6, <1>7, <1>13, <2>1, <2>3, AsnsAssumption DEF PathWith, None
    <3> QED  BY <1>0, <1>1, <2>3, <3>1
  <2> QED  BY <1>7, <2>2, <2>3
<1>15. Position(n + 1)' = k /\ Len(as_path') = k /\ Len(hops') = n + 1
  BY <1>0, <1>11, <1>12, <1>13, <1>14
<1>16. prev_asn' = IF k = 0 THEN None ELSE as_path'[k]
  BY <1>0, <1>4, <1>5, <1>6, <1>7, <1>13, <1>14 DEF NextPrevAsn
<1>17. /\ asn # None => addr \in DOMAIN cache' /\ cache'[addr] = asn
       /\ \A a \in DOMAIN cache : a \in DOMAIN cache' /\ cache'[a] = cache[a]
  BY <1>4, <1>6 DEF Remember
<1>18. TypeOK'
  <2>1. DOMAIN cache' \subseteq Public /\ \A a \in DOMAIN cache' : cache'[a] \in Asns
    BY <1>1, <1>4, <1>6 DEF TypeOK, Remember
  <2>2. prev_asn' \in Asns \cup {None}
    BY <1>4, <1>5, <1>6 DEF NextPrevAsn
  <2>3. Len(hops') <= Len(trace')
    BY <1>0, <1>1, <1>6, <1>11
  <2>4. trace' \in Seq(TracedHops)
    BY <1>1, <1>6 DEF TypeOK
  <2> QED  BY <1>11, <1>14, <2>1, <2>2, <2>3, <2>4 DEF TypeOK
<1>19. ASSUME NEW i \in 1..n
       PROVE  HopInv(hops'[i]) /\ PathInv(i)'
  <2>1. HopInv(hops[i]) /\ PathInv(i) /\ hops'[i] = hops[i] /\ Position(i)' = Position(i)
    BY <1>1, <1>11, <1>12, <1>19 DEF IInv
  <2> PICK q \in 0..m : q = Position(i)
    BY <1>0, <2>1 DEF PathInv
  <2>2. Position(i)' \in 0..Len(as_path')
    BY <1>0, <1>15, <2>1
  <2>3. hops[i].asn # None => q # 0 /\ as_path'[q] = hops[i].asn
    BY <1>14, <2>1 DEF PathInv
  <2>4. hops[i].is_as_boundary => hops[i].asn # None
    BY <2>1 DEF HopInv
  <2>5. hops[i].is_as_boundary => hops[i].prev_asn = AsAfter(q - 1)'
    <3>1. hops[i].is_as_boundary => hops[i].prev_asn = AsAfter(q - 1)
      BY <2>1 DEF PathInv
    <3> QED  BY <1>14, <2>3, <2>4, <3>1 DEF AsAfter
  <2>6. hops[i].asn # None =>
            hops[i].addr \in DOMAIN cache' /\ cache'[hops[i].addr] = hops[i].asn
    BY <1>17, <2>1 DEF PathInv
  <2>7. hops[i].is_as_boundary => hops[i].prev_asn = AsAfter(Position(i) - 1)'
    BY <2>1, <2>5 DEF AsAfter
  <2>8. PathInv(i)'
    BY <2>1, <2>2, <2>3, <2>6, <2>7 DEF PathInv
  <2> QED  BY <2>1, <2>8
<1>20. HopInv(hops'[n + 1]) /\ PathInv(n + 1)'
  <2>1. HopInv(hops'[n + 1])
    BY <1>10, <1>11
  <2>2. asn # None => k # 0 /\ as_path'[k] = asn
    BY <1>0, <1>7, <1>13, <1>14
  <2>3. b => prev_asn = AsAfter(Position(n + 1) - 1)'
    BY <1>0, <1>13, <1>14, <1>15 DEF AsAfter
  <2>4. PathInv(n + 1)'
    BY <1>9, <1>11, <1>15, <1>17, <2>2, <2>3 DEF PathInv
  <2> QED  BY <2>1, <2>4
<1>21. \A i \in DOMAIN hops' : HopInv(hops'[i]) /\ PathInv(i)'
  <2>1. \A i \in 1..(n + 1) : i \in 1..n \/ i = n + 1
    OBVIOUS
  <2> QED  BY <1>11, <1>19, <1>20, <2>1
<1>22. SameAddressSameAs'
  <2> SUFFICES ASSUME NEW i \in 1..(n + 1), NEW j \in 1..(n + 1), i < j,
                      hops'[i].addr = hops'[j].addr, hops'[i].asn # None
               PROVE  hops'[j].asn = hops'[i].asn
    BY <1>11 DEF SameAddressSameAs
  <2>1. i \in 1..n /\ hops'[i] = hops[i]
    BY <1>1, <1>11
  <2>2. CASE j = n + 1
    <3>1. addr \in DOMAIN cache /\ cache[addr] = hops[i].asn
      BY <1>1, <1>9, <1>11, <2>1, <2>2 DEF IInv, PathInv
    <3> QED  BY <1>4, <1>9, <1>11, <2>1, <2>2, <3>1
  <2>3. CASE j \in 1..n
    BY <1>1, <1>11, <2>1, <2>3 DEF IInv, SameAddressSameAs
  <2> QED  BY <1>1, <2>2, <2>3
<1>23. prev_asn' = AsAfter(Len(as_path))'
  BY <1>15, <1>16 DEF AsAfter
<1>24. Len(as_path)' = Position(Len(hops))'
  BY <1>15 DEF Position, Boundaries
<1> QED  BY <1>18, <1>21, <1>22, <1>23, <1>24 DEF IInv

\* The invariant holds while nothing changes.
LEMMA StutterKeepsInv ==
    ASSUME IInv, UNCHANGED vars
    PROVE  IInv'
<1>1. hops' = hops /\ as_path' = as_path /\ prev_asn' = prev_asn /\ cache' = cache
      /\ trace' = trace
  BY DEF vars
<1>2. TypeOK' /\ SameAddressSameAs'
  BY <1>1 DEF IInv, TypeOK, SameAddressSameAs
<1>3. \A i : Position(i)' = Position(i) /\ AsAfter(i)' = AsAfter(i)
  BY <1>1 DEF Position, Boundaries, AsAfter
<1>4. \A i : PathInv(i)' <=> PathInv(i)
  BY <1>1, <1>3 DEF PathInv, Position, Boundaries, AsAfter
<1>5. Len(as_path)' = Position(Len(hops))' /\ prev_asn' = AsAfter(Len(as_path))'
  BY <1>1 DEF IInv, Position, Boundaries, AsAfter
<1> QED  BY <1>1, <1>2, <1>4, <1>5 DEF IInv

\* The invariant holds in every reachable state.
THEOREM Inductive == Spec => []IInv
<1>1. IInv /\ [Next]_vars => IInv'
  BY HopKeepsInv, StutterKeepsInv DEF Next
<1> QED  BY <1>1, InitInv, PTL DEF Spec

----------------------------------------------------------------------------
(* What follows from it.                                                    *)

\* Hops, path and cache keep their types: AS numbers are the registry's, and
\* only public addresses are cached.
THEOREM TypeCorrect == Spec => []TypeOK
<1>1. IInv => TypeOK
  BY DEF IInv
<1> QED  BY <1>1, Inductive, PTL

\* The boundary flags and as_path say the same, for every trace and however
\* many hops are unknown: a known hop is in the AS at its position.
THEOREM BoundariesAreThePath == Spec => []BoundariesMakeThePath
<1>1. IInv => BoundariesMakeThePath
  <2> SUFFICES ASSUME IInv PROVE BoundariesMakeThePath
    OBVIOUS
  <2>1. as_path \in Seq(Asns) /\ Len(as_path) \in Nat /\ DOMAIN as_path = 1..Len(as_path)
    BY LenProperties DEF IInv, TypeOK
  <2>2. \A i \in DOMAIN hops : hops[i].asn # None =>
            Position(i) \in DOMAIN as_path /\ as_path[Position(i)] = hops[i].asn
    BY <2>1 DEF IInv, PathInv
  <2>3. Len(as_path) = Position(Len(hops)) /\ Len(hops) \in Nat
    BY LenProperties DEF IInv, TypeOK
  <2>4. Boundaries(Len(hops)) # {} => Position(Len(hops)) # 0
    BY <2>3, BoundariesAreFinite, FS_EmptySet DEF Position
  <2>5. Boundaries(Len(hops)) # {} => as_transitions + 1 = Position(Len(hops))
    BY <2>1, <2>3, <2>4 DEF as_transitions
  <2> QED  BY <2>2, <2>3, <2>5 DEF Position, BoundariesMakeThePath
<1> QED  BY <1>1, Inductive, PTL

\* Hops with the same address are in the same AS from the first one that is
\* known on, whatever the registry answers later.
THEOREM AddressKeepsAs == Spec => []SameAddressSameAs
<1>1. IInv => SameAddressSameAs
  BY DEF IInv
<1> QED  BY <1>1, Inductive, PTL

\* The divergent hops of each kind can be counted.
LEMMA CountedSetsAreFinite ==
    ASSUME IInv
    PROVE  /\ IsFiniteSet(Divergent)
           /\ IsFiniteSet({i \in Divergent : hops[i].is_as_boundary /\ hops[i].asn # None})
           /\ IsFiniteSet({i \in Divergent : ~hops[i].is_as_boundary /\ hops[i].asn # None})
           /\ IsFiniteSet({i \in Divergent : hops[i].asn = None})
<1>1. IsFiniteSet(Divergent)
  <2>1. DOMAIN hops = 1..Len(hops) /\ Len(hops) \in Nat
    BY LenProperties DEF IInv, TypeOK
  <2>2. IsFiniteSet(1..Len(hops)) /\ Divergent \in SUBSET (1..Len(hops))
    BY <2>1, FS_Interval DEF Divergent
  <2> QED  BY <2>2, FS_Subset
<1>2. \A T \in SUBSET Divergent : IsFiniteSet(T)
  BY <1>1, FS_Subset
<1> QED  BY <1>1, <1>2

\* Every divergent hop is counted in exactly one of the three.
LEMMA DivergentIsCounted ==
    ASSUME IInv
    PROVE  /\ at_boundary \in Nat /\ intra_as \in Nat /\ unknown \in Nat
           /\ total_divergent = at_boundary + intra_as + unknown
<1> DEFINE B == {i \in Divergent : hops[i].is_as_boundary /\ hops[i].asn # None}
           W == {i \in Divergent : ~hops[i].is_as_boundary /\ hops[i].asn # None}
           U == {i \in Divergent : hops[i].asn = None}
<1>3. IsFiniteSet(B) /\ IsFiniteSet(W) /\ IsFiniteSet(U)
  BY CountedSetsAreFinite
<1>4. /\ Divergent = (B \cup W) \cup U
      /\ B \cap W = {}
      /\ (B \cup W) \cap U = {}
  OBVIOUS
<1>5. Cardinality(B) \in Nat /\ Cardinality(W) \in Nat /\ Cardinality(U) \in Nat
  BY <1>3, FS_CardinalityType
<1> HIDE DEF B, W, U
<1>6. IsFiniteSet(B \cup W) /\ Cardinality(B \cup W) = Cardinality(B) + Cardinality(W)
  BY <1>3, <1>4, <1>5, FS_Union, FS_EmptySet
<1>7. Cardinality((B \cup W) \cup U) = Cardinality(B \cup W) + Cardinality(U)
  <2>1. Cardinality((B \cup W) \cap U) = 0
    BY <1>4, FS_EmptySet
  <2>2. Cardinality((B \cup W) \cup U)
          = Cardinality(B \cup W) + Cardinality(U) - Cardinality((B \cup W) \cap U)
    BY <1>3, <1>6, FS_Union
  <2> QED  BY <1>5, <1>6, <2>1, <2>2
<1>8. at_boundary = Cardinality(B) /\ intra_as = Cardinality(W) /\ unknown = Cardinality(U)
  BY DEF at_boundary, intra_as, unknown, B, W, U
<1>9. total_divergent = Cardinality((B \cup W) \cup U)
  BY <1>4 DEF total_divergent
<1> QED  BY <1>5, <1>6, <1>7, <1>8, <1>9

\* A divergent hop is looked up at the first divergent position there is.
LEMMA FirstDivergentExists ==
    ASSUME IInv, Divergent # {}
    PROVE  \E i \in Divergent :
               primary_cause = hops[i].cause /\ \A j \in Divergent : i <= j
<1>1. Divergent \in SUBSET Nat
  BY LenProperties DEF IInv, TypeOK, Divergent
<1>2. PICK i \in Divergent : \A j \in Divergent : ~(<<j, i>> \in OpToRel(<, Nat))
  BY <1>1, NatLessThanWellFounded, WFMin
<1>3. \A j \in Divergent : i <= j
  <2>1. OpToRel(<, Nat) = {ss \in Nat \X Nat : ss[1] < ss[2]}
    BY Zenon DEF OpToRel
  <2>2. \A j \in Divergent : ~(<<j, i>> \in {ss \in Nat \X Nat : ss[1] < ss[2]})
    BY <1>2, <2>1, Zenon
  <2>3. i \in Nat /\ \A j \in Divergent : j \in Nat
    BY <1>1, <1>2, Zenon
  <2>4. ASSUME NEW j \in Divergent PROVE i <= j
    <3>1. ~(<<j, i>> \in {ss \in Nat \X Nat : ss[1] < ss[2]})
      BY <2>2
    <3>2. <<j, i>> \in Nat \X Nat
      BY <2>3
    <3> QED  BY <2>3, <3>1, <3>2
  <2> QED  BY <2>4
<1> DEFINE first == CHOOSE k \in Divergent : \A j \in Divergent : k <= j
<1>4. first \in Divergent /\ \A j \in Divergent : first <= j
  BY <1>3
<1>5. primary_cause = hops[first].cause
  BY DEF primary_cause
<1> HIDE DEF first
<1> QED  BY <1>4, <1>5

\* The counts of the score are those of the causes, the pair of ASes of a
\* boundary policy is a transition of the path, and the primary cause is one of
\* those counted.
THEOREM CausesAreTheScore == Spec => []CausesMatchScore
<1>1. IInv => CausesMatchScore
  <2> SUFFICES ASSUME IInv PROVE CausesMatchScore
    OBVIOUS
  <2>1. \A i \in DOMAIN hops : HopInv(hops[i]) /\ PathInv(i) /\ hops[i] \in Hop
    BY ElementOfSeq, LenProperties DEF IInv, TypeOK
  <2>2. ASSUME NEW i \in DOMAIN hops
        PROVE  /\ hops[i].cause.kind \in {"cloud", "transit", "policy"} <=>
                     hops[i].has_divergence /\ hops[i].is_as_boundary /\ hops[i].asn # None
               /\ hops[i].cause.kind = "intra" <=>
                     hops[i].has_divergence /\ ~hops[i].is_as_boundary /\ hops[i].asn # None
               /\ hops[i].cause.kind = "unknown" <=>
                     hops[i].has_divergence /\ hops[i].asn = None
               /\ hops[i].cause.kind = "policy" =>
                     hops[i].is_as_boundary /\ hops[i].cause.from = hops[i].prev_asn
    <3>1. /\ hops[i].has_divergence \in BOOLEAN
          /\ hops[i].is_as_boundary <=> hops[i].asn # None /\ hops[i].asn # hops[i].prev_asn
          /\ hops[i].is_as_boundary \in BOOLEAN
          /\ hops[i].asn \in Asns \cup {None}
          /\ hops[i].cause = IF hops[i].has_divergence
                 THEN classify_divergence_cause(hops[i].is_as_boundary,
                                                hops[i].prev_asn, hops[i].asn)
                 ELSE NoCause
      BY <2>1 DEF HopInv, Hop
    <3>2. None \notin Asns
      BY AsnsAssumption DEF None
    <3> QED  BY <3>1, <3>2 DEF classify_divergence_cause, NoCause, Unknown, Cause, Asns
  <2>3. /\ {i \in Divergent : hops[i].is_as_boundary /\ hops[i].asn # None}
              = {i \in DOMAIN hops : hops[i].cause.kind \in {"cloud", "transit", "policy"}}
        /\ {i \in Divergent : ~hops[i].is_as_boundary /\ hops[i].asn # None}
              = {i \in DOMAIN hops : hops[i].cause.kind = "intra"}
        /\ {i \in Divergent : hops[i].asn = None}
              = {i \in DOMAIN hops : hops[i].cause.kind = "unknown"}
    BY <2>2 DEF Divergent
  <2>4. ASSUME NEW i \in DOMAIN hops, hops[i].cause.kind = "policy"
        PROVE  hops[i].cause.from =
                 IF Position(i) = 1 THEN None ELSE as_path[Position(i) - 1]
    <3>1. hops[i].cause.from = AsAfter(Position(i) - 1) /\ Position(i) \in 0..Len(as_path)
      BY <2>1, <2>2, <2>4 DEF PathInv
    <3>2. Len(as_path) \in Nat
      BY LenProperties DEF IInv, TypeOK
    <3> QED  BY <3>1, <3>2 DEF AsAfter
  <2>5. /\ primary_cause.kind # "none"
        /\ primary_cause.kind = "intra" => intra_as > 0
        /\ primary_cause.kind \in {"cloud", "transit", "policy"} => at_boundary > 0
    <3>1. CASE Divergent = {}
      BY <3>1 DEF primary_cause, Unknown, Cause
    <3>2. CASE Divergent # {}
      <4>1. PICK i \in Divergent : primary_cause = hops[i].cause
        BY <3>2, FirstDivergentExists
      <4>2. i \in DOMAIN hops /\ hops[i].has_divergence
        BY DEF Divergent
      <4>3. primary_cause.kind # "none"
        BY <2>2, <4>1, <4>2
      <4>4. primary_cause.kind = "intra" => intra_as # 0
        BY <2>2, <4>1, <4>2, FS_EmptySet, CountedSetsAreFinite DEF intra_as
      <4>5. primary_cause.kind \in {"cloud", "transit", "policy"} => at_boundary # 0
        BY <2>2, <4>1, <4>2, FS_EmptySet, CountedSetsAreFinite DEF at_boundary
      <4> QED  BY <4>3, <4>4, <4>5, DivergentIsCounted
    <3> QED  BY <3>1, <3>2
  <2>6. /\ at_boundary = Cardinality({i \in DOMAIN hops :
               hops[i].cause.kind \in {"cloud", "transit", "policy"}})
        /\ intra_as = Cardinality({i \in DOMAIN hops : hops[i].cause.kind = "intra"})
        /\ unknown = Cardinality({i \in DOMAIN hops : hops[i].cause.kind = "unknown"})
    BY <2>3 DEF at_boundary, intra_as, unknown
  <2> QED  BY <2>4, <2>5, <2>6 DEF CausesMatchScore, Position
<1> QED  BY <1>1, Inductive, PTL

\* The interpretation follows the divergent hops, for any number of them: what
\* it says holds whether the score leaves out the hops whose AS is unknown, as
\* the code does, or counts them, as its documentation says.
THEOREM InterpretationIsOfHops == Spec => []InterpretationFollowsHops
<1>1. IInv => InterpretationFollowsHops
  <2> SUFFICES ASSUME IInv PROVE InterpretationFollowsHops
    OBVIOUS
  <2> PICK x \in Nat, y \in Nat, z \in Nat :
          /\ x = at_boundary /\ y = intra_as /\ z = unknown
          /\ total_divergent = x + y + z
    BY DivergentIsCounted
  <2>1. ScoreOver = x + y
    BY DEF ScoreOver
  <2>2. /\ ScoreAtLeast(8) <=> x + y > 0 /\ 10 * x >= 8 * (x + y)
        /\ ScoreAtLeast(4) <=> x + y > 0 /\ 10 * x >= 4 * (x + y)
    BY <2>1 DEF ScoreAtLeast
  <2>3. interpretation = "RoutingPolicyDriven" => x > 0 /\ x >= 4 * y
    BY <2>2 DEF interpretation
  <2>4. interpretation = "Mixed" => x > 0 /\ y > 0 /\ 3 * x >= 2 * y
    BY <2>2 DEF interpretation
  <2>5. interpretation = "InternalPolicyDriven" /\ z = 0 => 2 * y > 3 * x
    BY <2>2 DEF interpretation
  <2> QED  BY <2>3, <2>4, <2>5 DEF InterpretationFollowsHops
<1> QED  BY <1>1, Inductive, PTL

=============================================================================
