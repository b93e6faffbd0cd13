--------------------------------- MODULE Lists ---------------------------------
(***************************************************************************)
(* Iterator::filter and collect: what is left of a list when some of its   *)
(* elements are passed over, told by the positions that stay.              *)
(***************************************************************************)
EXTENDS Integers, Sequences, FiniteSets

\* The numbers of a finite set, smallest first.
InOrder(K) ==
    [r \in 1..Cardinality(K) |->
        CHOOSE k \in K : Cardinality({j \in K : j <= k}) = r]

\* The elements of s at the positions in K.
Pick(s, K) ==
    LET at == InOrder(K) IN [r \in 1..Len(at) |-> s[at[r]]]

=============================================================================
