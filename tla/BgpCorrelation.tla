---------------------------- MODULE BgpCorrelation ----------------------------
(***************************************************************************)
(* bgp/correlation.rs: correlate_divergence, the hops of a divergence      *)
(* result joined with the AS numbers of their addresses.                   *)
(*                                                                         *)
(* The result of analyze_divergence is given; of a hop it matters which    *)
(* addresses answered and whether the protocols diverged.  The AsnLookup   *)
(* belongs to this call and its lookups are sequential, so each is one     *)
(* step here; what it does under concurrent callers is in AsnCache.        *)
(***************************************************************************)
EXTENDS Integers, Sequences, FiniteSets

CONSTANTS
    Private,      \* addresses the lookup refuses
    Public,       \* the other addresses of the path
    Cloud,        \* the AS numbers of is_cloud_provider
    Transit,      \* the AS numbers of is_transit
    Others,       \* the other AS numbers
    Protocols,    \* how many protocols were traced
    MaxHops       \* the longest divergence result

\* No address, no AsnInfo, no AS number: AS 0 is reserved and never originates
\* a prefix.
None == 0

Addrs == Private \cup Public
Asns == Cloud \cup Transit \cup Others

ASSUME AsnsAssumption == Asns \subseteq Nat \ {0}
ASSUME AddrsAssumption == None \notin Addrs /\ Private \cap Public = {}
ASSUME MaxHopsAssumption == MaxHops \in Nat

\* What a hop of a divergence result can be: it has_divergence when some of the
\* protocols were answered and some were not.
TracedHops ==
    {h \in [answers : SUBSET Addrs, has_divergence : BOOLEAN] :
        /\ Cardinality(h.answers) <= Protocols
        /\ h.has_divergence => /\ h.answers # {}
                               /\ Cardinality(h.answers) < Protocols}

VARIABLES
    trace,        \* divergence_result.hops
    hops,         \* correlated_hops
    cache,        \* AsnLookup::cache
    prev_asn,
    as_path

vars == <<trace, hops, cache, prev_asn, as_path>>

Init ==
    /\ trace \in UNION {[1..n -> TracedHops] : n \in 0..MaxHops}
    /\ hops = <<>>
    /\ cache = [a \in {} |-> None]
    /\ prev_asn = None
    /\ as_path = <<>>

----------------------------------------------------------------------------
(* The lookup of a hop's address.                                           *)

\* results.values() of a HashMap come in any order: any answer may be first.
FirstAddr(hop) == IF hop.answers = {} THEN {None} ELSE hop.answers

\* The AS numbers that lookup(addr).ok() may have.
Lookup(addr) ==
    IF addr = None \/ addr \in Private THEN {None}
    ELSE IF addr \in DOMAIN cache THEN {cache[addr]}
    ELSE Asns \cup {None}

\* Mutant of Remember: the insert is lost.
RememberNothing(addr, asn) == cache

\* Mutant of Remember: errors are cached as well.
RememberErrors(addr, asn) ==
    IF addr = None THEN cache
    ELSE [a \in DOMAIN cache \cup {addr} |-> IF a = addr THEN asn ELSE cache[a]]

\* An answer is cached, an error is not.
Remember(addr, asn) ==
    IF asn = None THEN cache
    ELSE [a \in DOMAIN cache \cup {addr} |-> IF a = addr THEN asn ELSE cache[a]]

----------------------------------------------------------------------------
(* One hop.                                                                 *)

\* The first public AS counts as a boundary too.
IsBoundary(asn) == asn # None /\ asn # prev_asn

\* as_path grows when the AS is not its last one already.
PathWith(asn) ==
    IF asn # None /\ (as_path = <<>> \/ as_path[Len(as_path)] # asn)
    THEN Append(as_path, asn)
    ELSE as_path

Cause(kind, from, to) == [kind |-> kind, from |-> from, to |-> to]

NoCause == Cause("none", None, None)
Unknown == Cause("unknown", None, None)

\* Mutant of classify_divergence_cause: only the AS is looked at.
classify_no_boundary(boundary, from, asn) ==
    CASE asn = None -> Unknown
      [] asn \in Cloud -> Cause("cloud", None, asn)
      [] asn \in Transit \ Cloud -> Cause("transit", None, asn)
      [] OTHER -> Cause("policy", from, asn)

classify_divergence_cause(boundary, from, asn) ==
    CASE boundary /\ asn \in Cloud -> Cause("cloud", None, asn)
      [] boundary /\ asn \in Transit \ Cloud -> Cause("transit", None, asn)
      [] boundary /\ asn \in Others \ (Cloud \cup Transit) -> Cause("policy", from, asn)
      [] ~boundary /\ asn # None -> Cause("intra", None, asn)
      [] OTHER -> Unknown

\* Mutant of NextPrevAsn: a hop without an AS clears it.
NextPrevAsnAlways(asn) == asn

NextPrevAsn(asn) == IF asn # None THEN asn ELSE prev_asn

\* The next hop, with the address that came first and the AS it was given.
CorrelateHop(addr, asn) ==
    LET hop == trace[Len(hops) + 1]
        boundary == IsBoundary(asn)
    IN /\ hops' = Append(hops,
                     [addr |-> addr,
                      asn |-> asn,
                      has_divergence |-> hop.has_divergence,
                      is_as_boundary |-> boundary,
                      prev_asn |-> prev_asn,
                      cause |-> IF hop.has_divergence
                                THEN classify_divergence_cause(boundary, prev_asn, asn)
                                ELSE NoCause])
       /\ cache' = Remember(addr, asn)
       /\ as_path' = PathWith(asn)
       /\ prev_asn' = NextPrevAsn(asn)
       /\ UNCHANGED trace

Next ==
    /\ Len(hops) < Len(trace)
    /\ \E addr \in FirstAddr(trace[Len(hops) + 1]) :
           \E asn \in Lookup(addr) : CorrelateHop(addr, asn)

Spec == Init /\ [][Next]_vars

----------------------------------------------------------------------------
(* The result.                                                              *)

Divergent == {i \in DOMAIN hops : hops[i].has_divergence}

at_boundary == Cardinality({i \in Divergent : hops[i].is_as_boundary /\ hops[i].asn # None})
intra_as == Cardinality({i \in Divergent : ~hops[i].is_as_boundary /\ hops[i].asn # None})
unknown == Cardinality({i \in Divergent : hops[i].asn = None})
total_divergent == Cardinality(Divergent)

\* Mutant of ScoreOver: hops without divergence lower the score.
ScoreOverHops == Len(hops)

\* What at_boundary is divided by.
ScoreOver == total_divergent - unknown

\* score >= tenths / 10, with score 0 when nothing is known.
ScoreAtLeast(tenths) == ScoreOver > 0 /\ 10 * at_boundary >= tenths * ScoreOver

interpretation ==
    IF total_divergent = 0 THEN "NoDivergence"
    ELSE IF ScoreAtLeast(8) THEN "RoutingPolicyDriven"
    ELSE IF ScoreAtLeast(4) THEN "Mixed"
    ELSE "InternalPolicyDriven"

as_transitions == IF Len(as_path) = 0 THEN 0 ELSE Len(as_path) - 1

\* The cause at the first divergent hop.
primary_cause ==
    IF Divergent = {} THEN Unknown
    ELSE hops[CHOOSE i \in Divergent : \A j \in Divergent : i <= j].cause

----------------------------------------------------------------------------
(* Properties.                                                              *)

Hop == [addr : Addrs \cup {None}, asn : Asns \cup {None},
        has_divergence : BOOLEAN, is_as_boundary : BOOLEAN,
        prev_asn : Asns \cup {None},
        cause : [kind : {"none", "unknown", "cloud", "transit", "policy", "intra"},
                 from : Asns \cup {None}, to : Asns \cup {None}]]

\* Type invariant.
TypeOK ==
    /\ trace \in Seq(TracedHops)
    /\ hops \in Seq(Hop)
    /\ Len(hops) <= Len(trace)
    /\ DOMAIN cache \subseteq Public
    /\ \A a \in DOMAIN cache : cache[a] \in Asns
    /\ prev_asn \in Asns \cup {None}
    /\ as_path \in Seq(Asns)

Boundaries(n) == {j \in 1..n : hops[j].is_as_boundary}

\* The flags of the hops and the AS path, which are kept separately, say the
\* same: a known hop is in the AS reached after as many boundaries as there are
\* up to it, whatever unknown and private hops are in between.  So the path has
\* one entry per boundary, the first AS included, and one transition fewer.
BoundariesMakeThePath ==
    /\ Len(as_path) = Cardinality(Boundaries(Len(hops)))
    /\ Boundaries(Len(hops)) # {} =>
           as_transitions + 1 = Cardinality(Boundaries(Len(hops)))
    /\ \A i \in DOMAIN hops : hops[i].asn # None =>
           /\ Cardinality(Boundaries(i)) \in DOMAIN as_path
           /\ as_path[Cardinality(Boundaries(i))] = hops[i].asn

\* A loop in the path is seen as such: once an address has an AS, every later
\* hop with that address has the same one, even if the registry has changed its
\* mind or stopped answering.
SameAddressSameAs ==
    \A i, j \in DOMAIN hops :
        (i < j /\ hops[i].addr = hops[j].addr /\ hops[i].asn # None)
            => hops[j].asn = hops[i].asn

\* The causes given to the hops and the counts of the score agree, the AS pair
\* of a boundary policy is a transition of the path, and the primary cause is
\* one the score has counted.
CausesMatchScore ==
    /\ at_boundary = Cardinality({i \in DOMAIN hops :
           hops[i].cause.kind \in {"cloud", "transit", "policy"}})
    /\ intra_as = Cardinality({i \in DOMAIN hops : hops[i].cause.kind = "intra"})
    /\ unknown = Cardinality({i \in DOMAIN hops : hops[i].cause.kind = "unknown"})
    /\ \A i \in DOMAIN hops : hops[i].cause.kind = "policy" =>
           LET k == Cardinality(Boundaries(i))
           IN hops[i].cause.from = IF k = 1 THEN None ELSE as_path[k - 1]
    /\ primary_cause.kind # "none"
    /\ primary_cause.kind = "intra" => intra_as > 0
    /\ primary_cause.kind \in {"cloud", "transit", "policy"} => at_boundary > 0

\* The score is documented as at_boundary / total_divergent (correlation.rs:84)
\* and computed over the divergent hops whose AS is known, so that the two
\* differ as soon as one is unknown.  What holds of both: routing policy takes
\* four boundaries for each divergent hop inside an AS, and mixed causes two for
\* three; and where every AS is known, mixed causes have both kinds of hops and
\* internal policy is said only where those inside an AS prevail.
InterpretationFollowsHops ==
    /\ interpretation = "RoutingPolicyDriven" =>
           at_boundary > 0 /\ at_boundary >= 4 * intra_as
    /\ interpretation = "Mixed" =>
           at_boundary > 0 /\ 3 * at_boundary >= 2 * intra_as
    /\ unknown = 0 =>
           /\ interpretation = "Mixed" => intra_as > 0
           /\ interpretation = "InternalPolicyDriven" =>
                  2 * intra_as > 3 * at_boundary

=============================================================================
