------------------------------ MODULE Classifier ------------------------------
(***************************************************************************)
(* classifier.rs: what a list of probe results is said to show, as         *)
(* operators on sequences of results [proto, success] with proto a record  *)
(* [kind, port].  Rates and differences are fractions <<n, d>>; of the     *)
(* latencies only whether their deviation is above 50 ms matters ("wide"). *)
(***************************************************************************)
EXTENDS Lists

Of(rs, kind) == Pick(rs, {i \in 1..Len(rs) : rs[i].proto.kind = kind})
Passed(rs) == Pick(rs, {i \in 1..Len(rs) : rs[i].success})
Failed(rs) == Pick(rs, {i \in 1..Len(rs) : ~rs[i].success})

AnyPassed(rs) == Passed(rs) # <<>>
AllPassed(rs) == Failed(rs) = <<>>

\* protocol.port(), where there is one.
Ports(rs) ==
    LET ported == Pick(rs, {i \in 1..Len(rs) : rs[i].proto.kind # "ICMP"})
    IN  [i \in 1..Len(ported) |-> ported[i].proto.port]

Verdict(kind) == [kind |-> kind, open |-> <<>>, closed |-> <<>>]

\* Mutant of Classify: ICMP is not asked for a direct path.
ClassifyPortsOnly(rs) ==
    IF AllPassed(Of(rs, "TCP")) /\ AllPassed(Of(rs, "UDP"))
    THEN Verdict("Open") ELSE Verdict("Unknown")

\* Classifier::classify, in the order of its tests.  No probe sets a TTL, so
\* the last of them, for NAT, never sees two.
Classify(rs) ==
    LET icmp == Of(rs, "ICMP")
        tcp == Of(rs, "TCP")
        udp == Of(rs, "UDP")
        ports == AllPassed(tcp) /\ AllPassed(udp)
        some == AnyPassed(tcp) \/ AnyPassed(udp)
    IN  IF rs = <<>> THEN Verdict("Unknown")
        ELSE IF AnyPassed(icmp) /\ ports THEN Verdict("Open")
        ELSE IF /\ AnyPassed(icmp)
                /\ tcp = <<>> \/ AnyPassed(tcp)
                /\ udp = <<>> \/ AnyPassed(udp)
        THEN [kind |-> "SelectiveFirewall", open |-> Ports(Passed(rs)),
              closed |-> Ports(Failed(rs))]
        ELSE IF some /\ IF icmp = <<>> THEN ports ELSE ~AnyPassed(icmp)
        THEN Verdict("IcmpFiltered")
        ELSE IF AnyPassed(icmp) /\ tcp # <<>> /\ ~AnyPassed(tcp)
        THEN Verdict("TcpFiltered")
        ELSE IF ~AnyPassed(rs) THEN Verdict("Blocked")
        ELSE Verdict("Unknown")

----------------------------------------------------------------------------
(* ProtocolDifferentialScore.                                               *)

NoRate == <<0, 0>>

\* The first ICMP result, and the share of successes of the other protocols.
IcmpRate(rs) ==
    IF Of(rs, "ICMP") = <<>> THEN NoRate
    ELSE <<IF Head(Of(rs, "ICMP")).success THEN 1 ELSE 0, 1>>
SuccessRate(rs, kind) == <<Len(Passed(Of(rs, kind))), Len(Of(rs, kind))>>

\* |x - y|, or nothing where one of them is missing.
Diff(x, y) ==
    LET n == x[1] * y[2] - y[1] * x[2]
    IN  IF 0 \in {x[2], y[2]} THEN <<0, 1>>
        ELSE <<IF n < 0 THEN -n ELSE n, x[2] * y[2]>>

Above(x, tenths) == 10 * x[1] > tenths * x[2]
Below(x, tenths) == 10 * x[1] < tenths * x[2]
Plus(x, y) == <<x[1] * y[2] + y[1] * x[2], x[2] * y[2]>>

\* calculate: the three differences.  consistency is 1 minus a third of
\* their sum, so it is above 0.9 when the sum is below 0.3.
Score(rs) ==
    LET icmp == IcmpRate(rs)
        tcp == SuccessRate(rs, "TCP")
        udp == SuccessRate(rs, "UDP")
    IN  [icmp_tcp |-> Diff(icmp, tcp), icmp_udp |-> Diff(icmp, udp),
         tcp_udp |-> Diff(tcp, udp)]
Consistent(s) == Below(Plus(Plus(s.icmp_tcp, s.icmp_udp), s.tcp_udp), 3)

Interpret(rs, wide) ==
    LET s == Score(rs)
    IN  IF Consistent(s) /\ Below(s.icmp_tcp, 1) /\ Below(s.tcp_udp, 1)
        THEN "Direct"
        ELSE IF Above(s.icmp_tcp, 5) /\ Above(s.icmp_udp, 5)
        THEN "IcmpFiltering"
        ELSE IF Above(s.tcp_udp, 5) THEN "ProtocolSpecificFiltering"
        ELSE IF wide THEN "AsymmetricRouting" ELSE "Unknown"

----------------------------------------------------------------------------
(* Fingerprints.                                                            *)

\* Classifier::fingerprint: its parts, the ICMP one from the first result.
Fingerprint(rs) ==
    [icmp |-> IcmpRate(rs),
     open |-> [k \in {"TCP", "UDP"} |-> Ports(Passed(Of(rs, k)))],
     closed |-> [k \in {"TCP", "UDP"} |-> Ports(Failed(Of(rs, k)))]]

\* What Classifier::fingerprint_hash hashes: a stable sort by protocol, which
\* is for each protocol its outcomes in their order.
HashedAs(rs) ==
    [p \in {rs[i].proto : i \in 1..Len(rs)} |->
        LET of == Pick(rs, {i \in 1..Len(rs) : rs[i].proto = p})
        IN  [i \in 1..Len(of) |-> of[i].success]]

=============================================================================
