------------------------------ MODULE MCMeasures ------------------------------
(* A program that asks the library for one kind of measurement: probes over *)
(* several protocols, one or two calls at once; a latency, bufferbloat or   *)
(* reordering measurement; or a TLS probe or comparison.  In the multi-     *)
(* protocol part, one call of up to four probes meets every kind of host,   *)
(* and two calls at once meet different hosts.                              *)
EXTENDS MultiProbe, LatencyMeter, TlsProbe

MCCallers == {"a", "b"}
I == [kind |-> "ICMP", port |-> 0]
T(n) == [kind |-> "TCP", port |-> n]
U(n) == [kind |-> "UDP", port |-> n]

AHost(v4, echo, t80, t443, u53) ==
    [v4 |-> v4, echo |-> echo,
     tcp |-> [n \in {53, 80, 443} |->
                CASE n = 80 -> t80 [] n = 443 -> t443 [] OTHER -> "filtered"],
     udp |-> [n \in {53, 80, 443} |-> IF n = 53 THEN u53 ELSE "closed"]]

Dead == AHost(TRUE, FALSE, "filtered", "filtered", "silent")
Web == AHost(TRUE, TRUE, "open", "closed", "closed")

World(priv, ha, pa, hb, pb) ==
    [privileged |-> priv,
     host |-> [c \in MCCallers |-> IF c = "a" THEN ha ELSE hb],
     protocols |-> [c \in MCCallers |-> IF c = "a" THEN pa ELSE pb]]

MCWorlds ==
    {World(TRUE, AHost(TRUE, e, t, x, u), p, Dead, <<>>) :
        e \in BOOLEAN, t \in {"open", "closed"}, x \in {"open", "filtered"},
        u \in {"replies", "closed", "silent"},
        p \in {<<I, T(80), T(443), U(53)>>, <<I, U(80), U(53), T(80)>>, <<T(80), U(53)>>}}
    \cup {World(priv, AHost(v4, TRUE, "open", "open", "silent"),
                <<I, T(80), U(53)>>, Dead, <<>>) : priv, v4 \in BOOLEAN}
    \cup {World(TRUE, Dead, p, Web, <<I, T(80)>>) :
             p \in {<<I, T(80), U(53)>>, <<I, I>>, <<I>>}}

Meter(kind, n, loaded, listens) ==
    [kind |-> kind, samples |-> n, loaded |-> loaded, listens |-> listens]

MCMeasureCalls ==
    {Meter("latency", n, 0, TRUE) : n \in {0, 4}}
    \cup {Meter("bloat", 2, 2, l) : l \in BOOLEAN}
    \cup {Meter("bloat", 1, 0, TRUE), Meter("reorder", 6, 0, TRUE)}

AServer(version, cipher, sid, before, stray, strict) ==
    [version |-> version, cipher |-> cipher, sid |-> sid, before |-> before,
     stray |-> stray, strict |-> strict]

MCServers ==
    {AServer("1.3", "AES", sid, 40, FALSE, FALSE) : sid \in {0, 32}}
    \cup {AServer("1.2", "AES", 32, 20, stray, FALSE) : stray \in BOOLEAN}
    \cup {AServer(v, "CBC", 32, 20, FALSE, FALSE) : v \in {"1.0", "1.1"}}
    \cup {AServer("1.2", "AES", 0, 20, FALSE, TRUE)}

MCTasks == {<<s>> : s \in MCServers} \cup {<<s, t>> : s, t \in MCServers}

\* Ends of a read on either side of every offset that is looked at.
MCPrefixes ==
    {1, 4, 5, 7, 9, 10, 11, 43, 44, 45, 46, 50, 51, 77, 78, 94, 95, 126, 127, 200}

\* What the program asks for; the rest is left as it is at the start.
VARIABLE asked

MCInit ==
    /\ asked \in {"multi", "meter", "tls"}
    /\ Init
    /\ asked # "multi" => world = CHOOSE w \in Worlds : TRUE
    /\ MeterInit
    /\ asked # "meter" => measure = CHOOSE m \in Measures : TRUE
    /\ TlsInit
    /\ asked # "tls" => tls_task = CHOOSE t \in Tasks : TRUE

MCNext ==
    /\ UNCHANGED asked
    /\ \/ asked = "multi" /\ Next /\ UNCHANGED <<meterVars, tlsVars>>
       \/ asked = "meter" /\ MeterNext /\ UNCHANGED <<vars, tlsVars>>
       \/ asked = "tls" /\ TlsNext /\ UNCHANGED <<vars, meterVars>>

MCSpec == MCInit /\ [][MCNext]_<<vars, meterVars, tlsVars, asked>>

=============================================================================
