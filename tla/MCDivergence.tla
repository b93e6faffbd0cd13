----------------------------- MODULE MCDivergence -----------------------------
(* The default protocols, on paths that end at the first hop, at the second *)
(* or beyond the last one the trace may take, with and without a router     *)
(* that stops some of them.                                                 *)
EXTENDS Divergence, TLC

MCProtocols == <<"icmp", "tcp", "udp">>

Open == [p \in Kinds |-> "accept"]

\* A target that takes everything, hosts that drop pings or refuse TCP, and
\* one behind a firewall that rejects all.
MCVerdicts ==
    {Open, [Open EXCEPT !["icmp"] = "drop"], [Open EXCEPT !["tcp"] = "reject"],
     [p \in Kinds |-> "reject"]}

Route(d, v, f) == [dist |-> d, verdict |-> v, filter |-> f]

NoFilter == [p \in {} |-> p]

StopAt(by, from, answer) == [by |-> by, from |-> from, answer |-> answer]

\* The first router prohibits UDP; lets TCP expire at itself and rejects the
\* rest of it, as a host's firewall does by default; drops pings while it
\* answers UDP in the target's stead.
MCRoutes ==
    {Route(d, v, NoFilter) : d \in {1, 2}, v \in MCVerdicts}
      \cup {Route(3, Open, f) : f \in
               {NoFilter,
                "udp" :> StopAt(1, 1, "prohibited"),
                "tcp" :> StopAt(1, 2, "port"),
                "icmp" :> StopAt(1, 1, "none") @@ "udp" :> StopAt(1, 2, "port")}}

\* TCP by itself, to a target two hops away that takes it.
OnlyTcp == <<"tcp">>

OpenRoute == {Route(2, Open, NoFilter)}

=============================================================================
