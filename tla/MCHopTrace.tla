------------------------------ MODULE MCHopTrace ------------------------------
(* Every mode alone, then pairs of calls at once.  Routes of one, two and   *)
(* three routers: with flows that part at the end, at the third hop or in   *)
(* length, and one router that answers Destination Unreachable ("w").       *)
EXTENDS HopTrace

MCTracers == {"p", "q"}
MCRouters == {"a", "b", "c", "d", "e", "w"}
MCTargets == {"near", "far", "split", "uneven", "walled"}

MCRoute == [t \in MCTargets |-> [f \in 0..1 |->
    CASE t = "near"   -> <<"a">>
      [] t = "far"    -> <<"a", "b", "c">>
      [] t = "split"  -> IF f = 0 THEN <<"a", "b", "c">> ELSE <<"a", "d", "e">>
      [] t = "uneven" -> IF f = 0 THEN <<"a", "b">> ELSE <<"a">>
      [] t = "walled" -> <<"a", "w", "c">>]]

Call(mode, detect, flows, max) ==
    [mode |-> mode, detect |-> detect, flows |-> flows, max_hops |-> max]
Trace(mode, max) == Call(mode, FALSE, 1, max)
Detect(mode) == Call(mode, TRUE, 1, 3)
Discover(mode) == Call(mode, FALSE, 2, 2)
NoCall == Trace("idle", 1)

Scene(c1, t1, c2, t2, linux, raw) ==
    [call |-> [x \in MCTracers |-> IF x = "p" THEN c1 ELSE c2],
     target |-> [x \in MCTracers |-> IF x = "p" THEN t1 ELSE t2],
     linux |-> linux, raw |-> raw]

Alone(c, t) == Scene(c, t, NoCall, "near", TRUE, TRUE)

MCScenarios ==
    {Alone(c, t) : c \in {Trace(m, 3) : m \in Modes \ {"idle"}}
                         \cup {Detect("Udp"), Discover("Udp")},
                   t \in MCTargets}
    \cup {Alone(Detect("Icmp"), "split"),
          Scene(Detect("Udp"), "split", NoCall, "near", TRUE, FALSE),
          Scene(Trace("UdpUnprivileged", 2), "near", NoCall, "near", FALSE, FALSE),
          Scene(Trace("Udp", 2), "uneven", Trace("classic", 2), "near", TRUE, TRUE),
          Scene(Trace("Icmp", 2), "walled", Trace("Tcp", 2), "near", TRUE, TRUE),
          Scene(Trace("UdpUnprivileged", 2), "near", Trace("classic", 2), "near", TRUE, TRUE)}

=============================================================================
