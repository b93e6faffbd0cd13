------------------------------- MODULE HopTrace -------------------------------
(***************************************************************************)
(* traceroute.rs and paris.rs: hop-by-hop traces, load balancing detection *)
(* and the discovery of paths, as calls that one process makes at once.    *)
(*                                                                         *)
(* The classic trace and the UDP and ICMP modes of Paris traceroute take   *)
(* the first ICMP packet a raw socket gives them as the answer to their    *)
(* probe: whose probe it answers is not compared.  Every ICMP packet that  *)
(* comes is given to every raw socket open at that moment, so an answer    *)
(* may come late, to another call's socket, or to no socket: the UDP mode  *)
(* opens its raw socket only after the probe has left.  The TCP mode looks *)
(* at its own socket after a pause, the unprivileged mode at the error     *)
(* queue of its own socket.                                                *)
(***************************************************************************)
EXTENDS Lists

CONSTANTS
    Tracers,    \* the calls in progress
    None,       \* no address, no ICMP type
    Targets,
    Routers,
    NumFlows,   \* flows 0..NumFlows-1: source ports 33434 + i
    Route,      \* Route[t][f]: the routers on the way of flow f to t
    Filters,    \* routers that answer Destination Unreachable
    MaxHops,    \* the largest options.max_hops of a call
    MaxWire,    \* answers on their way at once: a bound of the model
    LbFlows,    \* options.lb_detection_flows
    Scenarios   \* what is called, on what platform, with what privilege

Flows == 0..NumFlows - 1
Addrs == Targets \cup Routers

\* ParisMode, the classic traceroute, and a tracer that makes no call.
Modes == {"classic", "Udp", "Icmp", "Tcp", "UdpUnprivileged", "idle"}
RawModes == {"classic", "Udp", "Icmp"}

\* A call: paris_traceroute (flows = 1), discover_paths (flows > 1), which
\* switches the detection off, or traceroute, which has neither.
Calls ==
    {c \in [mode : Modes, detect : BOOLEAN, flows : 1..NumFlows,
            max_hops : 1..MaxHops] :
        /\ c.detect => c.flows = 1
        /\ c.mode = "classic" => ~c.detect /\ c.flows = 1}

ASSUME NetworkAssumption ==
    /\ NumFlows \in Nat \ {0}
    /\ Route \in [Targets -> [Flows -> Seq(Routers)]]
    /\ Targets \cap Routers = {}
    /\ None \notin Addrs \cup Int
    /\ Filters \subseteq Routers

ASSUME OptionsAssumption ==
    /\ MaxHops \in Nat \ {0}
    /\ MaxWire \in Nat
    /\ LbFlows \in 1..NumFlows
    /\ Scenarios \subseteq [call : [Tracers -> Calls],
                            target : [Tracers -> Targets],
                            linux : BOOLEAN, raw : BOOLEAN]

VARIABLES
    scene,    \* the scenario
    pc,
    flow,     \* the flow of the trace in progress
    hops,     \* the hops of the trace in progress
    paths,    \* the traces completed by the call
    lb,       \* the state of detect_load_balancing
    sent,     \* history: probes sent
    fell,     \* history: a probe left on another flow than the one asked for
    wire,     \* ICMP packets on their way to this host
    queue     \* what each open socket has received

vars == <<scene, pc, flow, hops, paths, lb, sent, fell, wire, queue>>

Idle(p) == scene.call[p].mode = "idle"
Target(p) == scene.target[p]

NoLb == [on |-> FALSE, addrs |-> {}, tried |-> 0, verdict |-> "Unknown"]

Init ==
    /\ scene \in Scenarios
    /\ pc = [p \in Tracers |-> IF Idle(p) THEN "done" ELSE "start"]
    /\ flow = [p \in Tracers |-> 0]
    /\ hops = [p \in Tracers |-> <<>>]
    /\ paths = [p \in Tracers |-> <<>>]
    /\ lb = [p \in Tracers |-> NoLb]
    /\ sent = [p \in Tracers |-> 0]
    /\ fell = [p \in Tracers |-> FALSE]
    /\ wire = {}
    /\ queue = [p \in Tracers |-> <<>>]

----------------------------------------------------------------------------
(* Probes.                                                                  *)

\* The hop detect_load_balancing tests: the last one, up to the tenth.
TestTtl(hs) == IF Len(hs) < 10 THEN Len(hs) ELSE 10

\* What the present probe is: one of the trace, or a UDP probe of the test
\* for load balancing.
Mode(p) == IF lb[p].on THEN "Udp" ELSE scene.call[p].mode
Asked(p) == IF lb[p].on THEN lb[p].tried ELSE flow[p]

\* Mutant of Ttl: 0..max_hops, and the next hop tested.
TtlNext(p) == IF lb[p].on THEN TestTtl(hops[p]) ELSE Len(hops[p]) + 2

Ttl(p) == IF lb[p].on THEN TestTtl(hops[p]) ELSE Len(hops[p]) + 1

\* Who is at distance k on a flow to a target.
Node(t, f, k) == IF k <= Len(Route[t][f]) THEN Route[t][f][k] ELSE t

\* The ICMP type node n answers a probe with.
AnswerType(p, n) ==
    CASE n \in Filters                               -> 3
      [] n \in Routers \ Filters                     -> 11
      [] n \in Targets /\ Mode(p) \in {"classic", "Icmp"} -> 0
      [] OTHER                                       -> 3

Answer(p, f) ==
    LET n == Node(Target(p), f, Ttl(p)) IN
    [owner |-> p, probe |-> sent[p] + 1, addr |-> n, type |-> AnswerType(p, n)]

\* The flows a balancer may put an echo request on: its checksum covers its
\* sequence number, so it is another one at every hop.
EchoFlows == Flows

TimeoutHop(p) == [addr |-> None, type |-> None, flow |-> Asked(p)]
AnsweredHop(p, a, type) == [addr |-> a, type |-> type, flow |-> Asked(p)]

\* traceroute: an address that is the target's, or an Echo Reply.
ClassicReached(h, t) == h.addr = t \/ h.type = 0

\* Mutant of ParisReached: any error at all.
ParisReachedOnError(h, t) == h.addr = t \/ h.type \in {0, 3, 11}

\* paris_traceroute: Destination Unreachable counts as well.
ParisReached(h, t) == h.addr = t \/ h.type \in {0, 3}

Reached(p, h) ==
    IF Mode(p) = "classic" THEN ClassicReached(h, Target(p))
    ELSE ParisReached(h, Target(p))

----------------------------------------------------------------------------
(* What a call does with the hop a probe ended in.                          *)

\* Mutant of MoreFlows: 0..=num_flows.
MoreFlowsInclusive(p) == flow[p] < scene.call[p].flows

\* discover_paths has another flow to trace.
MoreFlows(p) == flow[p] + 1 < scene.call[p].flows

\* A trace is complete: it is the call's last, or the next flow's turn.
TraceEnds(p, hs) ==
    /\ paths' = [paths EXCEPT ![p] = Append(@, hs)]
    /\ \/ /\ MoreFlows(p)
          /\ flow' = [flow EXCEPT ![p] = @ + 1]
          /\ hops' = [hops EXCEPT ![p] = <<>>]
          /\ pc' = [pc EXCEPT ![p] = "start"]
       \/ /\ ~MoreFlows(p)
          /\ hops' = [hops EXCEPT ![p] = hs]
          /\ pc' = [pc EXCEPT ![p] = "done"]
          /\ UNCHANGED flow

\* detect_load_balancing answers Unknown at once unless this holds.
Testable(hs) == TestTtl(hs) >= 3 /\ hs[TestTtl(hs)].addr # None

\* The body of the loop over the TTLs, after the probe, and what follows it.
TraceRecords(p, h) ==
    LET hs == Append(hops[p], h)
        over == Reached(p, h) \/ Len(hs) = scene.call[p].max_hops
        tests == scene.call[p].detect /\ Testable(hs)
    IN  \/ /\ ~over
           /\ hops' = [hops EXCEPT ![p] = hs]
           /\ pc' = [pc EXCEPT ![p] = "send"]
           /\ UNCHANGED <<flow, paths, lb>>
        \/ /\ over /\ tests
           /\ hops' = [hops EXCEPT ![p] = hs]
           /\ lb' = [lb EXCEPT ![p].on = TRUE,
                               ![p].addrs = {hs[TestTtl(hs)].addr}]
           /\ pc' = [pc EXCEPT ![p] = "send"]
           /\ UNCHANGED <<flow, paths>>
        \/ /\ over /\ ~tests
           /\ TraceEnds(p, hs)
           /\ UNCHANGED lb

\* Mutant of Verdict: one address more than the reference, which counts too.
VerdictOffByOne(addrs) ==
    IF Cardinality(addrs) <= 2 THEN "None" ELSE "PerFlow"

\* results.len(), in which no address counts as one.
Verdict(addrs) == IF Cardinality(addrs) = 1 THEN "None" ELSE "PerFlow"

\* The body of the loop over the test flows, and what follows it.
LbRecords(p, h) ==
    LET addrs == lb[p].addrs \cup {h.addr}
        tried == lb[p].tried + 1
    IN  \/ /\ tried < LbFlows
           /\ lb' = [lb EXCEPT ![p].addrs = addrs, ![p].tried = tried]
           /\ pc' = [pc EXCEPT ![p] = "send"]
           /\ UNCHANGED <<flow, hops, paths>>
        \/ /\ tried = LbFlows
           /\ lb' = [lb EXCEPT ![p] = [on |-> FALSE, addrs |-> addrs,
                        tried |-> tried, verdict |-> Verdict(addrs)]]
           /\ TraceEnds(p, hops[p])

\* The probe's sockets are closed with whatever they still hold.
Records(p, h) ==
    /\ queue' = [queue EXCEPT ![p] = <<>>]
    /\ IF lb[p].on THEN LbRecords(p, h) ELSE TraceRecords(p, h)

----------------------------------------------------------------------------
(* Actions.                                                                 *)

\* The target resolves to an IPv4 address.
Start(p) ==
    /\ pc[p] = "start"
    /\ Mode(p) = "UdpUnprivileged" => scene.linux
    /\ pc' = [pc EXCEPT ![p] = "send"]
    /\ UNCHANGED <<scene, flow, hops, paths, lb, sent, fell, wire, queue>>

\* The name does not resolve, or to IPv6 only, or the mode is not for this
\* platform: the call ends with the error, and the paths found are dropped.
Refuse(p) ==
    /\ pc[p] = "start"
    /\ pc' = [pc EXCEPT ![p] = "failed"]
    /\ paths' = [paths EXCEPT ![p] = <<>>]
    /\ UNCHANGED <<scene, flow, hops, lb, sent, fell, wire, queue>>

\* An answer to the probe of p on flow f goes out or never comes.
Elicits(p, f) ==
    /\ \/ UNCHANGED wire
       \/ /\ Cardinality(wire) < MaxWire
          /\ wire' = wire \cup {Answer(p, f)}
    /\ sent' = [sent EXCEPT ![p] = @ + 1]

\* probe_hop_sync and probe_icmp_paris_sync: the raw socket is open when the
\* request leaves.
SendEcho(p) ==
    /\ pc[p] = "send"
    /\ Mode(p) \in {"classic", "Icmp"}
    /\ scene.raw
    /\ \E f \in EchoFlows : Elicits(p, f)
    /\ pc' = [pc EXCEPT ![p] = "recv"]
    /\ UNCHANGED <<scene, flow, hops, paths, lb, fell, queue>>

\* probe_udp_paris_sync, up to send_to, and probe_udp_unprivileged_sync: the
\* datagram leaves on the flow asked for unless its source port is taken,
\* when bind falls back to any port.
SendUdp(p) ==
    /\ pc[p] = "send"
    /\ Mode(p) \in {"Udp", "UdpUnprivileged"}
    /\ \E f \in Flows :
          /\ Elicits(p, f)
          /\ fell' = [fell EXCEPT ![p] = @ \/ f # Asked(p)]
    /\ pc' = [pc EXCEPT ![p] = IF Mode(p) = "Udp" THEN "open" ELSE "recv"]
    /\ UNCHANGED <<scene, flow, hops, paths, lb, queue>>

\* probe_udp_paris_sync opens the raw socket it will listen on.
OpenIcmp(p) ==
    /\ pc[p] = "open"
    /\ scene.raw
    /\ pc' = [pc EXCEPT ![p] = "recv"]
    /\ UNCHANGED <<scene, flow, hops, paths, lb, sent, fell, wire, queue>>

\* A socket cannot be made, bound or sent on: the error becomes a timeout.
ProbeFails(p) ==
    /\ pc[p] \in {"send", "open"}
    /\ Records(p, TimeoutHop(p))
    /\ UNCHANGED <<scene, sent, fell, wire>>

\* probe_tcp_paris_sync: what take_error says after the pause.  Nothing yet,
\* or an error that connect itself returned, is no error.
TcpProbe(p) ==
    /\ pc[p] = "send"
    /\ Mode(p) = "Tcp"
    /\ \E f \in Flows :
          LET far == Node(Target(p), f, Ttl(p)) \in Routers IN
          /\ \/ Records(p, AnsweredHop(p, Target(p), 0))
             \/ ~far /\ Records(p, AnsweredHop(p, Target(p), 3))
             \/ far /\ Records(p, TimeoutHop(p))
          /\ IF far THEN Elicits(p, f) ELSE UNCHANGED <<wire, sent>>
    /\ UNCHANGED <<scene, fell>>

\* The sockets that a packet reaches: every raw one, and the error queue of
\* the socket whose datagram it answers.
Listens(q, a) ==
    /\ pc[q] = "recv"
    /\ \/ Mode(q) \in RawModes
       \/ /\ Mode(q) = "UdpUnprivileged"
          /\ a.owner = q
          /\ a.probe = sent[q]

Deliver(a) ==
    /\ wire' = wire \ {a}
    /\ queue' = [q \in Tracers |->
                    IF Listens(q, a) THEN Append(queue[q], a) ELSE queue[q]]
    /\ UNCHANGED <<scene, pc, flow, hops, paths, lb, sent, fell>>

\* The hop a packet is recorded as.  msg_name of an error queue is where the
\* datagram was sent to, so the unprivileged mode always names the target.
HopOf(p, a) ==
    IF Mode(p) = "UdpUnprivileged" THEN AnsweredHop(p, Target(p), a.type)
    ELSE AnsweredHop(p, a.addr, a.type)

\* recv_from or recvmsg gives the first packet.
Receive(p) ==
    /\ pc[p] = "recv"
    /\ queue[p] # <<>>
    /\ Records(p, HopOf(p, Head(queue[p])))
    /\ UNCHANGED <<scene, sent, fell, wire>>

\* Mutant of TimesOut: set_read_timeout left out.
TimesOutPolling(p) ==
    /\ pc[p] = "recv"
    /\ queue[p] = <<>>
    /\ Mode(p) = "UdpUnprivileged"
    /\ Records(p, TimeoutHop(p))
    /\ UNCHANGED <<scene, sent, fell, wire>>

\* The read timeout, or the last poll of the error queue.
TimesOut(p) ==
    /\ pc[p] = "recv"
    /\ queue[p] = <<>>
    /\ Records(p, TimeoutHop(p))
    /\ UNCHANGED <<scene, sent, fell, wire>>

Step(p) ==
    \/ Start(p) \/ Refuse(p)
    \/ SendEcho(p) \/ SendUdp(p) \/ OpenIcmp(p) \/ TcpProbe(p)
    \/ ProbeFails(p) \/ Receive(p) \/ TimesOut(p)

Next == (\E p \in Tracers : Step(p)) \/ (\E a \in wire : Deliver(a))

Spec == Init /\ [][Next]_vars

\* Every blocking call has a timeout; that a packet arrives is not assumed.
FairSpec == Spec /\ \A p \in Tracers : WF_vars(Step(p))

----------------------------------------------------------------------------
(* Properties.                                                              *)

Hop == [addr : Addrs \cup {None}, type : {0, 3, 11, None}, flow : Flows]
Packet == [owner : Tracers, probe : Nat, addr : Addrs, type : {0, 3, 11}]

\* Type invariant.
TypeOK ==
    /\ scene \in Scenarios
    /\ pc \in [Tracers -> {"start", "send", "open", "recv", "done", "failed"}]
    /\ flow \in [Tracers -> Flows]
    /\ hops \in [Tracers -> Seq(Hop)]
    /\ paths \in [Tracers -> Seq(Seq(Hop))]
    /\ lb \in [Tracers -> [on : BOOLEAN, addrs : SUBSET (Addrs \cup {None}),
                           tried : 0..LbFlows,
                           verdict : {"None", "PerFlow", "Unknown"}]]
    /\ sent \in [Tracers -> Nat]
    /\ fell \in [Tracers -> BOOLEAN]
    /\ wire \in SUBSET Packet
    /\ queue \in [Tracers -> Seq(Packet)]

\* A call whose sockets no other call's packets can reach, on a raw socket,
\* and whose source ports were free.
Undisturbed(p) ==
    /\ scene.call[p].mode \in RawModes
    /\ \A q \in Tracers \ {p} : Idle(q)
    /\ ~fell[p]

Unanswered(hs) == \E k \in 1..Len(hs) : hs[k].addr = None
SomeUnanswered(hss) == \E i \in 1..Len(hss) : Unanswered(hss[i])

\* The flows the trace in progress may follow.
TraceFlows(p) ==
    IF scene.call[p].mode = "Udp" THEN {flow[p]} ELSE EchoFlows

\* A hop is where the route has it, unless a probe before it went unanswered:
\* only an answer that came too late can be taken for another probe's.
WrongHopNeedsCause ==
    \A p \in Tracers : Undisturbed(p) =>
        \A k \in 1..Len(hops[p]) :
            \/ hops[p][k].addr = None
            \/ \E f \in TraceFlows(p) : hops[p][k].addr = Node(Target(p), f, k)
            \/ Unanswered(SubSeq(hops[p], 1, k - 1))
            \/ SomeUnanswered(paths[p])

\* However many answers are lost or late, a first trace says it reached the
\* destination only from as far away as the destination is, or because of a
\* router that answered Destination Unreachable.
ShortTraceNeedsFilter ==
    \A p \in Tracers : Undisturbed(p) /\ flow[p] = 0 =>
        \A k \in 1..Len(hops[p]) : Reached(p, hops[p][k]) =>
            \/ hops[p][k].addr \in Filters
            \/ \E f \in TraceFlows(p) : k > Len(Route[Target(p)][f])

SameRoute(t) == \A f, g \in Flows : Route[t][f] = Route[t][g]

\* ParisTraceResult::path leaves out the hops that did not answer.
Path(hs) == Pick(hs, {k \in 1..Len(hs) : hs[k].addr # None})
PathsEqual(hs1, hs2) ==
    /\ Len(Path(hs1)) = Len(Path(hs2))
    /\ \A i \in 1..Len(Path(hs1)) : Path(hs1)[i].addr = Path(hs2)[i].addr

\* Load balancing is found, and discovered paths differ, only where routes
\* differ or a probe went unanswered; and where all probes were answered and
\* the flows tested part at the hop tested, it is found.
BalancingNeedsCause ==
    \A p \in Tracers :
        LET missed == None \in lb[p].addrs \/ SomeUnanswered(paths[p]) IN
        Undisturbed(p) /\ pc[p] = "done" =>
            /\ SameRoute(Target(p)) /\ ~missed =>
                  /\ lb[p].verdict # "PerFlow"
                  /\ \A i, j \in 1..Len(paths[p]) :
                        PathsEqual(paths[p][i], paths[p][j])
            /\ lb[p].verdict = "None" =>
                  \A f, g \in 0..LbFlows - 1 :
                     \/ Node(Target(p), f, TestTtl(hops[p]))
                           = Node(Target(p), g, TestTtl(hops[p]))
                     \/ missed

\* Every call returns.
TracesReturn == \A p \in Tracers : <>(pc[p] \in {"done", "failed"})

\* "Connected successfully - we reached the destination": a TCP hop that says
\* so is as far away as the destination is.
ConnectedIsReached ==
    \A p \in Tracers : scene.call[p].mode = "Tcp" =>
        \A k \in 1..Len(hops[p]) : hops[p][k].type = 0 =>
            \E f \in Flows : k > Len(Route[Target(p)][f])

=============================================================================
