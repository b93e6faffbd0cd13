------------------------------ MODULE MultiProbe ------------------------------
(***************************************************************************)
(* probe.rs, MultiProbe::send, over icmp.rs, tcp.rs, udp.rs and dns.rs:    *)
(* calls of one process that probe their hosts over several protocols at   *)
(* once and classify what came back.                                       *)
(*                                                                         *)
(* All ICMP probes of a process send the same identifier and sequence      *)
(* number, a raw socket is given every ICMP packet that arrives, and the   *)
(* sender of a reply is not looked at: any host's Echo Reply makes every   *)
(* waiting ICMP probe succeed.  A UDP probe that hears nothing succeeds.   *)
(* A probe that ends in an error leaves no result.                         *)
(***************************************************************************)
EXTENDS Classifier

CONSTANTS
    Callers,    \* concurrent calls of send
    PortSet,
    Worlds      \* the hosts, what is asked of them, and the privilege

Protocols == [kind : {"ICMP"}, port : {0}]
             \cup [kind : {"TCP", "UDP"}, port : PortSet]

\* What the host of a call does: its address family, whether it answers echo
\* requests, and what becomes of what is sent to its ports.  A UDP port is
\* closed when the host, or a router before it, says it is unreachable.
Hosts == [v4 : BOOLEAN, echo : BOOLEAN,
          tcp : [PortSet -> {"open", "closed", "filtered"}],
          udp : [PortSet -> {"replies", "closed", "silent"}]]

ASSUME WorldsAssumption ==
    Worlds \subseteq [privileged : BOOLEAN, host : [Callers -> Hosts],
                      protocols : [Callers -> Seq(Protocols)]]

VARIABLES
    world,
    pc,
    outcome,    \* of each probe of a call
    replies,    \* Echo Replies on their way
    results,    \* MultiProbeResult::results
    verdict     \* MultiProbeResult::classification

vars == <<world, pc, outcome, replies, results, verdict>>

Plan(c) == world.protocols[c]
Host(c) == world.host[c]

Init ==
    /\ world \in Worlds
    /\ pc = [c \in Callers |-> "start"]
    /\ outcome = [c \in Callers |-> [i \in 1..Len(Plan(c)) |-> "unsent"]]
    /\ replies = {}
    /\ results = [c \in Callers |-> <<>>]
    /\ verdict = [c \in Callers |-> Verdict("Unknown")]

\* send: there are protocols, and the name resolves.
Resolve(c) ==
    /\ pc[c] = "start"
    /\ Plan(c) # <<>>
    /\ pc' = [pc EXCEPT ![c] = "probing"]
    /\ UNCHANGED <<world, outcome, replies, results, verdict>>

\* send returns an error.
Refuse(c) ==
    /\ pc[c] = "start"
    /\ pc' = [pc EXCEPT ![c] = "failed"]
    /\ UNCHANGED <<world, outcome, replies, results, verdict>>

\* join_all polls its futures in order.
Turn(c, i) ==
    /\ pc[c] = "probing"
    /\ outcome[c][i] = "unsent"
    /\ \A j \in 1..i - 1 : outcome[c][j] # "unsent"

\* The sockets a probe needs can be had: raw ones need privilege, and ICMP
\* and UDP probes make IPv4 sockets only.
CanSend(c, kind) ==
    /\ kind \in {"ICMP", "UDP"} => Host(c).v4
    /\ kind = "ICMP" => world.privileged

\* A probe goes out.  The host's Echo Reply may be lost.
Send(c, i) ==
    LET kind == Plan(c)[i].kind IN
    /\ Turn(c, i)
    /\ CanSend(c, kind)
    /\ outcome' = [outcome EXCEPT ![c][i] = "waiting"]
    /\ \/ UNCHANGED replies
       \/ /\ kind = "ICMP" /\ Host(c).echo
          /\ replies' = replies \cup {<<c, i>>}
    /\ UNCHANGED <<world, pc, results, verdict>>

\* A socket cannot be made or sent on.
SendFails(c, i) ==
    /\ Turn(c, i)
    /\ outcome' = [outcome EXCEPT ![c][i] = "error"]
    /\ UNCHANGED <<world, pc, replies, results, verdict>>

\* An Echo Reply reaches every raw socket that is waiting.
Deliver(r) ==
    /\ replies' = replies \ {r}
    /\ outcome' = [c \in Callers |-> [i \in 1..Len(Plan(c)) |->
                     IF outcome[c][i] = "waiting" /\ Plan(c)[i].kind = "ICMP"
                     THEN "heard" ELSE outcome[c][i]]]
    /\ UNCHANGED <<world, pc, results, verdict>>

\* Mutant of IcmpOutcomes: a probe whose poll times out stays pending.
IcmpOutcomesPending(o) ==
    IF o = "heard" THEN {"passed", "failed", "error"} ELSE {"pending", "error"}

\* What an ICMP probe may end in: it polls its socket until the timeout, and
\* may be timed out before it sees what it holds.
IcmpOutcomes(o) ==
    IF o = "heard" THEN {"passed", "failed", "error"} ELSE {"failed", "error"}

\* What a TCP probe may end in: refused and timed out are failures, any other
\* error is none.
TcpOutcomes(port) ==
    IF port = "open" THEN {"passed", "failed", "error"}
    ELSE {"failed", "error"}

\* Mutant of UdpOutcomes: a timeout is a failure.
UdpOutcomesStrict(port) ==
    IF port = "replies" THEN {"passed", "failed", "error"}
    ELSE {"failed", "error"}

\* What a UDP probe may end in: a reply and a timeout are successes.
UdpOutcomes(port) ==
    IF port = "closed" THEN {"passed", "failed", "error"}
    ELSE {"passed", "error"}

Outcomes(c, i) ==
    LET p == Plan(c)[i] IN
    CASE p.kind = "ICMP" -> IcmpOutcomes(outcome[c][i])
      [] p.kind = "TCP" -> TcpOutcomes(Host(c).tcp[p.port])
      [] OTHER -> UdpOutcomes(Host(c).udp[p.port])

\* A probe returns.
Ends(c, i) ==
    /\ pc[c] = "probing"
    /\ outcome[c][i] \in {"waiting", "heard"}
    /\ \E o \in Outcomes(c, i) : outcome' = [outcome EXCEPT ![c][i] = o]
    /\ UNCHANGED <<world, pc, replies, results, verdict>>

\* The results in the order of the protocols, errors left out.
Collected(c) ==
    LET returned == [i \in 1..Len(Plan(c)) |->
                        [proto |-> Plan(c)[i], success |-> outcome[c][i] = "passed"]]
    IN  Pick(returned, {i \in 1..Len(Plan(c)) : outcome[c][i] # "error"})

\* join_all is complete: the results are collected and classified.
Join(c) ==
    /\ pc[c] = "probing"
    /\ \A i \in 1..Len(Plan(c)) : outcome[c][i] \in {"passed", "failed", "error"}
    /\ results' = [results EXCEPT ![c] = Collected(c)]
    /\ verdict' = [verdict EXCEPT ![c] = Classify(Collected(c))]
    /\ pc' = [pc EXCEPT ![c] = "done"]
    /\ UNCHANGED <<world, outcome, replies>>

Next ==
    \/ \E c \in Callers :
          \/ Resolve(c) \/ Refuse(c) \/ Join(c)
          \/ \E i \in 1..Len(Plan(c)) : Send(c, i) \/ SendFails(c, i) \/ Ends(c, i)
    \/ \E r \in replies : Deliver(r)

Spec == Init /\ [][Next]_vars

----------------------------------------------------------------------------
(* Properties.                                                              *)

\* Type invariant.
TypeOK ==
    /\ world \in Worlds
    /\ pc \in [Callers -> {"start", "probing", "done", "failed"}]
    /\ DOMAIN outcome = Callers
    /\ \A c \in Callers :
          outcome[c] \in [1..Len(Plan(c)) ->
            {"unsent", "waiting", "heard", "passed", "failed", "error"}]
    /\ replies \subseteq Callers \X Nat
    /\ results \in [Callers -> Seq([proto : Protocols, success : BOOLEAN])]
    /\ verdict \in [Callers -> [kind : {"Open", "IcmpFiltered",
                        "SelectiveFirewall", "Blocked", "TcpFiltered", "Unknown"},
                     open : Seq(PortSet), closed : Seq(PortSet)]]

\* Some host that this process probes with ICMP answers.
SomeEcho ==
    \E c \in Callers : Host(c).echo /\ \E i \in 1..Len(Plan(c)) : Plan(c)[i].kind = "ICMP"

Probed(c, kind) == {i \in 1..Len(results[c]) : results[c][i].proto.kind = kind}

\* What each verdict may be based on, whatever was lost or answered by
\* another host.  "Open" is true of every TCP port that gave a result;
\* "Blocked" takes a refusal by every UDP port that gave one, so a host that
\* answers nothing is never called blocked after a UDP probe; "ICMP filtered"
\* takes an open TCP port or any UDP port at all.
VerdictsHaveEvidence ==
    \A c \in Callers : pc[c] = "done" =>
        LET tcp(i) == Host(c).tcp[results[c][i].proto.port]
            udp(i) == Host(c).udp[results[c][i].proto.port]
            kind == verdict[c].kind
        IN  /\ kind = "Open" =>
                  SomeEcho /\ \A i \in Probed(c, "TCP") : tcp(i) = "open"
            /\ kind \in {"SelectiveFirewall", "TcpFiltered"} => SomeEcho
            /\ kind = "Blocked" => \A i \in Probed(c, "UDP") : udp(i) = "closed"
            /\ kind = "IcmpFiltered" =>
                  \/ Probed(c, "UDP") # {}
                  \/ \E i \in Probed(c, "TCP") : tcp(i) = "open"

Orders(rs) ==
    {[i \in 1..Len(rs) |-> rs[f[i]]] :
        f \in {g \in [1..Len(rs) -> 1..Len(rs)] :
                  \A i, j \in 1..Len(rs) : g[i] = g[j] => i = j}}

OneIcmp(rs) == Len(Of(rs, "ICMP")) <= 1
NoneTwice(rs) == \A i, j \in 1..Len(rs) : rs[i].proto = rs[j].proto => i = j

\* The verdict, the score and the fingerprints of a call agree: a path that is
\* open, or blocked, is consistent and its fingerprint shows no closed, or
\* open, port; and as the order of the protocols says nothing about the host,
\* neither verdict nor hash depends on it while each was probed once.
VerdictsAgree ==
    \A c \in Callers : pc[c] = "done" =>
        LET rs == results[c]
            kind == verdict[c].kind
        IN  /\ kind \in {"Open", "Blocked"} /\ OneIcmp(rs) =>
                  /\ \A wide \in BOOLEAN : Interpret(rs, wide) = "Direct"
                  /\ \A k \in {"TCP", "UDP"} :
                        <<>> = IF kind = "Open" THEN Fingerprint(rs).closed[k]
                               ELSE Fingerprint(rs).open[k]
            /\ \A qs \in Orders(rs) :
                  /\ Classify(qs).kind = kind
                  /\ NoneTwice(rs) => HashedAs(qs) = HashedAs(rs)

=============================================================================
