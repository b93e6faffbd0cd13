------------------------------ MODULE Divergence ------------------------------
(***************************************************************************)
(* divergence.rs, analyze_divergence: one round per TTL.  A round spawns   *)
(* one blocking task per entry of options.protocols, waits for all of      *)
(* them, books a DivergenceHop and goes on until every protocol has        *)
(* reached the target or max_hops is passed.                               *)
(*                                                                         *)
(* Every task listens on a raw ICMP socket of its own, and the kernel      *)
(* copies each ICMP packet that reaches the host to all of them.  A task   *)
(* takes the first packet it sees as the answer to its probe: nothing is   *)
(* compared with what it sent.  So a packet settles every task that is     *)
(* listening when it arrives, and it may answer another protocol's probe   *)
(* or one of an earlier round.                                             *)
(*                                                                         *)
(* A probe is <<i, t>>: entry i of options.protocols, sent with TTL t.  An *)
(* ICMP packet on the wire is named by the probe it answers; no packet     *)
(* that answers another program's probes reaches the host.                 *)
(***************************************************************************)
EXTENDS Integers, Sequences, FiniteSets

CONSTANTS
    Protocols,    \* options.protocols, a sequence; entries may repeat
    MaxHops,      \* options.max_hops
    Routes        \* the targets and the paths to them

ASSUME ProtocolsAssumption == Protocols \in Seq({"icmp", "tcp", "udp"})

ASSUME HopsAssumption == MaxHops \in Nat

Tasks == DOMAIN Protocols
Kinds == {Protocols[i] : i \in Tasks}

\* A router on the way may stop a protocol: router `by` stops its probes from
\* TTL `from` on, in silence or with a Destination Unreachable.  One that looks
\* at the TTL first lets the probes expire that end at it (from = by + 1).
ASSUME RoutesAssumption ==
    \A r \in Routes :
        /\ r.dist \in Nat \ {0}
        /\ r.verdict \in [Kinds -> {"accept", "drop", "reject"}]
        /\ DOMAIN r.filter \subseteq Kinds
        /\ \A p \in DOMAIN r.filter :
               /\ r.filter[p] \in [by : 1..(r.dist - 1), from : 1..r.dist,
                                   answer : {"none", "prohibited", "port"}]
               /\ r.filter[p].by <= r.filter[p].from

VARIABLES
    dist,         \* the target's distance; router t answers TTL t < dist
    verdict,      \* verdict[p]: what the target's host does with protocol p
    filter,       \* filter[p]: the router that stops protocol p, if there is one
    pc,
    status,       \* status[i]: the HopStatus of task i in this round
    wire,         \* probes whose ICMP answer is on its way to the host
    hops,
    first_divergence_hop,  \* 0 for None
    protocols_reached,
    lost          \* history: a probe failed, or timed out before its answer

path == <<dist, verdict, filter>>
vars == <<dist, verdict, filter, pc, status, wire, hops, first_divergence_hop,
          protocols_reached, lost>>

ttl == Len(hops) + 1

(* HopStatus; `addr` is the hop that sent the packet, 0 where there is none. *)
Status(st, addr) == [st |-> st, addr |-> addr]
Spawned == Status("spawned", 0)
Listening == Status("listening", 0)
Timeout == Status("timeout", 0)
Filtered == Status("filtered", 0)
Unreachable == Status("unreachable", 0)
Responded(addr) == Status("responded", addr)

IsSuccess(s) == s.st = "responded"
IsSettled(s) == s \notin {Spawned, Listening}

Init ==
    /\ \E r \in Routes :
           dist = r.dist /\ verdict = r.verdict /\ filter = r.filter
    /\ pc = IF MaxHops = 0 THEN "done" ELSE "round"
    /\ status = [i \in Tasks |-> Spawned]
    /\ wire = {}
    /\ hops = <<>>
    /\ first_divergence_hop = 0
    /\ protocols_reached = {}
    /\ lost = FALSE

----------------------------------------------------------------------------
(* What the path and the target send back.                                  *)

\* A router stops probes of protocol p that have TTL t.
Stopped(p, t) == p \in DOMAIN filter /\ t >= filter[p].from

\* What the target's host answers on ICMP.  One that accepts a SYN answers on
\* TCP, with SYN-ACK or RST, and sends no ICMP at all.
TargetAnswer(p) ==
    CASE verdict[p] = "drop" -> "none"
      [] verdict[p] = "reject" -> "prohibited"
      [] OTHER -> CASE p = "icmp" -> "reply"
                    [] p = "udp" -> "port"
                    [] OTHER -> "none"

\* The ICMP message that answers probe <<i, t>>, and the hop that sends it.
IcmpAnswer(i, t) ==
    IF Stopped(Protocols[i], t) THEN filter[Protocols[i]].answer
    ELSE IF t < dist THEN "exceeded"
    ELSE TargetAnswer(Protocols[i])

Sender(i, t) ==
    IF Stopped(Protocols[i], t) THEN filter[Protocols[i]].by
    ELSE IF t < dist THEN t
    ELSE dist

\* Mutant of StatusFrom: the hop is taken to be the one that was asked.
StatusFromTtl(i, m) == Responded(ttl)

\* Mutant of StatusFrom: for TCP, Time Exceeded is treated as unreachable.
StatusFromTcpStrict(i, m) ==
    LET kind == IcmpAnswer(m[1], m[2])
    IN IF \/ kind = "prohibited" \/ (kind = "port" /\ Protocols[i] # "udp")
          \/ kind = "exceeded" /\ Protocols[i] = "tcp"
       THEN Unreachable
       ELSE Responded(Sender(m[1], m[2]))

\* The three match statements on icmp_type: type 3 is Unreachable, except that
\* for UDP code 3 is an answer; everything else is an answer.
StatusFrom(i, m) ==
    LET kind == IcmpAnswer(m[1], m[2])
    IN IF kind = "prohibited" \/ (kind = "port" /\ Protocols[i] # "udp")
       THEN Unreachable
       ELSE Responded(Sender(m[1], m[2]))

----------------------------------------------------------------------------
(* The tasks of a round.                                                    *)

\* Mutant of ProbeTtl: hops counted from 0 in one place and from 1 in another.
ProbeTtlNext == ttl + 1

\* for ttl in 1..=options.max_hops
ProbeTtl == ttl

\* The sockets are opened and the probe is sent.
Launch(i) ==
    /\ pc = "round"
    /\ status[i] = Spawned
    /\ status' = [status EXCEPT ![i] = Listening]
    /\ wire' = IF IcmpAnswer(i, ProbeTtl) = "none" THEN wire
               ELSE wire \cup {<<i, ProbeTtl>>}
    /\ UNCHANGED <<path, pc, hops, first_divergence_hop, protocols_reached,
                   lost>>

\* A socket cannot be created, set up or written to, or the task dies: nothing
\* was sent.
LaunchFails(i) ==
    /\ pc = "round"
    /\ status[i] = Spawned
    /\ \E s \in {Filtered, Timeout} : status' = [status EXCEPT ![i] = s]
    /\ lost' = TRUE
    /\ UNCHANGED <<path, pc, wire, hops, first_divergence_hop,
                   protocols_reached>>

\* A packet reaches the host: every listening socket gets a copy.  If none is
\* listening it is gone.
Deliver(m) ==
    /\ pc = "round"
    /\ m \in wire
    /\ wire' = wire \ {m}
    /\ status' = [i \in Tasks |-> IF status[i] = Listening
                                  THEN StatusFrom(i, m) ELSE status[i]]
    /\ UNCHANGED <<path, pc, hops, first_divergence_hop, protocols_reached,
                   lost>>

\* Mutant of TimesOut: no read timeout is set, a task with no answer waits.
TimesOutIfLate(i) ==
    /\ pc = "round"
    /\ status[i] = Listening
    /\ <<i, ttl>> \in wire
    /\ status' = [status EXCEPT ![i] = Timeout]
    /\ lost' = TRUE
    /\ UNCHANGED <<path, pc, wire, hops, first_divergence_hop,
                   protocols_reached>>

\* recv_from times out.  The answer, if one was to come, may still be late; a
\* router that sends none, or a packet that is lost, is one late for ever.
TimesOut(i) ==
    /\ pc = "round"
    /\ status[i] = Listening
    /\ status' = [status EXCEPT ![i] = Timeout]
    /\ lost' = (lost \/ <<i, ttl>> \in wire)
    /\ UNCHANGED <<path, pc, wire, hops, first_divergence_hop,
                   protocols_reached>>

----------------------------------------------------------------------------
(* The end of a round.                                                      *)

Successes(results) == {p \in DOMAIN results : IsSuccess(results[p])}

\* agreement_score < 1.0
HasDivergence(results) ==
    Successes(results) # DOMAIN results /\ Successes(results) # {}

\* join_next has returned every task of the round.
AllSettled == \A i \in Tasks : IsSettled(status[i])

\* Mutant of Reaches: any answer counts, whoever sent it.
ReachesOnAnswer(s) == IsSuccess(s)

\* *addr == target_ip
Reaches(s) == s = Responded(dist)

\* protocols_reached.values().all(..)
AllReached(reached) == reached = Kinds

\* The first hop that diverges, 0 as long as there is none.
FirstDivergence(results) ==
    IF HasDivergence(results) /\ first_divergence_hop = 0
    THEN ttl ELSE first_divergence_hop

\* Results are inserted in the order the tasks end, so that of a repeated
\* protocol's entries any may stand; each of them can mark it as reached.
EndRound ==
    /\ pc = "round"
    /\ AllSettled
    /\ \E last \in [Kinds -> Tasks] :
        /\ \A p \in Kinds : Protocols[last[p]] = p
        /\ LET results == [p \in Kinds |-> status[last[p]]]
           IN /\ hops' = Append(hops, [results |-> results,
                                       has_divergence |-> HasDivergence(results)])
              /\ first_divergence_hop' = FirstDivergence(results)
    /\ protocols_reached' = protocols_reached \cup
         {Protocols[i] : i \in {j \in Tasks : Reaches(status[j])}}
    /\ pc' = IF AllReached(protocols_reached') \/ ttl = MaxHops
             THEN "done" ELSE "round"
    /\ status' = [i \in Tasks |-> Spawned]
    /\ UNCHANGED <<path, wire, lost>>

TaskStep(i) == Launch(i) \/ LaunchFails(i) \/ TimesOut(i)

Next ==
    \/ \E i \in Tasks : TaskStep(i)
    \/ \E m \in wire : Deliver(m)
    \/ EndRound

Spec == Init /\ [][Next]_vars

\* The blocking pool runs every task, every socket has a read timeout, and
\* the caller polls the JoinSet.
FairSpec ==
    Spec /\ WF_vars(EndRound) /\ \A i \in Tasks : WF_vars(TaskStep(i))

----------------------------------------------------------------------------
(* Properties.                                                              *)

HopStatuses ==
    {Spawned, Listening, Timeout, Filtered, Unreachable}
        \cup {Responded(a) : a \in 1..dist}

\* Type invariant.
TypeOK ==
    /\ \E r \in Routes :
           dist = r.dist /\ verdict = r.verdict /\ filter = r.filter
    /\ pc \in {"round", "done"}
    /\ status \in [Tasks -> HopStatuses]
    /\ wire \subseteq Tasks \X (1..MaxHops)
    /\ hops \in Seq([results : [Kinds -> HopStatuses], has_divergence : BOOLEAN])
    /\ Len(hops) <= MaxHops
    /\ first_divergence_hop \in 0..MaxHops
    /\ protocols_reached \subseteq Kinds
    /\ lost \in BOOLEAN

\* A late packet may put an earlier router at a later hop, never a later one
\* at an earlier hop: a round sends nothing before the round before it has
\* been joined.
NoHopFromAhead ==
    \A h \in DOMAIN hops : \A p \in Kinds : hops[h].results[p].addr <= h

\* However packets are mixed up between tasks and rounds, the target is
\* reported reached, and the trace cut short, only at or beyond its distance.
NeverStopsShort ==
    /\ protocols_reached # {} => Len(hops) >= dist
    /\ pc = "done" /\ Kinds # {} => Len(hops) >= dist \/ Len(hops) = MaxHops

\* Why protocol p was no success at hop h: it got no answer because a packet
\* was lost or a router drops p, or a router rejects some protocol.
Explained(p, h) ==
    LET s == hops[h].results[p]
    IN \/ /\ s \in {Timeout, Filtered}
          /\ lost \/ (Stopped(p, h) /\ filter[p].answer = "none")
       \/ /\ s = Unreachable
          /\ \E q \in Kinds : Stopped(q, h) /\ filter[q].answer # "none"

\* Before the target, protocols differ at a hop only because one was answered
\* and every other one that was not has a cause on the path, up to that hop:
\* the copies of each other's packets do not make a divergence.
DivergenceNeedsCause ==
    \A h \in DOMAIN hops :
        h < dist /\ hops[h].has_divergence =>
            /\ \E p, q \in Kinds : /\ IsSuccess(hops[h].results[p])
                                   /\ ~IsSuccess(hops[h].results[q])
            /\ \A p \in Kinds : ~IsSuccess(hops[h].results[p]) => Explained(p, h)

\* The analysis returns, whatever is lost.
AnalysisReturns == <>(pc = "done")

\* all_reached_destination is "Whether destination was reached by all
\* protocols": if the target takes every protocol, no router stops one, the
\* trace is long enough and nothing was lost, it is.
AcceptedIsReached ==
    pc = "done" /\ ~lost /\ dist <= MaxHops /\ DOMAIN filter = {}
      /\ (\A p \in Kinds : verdict[p] = "accept")
        => AllReached(protocols_reached)

=============================================================================
