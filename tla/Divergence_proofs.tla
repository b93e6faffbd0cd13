--------------------------- MODULE Divergence_proofs ---------------------------
(***************************************************************************)
(* Proofs about analyze_divergence, for every list of protocols, every     *)
(* max_hops and every set of targets and filtering paths: packets may      *)
(* settle tasks they were not meant for, but never make a hop of a router  *)
(* further on or a target reached too early, and a hop before the target   *)
(* diverges only where an answer is missing or a router filters.           *)
(***************************************************************************)
EXTENDS Divergence, TLAPS

Hop == [results : [Kinds -> HopStatuses], has_divergence : BOOLEAN]

(* What is on the wire answers a probe that was sent, and no round sends    *)
(* before the one before it has been booked.                                *)
WireIsAnswers ==
    \A m \in wire : m[2] <= ttl /\ IcmpAnswer(m[1], m[2]) # "none"

(* A task has heard of no router further away than its round's TTL.         *)
StatusNotAhead == \A i \in Tasks : status[i].addr <= ttl

(* Protocol p is stopped in silence, and some protocol is rejected, by a     *)
(* router no further than hop h.                                            *)
Dropped(p, h) == Stopped(p, h) /\ filter[p].answer = "none"
SomeRejected(h) == \E q \in Kinds : Stopped(q, h) /\ filter[q].answer # "none"

(* Before the target a listening task's answer is on the wire unless a       *)
(* router drops its protocol, and the same or a loss explains the silent     *)
(* ones; Unreachable takes a router that rejects.                            *)
StatusExplained ==
    ttl < dist =>
        \A i \in Tasks :
            /\ status[i] = Listening =>
                   <<i, ttl>> \in wire \/ Dropped(Protocols[i], ttl)
            /\ status[i] \in {Timeout, Filtered} =>
                   lost \/ Dropped(Protocols[i], ttl)
            /\ status[i] = Unreachable => SomeRejected(ttl)

(* The loop goes on exactly while the trace is short and someone is missing. *)
LoopBound ==
    /\ pc = "round" => Len(hops) < MaxHops
    /\ pc = "done" => Len(hops) = MaxHops \/ protocols_reached = Kinds

ReachedBeyond == protocols_reached # {} => Len(hops) >= dist

Inv ==
    /\ TypeOK
    /\ WireIsAnswers
    /\ StatusNotAhead
    /\ StatusExplained
    /\ LoopBound
    /\ NoHopFromAhead
    /\ ReachedBeyond
    /\ DivergenceNeedsCause

(* Taken apart: what a packet makes of a task, and what a round books.      *)

\* Each status is of its own kind; only a response has an address.
LEMMA StatusKinds ==
    /\ Spawned.st = "spawned" /\ Spawned.addr = 0
    /\ Listening.st = "listening" /\ Listening.addr = 0
    /\ Timeout.st = "timeout" /\ Timeout.addr = 0
    /\ Filtered.st = "filtered" /\ Filtered.addr = 0
    /\ Unreachable.st = "unreachable" /\ Unreachable.addr = 0
    /\ \A a : Responded(a).st = "responded" /\ Responded(a).addr = a
BY DEF Spawned, Listening, Timeout, Filtered, Unreachable, Responded, Status

\* A router that stops a protocol lies before the target and stops nothing that
\* expires before it.
LEMMA RouteFacts ==
    ASSUME TypeOK
    PROVE  /\ dist \in Nat \ {0}
           /\ \A p \in DOMAIN filter :
                  /\ p \in Kinds
                  /\ filter[p].by \in 1..(dist - 1)
                  /\ filter[p].from \in 1..dist
                  /\ filter[p].by <= filter[p].from
<1>1. PICK r \in Routes : dist = r.dist /\ filter = r.filter
  BY DEF TypeOK
<1>2. /\ r.dist \in Nat \ {0} /\ DOMAIN r.filter \subseteq Kinds
      /\ \A p \in DOMAIN r.filter :
             /\ r.filter[p] \in [by : 1..(r.dist - 1), from : 1..r.dist,
                                 answer : {"none", "prohibited", "port"}]
             /\ r.filter[p].by <= r.filter[p].from
  BY RoutesAssumption
<1>3. ASSUME NEW p \in DOMAIN r.filter
      PROVE  /\ r.filter[p].by \in 1..(r.dist - 1)
             /\ r.filter[p].from \in 1..r.dist
  BY <1>2
<1> QED
  BY <1>1, <1>2, <1>3

\* What a packet makes of a task: a settled status, of a router no further than
\* the round's TTL.
LEMMA StatusFromSound ==
    ASSUME TypeOK, WireIsAnswers, NEW i \in Tasks, NEW m \in wire
    PROVE  /\ StatusFrom(i, m) \in HopStatuses
           /\ StatusFrom(i, m).addr <= ttl
           /\ IsSettled(StatusFrom(i, m))
           /\ StatusFrom(i, m) \notin {Timeout, Filtered}
           /\ ttl < dist /\ StatusFrom(i, m) = Unreachable => SomeRejected(ttl)
<1> DEFINE t == m[2]
           q == Protocols[m[1]]
           from == Sender(m[1], t)
<1>1. /\ dist \in Nat \ {0} /\ Len(hops) \in Nat /\ ttl \in Nat
      /\ t \in Nat \ {0} /\ t <= ttl
      /\ q \in Kinds
  BY RouteFacts, HopsAssumption DEF TypeOK, WireIsAnswers, ttl, Kinds
<1>2. from \in 1..dist /\ from <= t
  <2>1. CASE Stopped(q, t)
    <3>1. from = filter[q].by /\ q \in DOMAIN filter /\ t >= filter[q].from
      BY <2>1 DEF Sender, Stopped
    <3> QED
      BY <1>1, <3>1, RouteFacts
  <2>2. CASE ~Stopped(q, t)
    BY <1>1, <2>2 DEF Sender
  <2> QED
    BY <2>1, <2>2
<1> HIDE DEF from
<1>3. \/ StatusFrom(i, m) = Unreachable
      \/ StatusFrom(i, m) = Responded(from)
  BY DEF StatusFrom, from
<1>4. ASSUME ttl < dist, StatusFrom(i, m) = Unreachable
      PROVE  SomeRejected(ttl)
  <2>1. IcmpAnswer(m[1], t) \in {"prohibited", "port"}
    BY <1>4, StatusKinds DEF StatusFrom
  <2>2. Stopped(q, t)
    BY <1>1, <1>4, <2>1 DEF IcmpAnswer
  <2>3. filter[q].answer # "none"
    BY <2>1, <2>2 DEF IcmpAnswer
  <2>4. Stopped(q, ttl)
    BY <1>1, <2>2, RouteFacts DEF Stopped
  <2> QED
    BY <1>1, <2>3, <2>4 DEF SomeRejected
<1>5. Unreachable \in HopStatuses /\ Responded(from) \in HopStatuses
  BY <1>2 DEF HopStatuses
<1>6. /\ StatusFrom(i, m) \in HopStatuses
      /\ StatusFrom(i, m).addr <= ttl
      /\ StatusFrom(i, m).st \in {"unreachable", "responded"}
  BY <1>1, <1>2, <1>3, <1>5, StatusKinds
<1> QED
  BY <1>4, <1>6, StatusKinds DEF IsSettled

(* Init                                                                     *)

\* The invariant holds before the first round.
LEMMA InitInv == Init => Inv
<1> SUFFICES ASSUME Init PROVE Inv
  OBVIOUS
<1>1. /\ MaxHops \in Nat /\ ttl = 1 /\ Len(hops) = 0 /\ DOMAIN hops = {}
      /\ dist \in Nat
  BY HopsAssumption, RoutesAssumption DEF Init, ttl
<1>2. TypeOK
  <2>1. status \in [Tasks -> HopStatuses]
    BY DEF Init, HopStatuses
  <2>2. hops \in Seq(Hop)
    BY DEF Init
  <2>3. hops \in Seq([results : [Kinds -> HopStatuses], has_divergence : BOOLEAN])
    BY <2>2 DEF Hop
  <2>4. /\ wire \subseteq Tasks \X (1..MaxHops)
        /\ protocols_reached \subseteq Kinds
        /\ Len(hops) <= MaxHops /\ first_divergence_hop \in 0..MaxHops
    BY <1>1 DEF Init
  <2> QED
    BY <2>1, <2>3, <2>4 DEF TypeOK, Init
<1>3. \A i \in Tasks : status[i] = Spawned
  BY DEF Init
<1>4. StatusNotAhead /\ StatusExplained
  BY <1>1, <1>3, StatusKinds DEF StatusNotAhead, StatusExplained
<1>5. WireIsAnswers /\ LoopBound /\ ReachedBeyond
  BY <1>1 DEF Init, WireIsAnswers, LoopBound, ReachedBeyond
<1>6. NoHopFromAhead /\ DivergenceNeedsCause
  BY <1>1 DEF NoHopFromAhead, DivergenceNeedsCause
<1> QED
  BY <1>2, <1>4, <1>5, <1>6 DEF Inv

(* A task's steps leave the trace alone; what they must show is about the   *)
(* tasks and the wire.                                                      *)

\* A step of a task keeps the invariant if it keeps its parts about tasks and
\* wire.
LEMMA InRound ==
    ASSUME Inv, UNCHANGED <<path, pc, hops, first_divergence_hop,
                            protocols_reached>>,
           status' \in [Tasks -> HopStatuses],
           wire' \subseteq Tasks \X (1..MaxHops),
           lost' \in BOOLEAN, lost => lost',
           WireIsAnswers', StatusNotAhead', StatusExplained'
    PROVE  Inv'
<1>1. /\ dist' = dist /\ verdict' = verdict /\ filter' = filter
      /\ pc' = pc /\ hops' = hops
      /\ first_divergence_hop' = first_divergence_hop
      /\ protocols_reached' = protocols_reached
  BY DEF path
<1>2. HopStatuses' = HopStatuses
  BY <1>1 DEF HopStatuses
<1>3. TypeOK'
  BY <1>1, <1>2 DEF Inv, TypeOK
<1>4. LoopBound' /\ ReachedBeyond'
  BY <1>1 DEF Inv, LoopBound, ReachedBeyond
<1>5. NoHopFromAhead'
  BY <1>1 DEF Inv, NoHopFromAhead
<1>6. DivergenceNeedsCause'
  BY <1>1 DEF Inv, DivergenceNeedsCause, Explained, Stopped
<1> QED
  BY <1>3, <1>4, <1>5, <1>6 DEF Inv

\* What depends on the path only.
LEMMA PathKept ==
    ASSUME UNCHANGED path
    PROVE  /\ dist' = dist /\ verdict' = verdict /\ filter' = filter
           /\ HopStatuses' = HopStatuses
           /\ \A j, t : IcmpAnswer(j, t)' = IcmpAnswer(j, t)
           /\ \A p, t : Dropped(p, t)' = Dropped(p, t)
           /\ \A p, t : Stopped(p, t)' = Stopped(p, t)
           /\ \A t : SomeRejected(t)' = SomeRejected(t)
<1>1. dist' = dist /\ verdict' = verdict /\ filter' = filter
  BY DEF path
<1> QED
  BY <1>1 DEF HopStatuses, IcmpAnswer, TargetAnswer, Stopped, Dropped, SomeRejected

\* A task sends its probe.
LEMMA LaunchInv ==
    ASSUME Inv, NEW i \in Tasks, Launch(i)
    PROVE  Inv'
<1> USE PathKept DEF Launch
<1>1. ttl' = ttl
  BY DEF ttl
<1>2. /\ Len(hops) \in Nat /\ MaxHops \in Nat /\ ttl \in 1..MaxHops
      /\ dist \in Nat
  BY HopsAssumption, RouteFacts DEF Inv, TypeOK, LoopBound, ttl
<1>3. status' = [status EXCEPT ![i] = Listening]
  BY DEF Launch
<1>4. /\ status \in [Tasks -> HopStatuses]
      /\ status' \in [Tasks -> HopStatuses]
  <2>1. Listening \in HopStatuses
    BY DEF HopStatuses
  <2> QED
    BY <1>3, <2>1 DEF Inv, TypeOK
<1>5. wire' \subseteq Tasks \X (1..MaxHops) /\ wire \subseteq wire'
  BY <1>2 DEF Launch, Inv, TypeOK, ProbeTtl
<1>6. WireIsAnswers'
  <2> SUFFICES ASSUME NEW m \in wire'
               PROVE  m[2] <= ttl /\ IcmpAnswer(m[1], m[2]) # "none"
    BY <1>1 DEF WireIsAnswers
  <2>1. CASE m \in wire
    BY <2>1 DEF Inv, WireIsAnswers
  <2>2. CASE m \notin wire
    <3>1. m = <<i, ttl>> /\ IcmpAnswer(i, ttl) # "none"
      BY <2>2 DEF Launch, ProbeTtl
    <3> QED
      BY <3>1, <1>2
  <2> QED
    BY <2>1, <2>2
<1>7. StatusNotAhead'
  BY <1>1, <1>2, <1>3, <1>4, StatusKinds DEF Inv, StatusNotAhead
<1>8. StatusExplained'
  <2> SUFFICES ASSUME ttl < dist, NEW j \in Tasks
               PROVE  /\ status'[j] = Listening =>
                             <<j, ttl>> \in wire' \/ Dropped(Protocols[j], ttl)
                      /\ status'[j] \in {Timeout, Filtered} =>
                             lost' \/ Dropped(Protocols[j], ttl)
                      /\ status'[j] = Unreachable => SomeRejected(ttl)
    BY <1>1 DEF StatusExplained
  <2>1. CASE j = i
    <3>1. IcmpAnswer(i, ttl) = "none" => Dropped(Protocols[i], ttl)
      BY DEF IcmpAnswer, Dropped
    <3>2. <<i, ttl>> \in wire' \/ Dropped(Protocols[i], ttl)
      BY <3>1 DEF ProbeTtl
    <3> QED
      BY <1>3, <1>4, <2>1, <3>2, StatusKinds
  <2>2. CASE j # i
    <3>1. status'[j] = status[j]
      BY <1>3, <1>4, <2>2
    <3> QED
      BY <1>5, <3>1 DEF Inv, StatusExplained, Launch
  <2> QED
    BY <2>1, <2>2
<1> QED
  BY <1>4, <1>5, <1>6, <1>7, <1>8, InRound DEF Launch, Inv, TypeOK

\* A task cannot send its probe.
LEMMA LaunchFailsInv ==
    ASSUME Inv, NEW i \in Tasks, LaunchFails(i)
    PROVE  Inv'
<1> USE PathKept
<1>1. ttl' = ttl /\ wire' = wire /\ lost' = TRUE /\ UNCHANGED path
  BY DEF LaunchFails, ttl
<1>2. Len(hops) \in Nat /\ ttl \in Nat
  BY DEF Inv, TypeOK, ttl
<1>3. PICK s \in {Filtered, Timeout} : status' = [status EXCEPT ![i] = s]
  BY DEF LaunchFails
<1>4. /\ status \in [Tasks -> HopStatuses]
      /\ status' \in [Tasks -> HopStatuses]
  <2>1. s \in HopStatuses
    BY <1>3 DEF HopStatuses
  <2> QED
    BY <1>3, <2>1 DEF Inv, TypeOK
<1>5. WireIsAnswers'
  BY <1>1 DEF Inv, WireIsAnswers
<1>6. StatusNotAhead'
  BY <1>1, <1>2, <1>3, <1>4, StatusKinds DEF Inv, StatusNotAhead
<1>7. StatusExplained'
  BY <1>1, <1>3, <1>4, StatusKinds DEF Inv, StatusExplained
<1> QED
  BY <1>1, <1>4, <1>5, <1>6, <1>7, InRound DEF LaunchFails, Inv, TypeOK

\* A task gives up waiting.
LEMMA TimesOutInv ==
    ASSUME Inv, NEW i \in Tasks, TimesOut(i)
    PROVE  Inv'
<1> USE PathKept
<1>1. /\ ttl' = ttl /\ wire' = wire /\ UNCHANGED path
      /\ lost' = (lost \/ <<i, ttl>> \in wire)
  BY DEF TimesOut, ttl
<1>2. Len(hops) \in Nat /\ ttl \in Nat
  BY DEF Inv, TypeOK, ttl
<1>3. status[i] = Listening /\ status' = [status EXCEPT ![i] = Timeout]
  BY DEF TimesOut
<1>4. /\ status \in [Tasks -> HopStatuses]
      /\ status' \in [Tasks -> HopStatuses]
  <2>1. Timeout \in HopStatuses
    BY DEF HopStatuses
  <2> QED
    BY <1>3, <2>1 DEF Inv, TypeOK
<1>5. WireIsAnswers'
  BY <1>1 DEF Inv, WireIsAnswers
<1>6. StatusNotAhead'
  BY <1>1, <1>2, <1>3, <1>4, StatusKinds DEF Inv, StatusNotAhead
<1>7. StatusExplained'
  <2> SUFFICES ASSUME ttl < dist, NEW j \in Tasks
               PROVE  /\ status'[j] = Listening =>
                             <<j, ttl>> \in wire' \/ Dropped(Protocols[j], ttl)
                      /\ status'[j] \in {Timeout, Filtered} =>
                             lost' \/ Dropped(Protocols[j], ttl)
                      /\ status'[j] = Unreachable => SomeRejected(ttl)
    BY <1>1 DEF StatusExplained
  <2>1. /\ status[j] = Listening =>
               <<j, ttl>> \in wire \/ Dropped(Protocols[j], ttl)
        /\ status[j] \in {Timeout, Filtered} =>
               lost \/ Dropped(Protocols[j], ttl)
        /\ status[j] = Unreachable => SomeRejected(ttl)
    BY DEF Inv, StatusExplained
  <2>2. CASE j = i
    <3>1. status'[j] = Timeout
      BY <1>3, <1>4, <2>2
    <3>2. lost' \/ Dropped(Protocols[j], ttl)
      BY <1>1, <1>3, <2>1, <2>2
    <3> QED
      BY <3>1, <3>2, StatusKinds
  <2>3. CASE j # i
    <3>1. status'[j] = status[j]
      BY <1>3, <1>4, <2>3
    <3> QED
      BY <1>1, <2>1, <3>1
  <2> QED
    BY <2>2, <2>3
<1>8. lost \in BOOLEAN /\ lost' \in BOOLEAN /\ (lost => lost')
  BY <1>1 DEF Inv, TypeOK
<1> QED
  BY <1>1, <1>4, <1>5, <1>6, <1>7, <1>8, InRound DEF TimesOut, Inv, TypeOK

\* A packet reaches every task that listens.
LEMMA DeliverInv ==
    ASSUME Inv, NEW m \in wire, Deliver(m)
    PROVE  Inv'
<1> USE PathKept
<1>1. ttl' = ttl /\ lost' = lost /\ wire' = wire \ {m} /\ UNCHANGED path
  BY DEF Deliver, ttl
<1>2. \A j \in Tasks :
        status'[j] = IF status[j] = Listening
                     THEN StatusFrom(j, m) ELSE status[j]
  BY DEF Deliver
<1>3. \A j \in Tasks :
        /\ StatusFrom(j, m) \in HopStatuses
        /\ StatusFrom(j, m).addr <= ttl
        /\ IsSettled(StatusFrom(j, m))
        /\ StatusFrom(j, m) \notin {Timeout, Filtered}
        /\ ttl < dist /\ StatusFrom(j, m) = Unreachable => SomeRejected(ttl)
  BY StatusFromSound DEF Inv
<1>4. status' \in [Tasks -> HopStatuses]
  BY <1>3 DEF Deliver, Inv, TypeOK
<1>5. WireIsAnswers'
  BY <1>1 DEF Inv, WireIsAnswers
<1>6. StatusNotAhead'
  BY <1>1, <1>2, <1>3 DEF Inv, StatusNotAhead
<1>7. StatusExplained'
  BY <1>1, <1>2, <1>3 DEF Inv, StatusExplained, IsSettled
<1> QED
  BY <1>1, <1>4, <1>5, <1>6, <1>7, InRound DEF Deliver, Inv, TypeOK

(* The end of a round.                                                      *)

\* The round is joined and booked as a hop.
LEMMA EndRoundInv ==
    ASSUME Inv, EndRound
    PROVE  Inv'
<1>1. PICK last \in [Kinds -> Tasks] :
        /\ \A p \in Kinds : Protocols[last[p]] = p
        /\ LET results == [p \in Kinds |-> status[last[p]]]
           IN /\ hops' = Append(hops, [results |-> results,
                                       has_divergence |-> HasDivergence(results)])
              /\ first_divergence_hop' = FirstDivergence(results)
  BY DEF EndRound
<1> DEFINE results == [p \in Kinds |-> status[last[p]]]
           hop == [results |-> results, has_divergence |-> HasDivergence(results)]
<1>2. /\ wire' = wire /\ lost' = lost
      /\ status' = [i \in Tasks |-> Spawned]
      /\ UNCHANGED path /\ dist' = dist /\ verdict' = verdict /\ filter' = filter
      /\ \A j, t : IcmpAnswer(j, t)' = IcmpAnswer(j, t)
      /\ \A q, t : Stopped(q, t)' = Stopped(q, t)
      /\ HopStatuses' = HopStatuses
  BY PathKept DEF EndRound
<1>3. /\ hops \in Seq(Hop) /\ Len(hops) \in Nat /\ MaxHops \in Nat
      /\ ttl = Len(hops) + 1 /\ ttl <= MaxHops /\ dist \in Nat \ {0}
      /\ status \in [Tasks -> HopStatuses] /\ lost \in BOOLEAN
  BY HopsAssumption, RouteFacts DEF Inv, TypeOK, LoopBound, EndRound, ttl, Hop
<1>4. hop \in Hop
  BY <1>3 DEF Hop, HasDivergence
<1>5. /\ hops' = Append(hops, hop) /\ hops' \in Seq(Hop)
      /\ Len(hops') = ttl
      /\ hops'[ttl] = hop
      /\ \A h \in DOMAIN hops' : h # ttl => h \in DOMAIN hops /\ hops'[h] = hops[h]
      /\ \A h \in DOMAIN hops' : h \in 1..ttl
  <2>1. hops' = Append(hops, hop)
    BY <1>1
  <2> HIDE DEF hop
  <2> QED
    BY <1>3, <1>4, <2>1
<1>6. TypeOK'
  <2>1. first_divergence_hop' \in 0..MaxHops
    BY <1>1, <1>3 DEF FirstDivergence, Inv, TypeOK
  <2>2. protocols_reached' \subseteq Kinds
    BY DEF EndRound, Inv, TypeOK, Kinds
  <2>3. pc' \in {"round", "done"}
    BY DEF EndRound
  <2>4. status' \in [Tasks -> HopStatuses]
    BY <1>2 DEF HopStatuses
  <2>5. hops' \in Seq([results : [Kinds -> HopStatuses], has_divergence : BOOLEAN])
    BY <1>5 DEF Hop
  <2> QED
    BY <1>2, <1>3, <1>5, <2>1, <2>2, <2>3, <2>4, <2>5 DEF Inv, TypeOK
<1>7. WireIsAnswers'
  BY <1>2, <1>3, <1>5 DEF Inv, WireIsAnswers, TypeOK, ttl
<1>8. StatusNotAhead' /\ StatusExplained'
  BY <1>2, <1>3, <1>5, StatusKinds DEF StatusNotAhead, StatusExplained, ttl
<1>9. LoopBound'
  BY <1>3, <1>5 DEF EndRound, LoopBound, AllReached
<1>10. NoHopFromAhead'
  <2> SUFFICES ASSUME NEW h \in DOMAIN hops', NEW p \in Kinds
               PROVE  hops'[h].results[p].addr <= h
    BY DEF NoHopFromAhead
  <2>1. CASE h = ttl
    BY <1>5, <2>1 DEF Inv, StatusNotAhead
  <2>2. CASE h # ttl
    BY <1>5, <2>2 DEF Inv, NoHopFromAhead
  <2> QED
    BY <2>1, <2>2
<1>11. ReachedBeyond'
  <2> SUFFICES ASSUME protocols_reached' # {}
               PROVE  ttl >= dist
    BY <1>2, <1>5 DEF ReachedBeyond
  <2>1. CASE protocols_reached # {}
    BY <1>3, <2>1 DEF Inv, ReachedBeyond
  <2>2. CASE protocols_reached = {}
    <3>1. PICK j \in Tasks : Reaches(status[j])
      BY <2>2 DEF EndRound
    <3>2. status[j].addr = dist /\ status[j].addr <= ttl
      BY <3>1, StatusKinds DEF Reaches, Inv, StatusNotAhead
    <3> QED
      BY <1>3, <3>2
  <2> QED
    BY <2>1, <2>2
<1>12. DivergenceNeedsCause'
  <2> SUFFICES ASSUME NEW h \in DOMAIN hops', h < dist, hops'[h].has_divergence
               PROVE  /\ \E p, q \in Kinds :
                             /\ IsSuccess(hops'[h].results[p])
                             /\ ~IsSuccess(hops'[h].results[q])
                      /\ \A p \in Kinds : ~IsSuccess(hops'[h].results[p])
                                             => Explained(p, h)'
    BY <1>2 DEF DivergenceNeedsCause, IsSuccess
  <2>1. CASE h # ttl
    <3>1. h \in DOMAIN hops /\ hops'[h] = hops[h]
      BY <1>5, <2>1
    <3>2. \A p \in Kinds : Explained(p, h) => Explained(p, h)'
      BY <1>2, <3>1 DEF Explained
    <3> QED
      BY <3>1, <3>2 DEF Inv, DivergenceNeedsCause
  <2>2. CASE h = ttl
    <3>1. HasDivergence(results) /\ hops'[h].results = results
      BY <1>5, <2>2
    <3>2. \E p, q \in Kinds : IsSuccess(results[p]) /\ ~IsSuccess(results[q])
      BY <3>1 DEF HasDivergence, Successes
    <3>3. ASSUME NEW p \in Kinds, ~IsSuccess(results[p])
          PROVE  Explained(p, h)'
      <4> DEFINE s == results[p]
      <4>1. /\ s = status[last[p]] /\ last[p] \in Tasks
            /\ Protocols[last[p]] = p
            /\ IsSettled(s) /\ s \in HopStatuses
        BY <1>1, <1>3 DEF EndRound, AllSettled
      <4>2. s \in {Timeout, Filtered, Unreachable}
        BY <3>3, <4>1, StatusKinds DEF HopStatuses, IsSettled, IsSuccess
      <4>3. /\ s \in {Timeout, Filtered} => lost \/ Dropped(p, h)
            /\ s = Unreachable => SomeRejected(h)
        BY <1>3, <2>2, <4>1 DEF Inv, StatusExplained
      <4>4. hops'[h].results[p] = s
        BY <3>1
      <4> HIDE DEF s, results
      <4> QED
        BY <1>2, <4>2, <4>3, <4>4 DEF Explained, Dropped, SomeRejected
    <3> QED
      BY <3>1, <3>2, <3>3
  <2> QED
    BY <2>1, <2>2
<1> QED
  BY <1>6, <1>7, <1>8, <1>9, <1>10, <1>11, <1>12 DEF Inv

\* Every step keeps the invariant.
LEMMA NextInv == Inv /\ [Next]_vars => Inv'
<1> SUFFICES ASSUME Inv, [Next]_vars PROVE Inv'
  OBVIOUS
<1>1. ASSUME NEW i \in Tasks, TaskStep(i) PROVE Inv'
  BY <1>1, LaunchInv, LaunchFailsInv, TimesOutInv DEF TaskStep
<1>2. ASSUME NEW m \in wire, Deliver(m) PROVE Inv'
  BY <1>2, DeliverInv
<1>3. CASE EndRound
  BY <1>3, EndRoundInv
<1>4. CASE UNCHANGED vars
  <2>1. /\ UNCHANGED <<path, pc, hops, first_divergence_hop,
                       protocols_reached>>
        /\ status' = status /\ wire' = wire /\ lost' = lost /\ ttl' = ttl
    BY <1>4 DEF vars, path, ttl
  <2>2. WireIsAnswers' /\ StatusNotAhead' /\ StatusExplained'
    BY <2>1, PathKept DEF Inv, WireIsAnswers, StatusNotAhead, StatusExplained
  <2> QED
    BY <2>1, <2>2, InRound DEF Inv, TypeOK
<1> QED
  BY <1>1, <1>2, <1>3, <1>4 DEF Next

\* The invariant holds in every reachable state.
THEOREM Invariance == Spec => []Inv
BY InitInv, NextInv, PTL DEF Spec

(* Whatever the list of protocols, every variable keeps its type: hop       *)
(* addresses lie on the path, and no round is started beyond max_hops.      *)
THEOREM TypeCorrect == Spec => []TypeOK
<1>1. Inv => TypeOK
  BY DEF Inv
<1> QED
  BY <1>1, Invariance, PTL

(* A late packet never puts a router at a hop before its own: rounds are    *)
(* joined before the next TTL is sent (divergence.rs:283).                  *)
THEOREM NothingFromAhead == Spec => []NoHopFromAhead
<1>1. Inv => NoHopFromAhead
  BY DEF Inv
<1> QED
  BY <1>1, Invariance, PTL

(* The trace is cut short only at or beyond the target, whichever task's    *)
(* packet made it reached (divergence.rs:305).                              *)
THEOREM StopsAtTheTarget == Spec => []NeverStopsShort
<1>1. Inv => NeverStopsShort
  BY DEF Inv, NeverStopsShort, ReachedBeyond, LoopBound
<1> QED
  BY <1>1, Invariance, PTL

(* Before the target a divergence needs a cause up to that hop: a loss or a  *)
(* router that drops for each silent protocol, a router that rejects for     *)
(* each Unreachable one.  The copies every socket gets of every packet       *)
(* cannot make one, nor can a protocol that is listed twice.                 *)
THEOREM DivergenceIsCaused == Spec => []DivergenceNeedsCause
<1>1. Inv => DivergenceNeedsCause
  BY DEF Inv
<1> QED
  BY <1>1, Invariance, PTL

=============================================================================
