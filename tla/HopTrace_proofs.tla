---------------------------- MODULE HopTrace_proofs ----------------------------
(***************************************************************************)
(* Proofs about the hop-by-hop traces, for any network, any calls at once  *)
(* and any number of answers lost, late or on their way.                   *)
(*                                                                         *)
(* Two facts carry them.  While every probe of an undisturbed call has     *)
(* been answered, whatever is on its way to the host answers its present   *)
(* probe (Quiet).  And even when some have not, what is on its way in a    *)
(* first trace answers a probe with a TTL no larger than the present one   *)
(* (Late): a late answer makes a hop of a router that is nearer.           *)
(*                                                                         *)
(* What the test for load balancing says is carried by BalInv: while every *)
(* probe was answered, the hops of each trace follow the routes without a  *)
(* gap (TracesWhole), and the addresses the test has collected are those   *)
(* of the flows tested so far at the hop tested (AddrsAreOfFlows).         *)
(***************************************************************************)
EXTENDS HopTrace, Lists_proofs, TLAPS

Places == {"start", "send", "open", "recv", "done", "failed"}
Lbs == [on : BOOLEAN, addrs : SUBSET (Addrs \cup {None}), tried : 0..LbFlows,
        verdict : {"None", "PerFlow", "Unknown"}]

(* A trace is in progress, and not the test for load balancing.             *)
Trial(p) == pc[p] \in {"start", "send", "open", "recv"} /\ ~lb[p].on

Pending(p) == wire \cup {queue[p][i] : i \in 1..Len(queue[p])}

Answered(p) == ~Unanswered(hops[p]) /\ ~SomeUnanswered(paths[p])

FitsNow(p, a) == \E f \in TraceFlows(p) : a.addr = Node(Target(p), f, Ttl(p))

Quiet(p) ==
    Undisturbed(p) /\ Trial(p) /\ Answered(p) =>
        /\ pc[p] \in {"start", "send"} => wire = {}
        /\ queue[p] # <<>> => wire = {}
        /\ \A a, b \in wire : a = b
        /\ \A a \in Pending(p) : FitsNow(p, a)

(* A packet from no further away than distance k that says Destination      *)
(* Unreachable or Echo Reply comes from a filter or the target.             *)
FromWithin(p, a, k) ==
    /\ \E f \in TraceFlows(p) : \E j \in 1..k : a.addr = Node(Target(p), f, j)
    /\ a.type \in {0, 3} => a.addr \in Filters \cup Targets

Late(p) ==
    Undisturbed(p) /\ Trial(p) /\ flow[p] = 0 =>
        \A a \in Pending(p) : FromWithin(p, a, Ttl(p))

IdleDone == \A p \in Tracers : Idle(p) => pc[p] = "done"
ClosedEmpty ==
    \A p \in Tracers :
        /\ pc[p] # "recv" => queue[p] = <<>>
        /\ pc[p] = "start" => hops[p] = <<>>
TestsWhenAsked ==
    \A p \in Tracers :
        /\ lb[p].on \/ pc[p] # "done" => lb[p].tried < LbFlows
        /\ lb[p].on => scene.call[p].detect /\ TestTtl(hops[p]) >= 3

(* The two properties, hop by hop.                                          *)
HopExplained(p, hs, k) ==
    \/ hs[k].addr = None
    \/ \E f \in TraceFlows(p) : hs[k].addr = Node(Target(p), f, k)
    \/ \E j \in 1..k - 1 : hs[j].addr = None
    \/ SomeUnanswered(paths[p])

ReachExplained(p, hs, k) ==
    Reached(p, hs[k]) =>
        \/ hs[k].addr \in Filters
        \/ \E f \in TraceFlows(p) : k > Len(Route[Target(p)][f])

HopsExplained(p) ==
    Undisturbed(p) =>
        \A k \in 1..Len(hops[p]) :
            /\ HopExplained(p, hops[p], k)
            /\ flow[p] = 0 => ReachExplained(p, hops[p], k)

Inv ==
    /\ TypeOK
    /\ IdleDone
    /\ ClosedEmpty
    /\ TestsWhenAsked
    /\ \A p \in Tracers : Quiet(p) /\ Late(p) /\ HopsExplained(p)

----------------------------------------------------------------------------
(* The network.                                                             *)

\* What the scene says of a call.
LEMMA CallFacts ==
    ASSUME TypeOK, NEW p \in Tracers
    PROVE  /\ scene.call[p] \in Calls
           /\ scene.call[p].flows \in 1..NumFlows
           /\ scene.call[p].detect => scene.call[p].flows = 1
           /\ scene.call[p].mode = "classic" => ~scene.call[p].detect
           /\ Target(p) \in Targets
           /\ NumFlows \in Nat \ {0} /\ LbFlows \in 1..NumFlows
           /\ flow[p] \in Flows
<1>1. scene \in [call : [Tracers -> Calls], target : [Tracers -> Targets],
                 linux : BOOLEAN, raw : BOOLEAN]
  BY OptionsAssumption DEF TypeOK
<1>2. scene.call[p] \in Calls /\ scene.target[p] \in Targets
  BY <1>1
<1>3. flow[p] \in Flows
  BY DEF TypeOK
<1> QED
  BY <1>2, <1>3, NetworkAssumption, OptionsAssumption DEF Calls, Target

\* The node at a distance on a route.
LEMMA NodeIs ==
    ASSUME NEW t \in Targets, NEW f \in Flows, NEW k \in Nat \ {0}
    PROVE  /\ Node(t, f, k) \in Addrs
           /\ Node(t, f, k) \in Targets => k > Len(Route[t][f])
           /\ Len(Route[t][f]) \in Nat
<1>1. Route[t][f] \in Seq(Routers) /\ Targets \cap Routers = {}
  BY NetworkAssumption
<1>2. CASE k <= Len(Route[t][f])
  <2>1. Route[t][f][k] \in Routers
    BY <1>1, <1>2
  <2> QED
    BY <1>1, <1>2, <2>1 DEF Node, Addrs
<1>3. CASE ~(k <= Len(Route[t][f]))
  BY <1>1, <1>3 DEF Node, Addrs
<1> QED
  BY <1>2, <1>3

\* The TTL of a probe and the flows it may be sent on.
LEMMA Asks ==
    ASSUME TypeOK, TestsWhenAsked, NEW p \in Tracers
    PROVE  /\ Ttl(p) \in Nat \ {0}
           /\ Asked(p) \in Flows
           /\ TimeoutHop(p) \in Hop
           /\ \A a \in Addrs, type \in {0, 3, 11} : AnsweredHop(p, a, type) \in Hop
<1>1. /\ lb[p] \in Lbs /\ hops[p] \in Seq(Hop) /\ flow[p] \in Flows
      /\ LbFlows \in 1..NumFlows /\ NumFlows \in Nat
  BY CallFacts DEF TypeOK, Lbs
<1>2. Asked(p) \in Flows
  BY <1>1 DEF Asked, TestsWhenAsked, Flows, Lbs
<1>3. Ttl(p) \in Nat \ {0}
  BY <1>1 DEF Ttl, TestTtl, TestsWhenAsked
<1> QED
  BY <1>2, <1>3 DEF TimeoutHop, AnsweredHop, Hop

\* What answers a probe.
LEMMA AnswerIs ==
    ASSUME TypeOK, TestsWhenAsked, NEW p \in Tracers, NEW f \in Flows
    PROVE  /\ Answer(p, f) \in Packet
           /\ Answer(p, f).addr = Node(Target(p), f, Ttl(p))
           /\ Answer(p, f).type \in {0, 3} => Answer(p, f).addr \in Filters \cup Targets
<1> DEFINE n == Node(Target(p), f, Ttl(p))
<1>1. n \in Addrs
  BY CallFacts, NodeIs, Asks
<1> HIDE DEF n
<1>2. AnswerType(p, n) \in {0, 3, 11}
  BY DEF AnswerType
<1>3. AnswerType(p, n) \in {0, 3} => n \in Filters \cup Targets
  BY <1>1 DEF AnswerType, Addrs
<1>4. sent[p] + 1 \in Nat
  BY DEF TypeOK
<1>5. Answer(p, f) = [owner |-> p, probe |-> sent[p] + 1, addr |-> n,
                      type |-> AnswerType(p, n)]
  BY DEF Answer, n
<1> QED
  BY <1>1, <1>2, <1>3, <1>4, <1>5 DEF Packet, n

\* A list of hops with a gap has one when more are appended.
LEMMA UnansweredPrefix ==
    ASSUME NEW hs \in Seq(Hop), NEW k \in 1..Len(hs)
    PROVE  Unanswered(SubSeq(hs, 1, k - 1)) <=> \E j \in 1..k - 1 : hs[j].addr = None
<1>1. Len(SubSeq(hs, 1, k - 1)) = k - 1
  OBVIOUS
<1>2. \A j \in 1..k - 1 : SubSeq(hs, 1, k - 1)[j] = hs[j]
  OBVIOUS
<1> QED
  BY <1>1, <1>2 DEF Unanswered

\* The invariant holds before any trace has started.
LEMMA InitInv == Init => Inv
<1> SUFFICES ASSUME Init PROVE Inv
  OBVIOUS
<1>1. NumFlows \in Nat \ {0} /\ LbFlows \in 1..NumFlows
  BY NetworkAssumption, OptionsAssumption
<1>2. \A p \in Tracers :
        /\ pc[p] \in {"start", "done"} /\ (Idle(p) => pc[p] = "done")
        /\ hops[p] = <<>> /\ Len(hops[p]) = 0 /\ lb[p] = NoLb /\ queue[p] = <<>>
        /\ Pending(p) = {} /\ wire = {} /\ ~lb[p].on
  BY DEF Init, Pending, NoLb
<1>3. NoLb \in Lbs
  <2>1. {} \in SUBSET (Addrs \cup {None})
    OBVIOUS
  <2> QED
    BY <1>1, <2>1 DEF NoLb, Lbs
<1>7. \A p \in Tracers : lb[p].tried < LbFlows
  BY <1>1, <1>2 DEF NoLb
<1>4. TypeOK
  <2>1. lb \in [Tracers -> Lbs]
    BY <1>3 DEF Init
  <2>2. /\ hops \in [Tracers -> Seq(Hop)] /\ paths \in [Tracers -> Seq(Seq(Hop))]
        /\ queue \in [Tracers -> Seq(Packet)]
        /\ flow \in [Tracers -> Flows] /\ sent \in [Tracers -> Nat]
    BY <1>1 DEF Init, Flows
  <2>3. /\ pc \in [Tracers -> Places] /\ fell \in [Tracers -> BOOLEAN]
        /\ wire \in SUBSET Packet /\ scene \in Scenarios
    BY DEF Init, Places
  <2> QED
    BY <2>1, <2>2, <2>3 DEF TypeOK, Lbs, Places
<1>5. IdleDone /\ ClosedEmpty /\ TestsWhenAsked
  BY <1>2, <1>7 DEF IdleDone, ClosedEmpty, TestsWhenAsked
<1>6. \A p \in Tracers : Quiet(p) /\ Late(p) /\ HopsExplained(p)
  BY <1>2 DEF Quiet, Late, HopsExplained
<1> QED
  BY <1>4, <1>5, <1>6 DEF Inv

----------------------------------------------------------------------------
(* What a step of one tracer must show: the others, if they are undisturbed, *)
(* make no call of their own.                                               *)

Others(p) ==
    /\ scene' = scene
    /\ \A q \in Tracers \ {p} :
        /\ pc'[q] = pc[q] /\ lb'[q] = lb[q] /\ queue'[q] = queue[q]
        /\ hops'[q] = hops[q]

\* A step of one call changes nothing of the others.
LEMMA StepFrame ==
    ASSUME Inv, TypeOK', NEW p \in Tracers, pc[p] # "done", Others(p),
           pc'[p] # "recv" => queue'[p] = <<>>,
           pc'[p] = "start" => hops'[p] = <<>>,
           lb'[p].on \/ pc'[p] # "done" => lb'[p].tried < LbFlows,
           lb'[p].on => scene.call[p].detect /\ TestTtl(hops'[p]) >= 3,
           Undisturbed(p)' => Quiet(p)' /\ Late(p)' /\ HopsExplained(p)'
    PROVE  Inv'
<1>1. ~Idle(p) /\ scene' = scene
  BY DEF Inv, IdleDone, Others
<1>2. IdleDone' /\ ClosedEmpty'
  BY <1>1 DEF Inv, IdleDone, ClosedEmpty, Others, Idle
<1>3. TestsWhenAsked'
  BY <1>1 DEF Inv, TestsWhenAsked, Others
<1>4. ASSUME NEW q \in Tracers
      PROVE  Quiet(q)' /\ Late(q)' /\ HopsExplained(q)'
  <2>1. CASE q = p
    BY <2>1 DEF Quiet, Late, HopsExplained
  <2>2. CASE q # p
    <3>1. ~Undisturbed(q)'
      BY <1>1, <2>2 DEF Undisturbed, Idle
    <3> QED
      BY <3>1 DEF Quiet, Late, HopsExplained
  <2> QED
    BY <2>1, <2>2
<1> QED
  BY <1>2, <1>3, <1>4 DEF Inv

Over(p, h) == Reached(p, h) \/ Len(Append(hops[p], h)) = scene.call[p].max_hops

(* The six ways a recorded hop leaves a call.                               *)
GoesOn(p, h) ==
    /\ ~lb[p].on /\ ~Over(p, h)
    /\ hops'[p] = Append(hops[p], h) /\ flow'[p] = flow[p] /\ paths'[p] = paths[p]
    /\ pc'[p] = "send" /\ lb'[p] = lb[p]

Tests(p, h) ==
    /\ ~lb[p].on /\ Over(p, h) /\ scene.call[p].detect
    /\ hops'[p] = Append(hops[p], h) /\ flow'[p] = flow[p] /\ paths'[p] = paths[p]
    /\ pc'[p] = "send" /\ Testable(hops'[p])
    /\ lb'[p].on /\ lb'[p].tried = lb[p].tried
    /\ lb'[p].addrs = {hops'[p][TestTtl(hops'[p])].addr}
    /\ lb'[p].verdict = lb[p].verdict

NextFlow(p, h) ==
    /\ ~lb[p].on /\ Over(p, h) /\ MoreFlows(p)
    /\ hops'[p] = <<>> /\ flow'[p] = flow[p] + 1
    /\ paths'[p] = Append(paths[p], Append(hops[p], h))
    /\ pc'[p] = "start" /\ lb'[p] = lb[p]

Finishes(p, h) ==
    /\ ~lb[p].on /\ Over(p, h)
    /\ hops'[p] = Append(hops[p], h) /\ flow'[p] = flow[p]
    /\ paths'[p] = Append(paths[p], Append(hops[p], h))
    /\ pc'[p] = "done" /\ lb'[p] = lb[p]

TestsOn(p, h) ==
    /\ lb[p].on /\ lb'[p].on /\ lb[p].tried + 1 < LbFlows
    /\ hops'[p] = hops[p] /\ flow'[p] = flow[p] /\ paths'[p] = paths[p]
    /\ pc'[p] = "send"
    /\ lb'[p].tried = lb[p].tried + 1 /\ lb'[p].addrs = lb[p].addrs \cup {h.addr}
    /\ lb'[p].verdict = lb[p].verdict

TestsEnd(p, h) ==
    /\ lb[p].on /\ ~lb'[p].on
    /\ hops'[p] = hops[p] /\ flow'[p] = flow[p]
    /\ paths'[p] = Append(paths[p], hops[p])
    /\ pc'[p] = "done"
    /\ lb'[p].tried = LbFlows /\ lb[p].tried + 1 = LbFlows
    /\ lb'[p].addrs = lb[p].addrs \cup {h.addr}
    /\ lb'[p].verdict = Verdict(lb'[p].addrs)

\* The test begins with the address of the hop tested.
LEMMA LbStarts ==
    ASSUME NEW l \in Lbs, NEW addrs \in SUBSET (Addrs \cup {None})
    PROVE  LET new == [l EXCEPT !.on = TRUE, !.addrs = addrs]
           IN  /\ new \in Lbs /\ new.on /\ new.addrs = addrs
               /\ new.tried = l.tried /\ new.verdict = l.verdict
  BY DEF Lbs

\* The test adds the address of one more flow.
LEMMA LbAdds ==
    ASSUME NEW l \in Lbs, NEW addrs \in SUBSET (Addrs \cup {None}),
           NEW tried \in 0..LbFlows
    PROVE  [l EXCEPT !.addrs = addrs, !.tried = tried] \in Lbs
  BY DEF Lbs

\* The hop the test is about.
LEMMA TestedHop ==
    ASSUME NEW hs \in Seq(Hop), TestTtl(hs) >= 3
    PROVE  hs[TestTtl(hs)] \in Hop /\ hs[TestTtl(hs)].addr \in Addrs \cup {None}
<1>1. TestTtl(hs) \in 1..Len(hs)
  BY DEF TestTtl
<1>2. hs[TestTtl(hs)] \in Hop
  BY <1>1
<1> QED
  BY <1>2 DEF Hop

\* What recording a hop does: the trace or the test goes on, or another begins,
\* or the call ends.
LEMMA RecordsDoes ==
    ASSUME TypeOK, TestsWhenAsked, NEW p \in Tracers, NEW h \in Hop,
           Records(p, h), scene' = scene
    PROVE  /\ Others(p) /\ queue'[p] = <<>>
           /\ \A q \in Tracers \ {p} : flow'[q] = flow[q] /\ paths'[q] = paths[q]
           /\ \/ GoesOn(p, h) \/ Tests(p, h) \/ NextFlow(p, h) \/ Finishes(p, h)
              \/ TestsOn(p, h) \/ TestsEnd(p, h)
           /\ flow' = [flow EXCEPT ![p] = flow'[p]]
           /\ hops' = [hops EXCEPT ![p] = hops'[p]]
           /\ paths' = [paths EXCEPT ![p] = paths'[p]]
           /\ lb' = [lb EXCEPT ![p] = lb'[p]]
           /\ lb'[p] \in Lbs
           /\ pc' \in [Tracers -> Places]
           /\ queue' \in [Tracers -> Seq(Packet)]
<1>1. /\ pc \in [Tracers -> Places] /\ flow \in [Tracers -> Flows]
      /\ hops \in [Tracers -> Seq(Hop)] /\ paths \in [Tracers -> Seq(Seq(Hop))]
      /\ lb \in [Tracers -> Lbs] /\ queue \in [Tracers -> Seq(Packet)]
  BY DEF TypeOK, Places, Lbs
<1>2. queue' = [queue EXCEPT ![p] = <<>>]
  BY DEF Records
<1>3. queue'[p] = <<>> /\ queue' \in [Tracers -> Seq(Packet)]
  BY <1>1, <1>2
<1>4. LbFlows \in Nat \ {0} /\ h.addr \in Addrs \cup {None}
  BY CallFacts DEF Hop
<1> DEFINE hs == Append(hops[p], h)
<1>5. hs \in Seq(Hop) /\ hops[p] \in Seq(Hop)
  BY <1>1
<1>6. CASE ~lb[p].on
  <2>1. TraceRecords(p, h)
    BY <1>6 DEF Records
  <2>2. CASE /\ ~(Reached(p, h) \/ Len(hs) = scene.call[p].max_hops)
             /\ hops' = [hops EXCEPT ![p] = hs]
             /\ pc' = [pc EXCEPT ![p] = "send"]
             /\ UNCHANGED <<flow, paths, lb>>
    <3>1. GoesOn(p, h)
      BY <1>1, <1>6, <2>2 DEF GoesOn, Over
    <3> QED
      BY <1>1, <1>2, <1>3, <2>2, <3>1 DEF Others, Places
  <2>3. CASE /\ Over(p, h) /\ scene.call[p].detect /\ Testable(hs)
             /\ hops' = [hops EXCEPT ![p] = hs]
             /\ lb' = [lb EXCEPT ![p].on = TRUE,
                                 ![p].addrs = {hs[TestTtl(hs)].addr}]
             /\ pc' = [pc EXCEPT ![p] = "send"]
             /\ UNCHANGED <<flow, paths>>
    <3>1. hops'[p] = hs
      BY <1>1, <2>3
    <3>2. hs[TestTtl(hs)].addr \in Addrs \cup {None}
      BY <1>5, <2>3, TestedHop DEF Testable
    <3>3. /\ lb'[p].on /\ lb'[p].tried = lb[p].tried
          /\ lb'[p].addrs = {hs[TestTtl(hs)].addr}
          /\ lb'[p].verdict = lb[p].verdict
          /\ lb'[p] \in Lbs
      <4>4. {hs[TestTtl(hs)].addr} \in SUBSET (Addrs \cup {None})
        BY <3>2
      <4> HIDE DEF hs
      <4>1. PICK ts : ts = {hs[TestTtl(hs)].addr}
        OBVIOUS
      <4>2. lb'[p] = [lb[p] EXCEPT !.on = TRUE, !.addrs = ts]
        BY <1>1, <2>3, <4>1
      <4>3. lb[p] \in Lbs /\ ts \in SUBSET (Addrs \cup {None})
        BY <1>1, <4>1, <4>4
      <4>5. LET new == [lb[p] EXCEPT !.on = TRUE, !.addrs = ts]
            IN  /\ new \in Lbs /\ new.on /\ new.addrs = ts
                /\ new.tried = lb[p].tried /\ new.verdict = lb[p].verdict
        BY <4>3, LbStarts, Zenon
      <4> QED
        BY <4>1, <4>2, <4>5
    <3>4. Tests(p, h)
      BY <1>1, <1>6, <2>3, <3>1, <3>3 DEF Tests, Over
    <3> QED
      BY <1>1, <1>2, <1>3, <2>3, <3>3, <3>4 DEF Others, Places
  <2>4. CASE Over(p, h) /\ TraceEnds(p, hs) /\ UNCHANGED lb
    <3>1. NextFlow(p, h) \/ Finishes(p, h)
      BY <1>1, <1>6, <2>4 DEF TraceEnds, NextFlow, Finishes
    <3> QED
      BY <1>1, <1>2, <1>3, <2>4, <3>1 DEF TraceEnds, Others, Places
  <2> QED
    BY <2>1, <2>2, <2>3, <2>4 DEF TraceRecords, Over
<1>7. CASE lb[p].on
  <2>1. LbRecords(p, h)
    BY <1>7 DEF Records
  <2>2. ~MoreFlows(p)
    BY <1>1, <1>7, CallFacts DEF MoreFlows, TestsWhenAsked, Flows
  <2>3. lb[p] \in Lbs /\ lb[p].tried < LbFlows /\ lb[p].tried \in Nat
    BY <1>1, <1>4, <1>7 DEF Lbs, TestsWhenAsked
  <2>4. lb[p].addrs \cup {h.addr} \in SUBSET (Addrs \cup {None})
    BY <1>4, <2>3 DEF Lbs
  <2>5. CASE /\ lb[p].tried + 1 < LbFlows
             /\ lb' = [lb EXCEPT ![p].addrs = lb[p].addrs \cup {h.addr},
                                 ![p].tried = lb[p].tried + 1]
             /\ pc' = [pc EXCEPT ![p] = "send"]
             /\ UNCHANGED <<flow, hops, paths>>
    <3>1. PICK addrs : addrs = lb[p].addrs \cup {h.addr}
      OBVIOUS
    <3>2. lb'[p] = [lb[p] EXCEPT !.addrs = addrs, !.tried = lb[p].tried + 1]
      BY <1>1, <2>5, <3>1
    <3>3. lb'[p] \in Lbs
      <4>1. addrs \in SUBSET (Addrs \cup {None}) /\ lb[p].tried + 1 \in 0..LbFlows
        BY <1>4, <2>3, <2>4, <2>5, <3>1
      <4>2. [lb[p] EXCEPT !.addrs = addrs, !.tried = lb[p].tried + 1] \in Lbs
        BY <2>3, <4>1, LbAdds, Zenon
      <4> QED
        BY <3>2, <4>2
    <3>4. TestsOn(p, h)
      BY <1>1, <1>7, <2>3, <2>5, <3>1, <3>2 DEF TestsOn, Lbs
    <3> QED
      BY <1>1, <1>2, <1>3, <2>5, <3>3, <3>4 DEF Others, Places
  <2>6. CASE /\ lb[p].tried + 1 = LbFlows
             /\ lb' = [lb EXCEPT ![p] =
                         [on |-> FALSE, addrs |-> lb[p].addrs \cup {h.addr},
                          tried |-> lb[p].tried + 1,
                          verdict |-> Verdict(lb[p].addrs \cup {h.addr})]]
             /\ TraceEnds(p, hops[p])
    <3>1. PICK addrs : addrs = lb[p].addrs \cup {h.addr}
      OBVIOUS
    <3>2. lb'[p] = [on |-> FALSE, addrs |-> addrs, tried |-> LbFlows,
                    verdict |-> Verdict(addrs)]
      BY <1>1, <2>6, <3>1
    <3>3. Verdict(addrs) \in {"None", "PerFlow"}
      BY DEF Verdict
    <3>4. lb'[p] \in Lbs
      BY <1>4, <2>4, <3>1, <3>2, <3>3 DEF Lbs
    <3>5. TestsEnd(p, h)
      BY <1>1, <1>7, <2>2, <2>6, <3>1, <3>2, <3>3 DEF TestsEnd, TraceEnds
    <3> QED
      BY <1>1, <1>2, <1>3, <2>2, <2>6, <3>4, <3>5 DEF TraceEnds, Others, Places
  <2> QED
    BY <2>1, <2>5, <2>6 DEF LbRecords
<1> QED
  BY <1>6, <1>7

\* A list of one kind stays one when it grows.
LEMMA AppendIn ==
    ASSUME NEW S, NEW s \in Seq(S), NEW e \in S
    PROVE  Append(s, e) \in Seq(S)
  OBVIOUS

\* Recording a hop keeps the types.
LEMMA RecordsType ==
    ASSUME TypeOK, TestsWhenAsked, NEW p \in Tracers, NEW h \in Hop,
           Records(p, h), scene' = scene,
           sent' \in [Tracers -> Nat], fell' \in [Tracers -> BOOLEAN],
           wire' \in SUBSET Packet
    PROVE  TypeOK'
<1>1. /\ flow[p] \in Flows /\ hops[p] \in Seq(Hop) /\ paths[p] \in Seq(Seq(Hop))
      /\ flow \in [Tracers -> Flows] /\ hops \in [Tracers -> Seq(Hop)]
      /\ paths \in [Tracers -> Seq(Seq(Hop))] /\ lb \in [Tracers -> Lbs]
  BY DEF TypeOK, Lbs
<1>2. flow'[p] \in Flows
  <2>1. MoreFlows(p) => flow[p] + 1 \in Flows
    BY <1>1, CallFacts DEF MoreFlows, Flows
  <2> QED
    BY <1>1, <2>1, RecordsDoes DEF GoesOn, Tests, NextFlow, Finishes, TestsOn,
       TestsEnd
<1> DEFINE hs == Append(hops[p], h)
<1>7. hs \in Seq(Hop)
  BY <1>1, AppendIn, Zenon
<1>8. /\ hops'[p] \in {hops[p], hs, <<>>}
      /\ paths'[p] \in {paths[p], Append(paths[p], hs), Append(paths[p], hops[p])}
  BY RecordsDoes, Zenon DEF GoesOn, Tests, NextFlow, Finishes, TestsOn, TestsEnd
<1>3. hops'[p] \in Seq(Hop)
  <2>1. <<>> \in Seq(Hop)
    OBVIOUS
  <2> QED
    BY <1>1, <1>7, <1>8, <2>1, Zenon
<1>4. paths'[p] \in Seq(Seq(Hop))
  <2>1. /\ Append(paths[p], hs) \in Seq(Seq(Hop))
        /\ Append(paths[p], hops[p]) \in Seq(Seq(Hop))
    BY <1>1, <1>7, AppendIn, Zenon
  <2> QED
    BY <1>1, <1>8, <2>1, Zenon
<1>5. /\ flow' \in [Tracers -> Flows] /\ hops' \in [Tracers -> Seq(Hop)]
      /\ paths' \in [Tracers -> Seq(Seq(Hop))] /\ lb' \in [Tracers -> Lbs]
  <2>1. /\ flow' = [flow EXCEPT ![p] = flow'[p]]
        /\ hops' = [hops EXCEPT ![p] = hops'[p]]
        /\ paths' = [paths EXCEPT ![p] = paths'[p]]
        /\ lb' = [lb EXCEPT ![p] = lb'[p]]
        /\ lb'[p] \in Lbs
    BY RecordsDoes
  <2>2. flow' \in [Tracers -> Flows]
    BY <1>1, <1>2, <2>1
  <2>3. hops' \in [Tracers -> Seq(Hop)]
    BY <1>1, <1>3, <2>1
  <2>4. paths' \in [Tracers -> Seq(Seq(Hop))]
    BY <1>1, <1>4, <2>1
  <2>5. lb' \in [Tracers -> Lbs]
    BY <1>1, <2>1
  <2> QED
    BY <2>2, <2>3, <2>4, <2>5
<1>6. /\ pc' \in [Tracers -> Places] /\ queue' \in [Tracers -> Seq(Packet)]
      /\ scene' \in Scenarios
  BY RecordsDoes DEF TypeOK
<1> QED
  BY <1>5, <1>6 DEF TypeOK, Lbs, Places

----------------------------------------------------------------------------
(* A hop is recorded.                                                       *)

\* What Append does.
LEMMA AppendIs ==
    ASSUME NEW S, NEW s \in Seq(S), NEW e \in S
    PROVE  /\ Len(Append(s, e)) = Len(s) + 1 /\ Len(s) \in Nat
           /\ Append(s, e)[Len(s) + 1] = e
           /\ \A k \in 1..Len(s) : Append(s, e)[k] = s[k]
  OBVIOUS

(* The test for load balancing is not asked of a classic trace.             *)
LEMMA ReachedSame ==
    ASSUME TypeOK, TestsWhenAsked, NEW p \in Tracers, scene' = scene,
           lb'[p].on => scene.call[p].detect, NEW h
    PROVE  Reached(p, h)' <=> Reached(p, h)
<1>1. /\ lb[p].on => scene.call[p].mode # "classic"
      /\ lb'[p].on => scene.call[p].mode # "classic"
  BY CallFacts DEF TestsWhenAsked
<1>2. /\ Mode(p) = "classic" <=> scene.call[p].mode = "classic"
      /\ Mode(p)' = "classic" <=> scene.call[p].mode = "classic"
  BY <1>1 DEF Mode
<1> QED
  BY <1>2 DEF Reached, Target

(* A hop that may be recorded by an undisturbed call.                       *)
MayRecord(p, h) ==
    /\ h.addr # None /\ Answered(p) => wire = {} /\ FitsNow(p, h)
    /\ flow[p] = 0 => ReachExplained(p, Append(hops[p], h), Ttl(p))

\* A hop more that may be recorded leaves all hops explained.
LEMMA HopsExplainedStep ==
    ASSUME Inv, NEW p \in Tracers, NEW h \in Hop, scene' = scene,
           HopsExplained(p), Undisturbed(p), flow'[p] = flow[p],
           lb'[p].on => scene.call[p].detect,
           SomeUnanswered(paths[p]) => SomeUnanswered(paths'[p]),
           \/ hops'[p] = hops[p]
           \/ hops'[p] = Append(hops[p], h) /\ ~lb[p].on /\ MayRecord(p, h)
    PROVE  HopsExplained(p)'
<1>1. /\ hops[p] \in Seq(Hop) /\ Len(hops[p]) \in Nat
  BY DEF Inv, TypeOK
<1>2. TraceFlows(p)' = TraceFlows(p) /\ Target(p)' = Target(p)
  BY DEF TraceFlows, Target
<1>3. \A x : Reached(p, x)' <=> Reached(p, x)
  BY ReachedSame DEF Inv
<1>4. ASSUME NEW k \in 1..Len(hops[p]), k \in 1..Len(hops'[p]),
             \A j \in 1..k : hops'[p][j] = hops[p][j]
      PROVE  /\ HopExplained(p, hops[p], k)'
             /\ flow[p] = 0 => ReachExplained(p, hops[p], k)'
  <2>1. hops'[p][k] = hops[p][k] /\ \A j \in 1..k - 1 : hops'[p][j] = hops[p][j]
    BY <1>1, <1>4
  <2>2. HopExplained(p, hops[p], k)
    BY DEF HopsExplained
  <2>3. flow[p] = 0 => ReachExplained(p, hops[p], k)
    BY DEF HopsExplained
  <2>4. HopExplained(p, hops[p], k)'
    BY <1>2, <2>1, <2>2 DEF HopExplained
  <2>5. flow[p] = 0 => ReachExplained(p, hops[p], k)'
    BY <1>2, <1>3, <2>1, <2>3 DEF ReachExplained
  <2> QED
    BY <2>4, <2>5
<1>5. CASE hops'[p] = hops[p]
  BY <1>1, <1>4, <1>5 DEF HopsExplained
<1>6. CASE hops'[p] = Append(hops[p], h) /\ ~lb[p].on /\ MayRecord(p, h)
  <2>1. /\ Len(hops'[p]) = Len(hops[p]) + 1
        /\ hops'[p][Len(hops[p]) + 1] = h
        /\ \A k \in 1..Len(hops[p]) : hops'[p][k] = hops[p][k]
    BY <1>1, <1>6, AppendIs
  <2> SUFFICES ASSUME NEW k \in 1..Len(hops'[p])
               PROVE  /\ HopExplained(p, hops[p], k)'
                      /\ flow[p] = 0 => ReachExplained(p, hops[p], k)'
    BY DEF HopsExplained
  <2>2. CASE k \in 1..Len(hops[p])
    BY <1>1, <1>4, <2>1, <2>2
  <2>3. CASE k = Len(hops[p]) + 1
    <3>1. Ttl(p) = k /\ hops'[p][k] = h
      BY <1>6, <2>1, <2>3 DEF Ttl
    <3>2. flow[p] = 0 => ReachExplained(p, hops'[p], k)
      BY <1>6, <3>1 DEF MayRecord
    <3>3. flow[p] = 0 => ReachExplained(p, hops[p], k)'
      BY <1>2, <1>3, <3>1, <3>2 DEF ReachExplained
    <3>4. CASE Answered(p)
      BY <1>2, <1>6, <3>1, <3>3, <3>4 DEF HopExplained, MayRecord, FitsNow
    <3>5. CASE Unanswered(hops[p])
      <4>1. PICK j \in 1..k - 1 : hops'[p][j].addr = None
        BY <1>1, <2>1, <2>3, <3>5 DEF Unanswered
      <4> QED
        BY <3>3, <4>1 DEF HopExplained
    <3>6. CASE SomeUnanswered(paths[p])
      BY <3>3, <3>6 DEF HopExplained
    <3> QED
      BY <3>4, <3>5, <3>6 DEF Answered
  <2> QED
    BY <1>1, <2>1, <2>2, <2>3
<1> QED
  BY <1>5, <1>6

\* A gap in the paths stays when one more is kept.
LEMMA PathsKeepMisses ==
    ASSUME TypeOK, NEW p \in Tracers, NEW hs \in Seq(Hop)
    PROVE  /\ SomeUnanswered(paths[p]) => SomeUnanswered(Append(paths[p], hs))
           /\ Unanswered(hs) => SomeUnanswered(Append(paths[p], hs))
<1>1. paths[p] \in Seq(Seq(Hop))
  BY DEF TypeOK
<1>2. /\ Len(Append(paths[p], hs)) = Len(paths[p]) + 1 /\ Len(paths[p]) \in Nat
      /\ Append(paths[p], hs)[Len(paths[p]) + 1] = hs
      /\ \A k \in 1..Len(paths[p]) : Append(paths[p], hs)[k] = paths[p][k]
  BY <1>1, AppendIs
<1> QED
  BY <1>2 DEF SomeUnanswered

\* A gap in the hops stays when one more is recorded.
LEMMA HopsKeepMisses ==
    ASSUME NEW hs \in Seq(Hop), NEW h \in Hop
    PROVE  /\ Unanswered(hs) => Unanswered(Append(hs, h))
           /\ h.addr = None => Unanswered(Append(hs, h))
  BY AppendIs DEF Unanswered

\* Recording a hop that may be recorded keeps the invariant.
LEMMA RecordsInv ==
    ASSUME Inv, NEW p \in Tracers, pc[p] \in {"send", "open", "recv"},
           NEW h \in Hop, Records(p, h), scene' = scene, fell' = fell,
           sent' \in [Tracers -> Nat], wire' \in SUBSET Packet,
           Undisturbed(p) => wire' = wire,
           Undisturbed(p) /\ ~lb[p].on => MayRecord(p, h)
    PROVE  Inv'
<1> USE DEF Inv
<1> DEFINE hs == Append(hops[p], h)
<1>1. TypeOK'
  BY RecordsType DEF TypeOK
<1>2. Others(p) /\ queue'[p] = <<>>
  BY RecordsDoes
<1>3. \/ GoesOn(p, h) \/ Tests(p, h) \/ NextFlow(p, h) \/ Finishes(p, h)
      \/ TestsOn(p, h) \/ TestsEnd(p, h)
  BY RecordsDoes
<1>4. lb[p].tried < LbFlows /\ LbFlows \in Nat /\ lb[p].tried \in Nat
  <2>1. lb[p] \in Lbs
    BY DEF TypeOK, Lbs
  <2> QED
    BY <2>1, CallFacts DEF TestsWhenAsked, Lbs
<1>5. lb'[p].on \/ pc'[p] # "done" => lb'[p].tried < LbFlows
  BY <1>3, <1>4 DEF GoesOn, Tests, NextFlow, Finishes, TestsOn, TestsEnd
<1>6. lb'[p].on => scene.call[p].detect /\ TestTtl(hops'[p]) >= 3
  BY <1>3 DEF GoesOn, Tests, NextFlow, Finishes, TestsOn, TestsEnd,
     TestsWhenAsked, Testable
<1>7. ASSUME Undisturbed(p)
      PROVE  Quiet(p)' /\ Late(p)' /\ HopsExplained(p)'
  <2>1. wire' = wire /\ Pending(p)' = wire /\ wire \subseteq Pending(p)
    BY <1>2, <1>7 DEF Pending
  <2>2. hops[p] \in Seq(Hop) /\ hs \in Seq(Hop) /\ Len(hops[p]) \in Nat
    BY AppendIn DEF TypeOK
  <2>3. Len(hs) = Len(hops[p]) + 1
    BY <2>2, AppendIs
  <2>4. /\ SomeUnanswered(paths[p]) => SomeUnanswered(Append(paths[p], hs))
        /\ SomeUnanswered(paths[p]) => SomeUnanswered(Append(paths[p], hops[p]))
        /\ Unanswered(hs) => SomeUnanswered(Append(paths[p], hs))
    BY <2>2, PathsKeepMisses
  <2>5. Unanswered(hops[p]) \/ h.addr = None => Unanswered(hs)
    BY <2>2, HopsKeepMisses
  <2>6. /\ Trial(p)' => /\ ~lb[p].on /\ Trial(p)
                        /\ GoesOn(p, h) \/ NextFlow(p, h)
    BY <1>3 DEF Trial, GoesOn, Tests, NextFlow, Finishes, TestsOn, TestsEnd
  <2>7. Quiet(p)'
    <3> SUFFICES ASSUME Trial(p)', Answered(p)'
                 PROVE  wire = {}
      BY <1>2, <2>1 DEF Quiet
    <3>1. Answered(p) /\ h.addr # None
      BY <2>4, <2>5, <2>6 DEF Answered, GoesOn, NextFlow
    <3> QED
      BY <1>7, <2>6, <3>1 DEF MayRecord
  <2>8. Late(p)'
    <3> SUFFICES ASSUME Trial(p)', flow'[p] = 0, NEW a \in wire
                 PROVE  FromWithin(p, a, Ttl(p))'
      BY <2>1 DEF Late
    <3>1. flow[p] \in Nat
      BY CallFacts DEF Flows
    <3>2. GoesOn(p, h)
      BY <2>6, <3>1 DEF NextFlow
    <3>3. FromWithin(p, a, Ttl(p))
      BY <1>7, <2>1, <2>6, <3>2 DEF Late, GoesOn
    <3>4. Ttl(p) = Len(hops[p]) + 1 /\ Ttl(p)' = Len(hops[p]) + 2
      BY <2>3, <3>2 DEF Ttl, GoesOn
    <3>5. 1..Ttl(p) \subseteq 1..(Ttl(p)')
      BY <2>2, <3>4
    <3>6. TraceFlows(p)' = TraceFlows(p) /\ Target(p)' = Target(p)
      BY <3>2 DEF TraceFlows, Target, GoesOn
    <3> QED
      BY <3>3, <3>5, <3>6 DEF FromWithin
  <2>9. HopsExplained(p)'
    <3>1. CASE NextFlow(p, h)
      BY <3>1 DEF NextFlow, HopsExplained
    <3>2. CASE ~NextFlow(p, h)
      <4>1. flow'[p] = flow[p]
        BY <1>3, <3>2 DEF GoesOn, Tests, Finishes, TestsOn, TestsEnd
      <4>2. SomeUnanswered(paths[p]) => SomeUnanswered(paths'[p])
        BY <1>3, <2>4, <3>2 DEF GoesOn, Tests, Finishes, TestsOn, TestsEnd
      <4>3. \/ hops'[p] = hops[p]
            \/ hops'[p] = hs /\ ~lb[p].on /\ MayRecord(p, h)
        BY <1>3, <1>7, <3>2 DEF GoesOn, Tests, Finishes, TestsOn, TestsEnd
      <4> QED
        BY <1>6, <1>7, <4>1, <4>2, <4>3, HopsExplainedStep
    <3> QED
      BY <3>1, <3>2
  <2> QED
    BY <2>7, <2>8, <2>9
<1>8. Undisturbed(p)' => Undisturbed(p)
  BY DEF Undisturbed, Idle
<1>9. pc'[p] = "start" => hops'[p] = <<>>
  BY <1>3 DEF GoesOn, Tests, NextFlow, Finishes, TestsOn, TestsEnd
<1> QED
  BY <1>1, <1>2, <1>5, <1>6, <1>7, <1>8, <1>9, StepFrame

----------------------------------------------------------------------------
(* The actions that record a hop.                                           *)

\* The hop recorded is at its TTL's place.
LEMMA RecordedHop ==
    ASSUME TypeOK, NEW p \in Tracers, ~lb[p].on, NEW h \in Hop
    PROVE  Ttl(p) \in Nat /\ Append(hops[p], h)[Ttl(p)] = h
  BY AppendIs DEF TypeOK, Ttl

\* A hop without an answer may always be recorded.
LEMMA TimeoutMay ==
    ASSUME Inv, NEW p \in Tracers, ~lb[p].on
    PROVE  MayRecord(p, TimeoutHop(p))
<1>1. TimeoutHop(p) \in Hop /\ TimeoutHop(p).addr = None /\ TimeoutHop(p).type = None
  BY Asks DEF Inv, TimeoutHop
<1>2. ~Reached(p, TimeoutHop(p))
  BY <1>1, CallFacts, NetworkAssumption
     DEF Reached, ClassicReached, ParisReached, Inv, Addrs
<1> QED
  BY <1>1, <1>2, RecordedHop DEF MayRecord, ReachExplained, Inv

\* The wait for an answer ends.
LEMMA TimeoutInv ==
    ASSUME Inv, NEW p \in Tracers, pc[p] \in {"send", "open", "recv"},
           Records(p, TimeoutHop(p)), UNCHANGED <<scene, sent, fell, wire>>
    PROVE  Inv'
<1>1. /\ TimeoutHop(p) \in Hop /\ sent' \in [Tracers -> Nat]
      /\ wire' \in SUBSET Packet
  BY Asks DEF Inv, TypeOK
<1>2. ~lb[p].on => MayRecord(p, TimeoutHop(p))
  BY TimeoutMay
<1> QED
  BY <1>1, <1>2, RecordsInv

\* The first packet in the queue of an undisturbed call may be recorded.
LEMMA ReceiveMay ==
    ASSUME Inv, NEW p \in Tracers, ~lb[p].on, pc[p] = "recv", queue[p] # <<>>,
           Undisturbed(p)
    PROVE  MayRecord(p, HopOf(p, Head(queue[p])))
<1> DEFINE a == Head(queue[p])
           h == HopOf(p, a)
<1>1. queue[p] \in Seq(Packet)
  BY DEF Inv, TypeOK
<1>2. a \in Packet /\ a \in Pending(p)
  <2>1. a = queue[p][1] /\ 1 \in 1..Len(queue[p])
    BY <1>1
  <2> QED
    BY <1>1, <2>1 DEF Pending
<1>3. h.addr = a.addr /\ h.type = a.type /\ h \in Hop
  <2>1. Mode(p) \in RawModes
    BY DEF Mode, Undisturbed
  <2>2. h = AnsweredHop(p, a.addr, a.type)
    BY <2>1 DEF HopOf, RawModes
  <2>3. a.addr \in Addrs /\ a.type \in {0, 3, 11}
    BY <1>2 DEF Packet
  <2>4. h \in Hop
    BY <2>2, <2>3, Asks DEF Inv
  <2> QED
    BY <2>2, <2>4 DEF AnsweredHop
<1>4. Trial(p)
  BY DEF Trial
<1>5. Answered(p) => wire = {} /\ FitsNow(p, h)
  <2>1. Quiet(p)
    BY DEF Inv
  <2> QED
    BY <1>2, <1>3, <1>4, <2>1 DEF Quiet, FitsNow
<1>6. flow[p] = 0 => ReachExplained(p, Append(hops[p], h), Ttl(p))
  <2> SUFFICES ASSUME flow[p] = 0, Reached(p, h)
               PROVE  \/ h.addr \in Filters
                      \/ \E f \in TraceFlows(p) : Ttl(p) > Len(Route[Target(p)][f])
    BY <1>3, RecordedHop DEF ReachExplained, Inv
  <2>1. /\ Target(p) \in Targets /\ Ttl(p) \in Nat /\ TraceFlows(p) \subseteq Flows
    BY <1>3, RecordedHop, CallFacts DEF Inv, TraceFlows, EchoFlows
  <2>2. FromWithin(p, a, Ttl(p))
    BY <1>2, <1>4 DEF Inv, Late
  <2>3. PICK f \in TraceFlows(p) : \E j \in 1..Ttl(p) : a.addr = Node(Target(p), f, j)
    BY <2>2 DEF FromWithin
  <2>4. PICK j \in 1..Ttl(p) : a.addr = Node(Target(p), f, j)
    BY <2>3
  <2>5. h.addr \in Filters \cup Targets
    BY <1>3, <2>1, <2>2 DEF FromWithin, Reached, ClassicReached, ParisReached
  <2>6. /\ Node(Target(p), f, j) \in Targets => j > Len(Route[Target(p)][f])
        /\ Len(Route[Target(p)][f]) \in Nat
    BY <2>1, <2>4, NodeIs
  <2> QED
    BY <1>3, <2>1, <2>4, <2>5, <2>6
<1> QED
  BY <1>5, <1>6 DEF MayRecord

\* A packet is taken from the queue.
LEMMA ReceiveInv ==
    ASSUME Inv, NEW p \in Tracers, Receive(p)
    PROVE  Inv'
<1> DEFINE h == HopOf(p, Head(queue[p]))
<1>1. /\ pc[p] = "recv" /\ queue[p] # <<>> /\ Records(p, h)
      /\ UNCHANGED <<scene, sent, fell, wire>>
  BY DEF Receive
<1>2. h \in Hop
  <2>1. Head(queue[p]) \in Packet
    BY <1>1 DEF Inv, TypeOK
  <2>2. /\ Head(queue[p]).addr \in Addrs /\ Head(queue[p]).type \in {0, 3, 11}
        /\ Target(p) \in Addrs
    BY <2>1, CallFacts DEF Packet, Inv, Addrs
  <2> QED
    BY <2>2, Asks DEF HopOf, Inv
<1>3. Undisturbed(p) /\ ~lb[p].on => MayRecord(p, h)
  BY <1>1, ReceiveMay
<1>4. sent' \in [Tracers -> Nat] /\ wire' \in SUBSET Packet
  BY <1>1 DEF Inv, TypeOK
<1> HIDE DEF h
<1> QED
  BY <1>1, <1>2, <1>3, <1>4, RecordsInv

\* What sending a probe puts on its way.
LEMMA ElicitsIs ==
    ASSUME TypeOK, TestsWhenAsked, NEW p \in Tracers, NEW f \in Flows,
           Elicits(p, f)
    PROVE  /\ sent' \in [Tracers -> Nat]
           /\ wire' \in SUBSET Packet
           /\ wire' \subseteq wire \cup {Answer(p, f)}
<1>1. sent' \in [Tracers -> Nat]
  BY DEF Elicits, TypeOK
<1>2. wire' \subseteq wire \cup {Answer(p, f)}
  BY DEF Elicits
<1>3. wire \subseteq Packet /\ Answer(p, f) \in Packet
  BY AnswerIs DEF TypeOK
<1> QED
  BY <1>1, <1>2, <1>3

(* A TCP trace is not on a raw socket.                                      *)
LEMMA TcpProbeInv ==
    ASSUME Inv, NEW p \in Tracers, TcpProbe(p)
    PROVE  Inv'
<1>1. /\ pc[p] = "send" /\ Mode(p) = "Tcp" /\ scene' = scene /\ fell' = fell
  BY DEF TcpProbe
<1>2. ~Undisturbed(p)
  BY <1>1 DEF Mode, Undisturbed, RawModes
<1>3. PICK f \in Flows :
        LET far == Node(Target(p), f, Ttl(p)) \in Routers IN
        /\ \/ Records(p, AnsweredHop(p, Target(p), 0))
           \/ ~far /\ Records(p, AnsweredHop(p, Target(p), 3))
           \/ far /\ Records(p, TimeoutHop(p))
        /\ IF far THEN Elicits(p, f) ELSE UNCHANGED <<wire, sent>>
  BY DEF TcpProbe
<1>4. /\ AnsweredHop(p, Target(p), 0) \in Hop /\ AnsweredHop(p, Target(p), 3) \in Hop
      /\ TimeoutHop(p) \in Hop
  BY Asks, CallFacts DEF Inv, Addrs
<1>5. sent' \in [Tracers -> Nat] /\ wire' \in SUBSET Packet
  <2>1. CASE Elicits(p, f)
    BY <2>1, ElicitsIs DEF Inv
  <2>2. CASE UNCHANGED <<wire, sent>>
    BY <2>2 DEF Inv, TypeOK
  <2> QED
    BY <1>3, <2>1, <2>2
<1>6. PICK h \in Hop : Records(p, h)
  BY <1>3, <1>4
<1> QED
  BY <1>1, <1>2, <1>5, <1>6, RecordsInv

----------------------------------------------------------------------------
(* The actions before a hop is recorded: the trace so far stays.            *)

\* A step that leaves the trace as it is keeps the invariant.
LEMMA SameTrace ==
    ASSUME Inv, NEW p \in Tracers, pc[p] # "done",
           UNCHANGED <<scene, flow, hops, paths, lb, queue>>,
           pc' = [pc EXCEPT ![p] = pc'[p]],
           pc'[p] \in {"send", "open", "recv"},
           sent' \in [Tracers -> Nat], fell' \in [Tracers -> BOOLEAN],
           wire' \in SUBSET Packet, fell[p] => fell'[p],
           pc[p] # "recv",
           Undisturbed(p)' => Quiet(p)' /\ Late(p)'
    PROVE  Inv'
<1>1. pc \in [Tracers -> Places]
  BY DEF Inv, TypeOK, Places
<1>2. TypeOK'
  BY <1>1 DEF Inv, TypeOK, Places
<1>3. Others(p)
  BY <1>1 DEF Others
<1>4. queue'[p] = <<>> /\ hops'[p] = hops[p]
  BY DEF Inv, ClosedEmpty
<1>5. /\ lb'[p].on \/ pc'[p] # "done" => lb'[p].tried < LbFlows
      /\ lb'[p].on => scene.call[p].detect /\ TestTtl(hops'[p]) >= 3
  BY DEF Inv, TestsWhenAsked
<1>6. Undisturbed(p)' => Undisturbed(p)
  BY DEF Undisturbed, Idle
<1>7. Undisturbed(p)' => HopsExplained(p)'
  <2>1. HopsExplained(p)
    BY DEF Inv
  <2> QED
    BY <1>6, <2>1 DEF HopsExplained, HopExplained, ReachExplained, TraceFlows,
       Target, Reached, Mode
<1> QED
  BY <1>2, <1>3, <1>4, <1>5, <1>7, StepFrame

\* A trace begins.
LEMMA StartInv ==
    ASSUME Inv, NEW p \in Tracers, Start(p)
    PROVE  Inv'
<1>1. /\ pc[p] = "start" /\ pc' = [pc EXCEPT ![p] = "send"]
      /\ UNCHANGED <<scene, flow, hops, paths, lb, sent, fell, wire, queue>>
  BY DEF Start
<1>2. pc'[p] = "send"
  BY <1>1 DEF Inv, TypeOK
<1>3. Quiet(p)' /\ Late(p)'
  <2>1. Quiet(p) /\ Late(p)
    BY DEF Inv
  <2>2. /\ Trial(p)' => Trial(p)
        /\ Pending(p)' = Pending(p) /\ Answered(p)' = Answered(p)
        /\ Ttl(p)' = Ttl(p) /\ TraceFlows(p)' = TraceFlows(p)
        /\ Target(p)' = Target(p) /\ Undisturbed(p)' = Undisturbed(p)
    BY <1>1 DEF Trial, Pending, Answered, Ttl, TraceFlows, Target, Undisturbed,
       Idle
  <2>3. Quiet(p)'
    BY <1>1, <2>1, <2>2 DEF Quiet, FitsNow
  <2>4. Late(p)'
    BY <1>1, <2>1, <2>2 DEF Late, FromWithin
  <2> QED
    BY <2>3, <2>4
<1>4. /\ sent' \in [Tracers -> Nat] /\ fell' \in [Tracers -> BOOLEAN]
      /\ wire' \in SUBSET Packet
  BY <1>1 DEF Inv, TypeOK
<1> QED
  BY <1>1, <1>2, <1>3, <1>4, SameTrace

\* The raw socket is opened.
LEMMA OpenIcmpInv ==
    ASSUME Inv, NEW p \in Tracers, OpenIcmp(p)
    PROVE  Inv'
<1>1. /\ pc[p] = "open" /\ pc' = [pc EXCEPT ![p] = "recv"]
      /\ UNCHANGED <<scene, flow, hops, paths, lb, sent, fell, wire, queue>>
  BY DEF OpenIcmp
<1>2. pc'[p] = "recv"
  BY <1>1 DEF Inv, TypeOK
<1>3. Quiet(p)' /\ Late(p)'
  <2>1. Quiet(p) /\ Late(p)
    BY DEF Inv
  <2>2. /\ Trial(p)' => Trial(p)
        /\ Pending(p)' = Pending(p) /\ Answered(p)' = Answered(p)
        /\ Ttl(p)' = Ttl(p) /\ TraceFlows(p)' = TraceFlows(p)
        /\ Target(p)' = Target(p) /\ Undisturbed(p)' = Undisturbed(p)
    BY <1>1 DEF Trial, Pending, Answered, Ttl, TraceFlows, Target, Undisturbed,
       Idle
  <2>3. Quiet(p)'
    BY <1>1, <1>2, <2>1, <2>2 DEF Quiet, FitsNow
  <2>4. Late(p)'
    BY <1>1, <2>1, <2>2 DEF Late, FromWithin
  <2> QED
    BY <2>3, <2>4
<1>4. /\ sent' \in [Tracers -> Nat] /\ fell' \in [Tracers -> BOOLEAN]
      /\ wire' \in SUBSET Packet
  BY <1>1 DEF Inv, TypeOK
<1> QED
  BY <1>1, <1>2, <1>3, <1>4, SameTrace

(* A probe that is sent while all before it were answered finds nothing on  *)
(* its way; its answer has its TTL.                                         *)
LEMMA SendInv ==
    ASSUME Inv, NEW p \in Tracers, NEW f \in Flows, Elicits(p, f),
           pc[p] = "send", pc' = [pc EXCEPT ![p] = pc'[p]],
           pc'[p] \in {"open", "recv"},
           UNCHANGED <<scene, flow, hops, paths, lb, queue>>,
           fell' \in [Tracers -> BOOLEAN], fell[p] => fell'[p],
           Undisturbed(p)' /\ ~lb[p].on => f \in TraceFlows(p)
    PROVE  Inv'
<1>1. /\ sent' \in [Tracers -> Nat] /\ wire' \in SUBSET Packet
      /\ wire' \subseteq wire \cup {Answer(p, f)}
  BY ElicitsIs DEF Inv
<1>2. /\ Answer(p, f).addr = Node(Target(p), f, Ttl(p))
      /\ Answer(p, f).type \in {0, 3} => Answer(p, f).addr \in Filters \cup Targets
      /\ Ttl(p) \in Nat \ {0}
  BY AnswerIs, Asks DEF Inv
<1>3. queue[p] = <<>> /\ queue'[p] = <<>> /\ Pending(p)' = wire' /\ Pending(p) = wire
  <2>1. queue[p] = <<>> /\ queue'[p] = <<>>
    BY DEF Inv, ClosedEmpty
  <2> QED
    BY <2>1 DEF Pending
<1>4. /\ Ttl(p)' = Ttl(p) /\ TraceFlows(p)' = TraceFlows(p)
      /\ Target(p)' = Target(p) /\ Answered(p)' = Answered(p)
      /\ Undisturbed(p)' => Undisturbed(p)
  BY DEF Ttl, TraceFlows, Target, Answered, Undisturbed, Idle
<1>5. ASSUME Undisturbed(p)', Trial(p)'
      PROVE  /\ Undisturbed(p) /\ Trial(p) /\ f \in TraceFlows(p)
  BY <1>4, <1>5 DEF Trial
<1>6. ASSUME Undisturbed(p)'
      PROVE  Quiet(p)'
  <2> SUFFICES ASSUME Trial(p)', Answered(p)'
               PROVE  /\ \A a, b \in wire' : a = b
                      /\ \A a \in wire' : FitsNow(p, a)'
    BY <1>3 DEF Quiet
  <2>1. wire = {}
    BY <1>4, <1>5, <1>6 DEF Quiet, Inv
  <2>2. \A a \in wire' : a = Answer(p, f)
    BY <1>1, <2>1
  <2>3. FitsNow(p, Answer(p, f))
    BY <1>2, <1>5, <1>6 DEF FitsNow
  <2> QED
    BY <1>4, <2>2, <2>3 DEF FitsNow
<1>7. ASSUME Undisturbed(p)'
      PROVE  Late(p)'
  <2> SUFFICES ASSUME Trial(p)', flow[p] = 0, NEW a \in wire'
               PROVE  FromWithin(p, a, Ttl(p))'
    BY <1>3 DEF Late
  <2>1. CASE a \in wire
    <3>1. FromWithin(p, a, Ttl(p))
      BY <1>3, <1>5, <1>7, <2>1 DEF Late, Inv
    <3> QED
      BY <1>4, <3>1 DEF FromWithin
  <2>2. CASE a = Answer(p, f)
    <3>1. Ttl(p) \in 1..Ttl(p)
      BY <1>2
    <3>2. FromWithin(p, a, Ttl(p))
      BY <1>2, <1>5, <1>7, <2>2, <3>1 DEF FromWithin
    <3> QED
      BY <1>4, <3>2 DEF FromWithin
  <2> QED
    BY <1>1, <2>1, <2>2
<1> QED
  BY <1>1, <1>6, <1>7, SameTrace

\* An Echo Request is sent.
LEMMA SendEchoInv ==
    ASSUME Inv, NEW p \in Tracers, SendEcho(p)
    PROVE  Inv'
<1>1. PICK f \in Flows : Elicits(p, f)
  BY DEF SendEcho, EchoFlows
<1>2. pc'[p] = "recv" /\ pc' = [pc EXCEPT ![p] = "recv"]
  BY DEF SendEcho, Inv, TypeOK
<1>3. ~lb[p].on => f \in TraceFlows(p)
  BY DEF SendEcho, Mode, TraceFlows, EchoFlows
<1>4. fell' = fell /\ fell \in [Tracers -> BOOLEAN]
  BY DEF SendEcho, Inv, TypeOK
<1> QED
  BY <1>1, <1>2, <1>3, <1>4, SendInv DEF SendEcho

\* A UDP probe is sent.
LEMMA SendUdpInv ==
    ASSUME Inv, NEW p \in Tracers, SendUdp(p)
    PROVE  Inv'
<1>1. PICK f \in Flows :
        Elicits(p, f) /\ fell' = [fell EXCEPT ![p] = @ \/ f # Asked(p)]
  BY DEF SendUdp
<1>2. /\ pc'[p] \in {"open", "recv"} /\ pc' = [pc EXCEPT ![p] = pc'[p]]
  BY DEF SendUdp, Inv, TypeOK
<1>3. /\ fell' \in [Tracers -> BOOLEAN] /\ (fell[p] => fell'[p])
      /\ ~fell'[p] => f = Asked(p)
  <2>1. fell \in [Tracers -> BOOLEAN]
    BY DEF Inv, TypeOK
  <2> QED
    BY <1>1, <2>1
<1>4. Undisturbed(p)' /\ ~lb[p].on => f \in TraceFlows(p)
  BY <1>3 DEF SendUdp, Undisturbed, TraceFlows, Mode, RawModes, Asked
<1> QED
  BY <1>1, <1>2, <1>3, <1>4, SendInv DEF SendUdp

\* A TCP probe is refused.
LEMMA RefuseInv ==
    ASSUME Inv, NEW p \in Tracers, Refuse(p)
    PROVE  Inv'
<1>1. /\ pc[p] = "start" /\ pc' = [pc EXCEPT ![p] = "failed"]
      /\ paths' = [paths EXCEPT ![p] = <<>>]
      /\ UNCHANGED <<scene, flow, hops, lb, sent, fell, wire, queue>>
  BY DEF Refuse
<1>2. pc \in [Tracers -> Places] /\ pc' \in [Tracers -> Places] /\ pc'[p] = "failed"
  BY <1>1 DEF Inv, TypeOK, Places
<1>3. TypeOK'
  <2>1. paths' \in [Tracers -> Seq(Seq(Hop))]
    BY <1>1 DEF Inv, TypeOK
  <2> QED
    BY <1>1, <1>2, <2>1 DEF Inv, TypeOK, Places
<1>4. Others(p)
  BY <1>1, <1>2 DEF Others
<1>5. queue'[p] = <<>> /\ hops'[p] = <<>>
  BY <1>1 DEF Inv, ClosedEmpty
<1>6. /\ lb'[p].on \/ pc'[p] # "done" => lb'[p].tried < LbFlows
      /\ lb'[p].on => scene.call[p].detect /\ TestTtl(hops'[p]) >= 3
  BY <1>1 DEF Inv, TestsWhenAsked
<1>7. Quiet(p)' /\ Late(p)' /\ HopsExplained(p)'
  BY <1>2, <1>5 DEF Quiet, Late, HopsExplained, Trial
<1> QED
  BY <1>1, <1>2, <1>3, <1>4, <1>5, <1>6, <1>7, StepFrame

----------------------------------------------------------------------------
(* A packet reaches the host.                                               *)

\* A packet reaches every open raw socket.
LEMMA DeliverInv ==
    ASSUME Inv, NEW a \in wire, Deliver(a)
    PROVE  Inv'
<1>1. /\ wire' = wire \ {a}
      /\ UNCHANGED <<scene, pc, flow, hops, paths, lb, sent, fell>>
      /\ \A q \in Tracers :
            queue'[q] = IF Listens(q, a) THEN Append(queue[q], a) ELSE queue[q]
  BY DEF Deliver
<1>2. a \in Packet /\ \A q \in Tracers : queue[q] \in Seq(Packet)
  BY DEF Inv, TypeOK
<1>3. TypeOK'
  <2>1. queue' \in [Tracers -> Seq(Packet)]
    BY <1>2 DEF Deliver
  <2> QED
    BY <1>1, <2>1 DEF Inv, TypeOK
<1>4. IdleDone' /\ TestsWhenAsked'
  BY <1>1 DEF Inv, IdleDone, Idle, TestsWhenAsked
<1>5. ClosedEmpty'
  BY <1>1 DEF Inv, ClosedEmpty, Listens
<1>6. ASSUME NEW p \in Tracers
      PROVE  Quiet(p)' /\ Late(p)' /\ HopsExplained(p)'
  <2>1. Quiet(p) /\ Late(p) /\ HopsExplained(p)
    BY DEF Inv
  <2>2. /\ Trial(p)' = Trial(p) /\ Answered(p)' = Answered(p)
        /\ Ttl(p)' = Ttl(p) /\ TraceFlows(p)' = TraceFlows(p)
        /\ Target(p)' = Target(p) /\ Undisturbed(p)' = Undisturbed(p)
        /\ \A h : Reached(p, h)' = Reached(p, h)
    BY <1>1 DEF Trial, Answered, Ttl, TraceFlows, Target, Undisturbed, Idle,
       Reached, Mode
  <2>3. Pending(p)' \subseteq Pending(p)
    <3>1. CASE Listens(p, a)
      <4>1. /\ Len(queue'[p]) = Len(queue[p]) + 1 /\ Len(queue[p]) \in Nat
            /\ queue'[p][Len(queue[p]) + 1] = a
            /\ \A k \in 1..Len(queue[p]) : queue'[p][k] = queue[p][k]
        <5>1. queue'[p] = Append(queue[p], a)
          BY <1>1, <3>1
        <5>2. queue[p] \in Seq(Packet) /\ a \in Packet
          BY <1>2
        <5> QED
          BY <5>1, <5>2, AppendIs
      <4> QED
        BY <1>1, <4>1 DEF Pending
    <3>2. CASE ~Listens(p, a)
      BY <1>1, <3>2 DEF Pending
    <3> QED
      BY <3>1, <3>2
  <2>4. Quiet(p)'
    <3> SUFFICES ASSUME Undisturbed(p), Trial(p), Answered(p)
                 PROVE  /\ pc[p] \in {"start", "send"} => wire' = {}
                        /\ queue'[p] # <<>> => wire' = {}
                        /\ \A b, c \in wire' : b = c
                        /\ \A b \in Pending(p)' : FitsNow(p, b)'
      BY <1>1, <2>2 DEF Quiet
    <3>1. /\ \A b, c \in wire : b = c
          /\ \A b \in Pending(p) : FitsNow(p, b)
          /\ pc[p] \notin {"start", "send"}
      BY <2>1 DEF Quiet
    <3>2. wire' = {}
      BY <1>1, <3>1
    <3> QED
      BY <2>2, <2>3, <3>1, <3>2 DEF FitsNow
  <2>5. Late(p)'
    BY <1>1, <2>1, <2>2, <2>3 DEF Late, FromWithin
  <2>6. HopsExplained(p)'
    BY <1>1, <2>1, <2>2 DEF HopsExplained, HopExplained, ReachExplained
  <2> QED
    BY <2>4, <2>5, <2>6
<1> QED
  BY <1>3, <1>4, <1>5, <1>6 DEF Inv

----------------------------------------------------------------------------
(* The theorems.                                                            *)

\* Every step keeps the invariant.
LEMMA NextInv == Inv /\ [Next]_vars => Inv'
<1> SUFFICES ASSUME Inv, [Next]_vars PROVE Inv'
  OBVIOUS
<1>1. ASSUME NEW p \in Tracers, ProbeFails(p) \/ TimesOut(p)
      PROVE  Inv'
  BY <1>1, TimeoutInv DEF ProbeFails, TimesOut
<1>2. ASSUME NEW p \in Tracers, Step(p)
      PROVE  Inv'
  BY <1>1, <1>2, StartInv, RefuseInv, SendEchoInv, SendUdpInv, OpenIcmpInv,
     TcpProbeInv, ReceiveInv DEF Step
<1>3. ASSUME NEW a \in wire, Deliver(a)
      PROVE  Inv'
  BY <1>3, DeliverInv
<1>4. CASE UNCHANGED vars
  <2>1. /\ TypeOK' = TypeOK /\ IdleDone' = IdleDone
        /\ ClosedEmpty' = ClosedEmpty /\ TestsWhenAsked' = TestsWhenAsked
    BY <1>4 DEF vars, TypeOK, IdleDone, Idle, ClosedEmpty, TestsWhenAsked
  <2>2. \A p \in Tracers :
          /\ Trial(p)' = Trial(p) /\ Answered(p)' = Answered(p)
          /\ Ttl(p)' = Ttl(p) /\ TraceFlows(p)' = TraceFlows(p)
          /\ Target(p)' = Target(p) /\ Undisturbed(p)' = Undisturbed(p)
          /\ Pending(p)' = Pending(p)
          /\ \A h : Reached(p, h)' = Reached(p, h)
    BY <1>4 DEF vars, Trial, Answered, Ttl, TraceFlows, Target, Undisturbed,
       Idle, Reached, Mode, Pending
  <2>3. ASSUME NEW p \in Tracers
        PROVE  Quiet(p)' /\ Late(p)' /\ HopsExplained(p)'
    <3>1. Quiet(p) /\ Late(p) /\ HopsExplained(p)
      BY DEF Inv
    <3>2. Quiet(p)'
      BY <1>4, <2>2, <3>1 DEF vars, Quiet, FitsNow
    <3>3. Late(p)'
      BY <1>4, <2>2, <3>1 DEF vars, Late, FromWithin
    <3>4. HopsExplained(p)'
      BY <1>4, <2>2, <3>1 DEF vars, HopsExplained, HopExplained, ReachExplained
    <3> QED
      BY <3>2, <3>3, <3>4
  <2> QED
    BY <2>1, <2>3 DEF Inv
<1> QED
  BY <1>2, <1>3, <1>4 DEF Next

\* The invariant holds in every reachable state.
THEOREM Invariance == Spec => []Inv
BY InitInv, NextInv, PTL DEF Spec

(* The variables of a trace keep their types: of any number of flows, no    *)
(* more are traced or tested than asked for (paris.rs:831, :876).           *)
THEOREM TypeCorrect == Spec => []TypeOK
<1>1. Inv => TypeOK
  BY DEF Inv
<1> QED
  BY <1>1, Invariance, PTL

(* Over any network, a hop of an undisturbed trace that is not where the    *)
(* route has it comes after a probe that went unanswered: the first packet  *)
(* a raw socket gives is not compared with the probe (traceroute.rs:214,    *)
(* paris.rs:408), but nothing else can be on its way until then.            *)
THEOREM WrongHopsHaveCauses == Spec => []WrongHopNeedsCause
<1>1. Inv => WrongHopNeedsCause
  <2> SUFFICES ASSUME Inv, NEW p \in Tracers, Undisturbed(p),
                      NEW k \in 1..Len(hops[p])
               PROVE  \/ hops[p][k].addr = None
                      \/ \E f \in TraceFlows(p) :
                            hops[p][k].addr = Node(Target(p), f, k)
                      \/ Unanswered(SubSeq(hops[p], 1, k - 1))
                      \/ SomeUnanswered(paths[p])
    BY DEF WrongHopNeedsCause
  <2>1. HopExplained(p, hops[p], k)
    BY DEF Inv, HopsExplained
  <2>2. hops[p] \in Seq(Hop)
    BY DEF Inv, TypeOK
  <2>3. (\E j \in 1..k - 1 : hops[p][j].addr = None)
           => Unanswered(SubSeq(hops[p], 1, k - 1))
    BY <2>2, UnansweredPrefix
  <2> QED
    BY <2>1, <2>3 DEF HopExplained
<1> QED
  BY <1>1, Invariance, PTL

(* Over any network, however many answers are lost or late, an undisturbed  *)
(* first trace stops early only for a router that answers Destination       *)
(* Unreachable (paris.rs:319, traceroute.rs:136).                           *)
THEOREM ShortTracesHaveFilters == Spec => []ShortTraceNeedsFilter
<1>1. Inv => ShortTraceNeedsFilter
  BY DEF Inv, ShortTraceNeedsFilter, HopsExplained, ReachExplained
<1> QED
  BY <1>1, Invariance, PTL

----------------------------------------------------------------------------
(* What a packet says of who sent it: an Echo Reply comes from a target,    *)
(* and Destination Unreachable from a target or a filter.                   *)

Told(a) ==
    /\ a.type = 0 => a.addr \in Targets
    /\ a.type \in {0, 3} <=> a.addr \in Filters \cup Targets

PacketsTell ==
    /\ \A a \in wire : Told(a)
    /\ \A p \in Tracers : \A i \in 1..Len(queue[p]) : Told(queue[p][i])

(* The nodes a call c ends a trace at, and what it records on the way to t. *)
Ends(c) == IF c.mode = "classic" THEN Targets ELSE Filters \cup Targets

OnRoute(t, a, k) == \E f \in Flows : a = Node(t, f, k)

Good(t, hs, k) == hs[k].addr # None /\ OnRoute(t, hs[k].addr, k)

Under(c, t, hs) ==
    /\ Len(hs) < c.max_hops
    /\ \A k \in 1..Len(hs) : Good(t, hs, k) /\ hs[k].addr \notin Ends(c)

Whole(c, t, hs) ==
    /\ Len(hs) \in 1..c.max_hops
    /\ \A k \in 1..Len(hs) : Good(t, hs, k)
    /\ \A k \in 1..Len(hs) - 1 : hs[k].addr \notin Ends(c)
    /\ hs[Len(hs)].addr \in Ends(c) \/ Len(hs) = c.max_hops

(* Every probe of the call was answered, those of the test included.        *)
Clean(p) == Undisturbed(p) /\ Answered(p) /\ None \notin lb[p].addrs

TracesWhole(p) ==
    Clean(p) =>
        /\ Trial(p) => Under(scene.call[p], Target(p), hops[p])
        /\ lb[p].on => Whole(scene.call[p], Target(p), hops[p])
        /\ \A i \in 1..Len(paths[p]) : Whole(scene.call[p], Target(p), paths[p][i])

(* The addresses of the test are those of the flows tested, at the hop      *)
(* tested.                                                                  *)
OfFlows(t, k, addrs, tried) ==
    /\ addrs # {}
    /\ \A a \in addrs : OnRoute(t, a, k)
    /\ \A f \in 0..tried - 1 : Node(t, f, k) \in addrs

AddrsAreOfFlows(p) ==
    Clean(p) /\ (lb[p].on \/ lb[p].verdict # "Unknown") =>
        OfFlows(Target(p), TestTtl(hops[p]), lb[p].addrs, lb[p].tried)

QuietTest(p) ==
    Clean(p) /\ lb[p].on =>
        /\ pc[p] = "send" => wire = {}
        /\ queue[p] # <<>> => wire = {}
        /\ \A a, b \in wire : a = b
        /\ \A a \in Pending(p) :
              a.addr = Node(Target(p), lb[p].tried, TestTtl(hops[p]))

LbKeeps(p) ==
    /\ IsFiniteSet(lb[p].addrs)
    /\ lb[p].on => pc[p] \in {"send", "open", "recv"} /\ lb[p].verdict = "Unknown"
    /\ ~lb[p].on /\ pc[p] # "done" => lb[p].addrs = {} /\ lb[p].tried = 0
    /\ lb[p].verdict # "Unknown" =>
          /\ pc[p] = "done" /\ lb[p].tried = LbFlows
          /\ lb[p].verdict = Verdict(lb[p].addrs)
    /\ pc[p] = "done" /\ ~Idle(p) =>
          \E i \in 1..Len(paths[p]) : paths[p][i] = hops[p]

Balanced(p) == TracesWhole(p) /\ AddrsAreOfFlows(p) /\ QuietTest(p) /\ LbKeeps(p)

BalInv == PacketsTell /\ \A p \in Tracers : Balanced(p)

\* What answers a probe tells who it is from.
LEMMA AnswerTold ==
    ASSUME TypeOK, TestsWhenAsked, NEW p \in Tracers, NEW f \in Flows
    PROVE  Told(Answer(p, f))
<1> DEFINE n == Node(Target(p), f, Ttl(p))
<1>1. n \in Addrs /\ Targets \cap Routers = {} /\ Filters \subseteq Routers
  BY CallFacts, NodeIs, Asks, NetworkAssumption
<1> HIDE DEF n
<1>2. AnswerType(p, n) = 0 => n \in Targets
  BY DEF AnswerType
<1>3. AnswerType(p, n) \in {0, 3} <=> n \in Filters \cup Targets
  BY <1>1 DEF AnswerType, Addrs
<1>4. Answer(p, f).addr = n /\ Answer(p, f).type = AnswerType(p, n)
  BY DEF Answer, n
<1> QED  BY <1>2, <1>3, <1>4 DEF Told

\* The invariant holds before any trace has started.
LEMMA BalInit == Init => BalInv
<1> SUFFICES ASSUME Init PROVE BalInv
  OBVIOUS
<1>1. ASSUME NEW p \in Tracers
      PROVE  /\ pc[p] = IF Idle(p) THEN "done" ELSE "start"
             /\ hops[p] = <<>> /\ paths[p] = <<>> /\ lb[p] = NoLb /\ queue[p] = <<>>
             /\ Len(hops[p]) = 0 /\ Len(paths[p]) = 0 /\ Len(queue[p]) = 0
             /\ wire = {}
  BY DEF Init
<1>2. PacketsTell
  BY <1>1 DEF PacketsTell, Init
<1>3. ASSUME NEW p \in Tracers PROVE Balanced(p)
  <2>1. /\ ~lb[p].on /\ lb[p].addrs = {} /\ lb[p].tried = 0
        /\ lb[p].verdict = "Unknown"
    BY <1>1 DEF NoLb
  <2>2. ASSUME Clean(p), Trial(p) PROVE Under(scene.call[p], Target(p), hops[p])
    <3>1. scene.call[p] \in Calls
      BY OptionsAssumption DEF Init
    <3>2. scene.call[p].max_hops \in Nat \ {0}
      BY <3>1, OptionsAssumption DEF Calls
    <3> QED  BY <1>1, <3>2 DEF Under
  <2>3. IsFiniteSet({})
    BY FS_EmptySet
  <2> QED
    BY <1>1, <2>1, <2>2, <2>3
    DEF Balanced, TracesWhole, AddrsAreOfFlows, QuietTest, LbKeeps
<1> QED  BY <1>2, <1>3 DEF BalInv

(* The others, if they are undisturbed, make no call of their own.          *)
LEMMA BalFrame ==
    ASSUME Inv, BalInv, NEW p \in Tracers, pc[p] # "done", Others(p),
           \A q \in Tracers \ {p} : paths'[q] = paths[q],
           PacketsTell', LbKeeps(p)',
           Clean(p)' => TracesWhole(p)' /\ AddrsAreOfFlows(p)' /\ QuietTest(p)'
    PROVE  BalInv'
<1>1. ~Idle(p) /\ scene' = scene
  BY DEF Inv, IdleDone, Others
<1>2. ASSUME NEW q \in Tracers PROVE Balanced(q)'
  <2>1. CASE q = p
    BY <2>1 DEF Balanced, TracesWhole, AddrsAreOfFlows, QuietTest
  <2>2. CASE q # p
    <3>1. ~Clean(q)'
      BY <1>1, <2>2 DEF Clean, Undisturbed, Idle
    <3>2. LbKeeps(q)
      BY DEF BalInv, Balanced
    <3>3. /\ pc'[q] = pc[q] /\ lb'[q] = lb[q] /\ hops'[q] = hops[q]
          /\ paths'[q] = paths[q] /\ Idle(q)' = Idle(q)
      BY <1>1, <2>2 DEF Others, Idle
    <3>4. LbKeeps(q)'
      BY <3>2, <3>3 DEF LbKeeps
    <3> QED
      BY <3>1, <3>4 DEF Balanced, TracesWhole, AddrsAreOfFlows, QuietTest
  <2> QED  BY <2>1, <2>2
<1> QED  BY <1>2 DEF BalInv

(* One more flow is tested.                                                 *)
LEMMA OneFlowMore ==
    ASSUME NEW t, NEW k, NEW addrs, NEW m \in Flows, OfFlows(t, k, addrs, m),
           NEW a, a = Node(t, m, k)
    PROVE  OfFlows(t, k, addrs \cup {a}, m + 1)
<1>1. m \in Nat
  BY NetworkAssumption DEF Flows
<1>2. PICK n : n = m + 1
  OBVIOUS
<1>3. PICK more : more = addrs \cup {a}
  OBVIOUS
<1>4. /\ addrs # {} /\ \A b \in addrs : OnRoute(t, b, k)
      /\ \A f \in 0..m - 1 : Node(t, f, k) \in addrs
  BY DEF OfFlows
<1>5. OnRoute(t, a, k)
  BY DEF OnRoute
<1>6. \A f \in 0..n - 1 : f \in 0..m - 1 \/ f = m
  BY <1>1, <1>2
<1>7. \A f \in 0..n - 1 : Node(t, f, k) \in more
  BY <1>3, <1>4, <1>6
<1>8. more # {} /\ \A b \in more : OnRoute(t, b, k)
  BY <1>3, <1>4, <1>5
<1>9. OfFlows(t, k, more, n)
  BY <1>7, <1>8 DEF OfFlows
<1> QED  BY <1>2, <1>3, <1>9

(* A trace under way and one more hop.                                      *)
LEMMA OneHopMore ==
    ASSUME NEW c, c.max_hops \in Nat, NEW t, NEW hs \in Seq(Hop), NEW h \in Hop,
           Under(c, t, hs), NEW xs, xs = Append(hs, h),
           h.addr # None, OnRoute(t, h.addr, Len(hs) + 1)
    PROVE  /\ h.addr \notin Ends(c) /\ Len(xs) # c.max_hops => Under(c, t, xs)
           /\ h.addr \in Ends(c) \/ Len(xs) = c.max_hops => Whole(c, t, xs)
<1>0. PICK n : n = Len(hs)
  OBVIOUS
<1>1. /\ n \in Nat /\ Len(xs) = n + 1 /\ xs[n + 1] = h
      /\ \A k \in 1..n : xs[k] = hs[k]
  BY <1>0, AppendIs
<1>2. n < c.max_hops /\ \A k \in 1..n : Good(t, hs, k) /\ hs[k].addr \notin Ends(c)
  BY <1>0 DEF Under
<1>3. \A k \in 1..n : Good(t, xs, k) /\ xs[k].addr \notin Ends(c)
  BY <1>1, <1>2 DEF Good
<1>4. Good(t, xs, n + 1)
  BY <1>0, <1>1 DEF Good
<1>5. \A k \in 1..n + 1 : k \in 1..n \/ k = n + 1
  BY <1>1
<1>6. \A k \in 1..n + 1 : Good(t, xs, k)
  BY <1>3, <1>4, <1>5
<1>7. ASSUME h.addr \notin Ends(c), Len(xs) # c.max_hops PROVE Under(c, t, xs)
  <2>1. \A k \in 1..n + 1 : xs[k].addr \notin Ends(c)
    BY <1>1, <1>3, <1>5, <1>7
  <2>2. n + 1 < c.max_hops
    BY <1>1, <1>2, <1>7
  <2> QED  BY <1>1, <1>6, <2>1, <2>2 DEF Under
<1>8. ASSUME h.addr \in Ends(c) \/ Len(xs) = c.max_hops PROVE Whole(c, t, xs)
  <2>1. n + 1 \in 1..c.max_hops /\ n + 1 - 1 = n
    BY <1>1, <1>2
  <2>2. \A k \in 1..n + 1 - 1 : xs[k].addr \notin Ends(c)
    BY <1>3, <2>1
  <2> QED  BY <1>1, <1>6, <1>8, <2>1, <2>2 DEF Whole
<1> QED  BY <1>7, <1>8

(* A hop that may be recorded while every probe was answered.               *)
Fits(p, h) ==
    Clean(p) /\ h.addr # None =>
        /\ wire = {}
        /\ ~lb[p].on => /\ OnRoute(Target(p), h.addr, Len(hops[p]) + 1)
                        /\ Reached(p, h) <=> h.addr \in Ends(scene.call[p])
        /\ lb[p].on => h.addr = Node(Target(p), lb[p].tried, TestTtl(hops[p]))

(* A call all of whose probes are answered after a hop was recorded had     *)
(* them all answered before.                                                *)
LEMMA CleanBefore ==
    ASSUME Inv, BalInv, NEW p \in Tracers, pc[p] \in {"send", "open", "recv"},
           NEW h \in Hop, Records(p, h), scene' = scene, fell' = fell, Clean(p)'
    PROVE  Clean(p) /\ h.addr # None
<1> USE DEF Inv
<1>1. \/ GoesOn(p, h) \/ Tests(p, h) \/ NextFlow(p, h) \/ Finishes(p, h)
      \/ TestsOn(p, h) \/ TestsEnd(p, h)
  BY RecordsDoes
<1> DEFINE hs == Append(hops[p], h)
<1>2. hops[p] \in Seq(Hop) /\ hs \in Seq(Hop)
  BY AppendIn DEF TypeOK
<1>3. /\ SomeUnanswered(paths[p]) => SomeUnanswered(Append(paths[p], hs))
      /\ SomeUnanswered(paths[p]) => SomeUnanswered(Append(paths[p], hops[p]))
      /\ Unanswered(hs) => SomeUnanswered(Append(paths[p], hs))
      /\ Unanswered(hops[p]) => SomeUnanswered(Append(paths[p], hops[p]))
  BY <1>2, PathsKeepMisses
<1>4. /\ Unanswered(hops[p]) => Unanswered(hs)
      /\ h.addr = None => Unanswered(hs)
  BY <1>2, HopsKeepMisses
<1>5. Undisturbed(p) /\ ~Unanswered(hops'[p]) /\ ~SomeUnanswered(paths'[p])
      /\ None \notin lb'[p].addrs
  BY DEF Clean, Answered, Undisturbed, Idle
<1>6. ~Unanswered(hops[p]) /\ ~SomeUnanswered(paths[p])
  BY <1>1, <1>3, <1>4, <1>5 DEF GoesOn, Tests, NextFlow, Finishes, TestsOn, TestsEnd
<1>7. ~lb[p].on => lb[p].addrs = {}
  BY DEF BalInv, Balanced, LbKeeps
<1>8. None \notin lb[p].addrs
  BY <1>1, <1>5, <1>7 DEF GoesOn, Tests, NextFlow, Finishes, TestsOn, TestsEnd
<1>9. h.addr # None
  BY <1>1, <1>3, <1>4, <1>5 DEF GoesOn, Tests, NextFlow, Finishes, TestsOn, TestsEnd
<1> QED  BY <1>5, <1>6, <1>8, <1>9 DEF Clean, Answered

\* Recording a hop keeps the test's own books.
LEMMA LbKeepsStep ==
    ASSUME Inv, BalInv, NEW p \in Tracers, pc[p] \in {"send", "open", "recv"},
           NEW h \in Hop, Records(p, h), scene' = scene
    PROVE  LbKeeps(p)'
<1> USE DEF Inv
<1>1. \/ GoesOn(p, h) \/ Tests(p, h) \/ NextFlow(p, h) \/ Finishes(p, h)
      \/ TestsOn(p, h) \/ TestsEnd(p, h)
  BY RecordsDoes
<1>2. /\ IsFiniteSet(lb[p].addrs) /\ lb[p].verdict = "Unknown"
      /\ ~lb[p].on => lb[p].addrs = {} /\ lb[p].tried = 0
  BY DEF BalInv, Balanced, LbKeeps
<1>3. hops[p] \in Seq(Hop) /\ Append(hops[p], h) \in Seq(Hop)
      /\ paths[p] \in Seq(Seq(Hop))
  BY AppendIn DEF TypeOK
<1>4. \A hs \in Seq(Hop) :
         \E i \in 1..Len(Append(paths[p], hs)) : Append(paths[p], hs)[i] = hs
  <2> TAKE hs \in Seq(Hop)
  <2>1. /\ Len(Append(paths[p], hs)) = Len(paths[p]) + 1 /\ Len(paths[p]) \in Nat
        /\ Append(paths[p], hs)[Len(paths[p]) + 1] = hs
    BY <1>3, AppendIs
  <2> QED  BY <2>1
<1>5. \A x : IsFiniteSet({x}) /\ IsFiniteSet(lb[p].addrs \cup {x})
  BY <1>2, FS_Singleton, FS_AddElement
<1>6. CASE GoesOn(p, h)
  BY <1>2, <1>6 DEF GoesOn, LbKeeps
<1>7. CASE Tests(p, h)
  BY <1>2, <1>5, <1>7 DEF Tests, LbKeeps
<1>8. CASE NextFlow(p, h)
  BY <1>2, <1>8 DEF NextFlow, LbKeeps
<1>9. CASE Finishes(p, h)
  BY <1>2, <1>3, <1>4, <1>9 DEF Finishes, LbKeeps
<1>10. CASE TestsOn(p, h)
  BY <1>2, <1>5, <1>10 DEF TestsOn, LbKeeps
<1>11. CASE TestsEnd(p, h)
  <2>1. /\ ~lb'[p].on /\ pc'[p] = "done" /\ lb'[p].tried = LbFlows
        /\ lb'[p].verdict = Verdict(lb'[p].addrs)
        /\ lb'[p].addrs = lb[p].addrs \cup {h.addr}
        /\ hops'[p] = hops[p] /\ paths'[p] = Append(paths[p], hops[p])
    BY <1>11 DEF TestsEnd
  <2>2. IsFiniteSet(lb'[p].addrs)
    BY <1>5, <2>1
  <2>3. \E i \in 1..Len(paths'[p]) : paths'[p][i] = hops'[p]
    <3>1. PICK i \in 1..Len(Append(paths[p], hops[p])) :
             Append(paths[p], hops[p])[i] = hops[p]
      BY <1>3, <1>4
    <3> QED  BY <2>1, <3>1
  <2> QED  BY <2>1, <2>2, <2>3 DEF LbKeeps
<1> QED
  BY <1>1, <1>6, <1>7, <1>8, <1>9, <1>10, <1>11

\* Recording a hop keeps the invariant, if the hop fits where all were answered.
LEMMA RecordsBal ==
    ASSUME Inv, BalInv, NEW p \in Tracers, pc[p] \in {"send", "open", "recv"},
           NEW h \in Hop, Records(p, h), scene' = scene, fell' = fell,
           PacketsTell', Undisturbed(p) => wire' = wire /\ Fits(p, h)
    PROVE  BalInv'
<1> USE DEF Inv
<1> DEFINE hs == Append(hops[p], h)
           c == scene.call[p]
           t == Target(p)
<1>1. /\ Others(p) /\ queue'[p] = <<>>
      /\ \A q \in Tracers \ {p} : paths'[q] = paths[q]
  BY RecordsDoes
<1>2. \/ GoesOn(p, h) \/ Tests(p, h) \/ NextFlow(p, h) \/ Finishes(p, h)
      \/ TestsOn(p, h) \/ TestsEnd(p, h)
  BY RecordsDoes
<1>3. LbKeeps(p)'
  BY LbKeepsStep
<1>4. ASSUME Clean(p)'
      PROVE  TracesWhole(p)' /\ AddrsAreOfFlows(p)' /\ QuietTest(p)'
  <2>1. /\ Clean(p) /\ h.addr # None /\ wire = {} /\ wire' = {}
        /\ ~lb[p].on => /\ OnRoute(t, h.addr, Len(hops[p]) + 1)
                        /\ Reached(p, h) <=> h.addr \in Ends(c)
        /\ lb[p].on => h.addr = Node(t, lb[p].tried, TestTtl(hops[p]))
    BY <1>4, CleanBefore DEF Fits, Clean
  <2>2. /\ ~lb[p].on => Under(c, t, hops[p])
        /\ lb[p].on => Whole(c, t, hops[p])
        /\ \A i \in 1..Len(paths[p]) : Whole(c, t, paths[p][i])
    BY <2>1 DEF BalInv, Balanced, TracesWhole, Trial
  <2>3. /\ hops[p] \in Seq(Hop) /\ hs \in Seq(Hop) /\ paths[p] \in Seq(Seq(Hop))
        /\ c.max_hops \in Nat \ {0} /\ Target(p)' = t /\ scene'.call[p] = c
    <3>1. c.max_hops \in Nat \ {0}
      BY CallFacts, OptionsAssumption DEF Calls
    <3> QED  BY <3>1, AppendIn DEF TypeOK, Target
  <2>4. ~lb[p].on => /\ ~Over(p, h) => Under(c, t, hs)
                     /\ Over(p, h) => Whole(c, t, hs)
    <3> SUFFICES ASSUME ~lb[p].on
                 PROVE  /\ ~Over(p, h) => Under(c, t, hs)
                        /\ Over(p, h) => Whole(c, t, hs)
      OBVIOUS
    <3>1. /\ h.addr \notin Ends(c) /\ Len(hs) # c.max_hops => Under(c, t, hs)
          /\ h.addr \in Ends(c) \/ Len(hs) = c.max_hops => Whole(c, t, hs)
      <4> HIDE DEF c, t
      <4> QED  BY <2>1, <2>2, <2>3, OneHopMore
    <3>2. Over(p, h) <=> h.addr \in Ends(c) \/ Len(hs) = c.max_hops
      BY <2>1 DEF Over
    <3> QED  BY <3>1, <3>2
  <2> HIDE DEF c, t
  <2>5. \A xs \in Seq(Hop) : Whole(c, t, xs) =>
           \A i \in 1..Len(Append(paths[p], xs)) :
              Whole(c, t, Append(paths[p], xs)[i])
    <3> TAKE xs \in Seq(Hop)
    <3> HAVE Whole(c, t, xs)
    <3>1. PICK n : n = Len(paths[p])
      OBVIOUS
    <3>2. /\ Len(Append(paths[p], xs)) = n + 1 /\ n \in Nat
          /\ Append(paths[p], xs)[n + 1] = xs
          /\ \A k \in 1..n : Append(paths[p], xs)[k] = paths[p][k]
      BY <2>3, <3>1, AppendIs
    <3>3. \A i \in 1..n + 1 : i \in 1..n \/ i = n + 1
      BY <3>2
    <3> QED  BY <2>2, <3>1, <3>2, <3>3
  <2>6. TracesWhole(p)'
    <3>1. Trial(p)' => Under(c, t, hops'[p])
      <4>1. c.max_hops > 0 /\ Len(<<>>) = 0
        BY <2>3
      <4>2. Under(c, t, <<>>)
        BY <4>1 DEF Under
      <4> QED
        BY <1>2, <2>4, <4>2 DEF Trial, GoesOn, Tests, NextFlow, Finishes, TestsOn,
           TestsEnd
    <3>2. lb'[p].on => Whole(c, t, hops'[p])
      BY <1>2, <2>2, <2>4 DEF GoesOn, Tests, NextFlow, Finishes, TestsOn, TestsEnd
    <3>3. \A i \in 1..Len(paths'[p]) : Whole(c, t, paths'[p][i])
      <4>1. CASE paths'[p] = paths[p]
        BY <2>2, <4>1
      <4>2. CASE paths'[p] = Append(paths[p], hs) /\ Whole(c, t, hs)
        BY <2>3, <2>5, <4>2
      <4>3. CASE paths'[p] = Append(paths[p], hops[p]) /\ Whole(c, t, hops[p])
        BY <2>3, <2>5, <4>3
      <4> QED
        BY <1>2, <2>2, <2>4, <4>1, <4>2, <4>3
        DEF GoesOn, Tests, NextFlow, Finishes, TestsOn, TestsEnd
    <3> QED  BY <2>3, <3>1, <3>2, <3>3 DEF TracesWhole
  <2>7. AddrsAreOfFlows(p)'
    <3> SUFFICES ASSUME lb'[p].on \/ lb'[p].verdict # "Unknown"
                 PROVE  OfFlows(t, TestTtl(hops'[p]), lb'[p].addrs, lb'[p].tried)
      BY <2>3 DEF AddrsAreOfFlows
    <3>1. /\ lb[p].verdict = "Unknown"
          /\ ~lb[p].on => lb[p].tried = 0
      BY DEF BalInv, Balanced, LbKeeps
    <3>2. CASE Tests(p, h)
      <4>1. /\ hops'[p] = hs /\ lb'[p].addrs = {hs[TestTtl(hs)].addr}
            /\ lb'[p].tried = 0 /\ Whole(c, t, hs) /\ TestTtl(hs) >= 3
        BY <2>4, <3>1, <3>2 DEF Tests, Testable
      <4>2. TestTtl(hs) \in 1..Len(hs)
        BY <2>3, <4>1 DEF TestTtl
      <4>3. OnRoute(t, hs[TestTtl(hs)].addr, TestTtl(hs))
        BY <4>1, <4>2 DEF Whole, Good
      <4>4. 0..0 - 1 = {}
        OBVIOUS
      <4> HIDE DEF hs
      <4> QED  BY <4>1, <4>3, <4>4 DEF OfFlows
    <3>3. CASE TestsOn(p, h) \/ TestsEnd(p, h)
      <4> DEFINE m == lb[p].tried
                 k == TestTtl(hops[p])
      <4>1. /\ lb[p].on /\ hops'[p] = hops[p]
            /\ lb'[p].tried = m + 1 /\ lb'[p].addrs = lb[p].addrs \cup {h.addr}
        BY <3>3 DEF TestsOn, TestsEnd
      <4>2. m \in Flows /\ m \in Nat
        <5>1. m < LbFlows /\ LbFlows \in 1..NumFlows /\ NumFlows \in Nat
          BY <4>1, CallFacts DEF TestsWhenAsked
        <5>2. lb[p] \in Lbs
          BY DEF TypeOK, Lbs
        <5>3. m \in Nat
          BY <5>1, <5>2 DEF Lbs
        <5> QED  BY <5>1, <5>3 DEF Flows
      <4>3. OfFlows(t, k, lb[p].addrs, m)
        BY <2>1, <4>1 DEF BalInv, Balanced, AddrsAreOfFlows, t
      <4>4. h.addr = Node(t, m, k)
        BY <2>1, <4>1 DEF t
      <4> HIDE DEF m, k
      <4>5. OfFlows(t, k, lb[p].addrs \cup {h.addr}, m + 1)
        BY <4>2, <4>3, <4>4, OneFlowMore
      <4> QED  BY <4>1, <4>5 DEF k
    <3> QED
      BY <1>2, <3>1, <3>2, <3>3 DEF GoesOn, NextFlow, Finishes
  <2>8. QuietTest(p)'
    <3>1. Pending(p)' = {}
      <4>1. queue'[p] = <<>> /\ Len(<<>>) = 0 /\ wire' = {}
        BY <1>1, <2>1
      <4> QED  BY <4>1 DEF Pending
    <3> QED  BY <1>1, <2>1, <3>1 DEF QuietTest
  <2> QED  BY <2>6, <2>7, <2>8
<1> QED
  BY <1>1, <1>3, <1>4, BalFrame

----------------------------------------------------------------------------
(* The packets that are on their way, or received.                          *)

\* Packets keep telling who they are from.
LEMMA TellStep ==
    ASSUME Inv, PacketsTell, [Next]_vars
    PROVE  PacketsTell'
<1>1. \A p \in Tracers : queue[p] \in Seq(Packet)
  BY DEF Inv, TypeOK
<1>2. ASSUME NEW p \in Tracers, NEW f \in Flows, Elicits(p, f)
      PROVE  \A a \in wire' : Told(a)
  <2>1. Told(Answer(p, f))
    BY AnswerTold DEF Inv
  <2>2. wire' \subseteq wire \cup {Answer(p, f)}
    BY <1>2, ElicitsIs DEF Inv
  <2> QED  BY <2>1, <2>2 DEF PacketsTell
<1>3. ASSUME NEW p \in Tracers, NEW h, Records(p, h)
      PROVE  \A q \in Tracers : \A i \in 1..Len(queue'[q]) : Told(queue'[q][i])
  <2>1. queue' = [queue EXCEPT ![p] = <<>>] /\ queue \in [Tracers -> Seq(Packet)]
    BY <1>3 DEF Records, Inv, TypeOK
  <2>2. \A q \in Tracers : queue'[q] = IF q = p THEN <<>> ELSE queue[q]
    BY <2>1
  <2>3. Len(<<>>) = 0
    OBVIOUS
  <2> QED  BY <2>2, <2>3 DEF PacketsTell
<1>4. ASSUME NEW p \in Tracers, Step(p) PROVE PacketsTell'
  <2>1. CASE Start(p) \/ Refuse(p) \/ OpenIcmp(p)
    BY <2>1 DEF Start, Refuse, OpenIcmp, PacketsTell
  <2>2. CASE SendEcho(p)
    BY <1>2, <2>2 DEF SendEcho, EchoFlows, PacketsTell
  <2>3. CASE SendUdp(p)
    BY <1>2, <2>3 DEF SendUdp, PacketsTell
  <2>4. CASE TcpProbe(p)
    <3>1. PICK f \in Flows :
            /\ \E h : Records(p, h)
            /\ Elicits(p, f) \/ wire' = wire
      BY <2>4 DEF TcpProbe
    <3>2. \A a \in wire' : Told(a)
      BY <1>2, <3>1 DEF PacketsTell
    <3> QED  BY <1>3, <3>1, <3>2 DEF PacketsTell
  <2>5. CASE ProbeFails(p) \/ Receive(p) \/ TimesOut(p)
    <3>1. wire' = wire /\ \E h : Records(p, h)
      BY <2>5 DEF ProbeFails, Receive, TimesOut
    <3> QED  BY <1>3, <3>1 DEF PacketsTell
  <2> QED  BY <1>4, <2>1, <2>2, <2>3, <2>4, <2>5 DEF Step
<1>5. ASSUME NEW a \in wire, Deliver(a) PROVE PacketsTell'
  <2>1. /\ wire' \subseteq wire /\ Told(a) /\ a \in Packet
        /\ \A q \in Tracers :
              queue'[q] = IF Listens(q, a) THEN Append(queue[q], a) ELSE queue[q]
    BY <1>5 DEF Deliver, PacketsTell, Inv, TypeOK
  <2>2. ASSUME NEW q \in Tracers, NEW i \in 1..Len(queue'[q])
        PROVE  Told(queue'[q][i])
    <3>1. CASE Listens(q, a)
      <4>1. PICK n : n = Len(queue[q])
        OBVIOUS
      <4>2. /\ Len(queue'[q]) = n + 1 /\ n \in Nat /\ queue'[q][n + 1] = a
            /\ \A k \in 1..n : queue'[q][k] = queue[q][k]
        <5>1. queue'[q] = Append(queue[q], a) /\ queue[q] \in Seq(Packet)
          BY <1>1, <2>1, <3>1
        <5> QED  BY <2>1, <4>1, <5>1, AppendIs
      <4>3. i \in 1..n \/ i = n + 1
        BY <2>2, <4>2
      <4> QED  BY <2>1, <4>1, <4>2, <4>3 DEF PacketsTell
    <3>2. CASE ~Listens(q, a)
      <4>1. queue'[q] = queue[q]
        BY <2>1, <3>2
      <4> QED  BY <2>2, <4>1 DEF PacketsTell
    <3> QED  BY <3>1, <3>2
  <2> QED  BY <2>1, <2>2 DEF PacketsTell
<1>6. CASE UNCHANGED vars
  BY <1>6 DEF vars, PacketsTell
<1> QED  BY <1>4, <1>5, <1>6 DEF Next

----------------------------------------------------------------------------
(* The actions.                                                             *)

\* The packet taken from the queue fits, where all probes were answered.
LEMMA ReceiveFits ==
    ASSUME Inv, BalInv, NEW p \in Tracers, pc[p] = "recv", queue[p] # <<>>
    PROVE  Fits(p, HopOf(p, Head(queue[p])))
<1> DEFINE a == Head(queue[p])
           h == HopOf(p, a)
<1> SUFFICES ASSUME Clean(p), h.addr # None PROVE Fits(p, h)
  BY DEF Fits
<1>1. queue[p] \in Seq(Packet)
  BY DEF Inv, TypeOK
<1>2. a \in Packet /\ a \in Pending(p) /\ Told(a)
  <2>1. a = queue[p][1] /\ 1 \in 1..Len(queue[p])
    BY <1>1
  <2>2. Told(a)
    BY <2>1 DEF BalInv, PacketsTell
  <2> QED  BY <1>1, <2>1, <2>2 DEF Pending
<1>3. h.addr = a.addr /\ h.type = a.type
  <2>1. Mode(p) \in RawModes
    BY DEF Mode, Undisturbed, RawModes, Clean
  <2> QED  BY <2>1 DEF HopOf, RawModes, AnsweredHop
<1>4. CASE ~lb[p].on
  <2>1. /\ wire = {} /\ FitsNow(p, a) /\ Ttl(p) = Len(hops[p]) + 1
        /\ Ttl(p) \in Nat \ {0}
    BY <1>2, <1>4, Asks DEF Inv, Quiet, Clean, Trial, Ttl
  <2>2. PICK f \in TraceFlows(p) : a.addr = Node(Target(p), f, Ttl(p))
    BY <2>1 DEF FitsNow
  <2>3. f \in Flows /\ Target(p) \in Targets
    BY <2>2, CallFacts DEF TraceFlows, EchoFlows, Inv
  <2>4. OnRoute(Target(p), h.addr, Len(hops[p]) + 1)
    BY <1>3, <2>1, <2>2, <2>3 DEF OnRoute
  <2>5. a.addr \in Targets => a.addr = Target(p)
    BY <2>1, <2>2, <2>3, NetworkAssumption DEF Node
  <2>6. Mode(p) = scene.call[p].mode
    BY <1>4 DEF Mode
  <2>7. Reached(p, h) <=> h.addr \in Ends(scene.call[p])
    BY <1>2, <1>3, <2>3, <2>5, <2>6
    DEF Told, Reached, ClassicReached, ParisReached, Ends
  <2> QED  BY <1>4, <2>1, <2>4, <2>7 DEF Fits
<1>5. CASE lb[p].on
  <2>1. wire = {} /\ a.addr = Node(Target(p), lb[p].tried, TestTtl(hops[p]))
    BY <1>2, <1>5 DEF BalInv, Balanced, QuietTest
  <2> QED  BY <1>3, <1>5, <2>1 DEF Fits
<1> QED  BY <1>4, <1>5

\* The wait for an answer ends.
LEMMA TimeoutBal ==
    ASSUME Inv, BalInv, PacketsTell', NEW p \in Tracers,
           pc[p] \in {"send", "open", "recv"},
           Records(p, TimeoutHop(p)), UNCHANGED <<scene, sent, fell, wire>>
    PROVE  BalInv'
<1>1. TimeoutHop(p) \in Hop /\ TimeoutHop(p).addr = None
  BY Asks DEF Inv, TimeoutHop
<1>2. Fits(p, TimeoutHop(p))
  BY <1>1 DEF Fits
<1> QED  BY <1>1, <1>2, RecordsBal

\* A packet is taken from the queue.
LEMMA ReceiveBal ==
    ASSUME Inv, BalInv, PacketsTell', NEW p \in Tracers, Receive(p)
    PROVE  BalInv'
<1> DEFINE h == HopOf(p, Head(queue[p]))
<1>1. /\ pc[p] = "recv" /\ queue[p] # <<>> /\ Records(p, h)
      /\ UNCHANGED <<scene, sent, fell, wire>>
  BY DEF Receive
<1>2. h \in Hop
  <2>1. Head(queue[p]) \in Packet
    BY <1>1 DEF Inv, TypeOK
  <2>2. /\ Head(queue[p]).addr \in Addrs /\ Head(queue[p]).type \in {0, 3, 11}
        /\ Target(p) \in Addrs
    BY <2>1, CallFacts DEF Packet, Inv, Addrs
  <2> QED  BY <2>2, Asks DEF HopOf, Inv
<1>3. Fits(p, h)
  BY <1>1, ReceiveFits
<1> HIDE DEF h
<1> QED  BY <1>1, <1>2, <1>3, RecordsBal

\* A TCP probe has its answer in the same step.
LEMMA TcpProbeBal ==
    ASSUME Inv, BalInv, PacketsTell', NEW p \in Tracers, TcpProbe(p)
    PROVE  BalInv'
<1>1. /\ pc[p] = "send" /\ Mode(p) = "Tcp" /\ scene' = scene /\ fell' = fell
  BY DEF TcpProbe
<1>2. ~Undisturbed(p)
  BY <1>1 DEF Mode, Undisturbed, RawModes
<1>3. /\ AnsweredHop(p, Target(p), 0) \in Hop /\ AnsweredHop(p, Target(p), 3) \in Hop
      /\ TimeoutHop(p) \in Hop
  BY Asks, CallFacts DEF Inv, Addrs
<1>4. PICK h \in Hop : Records(p, h)
  BY <1>3 DEF TcpProbe
<1> QED  BY <1>1, <1>2, <1>4, RecordsBal

(* The steps before a hop is recorded.                                      *)
LEMMA SameTraceBal ==
    ASSUME Inv, BalInv, PacketsTell', NEW p \in Tracers,
           pc[p] \in {"start", "send", "open"},
           UNCHANGED <<scene, flow, hops, paths, lb, queue>>,
           pc' = [pc EXCEPT ![p] = pc'[p]],
           pc'[p] \in {"send", "open", "recv"}, fell[p] => fell'[p],
           Clean(p)' => QuietTest(p)'
    PROVE  BalInv'
<1>1. Others(p) /\ pc[p] # "done"
  BY DEF Others, Inv, TypeOK
<1>2. LbKeeps(p)'
  <2>1. LbKeeps(p)
    BY DEF BalInv, Balanced
  <2> QED  BY <2>1 DEF LbKeeps
<1>3. Clean(p)' => Clean(p)
  BY DEF Clean, Undisturbed, Idle, Answered
<1>4. Clean(p)' => TracesWhole(p)' /\ AddrsAreOfFlows(p)'
  <2>1. TracesWhole(p) /\ AddrsAreOfFlows(p)
    BY DEF BalInv, Balanced
  <2>2. Target(p)' = Target(p) /\ (Trial(p)' => Trial(p))
    BY DEF Target, Trial
  <2>3. TracesWhole(p)'
    BY <1>3, <2>1, <2>2 DEF TracesWhole
  <2>4. AddrsAreOfFlows(p)'
    BY <1>3, <2>1, <2>2 DEF AddrsAreOfFlows
  <2> QED  BY <2>3, <2>4
<1> QED  BY <1>1, <1>2, <1>4, BalFrame

\* A trace begins, or the raw socket is opened.
LEMMA StartBal ==
    ASSUME Inv, BalInv, PacketsTell', NEW p \in Tracers, Start(p) \/ OpenIcmp(p)
    PROVE  BalInv'
<1>1. /\ pc[p] \in {"start", "open"} /\ pc' = [pc EXCEPT ![p] = pc'[p]]
      /\ UNCHANGED <<scene, flow, hops, paths, lb, sent, fell, wire, queue>>
      /\ IF pc[p] = "start" THEN pc'[p] = "send" ELSE pc'[p] = "recv"
  BY DEF Start, OpenIcmp, Inv, TypeOK
<1>2. QuietTest(p)'
  <2>1. QuietTest(p) /\ (lb[p].on => pc[p] # "start")
    BY DEF BalInv, Balanced, LbKeeps
  <2>2. Clean(p)' = Clean(p) /\ Pending(p)' = Pending(p) /\ Target(p)' = Target(p)
    BY <1>1 DEF Clean, Undisturbed, Idle, Answered, Pending, Target
  <2> QED  BY <1>1, <2>1, <2>2 DEF QuietTest
<1> QED  BY <1>1, <1>2, SameTraceBal

\* A probe of the trace or of the test is sent.
LEMMA SendBal ==
    ASSUME Inv, BalInv, PacketsTell', NEW p \in Tracers, NEW f \in Flows,
           Elicits(p, f), pc[p] = "send", pc' = [pc EXCEPT ![p] = pc'[p]],
           pc'[p] \in {"open", "recv"},
           UNCHANGED <<scene, flow, hops, paths, lb, queue>>, fell[p] => fell'[p],
           Undisturbed(p)' /\ lb[p].on => f = lb[p].tried
    PROVE  BalInv'
<1>1. wire' \subseteq wire \cup {Answer(p, f)}
  BY ElicitsIs DEF Inv
<1>2. Answer(p, f).addr = Node(Target(p), f, Ttl(p))
  BY AnswerIs DEF Inv
<1>3. ASSUME Clean(p)' PROVE QuietTest(p)'
  <2> SUFFICES ASSUME lb[p].on PROVE QuietTest(p)'
    BY DEF QuietTest
  <2>1. Clean(p) /\ Undisturbed(p)'
    BY <1>3 DEF Clean, Undisturbed, Idle, Answered
  <2>2. wire = {}
    BY <2>1 DEF BalInv, Balanced, QuietTest
  <2>3. \A a \in wire' : a = Answer(p, f)
    BY <1>1, <2>2
  <2>4. Answer(p, f).addr = Node(Target(p), lb[p].tried, TestTtl(hops[p]))
    BY <1>2, <2>1 DEF Ttl
  <2>5. queue'[p] = <<>> /\ Pending(p)' = wire'
    <3>1. queue'[p] = <<>> /\ Len(<<>>) = 0
      BY DEF Inv, ClosedEmpty
    <3> QED  BY <3>1 DEF Pending
  <2>6. Target(p)' = Target(p)
    BY DEF Target
  <2> QED  BY <2>3, <2>4, <2>5, <2>6 DEF QuietTest
<1> QED  BY <1>3, SameTraceBal

\* Either kind of probe.
LEMMA SendsBal ==
    ASSUME Inv, BalInv, PacketsTell', NEW p \in Tracers, SendEcho(p) \/ SendUdp(p)
    PROVE  BalInv'
<1>1. CASE SendEcho(p)
  <2>1. PICK f \in Flows : Elicits(p, f)
    BY <1>1 DEF SendEcho, EchoFlows
  <2>2. /\ pc'[p] = "recv" /\ pc' = [pc EXCEPT ![p] = "recv"]
        /\ ~lb[p].on /\ fell' = fell
    BY <1>1 DEF SendEcho, Inv, TypeOK, Mode
  <2> QED  BY <1>1, <2>1, <2>2, SendBal DEF SendEcho
<1>2. CASE SendUdp(p)
  <2>1. PICK f \in Flows :
          Elicits(p, f) /\ fell' = [fell EXCEPT ![p] = @ \/ f # Asked(p)]
    BY <1>2 DEF SendUdp
  <2>2. pc'[p] \in {"open", "recv"} /\ pc' = [pc EXCEPT ![p] = pc'[p]]
    BY <1>2 DEF SendUdp, Inv, TypeOK
  <2>3. (fell[p] => fell'[p]) /\ (~fell'[p] => f = Asked(p))
    <3>1. fell \in [Tracers -> BOOLEAN]
      BY DEF Inv, TypeOK
    <3> QED  BY <2>1, <3>1
  <2>4. Undisturbed(p)' /\ lb[p].on => f = lb[p].tried
    BY <2>3 DEF Undisturbed, Asked
  <2> QED  BY <1>2, <2>1, <2>2, <2>3, <2>4, SendBal DEF SendUdp
<1> QED  BY <1>1, <1>2

\* A TCP probe is refused.
LEMMA RefuseBal ==
    ASSUME Inv, BalInv, PacketsTell', NEW p \in Tracers, Refuse(p)
    PROVE  BalInv'
<1>1. /\ pc[p] = "start" /\ pc'[p] = "failed"
      /\ paths' = [paths EXCEPT ![p] = <<>>]
      /\ UNCHANGED <<scene, flow, hops, lb, sent, fell, wire, queue>>
      /\ \A q \in Tracers \ {p} : pc'[q] = pc[q]
  BY DEF Refuse, Inv, TypeOK
<1>2. /\ Others(p) /\ paths'[p] = <<>> /\ Len(<<>>) = 0
      /\ \A q \in Tracers \ {p} : paths'[q] = paths[q]
  BY <1>1 DEF Others, Inv, TypeOK
<1>3. LbKeeps(p)
  BY DEF BalInv, Balanced
<1>4. LbKeeps(p)' /\ ~lb'[p].on /\ lb'[p].verdict = "Unknown"
  BY <1>1, <1>3 DEF LbKeeps
<1>5. TracesWhole(p)' /\ AddrsAreOfFlows(p)' /\ QuietTest(p)'
  BY <1>1, <1>2, <1>4 DEF TracesWhole, AddrsAreOfFlows, QuietTest, Trial
<1> QED  BY <1>1, <1>2, <1>4, <1>5, BalFrame

\* A packet reaches every open raw socket.
LEMMA DeliverBal ==
    ASSUME Inv, BalInv, PacketsTell', NEW a \in wire, Deliver(a)
    PROVE  BalInv'
<1>1. /\ wire' = wire \ {a}
      /\ UNCHANGED <<scene, pc, flow, hops, paths, lb, sent, fell>>
      /\ \A q \in Tracers :
            queue'[q] = IF Listens(q, a) THEN Append(queue[q], a) ELSE queue[q]
  BY DEF Deliver
<1>2. a \in Packet /\ \A q \in Tracers : queue[q] \in Seq(Packet)
  BY DEF Inv, TypeOK
<1>3. ASSUME NEW p \in Tracers PROVE Balanced(p)'
  <2>1. TracesWhole(p) /\ AddrsAreOfFlows(p) /\ QuietTest(p) /\ LbKeeps(p)
    BY DEF BalInv, Balanced
  <2>2. /\ Clean(p)' = Clean(p) /\ Target(p)' = Target(p) /\ Trial(p)' = Trial(p)
        /\ Idle(p)' = Idle(p)
    BY <1>1 DEF Clean, Undisturbed, Idle, Answered, Target, Trial
  <2>3. TracesWhole(p)' /\ AddrsAreOfFlows(p)' /\ LbKeeps(p)'
    BY <1>1, <2>1, <2>2 DEF TracesWhole, AddrsAreOfFlows, LbKeeps
  <2>4. Pending(p)' \subseteq Pending(p)
    <3>1. CASE Listens(p, a)
      <4>1. PICK n : n = Len(queue[p])
        OBVIOUS
      <4>2. /\ Len(queue'[p]) = n + 1 /\ n \in Nat
            /\ queue'[p][n + 1] = a
            /\ \A k \in 1..n : queue'[p][k] = queue[p][k]
        <5>1. queue'[p] = Append(queue[p], a) /\ queue[p] \in Seq(Packet)
          BY <1>1, <1>2, <3>1
        <5> QED  BY <1>2, <4>1, <5>1, AppendIs
      <4>3. \A k \in 1..n + 1 : k \in 1..n \/ k = n + 1
        BY <4>2
      <4> QED  BY <1>1, <4>1, <4>2, <4>3 DEF Pending
    <3>2. CASE ~Listens(p, a)
      BY <1>1, <3>2 DEF Pending
    <3> QED  BY <3>1, <3>2
  <2>5. QuietTest(p)'
    <3> SUFFICES ASSUME Clean(p), lb[p].on PROVE QuietTest(p)'
      BY <1>1, <2>2 DEF QuietTest
    <3>1. /\ \A b, d \in wire : b = d
          /\ \A b \in Pending(p) :
                b.addr = Node(Target(p), lb[p].tried, TestTtl(hops[p]))
      BY <2>1 DEF QuietTest
    <3>2. wire' = {}
      BY <1>1, <3>1
    <3> QED  BY <1>1, <2>2, <2>4, <3>1, <3>2 DEF QuietTest
  <2> QED  BY <2>3, <2>5 DEF Balanced
<1> QED  BY <1>3 DEF BalInv

\* Every step keeps the invariant.
LEMMA BalStep == Inv /\ BalInv /\ [Next]_vars => BalInv'
<1> SUFFICES ASSUME Inv, BalInv, [Next]_vars PROVE BalInv'
  OBVIOUS
<1>1. PacketsTell'
  BY TellStep DEF BalInv
<1>2. ASSUME NEW p \in Tracers, Step(p) PROVE BalInv'
  <2>1. CASE ProbeFails(p) \/ TimesOut(p)
    BY <1>1, <2>1, TimeoutBal DEF ProbeFails, TimesOut
  <2> QED
    BY <1>1, <1>2, <2>1, StartBal, RefuseBal, SendsBal, TcpProbeBal, ReceiveBal
    DEF Step
<1>3. ASSUME NEW a \in wire, Deliver(a) PROVE BalInv'
  BY <1>1, <1>3, DeliverBal
<1>4. CASE UNCHANGED vars
  <2>1. ASSUME NEW p \in Tracers PROVE Balanced(p)'
    <3>1. /\ Clean(p)' = Clean(p) /\ Target(p)' = Target(p) /\ Trial(p)' = Trial(p)
          /\ Idle(p)' = Idle(p) /\ Pending(p)' = Pending(p)
      BY <1>4 DEF vars, Clean, Undisturbed, Idle, Answered, Target, Trial, Pending
    <3>2. TracesWhole(p) /\ AddrsAreOfFlows(p) /\ QuietTest(p) /\ LbKeeps(p)
      BY DEF BalInv, Balanced
    <3> QED
      BY <1>4, <3>1, <3>2
      DEF vars, Balanced, TracesWhole, AddrsAreOfFlows, QuietTest, LbKeeps
  <2> QED  BY <1>1, <2>1 DEF BalInv
<1> QED  BY <1>2, <1>3, <1>4 DEF Next

----------------------------------------------------------------------------
(* Where all flows take the same route, traces without a gap are the same.  *)

\* Two whole traces of such a target are PathsEqual.
LEMMA WholeTracesAgree ==
    ASSUME NEW c \in Calls, NEW t, SameRoute(t),
           NEW hs1 \in Seq(Hop), NEW hs2 \in Seq(Hop),
           Whole(c, t, hs1), Whole(c, t, hs2)
    PROVE  PathsEqual(hs1, hs2)
<1>1. PICK m : m = Len(hs1)
  OBVIOUS
<1>2. PICK n : n = Len(hs2)
  OBVIOUS
<1>3. /\ m \in 1..c.max_hops /\ n \in 1..c.max_hops
      /\ \A k \in 1..m : Good(t, hs1, k)
      /\ \A k \in 1..n : Good(t, hs2, k)
      /\ \A k \in 1..m - 1 : hs1[k].addr \notin Ends(c)
      /\ \A k \in 1..n - 1 : hs2[k].addr \notin Ends(c)
      /\ hs1[m].addr \in Ends(c) \/ m = c.max_hops
      /\ hs2[n].addr \in Ends(c) \/ n = c.max_hops
  BY <1>1, <1>2 DEF Whole
<1>4. c.max_hops \in Nat
  BY OptionsAssumption DEF Calls
<1>5. \A k : \A f, g \in Flows : Node(t, f, k) = Node(t, g, k)
  BY DEF SameRoute, Node
<1>6. \A k \in 1..m : k \in 1..n => hs1[k].addr = hs2[k].addr
  BY <1>3, <1>5 DEF Good, OnRoute
<1>7. m = n
  <2>1. CASE m < n
    <3>1. m \in 1..n - 1 /\ m \in 1..m /\ m \in 1..n /\ m # c.max_hops
      BY <1>3, <1>4, <2>1
    <3> QED  BY <1>3, <1>6, <3>1
  <2>2. CASE n < m
    <3>1. n \in 1..m - 1 /\ n \in 1..m /\ n \in 1..n /\ n # c.max_hops
      BY <1>3, <1>4, <2>2
    <3> QED  BY <1>3, <1>6, <3>1
  <2> QED  BY <1>3, <1>4, <2>1, <2>2
<1> DEFINE at == InOrder(1..n)
<1>8. /\ {k \in 1..Len(hs1) : hs1[k].addr # None} = 1..n
      /\ {k \in 1..Len(hs2) : hs2[k].addr # None} = 1..n
  BY <1>1, <1>2, <1>3, <1>7 DEF Good
<1>9. /\ Path(hs1) = [r \in 1..Len(at) |-> hs1[at[r]]]
      /\ Path(hs2) = [r \in 1..Len(at) |-> hs2[at[r]]]
  BY <1>8 DEF Path, Pick
<1>10. n \in Nat /\ 1..n \in SUBSET (1..n)
  BY <1>3
<1>11. at \in [1..Cardinality(1..n) -> 1..n] /\ Cardinality(1..n) \in Nat
  BY <1>10, InOrderEnumerates
<1> HIDE DEF at
<1>12. PICK l : l = Cardinality(1..n)
  OBVIOUS
<1>13. l \in Nat /\ at \in [1..l -> 1..n]
  BY <1>11, <1>12
<1>14. Len(at) = l
  <2>1. at = [r \in 1..l |-> at[r]]
    BY <1>13
  <2> QED  BY <1>13, <2>1
<1>15. Len(Path(hs1)) = l /\ Len(Path(hs2)) = l
  BY <1>9, <1>13, <1>14
<1>16. ASSUME NEW i \in 1..l PROVE Path(hs1)[i].addr = Path(hs2)[i].addr
  <2>1. at[i] \in 1..n /\ Path(hs1)[i] = hs1[at[i]] /\ Path(hs2)[i] = hs2[at[i]]
    BY <1>9, <1>13, <1>14
  <2> QED  BY <1>6, <1>7, <2>1
<1> QED  BY <1>15, <1>16 DEF PathsEqual

\* Over any network and for any calls: an undisturbed call finds load balancing,
\* or discovers paths that differ, only where the routes differ or a probe went
\* unanswered; and where all probes were answered and the flows tested part at
\* the hop tested, load balancing is found.
THEOREM BalancingHasCauses == Spec => []BalancingNeedsCause
<1>1. ASSUME Inv, BalInv PROVE BalancingNeedsCause
  <2> SUFFICES ASSUME NEW p \in Tracers, Undisturbed(p), pc[p] = "done",
                      ~(None \in lb[p].addrs \/ SomeUnanswered(paths[p]))
               PROVE  /\ SameRoute(Target(p)) =>
                            /\ lb[p].verdict # "PerFlow"
                            /\ \A i, j \in 1..Len(paths[p]) :
                                  PathsEqual(paths[p][i], paths[p][j])
                      /\ lb[p].verdict = "None" =>
                            \A f, g \in 0..LbFlows - 1 :
                               Node(Target(p), f, TestTtl(hops[p]))
                                  = Node(Target(p), g, TestTtl(hops[p]))
    BY DEF BalancingNeedsCause
  <2>1. Clean(p)
    <3>1. ~Idle(p)
      BY DEF Undisturbed, Idle, RawModes
    <3>2. \E i \in 1..Len(paths[p]) : paths[p][i] = hops[p]
      BY <1>1, <3>1 DEF BalInv, Balanced, LbKeeps
    <3> QED  BY <3>2 DEF Clean, Answered, SomeUnanswered
  <2>2. /\ \A i \in 1..Len(paths[p]) : Whole(scene.call[p], Target(p), paths[p][i])
        /\ lb[p].verdict # "Unknown" =>
              OfFlows(Target(p), TestTtl(hops[p]), lb[p].addrs, lb[p].tried)
    BY <1>1, <2>1 DEF BalInv, Balanced, TracesWhole, AddrsAreOfFlows
  <2>3. /\ IsFiniteSet(lb[p].addrs)
        /\ lb[p].verdict # "Unknown" =>
              lb[p].tried = LbFlows /\ lb[p].verdict = Verdict(lb[p].addrs)
    BY <1>1 DEF BalInv, Balanced, LbKeeps
  <2>4. /\ scene.call[p] \in Calls /\ paths[p] \in Seq(Seq(Hop))
        /\ LbFlows \in 1..NumFlows
    BY <1>1, CallFacts DEF Inv, TypeOK
  <2>5. ASSUME SameRoute(Target(p)) PROVE lb[p].verdict # "PerFlow"
    <3> SUFFICES ASSUME lb[p].verdict = "PerFlow" PROVE FALSE
      OBVIOUS
    <3>1. OfFlows(Target(p), TestTtl(hops[p]), lb[p].addrs, lb[p].tried)
      BY <2>2
    <3>2. \A f, g \in Flows :
             Node(Target(p), f, TestTtl(hops[p])) = Node(Target(p), g, TestTtl(hops[p]))
      BY <2>5 DEF SameRoute, Node
    <3>3. PICK a \in lb[p].addrs : \A b \in lb[p].addrs : b = a
      BY <3>1, <3>2 DEF OfFlows, OnRoute
    <3>4. lb[p].addrs = {a}
      BY <3>3
    <3>5. Cardinality(lb[p].addrs) = 1
      BY <3>4, FS_Singleton
    <3> QED  BY <2>3, <3>5 DEF Verdict
  <2>6. ASSUME SameRoute(Target(p)), NEW i \in 1..Len(paths[p]),
               NEW j \in 1..Len(paths[p])
        PROVE  PathsEqual(paths[p][i], paths[p][j])
    BY <2>2, <2>4, <2>6, WholeTracesAgree
  <2>7. ASSUME lb[p].verdict = "None", NEW f \in 0..LbFlows - 1,
               NEW g \in 0..LbFlows - 1
        PROVE  Node(Target(p), f, TestTtl(hops[p])) = Node(Target(p), g, TestTtl(hops[p]))
    <3>1. Cardinality(lb[p].addrs) = 1
      BY <2>3, <2>7 DEF Verdict
    <3>2. PICK a : lb[p].addrs = {a}
      BY <2>3, <3>1, FS_Singleton
    <3> QED  BY <2>2, <2>3, <2>7, <3>2 DEF OfFlows
  <2> QED  BY <2>5, <2>6, <2>7
<1>2. Spec => []BalInv
  BY BalInit, BalStep, Invariance, PTL DEF Spec
<1> QED  BY <1>1, <1>2, Invariance, PTL

=============================================================================
