---------------------------- MODULE Measures_proofs ----------------------------
(***************************************************************************)
(* Proofs about the three measurements without a path: the protocols of    *)
(* MultiProbe and what the classifier makes of them, LatencyMeter and its  *)
(* statistics, and TlsProbe.                                               *)
(*                                                                         *)
(* Verdicts: MultiInv keeps with each outcome what it was due to, so that  *)
(* each result of a call that has returned is evidence about its host; the *)
(* verdict looks only at which results there are (KindOf).                 *)
(*                                                                         *)
(* Statistics: sums are last partial sums, which exist by induction; what  *)
(* all samples lie between, the mean does; the steps of sorted samples add *)
(* up to their range, and the k-th of them is at most any value that k      *)
(* samples do not exceed.  The counters of reordering say of the samples   *)
(* so far what Counted spells out.                                         *)
(*                                                                         *)
(* TLS: each result is true of its server, wherever the read ended.        *)
(***************************************************************************)
EXTENDS MultiProbe, LatencyMeter, TlsProbe, Lists_proofs, TLAPS

----------------------------------------------------------------------------
(* MultiProbe and the classifier.                                           *)

ProbeResults == [proto : Protocols, success : BOOLEAN]
Kinds == {"Open", "IcmpFiltered", "SelectiveFirewall", "Blocked", "TcpFiltered", "Unknown"}
Verdicts == [kind : Kinds, open : Seq(PortSet), closed : Seq(PortSet)]

Has(rs, k) == \E i \in 1..Len(rs) : rs[i].proto.kind = k
Some(rs, k) == \E i \in 1..Len(rs) : rs[i].proto.kind = k /\ rs[i].success
All(rs, k) == \A i \in 1..Len(rs) : rs[i].proto.kind = k => rs[i].success
Succeeds(rs) == \E i \in 1..Len(rs) : rs[i].success

\* Which results passed, by whether each did.
LEMMA PassedIs ==
    ASSUME NEW V, NEW rs \in Seq(V)
    PROVE  /\ Passed(rs) \in Seq(V) /\ Failed(rs) \in Seq(V)
           /\ AnyPassed(rs) <=> Succeeds(rs)
           /\ AllPassed(rs) <=> \A i \in 1..Len(rs) : rs[i].success
<1> DEFINE K == {i \in 1..Len(rs) : rs[i].success}
           L == {i \in 1..Len(rs) : ~rs[i].success}
<1>1. Passed(rs) \in Seq(V) /\ (Passed(rs) = <<>> <=> K = {})
  BY PickElements DEF Passed
<1>2. Failed(rs) \in Seq(V) /\ (Failed(rs) = <<>> <=> L = {})
  BY PickElements DEF Failed
<1> QED  BY <1>1, <1>2 DEF AnyPassed, AllPassed, Succeeds

\* The results of one protocol.
LEMMA OfIs ==
    ASSUME NEW V, NEW rs \in Seq(V), NEW kind
    PROVE  /\ Of(rs, kind) \in Seq(V)
           /\ \A r \in 1..Len(Of(rs, kind)) :
                 \E i \in 1..Len(rs) : Of(rs, kind)[r] = rs[i] /\ rs[i].proto.kind = kind
           /\ Of(rs, kind) # <<>> <=> Has(rs, kind)
           /\ AnyPassed(Of(rs, kind)) <=> Some(rs, kind)
           /\ AllPassed(Of(rs, kind)) <=> All(rs, kind)
<1> DEFINE K == {i \in 1..Len(rs) : rs[i].proto.kind = kind}
           of == Of(rs, kind)
<1>a. K \in SUBSET (1..Len(rs))
  OBVIOUS
<1>b. of = Pick(rs, K)
  BY DEF Of
<1> HIDE DEF K, of
<1>c. /\ Pick(rs, K) \in Seq(V)
      /\ Pick(rs, K) = <<>> <=> K = {}
      /\ \A r \in 1..Len(Pick(rs, K)) : \E i \in K : Pick(rs, K)[r] = rs[i]
      /\ \A i \in K : \E r \in 1..Len(Pick(rs, K)) : Pick(rs, K)[r] = rs[i]
  BY <1>a, PickElements
<1>1. /\ of \in Seq(V)
      /\ of = <<>> <=> K = {}
      /\ \A r \in 1..Len(of) : \E i \in K : of[r] = rs[i]
      /\ \A i \in K : \E r \in 1..Len(of) : of[r] = rs[i]
  BY <1>b, <1>c, Zenon
<1>2. /\ AnyPassed(of) <=> Succeeds(of)
      /\ AllPassed(of) <=> \A r \in 1..Len(of) : of[r].success
  BY <1>1, PassedIs
<1>3. Succeeds(of) <=> Some(rs, kind)
  BY <1>1 DEF Succeeds, Some, K
<1>4. (\A r \in 1..Len(of) : of[r].success) <=> All(rs, kind)
  BY <1>1 DEF All, K
<1>5. of # <<>> <=> Has(rs, kind)
  BY <1>1 DEF Has, K
<1> QED  BY <1>1, <1>2, <1>3, <1>4, <1>5 DEF of, K

\* The ports of results are numbers of ports.
LEMMA PortsAre ==
    ASSUME NEW rs \in Seq(ProbeResults)
    PROVE  Ports(rs) \in Seq(PortSet)
<1> DEFINE K == {i \in 1..Len(rs) : rs[i].proto.kind # "ICMP"}
           ported == Pick(rs, K)
<1>1. ported \in Seq(ProbeResults) /\ \A r \in 1..Len(ported) : \E i \in K : ported[r] = rs[i]
  BY PickElements
<1>2. ASSUME NEW i \in K PROVE rs[i].proto.port \in PortSet
  <2>1. rs[i] \in ProbeResults /\ rs[i].proto.kind # "ICMP"
    OBVIOUS
  <2> QED  BY <2>1 DEF ProbeResults, Protocols
<1>3. Ports(rs) = [r \in 1..Len(ported) |-> ported[r].proto.port]
  BY DEF Ports
<1> HIDE DEF ported, K
<1>4. \A r \in 1..Len(ported) : ported[r].proto.port \in PortSet
  BY <1>1, <1>2
<1>5. Len(ported) \in Nat
  BY <1>1
<1> QED  BY <1>3, <1>4, <1>5

(* The verdict, told by what there is among the results.                    *)
KindOf(rs) ==
    IF rs = <<>> THEN "Unknown"
    ELSE IF Some(rs, "ICMP") /\ All(rs, "TCP") /\ All(rs, "UDP") THEN "Open"
    ELSE IF /\ Some(rs, "ICMP")
            /\ ~Has(rs, "TCP") \/ Some(rs, "TCP")
            /\ ~Has(rs, "UDP") \/ Some(rs, "UDP")
    THEN "SelectiveFirewall"
    ELSE IF /\ Some(rs, "TCP") \/ Some(rs, "UDP")
            /\ IF ~Has(rs, "ICMP") THEN All(rs, "TCP") /\ All(rs, "UDP")
               ELSE ~Some(rs, "ICMP")
    THEN "IcmpFiltered"
    ELSE IF Some(rs, "ICMP") /\ Has(rs, "TCP") /\ ~Some(rs, "TCP")
    THEN "TcpFiltered"
    ELSE IF ~Succeeds(rs) THEN "Blocked" ELSE "Unknown"

\* Classify, by what there is among the results.
LEMMA ClassifyIs ==
    ASSUME NEW rs \in Seq(ProbeResults)
    PROVE  Classify(rs) \in Verdicts /\ Classify(rs).kind = KindOf(rs)
<1> DEFINE of(k) == Of(rs, k)
<1>1. \A k : /\ of(k) = <<>> <=> ~Has(rs, k)
             /\ AnyPassed(of(k)) <=> Some(rs, k)
             /\ AllPassed(of(k)) <=> All(rs, k)
  BY OfIs
<1>2. AnyPassed(rs) <=> Succeeds(rs)
  BY PassedIs
<1>3. Ports(Passed(rs)) \in Seq(PortSet) /\ Ports(Failed(rs)) \in Seq(PortSet)
  BY PassedIs, PortsAre
<1>4. <<>> \in Seq(PortSet)
  OBVIOUS
<1> DEFINE sel == [kind |-> "SelectiveFirewall", open |-> Ports(Passed(rs)),
                   closed |-> Ports(Failed(rs))]
<1>5. sel \in Verdicts /\ sel.kind = "SelectiveFirewall"
  BY <1>3 DEF Verdicts, Kinds
<1>6. \A k \in Kinds : Verdict(k) \in Verdicts /\ Verdict(k).kind = k
  BY <1>4 DEF Verdict, Verdicts
<1>7. Classify(rs) =
        IF rs = <<>> THEN Verdict("Unknown")
        ELSE IF Some(rs, "ICMP") /\ All(rs, "TCP") /\ All(rs, "UDP") THEN Verdict("Open")
        ELSE IF /\ Some(rs, "ICMP")
                /\ ~Has(rs, "TCP") \/ Some(rs, "TCP")
                /\ ~Has(rs, "UDP") \/ Some(rs, "UDP")
        THEN sel
        ELSE IF /\ Some(rs, "TCP") \/ Some(rs, "UDP")
                /\ IF ~Has(rs, "ICMP") THEN All(rs, "TCP") /\ All(rs, "UDP")
                   ELSE ~Some(rs, "ICMP")
        THEN Verdict("IcmpFiltered")
        ELSE IF Some(rs, "ICMP") /\ Has(rs, "TCP") /\ ~Some(rs, "TCP")
        THEN Verdict("TcpFiltered")
        ELSE IF ~Succeeds(rs) THEN Verdict("Blocked") ELSE Verdict("Unknown")
  BY <1>1, <1>2 DEF Classify
<1> HIDE DEF sel
<1> QED  BY <1>5, <1>6, <1>7 DEF KindOf, Kinds

----------------------------------------------------------------------------
OutcomeKinds == {"unsent", "waiting", "heard", "passed", "failed", "error"}
Over == {"passed", "failed", "error"}

(* What each outcome of a probe was due to.                                 *)
Evidence(c, i) ==
    LET kind == Plan(c)[i].kind
        port == Plan(c)[i].port
        o == outcome[c][i]
    IN  /\ o = "heard" => kind = "ICMP" /\ SomeEcho
        /\ o = "passed" /\ kind = "ICMP" => SomeEcho
        /\ o = "passed" /\ kind = "TCP" => Host(c).tcp[port] = "open"
        /\ o = "failed" /\ kind = "UDP" => Host(c).udp[port] = "closed"

Joined(c) ==
    pc[c] = "done" =>
        /\ \A i \in 1..Len(Plan(c)) : outcome[c][i] \in Over
        /\ results[c] = Collected(c)
        /\ verdict[c] = Classify(results[c])

MultiInv ==
    /\ TypeOK
    /\ replies # {} => SomeEcho
    /\ \A c \in Callers : Joined(c) /\ \A i \in 1..Len(Plan(c)) : Evidence(c, i)

\* What a caller asks for and the host it asks.
LEMMA WorldIs ==
    ASSUME world \in Worlds, NEW c \in Callers
    PROVE  /\ Plan(c) \in Seq(Protocols) /\ Len(Plan(c)) \in Nat
           /\ \A i \in 1..Len(Plan(c)) : Plan(c)[i] \in Protocols
           /\ Host(c) \in Hosts
<1>1. world \in [privileged : BOOLEAN, host : [Callers -> Hosts],
                 protocols : [Callers -> Seq(Protocols)]]
  BY WorldsAssumption
<1>2. Plan(c) \in Seq(Protocols) /\ Host(c) \in Hosts
  BY <1>1 DEF Plan, Host
<1> QED  BY <1>2

\* A probe that is answered ends as the host's answer says.
LEMMA OutcomesAre ==
    ASSUME TypeOK, NEW c \in Callers, NEW i \in 1..Len(Plan(c)), Evidence(c, i),
           outcome[c][i] \in {"waiting", "heard"}, NEW o \in Outcomes(c, i)
    PROVE  /\ o \in Over
           /\ o = "passed" /\ Plan(c)[i].kind = "ICMP" => SomeEcho
           /\ o = "passed" /\ Plan(c)[i].kind = "TCP" =>
                 Host(c).tcp[Plan(c)[i].port] = "open"
           /\ o = "failed" /\ Plan(c)[i].kind = "UDP" =>
                 Host(c).udp[Plan(c)[i].port] = "closed"
<1>1. Plan(c)[i].kind \in {"ICMP", "TCP", "UDP"}
  BY WorldIs DEF TypeOK, Protocols
<1>2. CASE Plan(c)[i].kind = "ICMP"
  BY <1>2 DEF Outcomes, IcmpOutcomes, Over, Evidence
<1>3. CASE Plan(c)[i].kind = "TCP"
  BY <1>3 DEF Outcomes, TcpOutcomes, Over
<1>4. CASE Plan(c)[i].kind = "UDP"
  BY <1>4 DEF Outcomes, UdpOutcomes, Over
<1> QED  BY <1>1, <1>2, <1>3, <1>4

(* The results are those of the probes that did not end in an error.        *)
LEMMA CollectedIs ==
    ASSUME world \in Worlds, NEW c \in Callers
    PROVE  /\ Collected(c) \in Seq(ProbeResults)
           /\ \A r \in 1..Len(Collected(c)) : \E i \in 1..Len(Plan(c)) :
                 /\ outcome[c][i] # "error"
                 /\ Collected(c)[r].proto = Plan(c)[i]
                 /\ Collected(c)[r].success <=> outcome[c][i] = "passed"
<1> DEFINE n == Len(Plan(c))
           returned == [i \in 1..n |->
               [proto |-> Plan(c)[i], success |-> outcome[c][i] = "passed"]]
           K == {i \in 1..n : outcome[c][i] # "error"}
<1>1. n \in Nat /\ \A i \in 1..n : Plan(c)[i] \in Protocols
  BY WorldIs
<1>2. returned \in Seq(ProbeResults) /\ Len(returned) = n
  BY <1>1 DEF ProbeResults
<1>3. Collected(c) = Pick(returned, K)
  BY DEF Collected
<1>4. /\ Pick(returned, K) \in Seq(ProbeResults)
      /\ \A r \in 1..Len(Pick(returned, K)) :
            \E i \in K : Pick(returned, K)[r] = returned[i]
  <2>1. K \in SUBSET (1..Len(returned))
    BY <1>2
  <2> HIDE DEF K, returned
  <2> QED  BY <1>2, <2>1, PickElements
<1>5. \A i \in K : /\ returned[i].proto = Plan(c)[i]
                   /\ returned[i].success <=> outcome[c][i] = "passed"
                   /\ i \in 1..n /\ outcome[c][i] # "error"
  OBVIOUS
<1> HIDE DEF returned, K
<1> QED  BY <1>3, <1>4, <1>5

\* The invariant holds before any call.
LEMMA MultiInit == Init => MultiInv
<1> SUFFICES ASSUME Init PROVE MultiInv
  OBVIOUS
<1>1. world \in Worlds
  BY DEF Init
<1>2. \A c \in Callers : Len(Plan(c)) \in Nat
  BY <1>1, WorldIs
<1>3. <<>> \in Seq(PortSet) /\ <<>> \in Seq(ProbeResults)
  OBVIOUS
<1>4. verdict \in [Callers -> Verdicts] /\ results \in [Callers -> Seq(ProbeResults)]
  BY <1>3 DEF Init, Verdict, Verdicts, Kinds
<1>5. TypeOK
  BY <1>1, <1>2, <1>4 DEF Init, TypeOK, Verdicts, Kinds, ProbeResults
<1> QED  BY <1>5 DEF Init, MultiInv, Joined, Evidence

\* Every step keeps the invariant.
LEMMA MultiStep == MultiInv /\ [Next]_vars => MultiInv'
<1> SUFFICES ASSUME MultiInv, [Next]_vars PROVE MultiInv'
  OBVIOUS
<1>0. /\ world \in Worlds
      /\ pc \in [Callers -> {"start", "probing", "done", "failed"}]
      /\ DOMAIN outcome = Callers
      /\ \A c \in Callers : outcome[c] \in [1..Len(Plan(c)) -> OutcomeKinds]
      /\ replies \subseteq Callers \X Nat
      /\ results \in [Callers -> Seq(ProbeResults)]
      /\ verdict \in [Callers -> Verdicts]
  BY DEF MultiInv, TypeOK, OutcomeKinds, ProbeResults, Verdicts, Kinds
<1>0a. TypeOK
  BY DEF MultiInv
(* A step that changes outcomes only, and of no call that has returned.     *)
<1>1. ASSUME UNCHANGED <<world, pc, results, verdict>>,
             DOMAIN outcome' = Callers,
             \A c \in Callers : outcome'[c] \in [1..Len(Plan(c)) -> OutcomeKinds],
             replies' \subseteq Callers \X Nat,
             replies' # {} => SomeEcho,
             \A c \in Callers : pc[c] = "done" => outcome'[c] = outcome[c],
             \A c \in Callers : \A i \in 1..Len(Plan(c)) : Evidence(c, i)'
      PROVE  MultiInv'
  <2>1. TypeOK'
    BY <1>0, <1>1 DEF TypeOK, Plan, OutcomeKinds, ProbeResults, Verdicts, Kinds
  <2>2. (replies # {} => SomeEcho)'
    BY <1>1 DEF SomeEcho, Host, Plan
  <2>3. ASSUME NEW c \in Callers PROVE Joined(c)'
    <3> SUFFICES ASSUME pc[c] = "done" PROVE Joined(c)'
      BY <1>1 DEF Joined
    <3>1. outcome'[c] = outcome[c] /\ Plan(c)' = Plan(c) /\ Joined(c)
      BY <1>1 DEF Plan, MultiInv
    <3>2. Collected(c)' = Collected(c)
      BY <3>1 DEF Collected
    <3> QED  BY <1>1, <3>1, <3>2 DEF Joined
  <2> QED  BY <1>1, <2>1, <2>2, <2>3 DEF MultiInv, Plan
(* A step of one call that leaves its probes alone.                         *)
<1>2. ASSUME NEW c \in Callers, UNCHANGED <<world, outcome, replies>>,
             pc[c] # "done",
             pc' \in [Callers -> {"start", "probing", "done", "failed"}],
             results' \in [Callers -> Seq(ProbeResults)],
             verdict' \in [Callers -> Verdicts],
             \A d \in Callers \ {c} : /\ pc'[d] = pc[d] /\ results'[d] = results[d]
                                      /\ verdict'[d] = verdict[d],
             Joined(c)'
      PROVE  MultiInv'
  <2>1. TypeOK'
    <3>1. \A d : Plan(d)' = Plan(d)
      BY <1>2 DEF Plan
    <3>2. \A d \in Callers : outcome'[d] \in [1..Len(Plan(d)') -> OutcomeKinds]
      BY <1>0, <1>2, <3>1
    <3>3. DOMAIN outcome' = Callers /\ world' \in Worlds /\ replies' \subseteq Callers \X Nat
      BY <1>0, <1>2
    <3> QED  BY <1>2, <3>2, <3>3 DEF TypeOK, OutcomeKinds, ProbeResults, Verdicts, Kinds
  <2>2. (replies # {} => SomeEcho)'
    BY <1>2 DEF SomeEcho, Host, Plan, MultiInv
  <2>3. ASSUME NEW d \in Callers PROVE Joined(d)'
    <3>1. CASE d = c
      BY <1>2, <3>1
    <3>2. CASE d # c
      <4>1. Joined(d) /\ Collected(d)' = Collected(d) /\ Plan(d)' = Plan(d)
        BY <1>2 DEF MultiInv, Collected, Plan
      <4> QED  BY <1>2, <3>2, <4>1 DEF Joined
    <3> QED  BY <3>1, <3>2
  <2>4. \A d \in Callers : \A i \in 1..Len(Plan(d)') : Evidence(d, i)'
    <3>1. \A d : Plan(d)' = Plan(d) /\ Host(d)' = Host(d)
      BY <1>2 DEF Plan, Host
    <3>2. outcome' = outcome /\ SomeEcho' = SomeEcho
      BY <1>2 DEF SomeEcho, Host, Plan
    <3>3. \A d \in Callers : \A i \in 1..Len(Plan(d)) : Evidence(d, i)
      BY DEF MultiInv
    <3>4. \A d, i : Evidence(d, i)' <=> Evidence(d, i)
      BY <3>1, <3>2 DEF Evidence
    <3> QED  BY <3>1, <3>3, <3>4
  <2> QED  BY <2>1, <2>2, <2>3, <2>4 DEF MultiInv
<1>3. ASSUME NEW c \in Callers, Resolve(c) \/ Refuse(c) PROVE MultiInv'
  <2>1. Joined(c)' /\ pc[c] # "done"
    BY <1>0, <1>3 DEF Resolve, Refuse, Joined
  <2> QED  BY <1>0, <1>2, <1>3, <2>1 DEF Resolve, Refuse
<1>4. ASSUME NEW c \in Callers, Join(c) PROVE MultiInv'
  <2>1. Collected(c) \in Seq(ProbeResults) /\ Classify(Collected(c)) \in Verdicts
    BY <1>0, CollectedIs, ClassifyIs
  <2>2. /\ results'[c] = Collected(c) /\ verdict'[c] = Classify(Collected(c))
        /\ \A i \in 1..Len(Plan(c)) : outcome[c][i] \in Over
        /\ UNCHANGED <<world, outcome, replies>>
    BY <1>0, <1>4 DEF Join, Over
  <2>3. Joined(c)'
    BY <2>2 DEF Joined, Collected, Plan
  <2> QED  BY <1>0, <1>2, <1>4, <2>1, <2>3 DEF Join
<1>5. ASSUME NEW c \in Callers, NEW i \in 1..Len(Plan(c)),
             Send(c, i) \/ SendFails(c, i) \/ Ends(c, i)
      PROVE  MultiInv'
  <2>1. /\ UNCHANGED <<world, pc, results, verdict>> /\ pc[c] = "probing"
        /\ \E o \in OutcomeKinds : outcome' = [outcome EXCEPT ![c][i] = o] /\ o # "heard"
    <3>1. CASE Send(c, i) \/ SendFails(c, i)
      BY <3>1 DEF Send, SendFails, Turn, OutcomeKinds
    <3>2. CASE Ends(c, i)
      <4>1. outcome[c][i] \in {"waiting", "heard"} /\ Evidence(c, i)
        BY <3>2 DEF Ends, MultiInv
      <4>2. \A o \in Outcomes(c, i) : o \in Over
        BY <1>0a, <4>1, OutcomesAre
      <4> QED  BY <3>2, <4>2 DEF Ends, Over, OutcomeKinds
    <3> QED  BY <1>5, <3>1, <3>2
  <2>2. PICK o \in OutcomeKinds : outcome' = [outcome EXCEPT ![c][i] = o]
    BY <2>1
  <2>3. /\ DOMAIN outcome' = Callers
        /\ \A d \in Callers : outcome'[d] \in [1..Len(Plan(d)) -> OutcomeKinds]
        /\ \A d \in Callers : pc[d] = "done" => outcome'[d] = outcome[d]
        /\ \A d \in Callers : \A j \in 1..Len(Plan(d)) :
              d # c \/ j # i => outcome'[d][j] = outcome[d][j]
        /\ outcome'[c][i] = o
    BY <1>0, <2>1, <2>2
  <2>4. replies' \subseteq Callers \X Nat /\ (replies' # {} => SomeEcho)
    <3>1. UNCHANGED replies \/ (replies' = replies \cup {<<c, i>>} /\ SomeEcho)
      BY <1>5 DEF Send, SendFails, Ends, SomeEcho
    <3>2. i \in Nat
      OBVIOUS
    <3> QED  BY <1>0, <3>1, <3>2 DEF MultiInv
  <2>5. Evidence(c, i)'
    <3>1. CASE Send(c, i) \/ SendFails(c, i)
      <4>1. outcome'[c][i] \in {"waiting", "error"}
        BY <1>0, <3>1 DEF Send, SendFails
      <4> QED  BY <4>1 DEF Evidence
    <3>2. CASE Ends(c, i)
      <4>1. outcome[c][i] \in {"waiting", "heard"} /\ Evidence(c, i)
        BY <3>2 DEF Ends, MultiInv
      <4>2. outcome'[c][i] \in Outcomes(c, i)
        BY <1>0, <3>2 DEF Ends
      <4>3. /\ outcome'[c][i] \in Over
            /\ outcome'[c][i] = "passed" /\ Plan(c)[i].kind = "ICMP" => SomeEcho
            /\ outcome'[c][i] = "passed" /\ Plan(c)[i].kind = "TCP" =>
                  Host(c).tcp[Plan(c)[i].port] = "open"
            /\ outcome'[c][i] = "failed" /\ Plan(c)[i].kind = "UDP" =>
                  Host(c).udp[Plan(c)[i].port] = "closed"
        BY <1>0a, <4>1, <4>2, OutcomesAre
      <4>4. Plan(c)' = Plan(c) /\ Host(c)' = Host(c) /\ SomeEcho' = SomeEcho
        BY <2>1 DEF Plan, Host, SomeEcho
      <4> QED  BY <4>3, <4>4 DEF Evidence, Over
    <3> QED  BY <1>5, <3>1, <3>2
  <2>6. \A d \in Callers : \A j \in 1..Len(Plan(d)) : Evidence(d, j)'
    <3> SUFFICES ASSUME NEW d \in Callers, NEW j \in 1..Len(Plan(d)), d # c \/ j # i
                 PROVE  Evidence(d, j)'
      BY <2>5
    <3>1. Evidence(d, j) /\ outcome'[d][j] = outcome[d][j]
      BY <2>3 DEF MultiInv
    <3> QED  BY <2>1, <3>1 DEF Evidence, Plan, Host, SomeEcho
  <2> QED  BY <1>1, <2>1, <2>3, <2>4, <2>6
<1>6. ASSUME NEW r \in replies, Deliver(r) PROVE MultiInv'
  <2> DEFINE heard(c, i) == outcome[c][i] = "waiting" /\ Plan(c)[i].kind = "ICMP"
  <2>1. /\ UNCHANGED <<world, pc, results, verdict>> /\ SomeEcho
        /\ replies' \subseteq replies
    BY <1>6 DEF Deliver, MultiInv
  <2>2. /\ DOMAIN outcome' = Callers
        /\ \A c \in Callers : outcome'[c] = [i \in 1..Len(Plan(c)) |->
                IF heard(c, i) THEN "heard" ELSE outcome[c][i]]
    BY <1>6 DEF Deliver
  <2>3. \A c \in Callers : outcome'[c] \in [1..Len(Plan(c)) -> OutcomeKinds]
    BY <1>0, <2>2 DEF OutcomeKinds
  <2>4. ASSUME NEW c \in Callers, pc[c] = "done" PROVE outcome'[c] = outcome[c]
    <3>1. \A i \in 1..Len(Plan(c)) : ~heard(c, i)
      BY <2>4 DEF MultiInv, Joined, Over
    <3>2. \A i \in 1..Len(Plan(c)) : outcome'[c][i] = outcome[c][i]
      BY <2>2, <3>1
    <3>3. /\ outcome[c] = [i \in 1..Len(Plan(c)) |-> outcome[c][i]]
          /\ outcome'[c] = [i \in 1..Len(Plan(c)) |-> outcome'[c][i]]
      BY <1>0, <2>3
    <3> QED  BY <3>2, <3>3
  <2>5. ASSUME NEW c \in Callers, NEW i \in 1..Len(Plan(c)) PROVE Evidence(c, i)'
    <3>1. Evidence(c, i)
      BY DEF MultiInv
    <3>2. \/ outcome'[c][i] = outcome[c][i]
          \/ outcome'[c][i] = "heard" /\ Plan(c)[i].kind = "ICMP"
      BY <2>2
    <3> QED  BY <2>1, <3>1, <3>2 DEF Evidence, Plan, Host, SomeEcho
  <2> QED  BY <1>0, <1>1, <2>1, <2>2, <2>3, <2>4, <2>5
<1>7. CASE UNCHANGED vars
  <2>1. UNCHANGED <<world, pc, outcome, replies, results, verdict>>
    BY <1>7 DEF vars
  <2>2. \A c \in Callers : \A i \in 1..Len(Plan(c)) : Evidence(c, i)'
    <3>1. \A d : Plan(d)' = Plan(d) /\ Host(d)' = Host(d)
      BY <2>1 DEF Plan, Host
    <3>2. outcome' = outcome /\ SomeEcho' = SomeEcho
      BY <2>1 DEF SomeEcho, Host, Plan
    <3>3. \A d \in Callers : \A i \in 1..Len(Plan(d)) : Evidence(d, i)
      BY DEF MultiInv
    <3>4. \A d, i : Evidence(d, i)' <=> Evidence(d, i)
      BY <3>1, <3>2 DEF Evidence
    <3> QED  BY <3>1, <3>3, <3>4
  <2> QED  BY <1>0, <1>1, <2>1, <2>2 DEF MultiInv
<1> QED  BY <1>3, <1>4, <1>5, <1>6, <1>7 DEF Next

\* The invariant holds in every reachable state.
THEOREM MultiInvariance == Spec => []MultiInv
<1> QED  BY MultiInit, MultiStep, PTL DEF Spec

\* Results, verdicts and reports keep their types, for any callers and plans.
THEOREM ResultsStayTyped == Spec => []TypeOK
<1>1. MultiInv => TypeOK
  BY DEF MultiInv
<1> QED  BY <1>1, MultiInvariance, PTL

\* A result says of the host what is so.
LEMMA ResultsHaveEvidence ==
    ASSUME MultiInv, NEW c \in Callers, pc[c] = "done", NEW r \in 1..Len(results[c])
    PROVE  LET proto == results[c][r].proto
               success == results[c][r].success
           IN  /\ proto.kind \in {"ICMP", "TCP", "UDP"}
               /\ success /\ proto.kind = "ICMP" => SomeEcho
               /\ success /\ proto.kind = "TCP" => Host(c).tcp[proto.port] = "open"
               /\ ~success /\ proto.kind = "UDP" => Host(c).udp[proto.port] = "closed"
<1>1. /\ results[c] = Collected(c) /\ world \in Worlds
      /\ \A i \in 1..Len(Plan(c)) : outcome[c][i] \in Over /\ Evidence(c, i)
  BY DEF MultiInv, Joined, TypeOK
<1>2. PICK i \in 1..Len(Plan(c)) :
         /\ outcome[c][i] # "error"
         /\ results[c][r].proto = Plan(c)[i]
         /\ results[c][r].success <=> outcome[c][i] = "passed"
  BY <1>1, CollectedIs
<1>3. Plan(c)[i].kind \in {"ICMP", "TCP", "UDP"}
  BY <1>1, WorldIs DEF Protocols
<1>4. Evidence(c, i) /\ (~results[c][r].success => outcome[c][i] = "failed")
  BY <1>1, <1>2 DEF Over
<1> QED  BY <1>2, <1>3, <1>4 DEF Evidence

\* Over any hosts, plans and losses, the verdict of a call that has returned has
\* its evidence: Open takes an echo and open TCP ports, Blocked a refusal by
\* each
\* UDP port that gave a result, and so on (classifier.rs:148).
THEOREM VerdictsAreFounded == Spec => []VerdictsHaveEvidence
<1>1. ASSUME MultiInv PROVE VerdictsHaveEvidence
  <2> SUFFICES ASSUME NEW c \in Callers, pc[c] = "done"
               PROVE  LET tcp(i) == Host(c).tcp[results[c][i].proto.port]
                          udp(i) == Host(c).udp[results[c][i].proto.port]
                          kind == verdict[c].kind
                      IN  /\ kind = "Open" =>
                                SomeEcho /\ \A i \in Probed(c, "TCP") : tcp(i) = "open"
                          /\ kind \in {"SelectiveFirewall", "TcpFiltered"} => SomeEcho
                          /\ kind = "Blocked" => \A i \in Probed(c, "UDP") : udp(i) = "closed"
                          /\ kind = "IcmpFiltered" =>
                                \/ Probed(c, "UDP") # {}
                                \/ \E i \in Probed(c, "TCP") : tcp(i) = "open"
    BY DEF VerdictsHaveEvidence
  <2> DEFINE rs == results[c]
             tcp(i) == Host(c).tcp[rs[i].proto.port]
             udp(i) == Host(c).udp[rs[i].proto.port]
             kind == verdict[c].kind
  <2>1. rs \in Seq(ProbeResults) /\ kind = KindOf(rs)
    <3>1. rs \in Seq(ProbeResults) /\ verdict[c] = Classify(rs)
      BY <1>1 DEF MultiInv, TypeOK, Joined, ProbeResults
    <3> QED  BY <3>1, ClassifyIs
  <2>2. \A i \in 1..Len(rs) :
           /\ rs[i].success /\ rs[i].proto.kind = "ICMP" => SomeEcho
           /\ rs[i].success /\ rs[i].proto.kind = "TCP" => tcp(i) = "open"
           /\ ~rs[i].success /\ rs[i].proto.kind = "UDP" => udp(i) = "closed"
    BY <1>1, ResultsHaveEvidence
  <2> HIDE DEF tcp, udp, kind
  <2>3. Some(rs, "ICMP") => SomeEcho
    BY <2>2 DEF Some
  <2>4. All(rs, "TCP") => \A i \in Probed(c, "TCP") : tcp(i) = "open"
    BY <2>2 DEF All, Probed
  <2>5. ~Succeeds(rs) => \A i \in Probed(c, "UDP") : udp(i) = "closed"
    BY <2>2 DEF Succeeds, Probed
  <2>6. Some(rs, "UDP") => Probed(c, "UDP") # {}
    BY DEF Some, Probed
  <2>7. Some(rs, "TCP") => \E i \in Probed(c, "TCP") : tcp(i) = "open"
    BY <2>2 DEF Some, Probed
  <2>8. /\ kind = "Open" => Some(rs, "ICMP") /\ All(rs, "TCP")
        /\ kind \in {"SelectiveFirewall", "TcpFiltered"} => Some(rs, "ICMP")
        /\ kind = "Blocked" => ~Succeeds(rs)
        /\ kind = "IcmpFiltered" => Some(rs, "TCP") \/ Some(rs, "UDP")
    BY <2>1 DEF KindOf
  <2> QED  BY <2>3, <2>4, <2>5, <2>6, <2>7, <2>8 DEF tcp, udp, kind
<1> QED  BY <1>1, MultiInvariance, PTL

----------------------------------------------------------------------------
(* Rates that leave no difference: all of what was probed passed, or none.  *)

Same(x, y) ==
    /\ x \in Nat \X Nat /\ y \in Nat \X Nat
    /\ (x[1] = x[2] /\ y[1] = y[2]) \/ (x[1] = 0 /\ y[1] = 0)

None == {<<0, d>> : d \in Nat \ {0}}

\* The product of denominators is one.
LEMMA ProductPositive ==
    ASSUME NEW m \in Nat \ {0}, NEW n \in Nat \ {0}
    PROVE  m * n \in Nat \ {0}
<1>1. m * n \in Nat
  OBVIOUS
<1>2. m * n # 0
  OBVIOUS
<1> QED  BY <1>1, <1>2

\* The difference of rates that are the same is nothing.
LEMMA SameDiff ==
    ASSUME NEW x, NEW y, Same(x, y)
    PROVE  Diff(x, y) \in None
<1>1. PICK a \in Nat, b \in Nat, c \in Nat, d \in Nat : x = <<a, b>> /\ y = <<c, d>>
  BY DEF Same
<1>2. CASE b = 0 \/ d = 0
  <2>1. Diff(x, y) = <<0, 1>>
    BY <1>1, <1>2 DEF Diff
  <2> QED  BY <2>1 DEF None
<1>3. CASE b # 0 /\ d # 0
  <2>1. a * d - c * b = 0
    <3>1. CASE a = b /\ c = d
      BY <3>1
    <3>2. CASE a = 0 /\ c = 0
      BY <3>2
    <3> QED  BY <1>1, <3>1, <3>2 DEF Same
  <2>2. Diff(x, y) = <<0, b * d>>
    BY <1>1, <1>3, <2>1 DEF Diff
  <2>3. b * d \in Nat \ {0}
    BY <1>3, ProductPositive
  <2> QED  BY <2>2, <2>3 DEF None
<1> QED  BY <1>2, <1>3

\* Where all rates are the same the differential score says Direct.
LEMMA SameRatesAreDirect ==
    ASSUME NEW rs, NEW wide,
           Same(IcmpRate(rs), SuccessRate(rs, "TCP")),
           Same(IcmpRate(rs), SuccessRate(rs, "UDP")),
           Same(SuccessRate(rs, "TCP"), SuccessRate(rs, "UDP"))
    PROVE  Interpret(rs, wide) = "Direct"
<1> DEFINE s == Score(rs)
<1>1. s.icmp_tcp \in None /\ s.icmp_udp \in None /\ s.tcp_udp \in None
  BY SameDiff DEF Score
<1>2. \A z \in None : \A t \in {1, 3} : Below(z, t)
  BY DEF None, Below
<1>3. ASSUME NEW x \in None, NEW y \in None PROVE Plus(x, y) \in None
  <2>1. PICK d \in Nat \ {0}, e \in Nat \ {0} : x = <<0, d>> /\ y = <<0, e>>
    BY DEF None
  <2>2. Plus(x, y) = <<0, d * e>> /\ d * e \in Nat \ {0}
    BY <2>1, ProductPositive DEF Plus
  <2> QED  BY <2>2 DEF None
<1>4. Consistent(s)
  BY <1>1, <1>2, <1>3 DEF Consistent
<1> HIDE DEF s
<1>5. Below(s.icmp_tcp, 1) /\ Below(s.tcp_udp, 1)
  BY <1>1, <1>2
<1> QED  BY <1>4, <1>5 DEF Interpret, s

(* The share of successes, where all or none of the results are.            *)
LEMMA RatesAre ==
    ASSUME NEW rs \in Seq(ProbeResults), NEW k
    PROVE  LET rate == SuccessRate(rs, k) IN
           /\ rate \in Nat \X Nat
           /\ All(rs, k) => rate[1] = rate[2]
           /\ ~Some(rs, k) => rate[1] = 0
<1> DEFINE of == Of(rs, k)
           K == {i \in 1..Len(of) : of[i].success}
<1>1. /\ of \in Seq(ProbeResults)
      /\ AnyPassed(of) <=> Some(rs, k)
      /\ AllPassed(of) <=> All(rs, k)
  BY OfIs
<1> HIDE DEF of
<1>2. Len(of) \in Nat /\ K \in SUBSET (1..Len(of))
  BY <1>1
<1>3. Len(Passed(of)) = Cardinality(K) /\ Cardinality(K) \in Nat
  <2>1. Passed(of) = Pick(of, K)
    BY DEF Passed
  <2> HIDE DEF K
  <2> QED  BY <1>1, <1>2, <2>1, PickKeeps, Zenon
<1>4. AllPassed(of) => \A i \in 1..Len(of) : of[i].success
  BY <1>1, PassedIs
<1>5. All(rs, k) => K = 1..Len(of)
  BY <1>1, <1>4
<1>6. All(rs, k) => Cardinality(K) = Len(of)
  <2>1. \A n \in Nat : Cardinality(1..n) = n
    BY FS_Interval
  <2> HIDE DEF K
  <2> QED  BY <1>2, <1>5, <2>1
<1>7. AnyPassed(of) <=> \E i \in 1..Len(of) : of[i].success
  BY <1>1, PassedIs DEF Succeeds
<1>8. ~Some(rs, k) => Cardinality(K) = 0
  <2>1. ~Some(rs, k) => K = {}
    BY <1>1, <1>7
  <2> QED  BY <2>1, FS_EmptySet
<1>9. SuccessRate(rs, k) = <<Cardinality(K), Len(of)>>
  BY <1>3 DEF SuccessRate, of
<1> HIDE DEF K
<1> QED  BY <1>2, <1>3, <1>6, <1>8, <1>9

\* No results, no ports.
LEMMA NoPorts == Ports(<<>>) = <<>>
<1> DEFINE K == {i \in 1..Len(<<>>) : <<>>[i].proto.kind # "ICMP"}
<1>1. K = {} /\ <<>> \in Seq(ProbeResults)
  OBVIOUS
<1>2. Pick(<<>>, {}) = <<>>
  BY <1>1, PickElements
<1>3. Ports(<<>>) = [i \in 1..Len(Pick(<<>>, {})) |-> Pick(<<>>, {})[i].proto.port]
  BY <1>1 DEF Ports
<1> QED  BY <1>2, <1>3

\* Where the classifier says Open or Blocked, score and fingerprint agree.
LEMMA ReadingsAgree ==
    ASSUME NEW rs \in Seq(ProbeResults), KindOf(rs) \in {"Open", "Blocked"}, OneIcmp(rs)
    PROVE  /\ \A wide \in BOOLEAN : Interpret(rs, wide) = "Direct"
           /\ \A k \in {"TCP", "UDP"} :
                 <<>> = IF KindOf(rs) = "Open" THEN Fingerprint(rs).closed[k]
                        ELSE Fingerprint(rs).open[k]
<1> DEFINE icmp == Of(rs, "ICMP")
           good == Some(rs, "ICMP") /\ All(rs, "TCP") /\ All(rs, "UDP")
<1>1. /\ KindOf(rs) = "Open" => good
      /\ KindOf(rs) = "Blocked" => ~Succeeds(rs)
  BY DEF KindOf
<1>2. ~Succeeds(rs) => \A k : ~Some(rs, k)
  BY DEF Succeeds, Some
<1>3. /\ icmp \in Seq(ProbeResults)
      /\ icmp = <<>> => ~Some(rs, "ICMP")
      /\ Succeeds(icmp) <=> Some(rs, "ICMP")
  <2>1. icmp \in Seq(ProbeResults) /\ (AnyPassed(icmp) <=> Some(rs, "ICMP"))
    BY OfIs
  <2>2. AnyPassed(icmp) <=> Succeeds(icmp)
    BY <2>1, PassedIs
  <2>3. icmp = <<>> => ~Succeeds(icmp)
    BY DEF Succeeds
  <2> QED  BY <2>1, <2>2, <2>3
<1>4. IcmpRate(rs) = IF icmp = <<>> THEN <<0, 0>>
                     ELSE <<IF icmp[1].success THEN 1 ELSE 0, 1>>
  BY DEF IcmpRate, NoRate
<1> HIDE DEF icmp
<1>5. icmp # <<>> => (Some(rs, "ICMP") <=> icmp[1].success)
  <2>1. Len(icmp) \in Nat /\ Len(icmp) <= 1
    BY <1>3 DEF OneIcmp, icmp
  <2>2. icmp # <<>> => Len(icmp) = 1
    <3>1. Len(icmp) = 0 => icmp = <<>>
      BY <1>3
    <3>2. \A n \in Nat : n <= 1 /\ n # 0 => n = 1
      OBVIOUS
    <3> QED  BY <2>1, <3>1, <3>2, Zenon
  <2>3. Len(icmp) = 1 => (Succeeds(icmp) <=> icmp[1].success)
    <3>1. 1..1 = {1}
      OBVIOUS
    <3> QED  BY <3>1 DEF Succeeds
  <2> QED  BY <1>3, <2>2, <2>3
<1>6. /\ IcmpRate(rs) \in Nat \X Nat
      /\ Some(rs, "ICMP") => IcmpRate(rs)[1] = IcmpRate(rs)[2]
      /\ ~Some(rs, "ICMP") => IcmpRate(rs)[1] = 0
  BY <1>3, <1>4, <1>5
<1>7. \A k : /\ SuccessRate(rs, k) \in Nat \X Nat
             /\ All(rs, k) => SuccessRate(rs, k)[1] = SuccessRate(rs, k)[2]
             /\ ~Some(rs, k) => SuccessRate(rs, k)[1] = 0
  BY RatesAre
<1>8. /\ Same(IcmpRate(rs), SuccessRate(rs, "TCP"))
      /\ Same(IcmpRate(rs), SuccessRate(rs, "UDP"))
      /\ Same(SuccessRate(rs, "TCP"), SuccessRate(rs, "UDP"))
  <2>1. CASE KindOf(rs) = "Open"
    BY <1>1, <1>6, <1>7, <2>1 DEF Same
  <2>2. CASE KindOf(rs) = "Blocked"
    BY <1>1, <1>2, <1>6, <1>7, <2>2 DEF Same
  <2> QED  BY <2>1, <2>2
<1>9. \A wide \in BOOLEAN : Interpret(rs, wide) = "Direct"
  BY <1>8, SameRatesAreDirect
<1>10. ASSUME NEW k \in {"TCP", "UDP"}
       PROVE  <<>> = IF KindOf(rs) = "Open" THEN Fingerprint(rs).closed[k]
                     ELSE Fingerprint(rs).open[k]
  <2>1. /\ Fingerprint(rs).closed[k] = Ports(Failed(Of(rs, k)))
        /\ Fingerprint(rs).open[k] = Ports(Passed(Of(rs, k)))
    BY DEF Fingerprint
  <2>2. /\ All(rs, k) => Failed(Of(rs, k)) = <<>>
        /\ ~Some(rs, k) => Passed(Of(rs, k)) = <<>>
    BY OfIs DEF AnyPassed, AllPassed
  <2>3. /\ KindOf(rs) = "Open" => All(rs, k)
        /\ KindOf(rs) = "Blocked" => ~Some(rs, k)
    BY <1>1, <1>2
  <2> QED  BY <2>1, <2>2, <2>3, NoPorts
<1> QED  BY <1>9, <1>10

----------------------------------------------------------------------------
(* Results in another order.                                                *)

\* A reordering is a permutation of the results.
LEMMA OrdersAre ==
    ASSUME NEW rs \in Seq(ProbeResults), NEW qs \in Orders(rs)
    PROVE  /\ qs \in Seq(ProbeResults) /\ Len(qs) = Len(rs)
           /\ \E f \in [1..Len(rs) -> 1..Len(rs)] :
                 /\ \A i, j \in 1..Len(rs) : f[i] = f[j] => i = j
                 /\ \A j \in 1..Len(rs) : \E i \in 1..Len(rs) : f[i] = j
                 /\ \A i \in 1..Len(rs) : qs[i] = rs[f[i]]
<1> DEFINE n == Len(rs)
<1>1. n \in Nat
  OBVIOUS
<1>2. PICK f \in [1..n -> 1..n] :
         /\ \A i, j \in 1..n : f[i] = f[j] => i = j
         /\ qs = [i \in 1..n |-> rs[f[i]]]
  BY DEF Orders
<1>3. f \in Surjection(1..n, 1..n)
  <2> HIDE DEF n
  <2>1. f \in Injection(1..n, 1..n)
    BY <1>2 DEF Injection, IsInjective
  <2>2. IsFiniteSet(1..n) /\ Cardinality(1..n) = n
    BY <1>1, FS_Interval
  <2> QED  BY <2>1, <2>2, FS_Injection
<1>4. \A j \in 1..n : \E i \in 1..n : f[i] = j
  BY <1>3 DEF Surjection
<1>5. \A i \in 1..n : rs[f[i]] \in ProbeResults
  BY <1>2
<1>6. qs \in Seq(ProbeResults) /\ Len(qs) = n
  BY <1>1, <1>2, <1>5
<1> QED  BY <1>2, <1>4, <1>6

\* The verdict's kind looks only at which results there are.
LEMMA SameElementsSameKind ==
    ASSUME NEW n \in Nat, NEW rs, NEW qs, Len(rs) = n, Len(qs) = n,
           qs = <<>> <=> rs = <<>>,
           \A i \in 1..n : \E j \in 1..n : qs[i] = rs[j],
           \A j \in 1..n : \E i \in 1..n : qs[i] = rs[j]
    PROVE  KindOf(qs) = KindOf(rs)
<1>1. \A kind : Has(qs, kind) <=> Has(rs, kind)
  <2> TAKE kind
  <2>1. ASSUME NEW i \in 1..n, qs[i].proto.kind = kind PROVE Has(rs, kind)
    <3>1. PICK j \in 1..n : qs[i] = rs[j]
      OBVIOUS
    <3> QED  BY <2>1, <3>1 DEF Has
  <2>2. ASSUME NEW j \in 1..n, rs[j].proto.kind = kind PROVE Has(qs, kind)
    <3>1. PICK i \in 1..n : qs[i] = rs[j]
      OBVIOUS
    <3> QED  BY <2>2, <3>1 DEF Has
  <2> QED  BY <2>1, <2>2 DEF Has
<1>2. \A kind : Some(qs, kind) <=> Some(rs, kind)
  <2> TAKE kind
  <2>1. ASSUME NEW i \in 1..n, qs[i].proto.kind = kind, qs[i].success
        PROVE  Some(rs, kind)
    <3>1. PICK j \in 1..n : qs[i] = rs[j]
      OBVIOUS
    <3> QED  BY <2>1, <3>1 DEF Some
  <2>2. ASSUME NEW j \in 1..n, rs[j].proto.kind = kind, rs[j].success
        PROVE  Some(qs, kind)
    <3>1. PICK i \in 1..n : qs[i] = rs[j]
      OBVIOUS
    <3> QED  BY <2>2, <3>1 DEF Some
  <2> QED  BY <2>1, <2>2 DEF Some
<1>3. \A kind : All(qs, kind) <=> All(rs, kind)
  BY DEF All
<1>4. Succeeds(qs) <=> Succeeds(rs)
  BY DEF Succeeds
<1> QED  BY <1>1, <1>2, <1>3, <1>4 DEF KindOf

\* The verdict does not depend on the order the probes ended in.
LEMMA OrderSaysNothing ==
    ASSUME NEW rs \in Seq(ProbeResults), NEW qs \in Orders(rs)
    PROVE  KindOf(qs) = KindOf(rs)
<1> DEFINE n == Len(rs)
<1>1. PICK f \in [1..n -> 1..n] :
         /\ \A j \in 1..n : \E i \in 1..n : f[i] = j
         /\ \A i \in 1..n : qs[i] = rs[f[i]]
  BY OrdersAre
<1>2. /\ n \in Nat /\ qs \in Seq(ProbeResults) /\ Len(qs) = n
      /\ qs = <<>> <=> rs = <<>>
  BY OrdersAre
<1> HIDE DEF n
<1>3. \A i \in 1..n : \E j \in 1..n : qs[i] = rs[j]
  <2> TAKE i \in 1..n
  <2>1. f[i] \in 1..n /\ qs[i] = rs[f[i]]
    BY <1>1
  <2> QED  BY <2>1
<1>4. \A j \in 1..n : \E i \in 1..n : qs[i] = rs[j]
  BY <1>1
<1> QED  BY <1>2, <1>3, <1>4, SameElementsSameKind DEF n

\* What is hashed of a protocol that was probed once.
LEMMA HashOnce ==
    ASSUME NEW rs \in Seq(ProbeResults), NoneTwice(rs), NEW k \in 1..Len(rs)
    PROVE  HashedAs(rs)[rs[k].proto] = <<rs[k].success>>
<1> DEFINE p == rs[k].proto
           K == {i \in 1..Len(rs) : rs[i].proto = p}
<1>1. K = {k}
  BY DEF NoneTwice
<1>2. HashedAs(rs)[p] = [i \in 1..Len(Pick(rs, K)) |-> Pick(rs, K)[i].success]
  BY DEF HashedAs
<1>3. Pick(rs, K) \in Seq(ProbeResults) /\ Len(Pick(rs, K)) = 1
      /\ \A r \in 1..1 : \E i \in K : Pick(rs, K)[r] = rs[i]
  <2>1. Cardinality({k}) = 1 /\ {k} \in SUBSET (1..Len(rs))
    BY FS_Singleton
  <2>2. Pick(rs, {k}) \in Seq(ProbeResults) /\ Len(Pick(rs, {k})) = 1
    BY <2>1, PickKeeps
  <2>3. \A r \in 1..Len(Pick(rs, {k})) : \E i \in {k} : Pick(rs, {k})[r] = rs[i]
    BY <2>1, PickElements
  <2> HIDE DEF K
  <2> QED  BY <1>1, <2>2, <2>3
<1>4. Pick(rs, K)[1] = rs[k]
  <2> HIDE DEF K
  <2> QED  BY <1>1, <1>3
<1> HIDE DEF K
<1>5. [i \in 1..Len(Pick(rs, K)) |-> Pick(rs, K)[i].success] = <<rs[k].success>>
  BY <1>3, <1>4
<1> QED  BY <1>2, <1>5

\* What is hashed looks only at which results there are.
LEMMA SameElementsSameHash ==
    ASSUME NEW rs \in Seq(ProbeResults), NEW qs \in Seq(ProbeResults), NEW n \in Nat,
           Len(rs) = n, Len(qs) = n, NoneTwice(rs), NoneTwice(qs),
           \A i \in 1..n : \E j \in 1..n : qs[i] = rs[j],
           \A j \in 1..n : \E i \in 1..n : qs[i] = rs[j]
    PROVE  HashedAs(qs) = HashedAs(rs)
<1> DEFINE P == {rs[i].proto : i \in 1..n}
           Q == {qs[i].proto : i \in 1..n}
<1>1. Q = P
  <2>1. \A i \in 1..n : \E j \in 1..n : qs[i].proto = rs[j].proto
    OBVIOUS
  <2>2. \A j \in 1..n : \E i \in 1..n : qs[i].proto = rs[j].proto
    OBVIOUS
  <2>3. ASSUME NEW p \in Q PROVE p \in P
    <3>1. PICK i \in 1..n : p = qs[i].proto
      OBVIOUS
    <3>2. PICK j \in 1..n : qs[i].proto = rs[j].proto
      BY <2>1
    <3> QED  BY <3>1, <3>2
  <2>4. ASSUME NEW p \in P PROVE p \in Q
    <3>1. PICK j \in 1..n : p = rs[j].proto
      OBVIOUS
    <3>2. PICK i \in 1..n : qs[i].proto = rs[j].proto
      BY <2>2
    <3> QED  BY <3>1, <3>2
  <2> HIDE DEF P, Q
  <2> QED  BY <2>3, <2>4
<1>2. ASSUME NEW p \in P PROVE HashedAs(qs)[p] = HashedAs(rs)[p]
  <2>1. PICK j \in 1..n : rs[j].proto = p
    OBVIOUS
  <2>2. PICK i \in 1..n : qs[i] = rs[j]
    OBVIOUS
  <2>3. HashedAs(qs)[qs[i].proto] = <<qs[i].success>>
    BY HashOnce
  <2>4. HashedAs(rs)[rs[j].proto] = <<rs[j].success>>
    BY HashOnce
  <2> QED  BY <2>1, <2>2, <2>3, <2>4
<1>3. /\ HashedAs(qs) = [p \in Q |-> HashedAs(qs)[p]]
      /\ HashedAs(rs) = [p \in P |-> HashedAs(rs)[p]]
  BY DEF HashedAs
<1> HIDE DEF P, Q
<1> QED  BY <1>1, <1>2, <1>3

\* The hash does not depend on the order the probes ended in.
LEMMA OrderIsNotHashed ==
    ASSUME NEW rs \in Seq(ProbeResults), NEW qs \in Orders(rs), NoneTwice(rs)
    PROVE  HashedAs(qs) = HashedAs(rs)
<1> DEFINE n == Len(rs)
<1>1. PICK f \in [1..n -> 1..n] :
         /\ \A i, j \in 1..n : f[i] = f[j] => i = j
         /\ \A j \in 1..n : \E i \in 1..n : f[i] = j
         /\ \A i \in 1..n : qs[i] = rs[f[i]]
  BY OrdersAre
<1>2. n \in Nat /\ qs \in Seq(ProbeResults) /\ Len(qs) = n
  BY OrdersAre
<1>3. NoneTwice(qs)
  <2> SUFFICES ASSUME NEW i \in 1..n, NEW j \in 1..n, qs[i].proto = qs[j].proto
               PROVE  i = j
    BY <1>2 DEF NoneTwice
  <2>1. f[i] \in 1..n /\ f[j] \in 1..n /\ rs[f[i]].proto = rs[f[j]].proto
    BY <1>1
  <2>2. f[i] = f[j]
    BY <2>1 DEF NoneTwice
  <2> QED  BY <1>1, <2>2
<1> HIDE DEF n
<1>4. \A i \in 1..n : \E j \in 1..n : qs[i] = rs[j]
  <2> TAKE i \in 1..n
  <2>1. f[i] \in 1..n /\ qs[i] = rs[f[i]]
    BY <1>1
  <2> QED  BY <2>1
<1>5. \A j \in 1..n : \E i \in 1..n : qs[i] = rs[j]
  BY <1>1
<1> QED  BY <1>2, <1>3, <1>4, <1>5, SameElementsSameHash DEF n

\* For any results of any call: a verdict of Open or Blocked goes with a score
\* of
\* Direct and with no port to the contrary in the fingerprint, and neither the
\* verdict nor the hash depends on the order of the results (classifier.rs:148,
\* :94, :248, :300).
THEOREM ReadingsOfResultsAgree == Spec => []VerdictsAgree
<1>1. ASSUME MultiInv PROVE VerdictsAgree
  <2> SUFFICES ASSUME NEW c \in Callers, pc[c] = "done"
               PROVE  LET rs == results[c]
                          kind == verdict[c].kind
                      IN  /\ kind \in {"Open", "Blocked"} /\ OneIcmp(rs) =>
                                /\ \A wide \in BOOLEAN : Interpret(rs, wide) = "Direct"
                                /\ \A k \in {"TCP", "UDP"} :
                                      <<>> = IF kind = "Open" THEN Fingerprint(rs).closed[k]
                                             ELSE Fingerprint(rs).open[k]
                          /\ \A qs \in Orders(rs) :
                                /\ Classify(qs).kind = kind
                                /\ NoneTwice(rs) => HashedAs(qs) = HashedAs(rs)
    BY DEF VerdictsAgree
  <2> DEFINE rs == results[c]
  <2>1. rs \in Seq(ProbeResults) /\ verdict[c].kind = KindOf(rs)
    <3>1. rs \in Seq(ProbeResults) /\ verdict[c] = Classify(rs)
      BY <1>1 DEF MultiInv, TypeOK, Joined, ProbeResults
    <3> QED  BY <3>1, ClassifyIs
  <2> HIDE DEF rs
  <2>2. ASSUME NEW qs \in Orders(rs) PROVE Classify(qs).kind = KindOf(rs)
    BY <2>1, OrdersAre, OrderSaysNothing, ClassifyIs
  <2>3. ASSUME NEW qs \in Orders(rs), NoneTwice(rs) PROVE HashedAs(qs) = HashedAs(rs)
    BY <2>1, <2>3, OrderIsNotHashed
  <2>4. KindOf(rs) \in {"Open", "Blocked"} /\ OneIcmp(rs) =>
           /\ \A wide \in BOOLEAN : Interpret(rs, wide) = "Direct"
           /\ \A k \in {"TCP", "UDP"} :
                 <<>> = IF KindOf(rs) = "Open" THEN Fingerprint(rs).closed[k]
                        ELSE Fingerprint(rs).open[k]
    BY <2>1, ReadingsAgree
  <2> QED  BY <2>1, <2>2, <2>3, <2>4 DEF rs
<1> QED  BY <1>1, MultiInvariance, PTL

----------------------------------------------------------------------------
(* LatencyMeter.                                                            *)

----------------------------------------------------------------------------
(* Sums.                                                                    *)

Sums(f, s, k) == f[0] = 0 /\ \A i \in 1..k : f[i] = f[i - 1] + s[i]

\* Every list of numbers has its partial sums.
LEMMA SumsExist ==
    ASSUME NEW n \in Nat, NEW s, \A i \in 1..n : s[i] \in Int
    PROVE  \E f \in [0..n -> Int] : Sums(f, s, n)
<1> DEFINE S == {k \in Nat : k <= n => \E f \in [0..k -> Int] : Sums(f, s, k)}
<1>1. 0 \in S
  <2>1. [i \in 0..0 |-> 0] \in [0..0 -> Int] /\ Sums([i \in 0..0 |-> 0], s, 0)
    BY DEF Sums
  <2> QED  BY <2>1
<1>2. ASSUME NEW k \in Nat, k \in S PROVE k + 1 \in S
  <2> SUFFICES ASSUME k + 1 <= n
               PROVE  \E g \in [0..k + 1 -> Int] : Sums(g, s, k + 1)
    OBVIOUS
  <2>1. PICK f \in [0..k -> Int] : Sums(f, s, k)
    BY <1>2
  <2>2. s[k + 1] \in Int
    OBVIOUS
  <2> DEFINE g == [i \in 0..k + 1 |-> IF i = k + 1 THEN f[k] + s[k + 1] ELSE f[i]]
  <2>3. g \in [0..k + 1 -> Int]
    BY <2>2
  <2>4. Sums(g, s, k + 1)
    <3>1. g[0] = 0
      BY <2>1 DEF Sums
    <3>2. ASSUME NEW i \in 1..k + 1 PROVE g[i] = g[i - 1] + s[i]
      <4>1. CASE i = k + 1
        BY <4>1
      <4>2. CASE i # k + 1
        <5>1. i \in 1..k /\ g[i] = f[i] /\ g[i - 1] = f[i - 1]
          BY <4>2
        <5> QED  BY <5>1, <2>1 DEF Sums
      <4> QED  BY <4>1, <4>2
    <3> HIDE DEF g
    <3> QED  BY <3>1, <3>2 DEF Sums
  <2> HIDE DEF g
  <2> QED  BY <2>3, <2>4
<1> HIDE DEF S
<1>3. Nat \subseteq S
  BY <1>1, <1>2, SetInduction
<1>4. n \in S
  BY <1>3
<1> QED  BY <1>4 DEF S

(* What Total computes: the last of the partial sums.                       *)
LEMMA TotalIs ==
    ASSUME NEW s \in Seq(Int)
    PROVE \E f \in [0..Len(s) -> Int] : Sums(f, s, Len(s)) /\ Total(s) = f[Len(s)]
<1> DEFINE n == Len(s)
           Fix(f) == [i \in 0..n |-> IF i = 0 THEN 0 ELSE f[i - 1] + s[i]]
           c == CHOOSE f : f = Fix(f)
<1>1. n \in Nat /\ \A i \in 1..n : s[i] \in Int
  OBVIOUS
<1>2. Total(s) = c[n]
  BY DEF Total
<1> HIDE DEF n
<1>3. PICK f \in [0..n -> Int] : Sums(f, s, n)
  BY <1>1, SumsExist
<1>4. f = Fix(f)
  BY <1>3, <1>1 DEF Sums
<1>5. c = Fix(c)
  <2> HIDE DEF Fix
  <2> QED BY <1>4
<1> HIDE DEF c
<1>6. c[0] = 0 /\ \A i \in 1..n : c[i] = c[i-1] + s[i]
  BY <1>5, <1>1
<1>7. \A k \in 0..n : c[k] = f[k]
  <2> DEFINE S == {k \in Nat : k \in 0..n => c[k] = f[k]}
  <2>1. 0 \in S
    BY <1>6, <1>3 DEF Sums
  <2>2. \A k \in Nat : k \in S => k+1 \in S
    BY <1>6, <1>3, <1>1 DEF Sums
  <2> HIDE DEF S
  <2>3. Nat \subseteq S
    BY <2>1, <2>2, SetInduction
  <2> QED BY <2>3, <1>1 DEF S
<1>8. c = f
  BY <1>4, <1>5, <1>7
<1>9. Total(s) = c[n]
  BY <1>2 DEF c, n
<1> QED BY <1>3, <1>8, <1>9 DEF n

\* Products, by one more.
LEMMA TimesNext ==
    \A a \in Int : a * 0 = 0 /\ \A k \in Int : a * (k + 1) = a * k + a /\ a * k \in Int
  OBVIOUS

(* A sum of n numbers lies between n times the least and n times the most.  *)
LEMMA PartialBounds ==
    ASSUME NEW n \in Nat, NEW s, \A i \in 1..n : s[i] \in Int,
           NEW f \in [0..n -> Int], Sums(f, s, n),
           NEW lo \in Int, NEW hi \in Int,
           \A i \in 1..n : lo <= s[i] /\ s[i] <= hi
    PROVE  \A k \in 0..n : lo * k <= f[k] /\ f[k] <= hi * k
<1> DEFINE S == {k \in Nat : k \in 0..n => lo * k <= f[k] /\ f[k] <= hi * k}
<1>1. 0 \in S
  BY TimesNext DEF Sums
<1>2. ASSUME NEW k \in Nat, k \in S PROVE k + 1 \in S
  <2> SUFFICES ASSUME k + 1 \in 0..n
               PROVE  lo * (k + 1) <= f[k + 1] /\ f[k + 1] <= hi * (k + 1)
    OBVIOUS
  <2>1. /\ f[k + 1] = f[k] + s[k + 1]
        /\ f[k] \in Int /\ s[k + 1] \in Int
        /\ lo <= s[k + 1] /\ s[k + 1] <= hi
    <3>1. k + 1 \in 1..n /\ k + 1 - 1 = k /\ k \in 0..n
      OBVIOUS
    <3> QED  BY <3>1 DEF Sums
  <2>2. lo * k <= f[k] /\ f[k] <= hi * k
    BY <1>2
  <2>3. /\ lo * (k + 1) = lo * k + lo /\ lo * k \in Int
        /\ hi * (k + 1) = hi * k + hi /\ hi * k \in Int
    BY TimesNext
  <2>4. \A a, b, c, d \in Int : a <= b /\ c <= d => a + c <= b + d
    OBVIOUS
  <2>5. lo * k + lo <= f[k] + s[k + 1]
    BY <2>1, <2>2, <2>3, <2>4
  <2>6. f[k] + s[k + 1] <= hi * k + hi
    BY <2>1, <2>2, <2>3, <2>4
  <2> QED  BY <2>1, <2>3, <2>5, <2>6
<1> HIDE DEF S
<1>3. Nat \subseteq S
  BY <1>1, <1>2, SetInduction
<1> QED  BY <1>3 DEF S

\* The same of Total.
LEMMA TotalBounds ==
    ASSUME NEW s \in Seq(Int), NEW lo \in Int, NEW hi \in Int,
           \A i \in 1..Len(s) : lo <= s[i] /\ s[i] <= hi
    PROVE  /\ Total(s) \in Int
           /\ lo * Len(s) <= Total(s) /\ Total(s) <= hi * Len(s)
<1> DEFINE n == Len(s)
<1>1. n \in Nat /\ \A i \in 1..n : s[i] \in Int /\ lo <= s[i] /\ s[i] <= hi
  OBVIOUS
<1>2. PICK f \in [0..n -> Int] : Sums(f, s, n) /\ Total(s) = f[n]
  BY TotalIs
<1> HIDE DEF n
<1>3. \A k \in 0..n : lo * k <= f[k] /\ f[k] <= hi * k
  BY <1>1, <1>2, PartialBounds
<1>4. n \in 0..n
  BY <1>1
<1> QED  BY <1>2, <1>3, <1>4 DEF n

(* Division by a positive number, rounded down.                             *)
LEMMA Quotient ==
    ASSUME NEW a \in Int, NEW n \in Nat \ {0}
    PROVE  /\ a \div n \in Int
           /\ n * (a \div n) \in Int
           /\ n * (a \div n) <= a
           /\ a < n * (a \div n) + n
  OBVIOUS

\* What lies between n * lo and n * hi lies, divided by n, between lo and hi.
LEMMA QuotientBounds ==
    ASSUME NEW a \in Int, NEW n \in Nat \ {0}, NEW lo \in Int, NEW hi \in Int,
           lo * n <= a, a <= hi * n
    PROVE  lo <= a \div n /\ a \div n <= hi
<1> DEFINE q == a \div n
<1>1. q \in Int /\ n * q \in Int /\ n * q <= a /\ a < n * q + n
  BY Quotient
<1> HIDE DEF q
<1>2. lo <= q
  <2> SUFFICES ASSUME q + 1 <= lo PROVE FALSE
    BY <1>1
  <2>1. n * (q + 1) <= n * lo
    BY <1>1
  <2>2. n * (q + 1) = n * q + n /\ n * lo = lo * n
    BY <1>1
  <2> QED  BY <1>1, <2>1, <2>2
<1>3. q <= hi
  <2> SUFFICES ASSUME hi + 1 <= q PROVE FALSE
    BY <1>1
  <2>1. n * (hi + 1) <= n * q
    BY <1>1
  <2>2. n * (hi + 1) = hi * n + n
    BY <1>1
  <2> QED  BY <1>1, <2>1, <2>2
<1> QED  BY <1>2, <1>3 DEF q

(* Mean, of what lies between two bounds.                                   *)
LEMMA MeanBounds ==
    ASSUME NEW s \in Seq(Int), s # <<>>, NEW lo \in Int, NEW hi \in Int,
           \A i \in 1..Len(s) : lo <= s[i] /\ s[i] <= hi
    PROVE  Mean(s) \in Int /\ lo <= Mean(s) /\ Mean(s) <= hi
<1> DEFINE n == Len(s)
           a == Total(s)
<1>1. n \in Nat \ {0}
  OBVIOUS
<1>2. a \in Int /\ lo * n <= a /\ a <= hi * n
  BY TotalBounds
<1> HIDE DEF n, a
<1>3. a \div n \in Int /\ lo <= a \div n /\ a \div n <= hi
  BY <1>1, <1>2, Quotient, QuotientBounds
<1> QED  BY <1>3 DEF Mean, a, n
----------------------------------------------------------------------------
(* Sorted.                                                                  *)

(* Some element of a list is the greatest.                                  *)
LEMMA GreatestElement ==
    ASSUME NEW n \in Nat, NEW s, \A i \in 1..n : s[i] \in Int, n # 0
    PROVE  \E m \in 1..n : \A i \in 1..n : s[i] <= s[m]
<1> DEFINE S == {k \in Nat : k \in 1..n => \E m \in 1..k : \A i \in 1..k : s[i] <= s[m]}
<1>1. 0 \in S
  OBVIOUS
<1>2. ASSUME NEW k \in Nat, k \in S PROVE k + 1 \in S
  <2> SUFFICES ASSUME k + 1 \in 1..n
               PROVE  \E m \in 1..k + 1 : \A i \in 1..k + 1 : s[i] <= s[m]
    OBVIOUS
  <2>1. CASE k = 0
    <3>1. \A i \in 1..k + 1 : i = 1
      BY <2>1
    <3>2. s[1] <= s[1] /\ 1 \in 1..k + 1
      BY <2>1
    <3> QED  BY <3>1, <3>2
  <2>2. CASE k # 0
    <3>1. PICK m \in 1..k : \A i \in 1..k : s[i] <= s[m]
      BY <1>2, <2>2
    <3>2. s[m] \in Int /\ s[k + 1] \in Int
      OBVIOUS
    <3>3. CASE s[k + 1] <= s[m]
      <4>1. \A i \in 1..k + 1 : s[i] <= s[m]
        BY <3>1, <3>3
      <4> QED  BY <4>1
    <3>4. CASE ~(s[k + 1] <= s[m])
      <4>1. \A i \in 1..k : s[i] <= s[k + 1]
        BY <3>1, <3>2, <3>4
      <4>2. \A i \in 1..k + 1 : s[i] <= s[k + 1]
        BY <3>2, <4>1
      <4> QED  BY <4>2
    <3> QED  BY <3>3, <3>4
  <2> QED  BY <2>1, <2>2
<1> HIDE DEF S
<1>3. Nat \subseteq S
  BY <1>1, <1>2, SetInduction
<1>4. n \in 1..n
  OBVIOUS
<1> QED  BY <1>3, <1>4 DEF S

(* sort_unstable: the same values, in order, from the least to the greatest. *)
LEMMA SortedIs ==
    ASSUME NEW s \in Seq(Nat)
    PROVE  LET t == Sorted(s) IN
           /\ t \in Seq(Nat) /\ Len(t) = Len(s)
           /\ \A k \in 1..Len(s) : \E i \in 1..Len(s) : t[k] = s[i]
           /\ \A j, k \in 1..Len(s) : j <= k => t[j] <= t[k]
           /\ \A i \in 1..Len(s) : t[1] <= s[i] /\ s[i] <= t[Len(s)]
           /\ \A k \in 1..Len(s) : \A x \in Nat :
                 k <= Cardinality({i \in 1..Len(s) : s[i] <= x}) => t[k] <= x
<1> DEFINE n == Len(s)
           values == {s[i] : i \in 1..n}
           below(x) == {i \in 1..n : s[i] <= x}
           reaches(x, k) == k <= Cardinality(below(x))
           least(x, k) == /\ reaches(x, k)
                          /\ \A y \in values : reaches(y, k) => x <= y
           t == Sorted(s)
<1>1. n \in Nat /\ \A i \in 1..n : s[i] \in Nat
  OBVIOUS
<1>2. t = [k \in 1..n |-> CHOOSE x \in values : least(x, k)]
  BY DEF Sorted
<1>3. values \subseteq Nat /\ \A i \in 1..n : s[i] \in values
  BY <1>1
<1>4. \A x \in values : \E i \in 1..n : x = s[i]
  OBVIOUS
<1>5. \A x : below(x) \subseteq 1..n
  OBVIOUS
<1>6. \A x : \A i \in 1..n : s[i] <= x <=> i \in below(x)
  OBVIOUS
<1> HIDE DEF n, values, below
<1>7. IsFiniteSet(1..n) /\ Cardinality(1..n) = n
  BY <1>1, FS_Interval
<1>8. \A x : IsFiniteSet(below(x)) /\ Cardinality(below(x)) \in Nat
  BY <1>5, <1>7, FS_Subset, FS_CardinalityType
<1>9. ASSUME NEW k \in 1..n PROVE \E x \in values : least(x, k)
  <2> DEFINE X == {x \in values : reaches(x, k)}
  <2>1. PICK m \in 1..n : \A i \in 1..n : s[i] <= s[m]
    <3>1. n # 0 /\ \A i \in 1..n : s[i] \in Int
      BY <1>1
    <3> QED  BY <1>1, <3>1, GreatestElement
  <2>2. s[m] \in values /\ below(s[m]) = 1..n
    BY <1>3, <1>5, <1>6, <2>1
  <2>3. s[m] \in X
    BY <1>1, <1>7, <2>2
  <2>4. X \in SUBSET Nat /\ X # {}
    BY <1>3, <2>3
  <2>5. PICK x \in X : \A y \in X : x <= y
    BY <2>4, LeastNatural
  <2> QED  BY <2>5
<1> HIDE DEF least
<1>10. \A k \in 1..n : t[k] \in values /\ least(t[k], k)
  BY <1>2, <1>9
<1>11. \A k \in 1..n : t[k] \in Nat
  BY <1>3, <1>10
<1>12. t \in Seq(Nat) /\ Len(t) = n
  <2> HIDE DEF t
  <2>1. t = [k \in 1..n |-> t[k]]
    BY <1>2
  <2> QED  BY <1>1, <1>11, <2>1
<1>13. \A k \in 1..n : \E i \in 1..n : t[k] = s[i]
  BY <1>4, <1>10
<1> HIDE DEF t
<1>14. ASSUME NEW j \in 1..n, NEW k \in 1..n, j <= k PROVE t[j] <= t[k]
  <2>1. t[k] \in values /\ k <= Cardinality(below(t[k]))
    BY <1>10 DEF least
  <2>2. reaches(t[k], j)
    BY <1>1, <1>8, <1>14, <2>1
  <2> QED  BY <1>10, <2>1, <2>2 DEF least
<1>15. ASSUME NEW i \in 1..n PROVE t[1] <= s[i]
  <2>1. s[i] \in values /\ s[i] <= s[i]
    BY <1>1, <1>3
  <2>2. i \in below(s[i])
    BY <1>6, <2>1
  <2>3. Cardinality(below(s[i])) # 0
    BY <1>8, <2>2, FS_EmptySet
  <2>4. reaches(s[i], 1) /\ 1 \in 1..n
    BY <1>1, <1>8, <2>3
  <2> QED  BY <1>10, <2>1, <2>4 DEF least
<1>16. ASSUME NEW i \in 1..n PROVE s[i] <= t[n]
  <2>1. n \in 1..n
    BY <1>1
  <2>2. t[n] \in values /\ n <= Cardinality(below(t[n]))
    BY <1>10, <2>1 DEF least
  <2>3. Cardinality(below(t[n])) <= n
    <3>1. PICK b : b = below(t[n])
      OBVIOUS
    <3>2. b \in SUBSET (1..n)
      BY <1>5, <3>1
    <3>3. Cardinality(b) <= Cardinality(1..n)
      BY <1>7, <3>2, FS_Subset, Zenon
    <3> QED  BY <1>7, <3>1, <3>3
  <2>4. Cardinality(below(t[n])) = n
    BY <1>1, <1>8, <2>2, <2>3
  <2>5. below(t[n]) = 1..n
    BY <1>5, <1>7, <2>4, FS_Subset
  <2> QED  BY <1>6, <2>2, <2>5
<1>17. ASSUME NEW k \in 1..n, NEW x \in Nat, k <= Cardinality(below(x))
       PROVE  t[k] <= x
  <2> DEFINE g == [i \in 1..n |-> IF i \in below(x) THEN s[i] ELSE -1]
  <2>1. \A i \in 1..n : g[i] \in Int /\ g[i] = IF i \in below(x) THEN s[i] ELSE -1
    BY <1>1
  <2>2. n # 0
    BY <1>1
  <2>3. below(x) # {}
    BY <1>1, <1>8, <1>17, FS_EmptySet
  <2>4. PICK j \in 1..n : j \in below(x)
    BY <1>5, <2>3
  <2> HIDE DEF g
  <2>5. PICK m \in 1..n : \A i \in 1..n : g[i] <= g[m]
    BY <1>1, <2>1, <2>2, GreatestElement
  <2>6. m \in below(x)
    <3>1. g[j] >= 0 /\ g[j] <= g[m] /\ g[m] \in Int /\ g[j] \in Int
      BY <1>1, <2>1, <2>4, <2>5
    <3> QED  BY <2>1, <3>1
  <2>7. s[m] \in values /\ s[m] <= x /\ s[m] \in Nat
    BY <1>1, <1>3, <1>6, <2>6
  <2>8. below(x) \subseteq below(s[m])
    <3> SUFFICES ASSUME NEW i \in below(x) PROVE i \in below(s[m])
      OBVIOUS
    <3>1. i \in 1..n /\ g[i] <= g[m]
      BY <1>5, <2>5
    <3>2. g[i] = s[i] /\ g[m] = s[m]
      BY <2>1, <2>6, <3>1
    <3> QED  BY <1>6, <3>1, <3>2
  <2>9. reaches(s[m], k)
    <3>1. PICK b, c : b = below(s[m]) /\ c = below(x)
      OBVIOUS
    <3>2. IsFiniteSet(b) /\ c \in SUBSET b
      BY <1>8, <2>8, <3>1
    <3>3. Cardinality(c) <= Cardinality(b)
      BY <3>2, FS_Subset, Zenon
    <3> QED  BY <1>1, <1>8, <1>17, <3>1, <3>3
  <2>10. t[k] <= s[m] /\ t[k] \in Nat
    BY <1>10, <1>11, <2>7, <2>9 DEF least
  <2> QED  BY <2>7, <2>10
<1> QED  BY <1>12, <1>13, <1>14, <1>15, <1>16, <1>17 DEF n, t, below
----------------------------------------------------------------------------
(* The figures of the statistics, of sorted samples.                        *)

InOrderOf(t) ==
    /\ t \in Seq(Nat) /\ t # <<>>
    /\ \A j, k \in 1..Len(t) : j <= k => t[j] <= t[k]

\* What lies in a sorted list lies between its ends.
LEMMA OrderIs ==
    ASSUME NEW t, InOrderOf(t)
    PROVE  /\ Len(t) \in Nat \ {0}
           /\ \A k \in 1..Len(t) : t[k] \in Nat /\ t[1] <= t[k] /\ t[k] <= t[Len(t)]
           /\ t[1] \in Nat /\ t[Len(t)] \in Nat
<1> DEFINE n == Len(t)
<1>1. n \in Nat \ {0} /\ \A k \in 1..n : t[k] \in Nat
  BY DEF InOrderOf
<1>2. \A j, k \in 1..n : j <= k => t[j] <= t[k]
  BY DEF InOrderOf
<1> HIDE DEF n
<1>3. 1 \in 1..n /\ n \in 1..n
  BY <1>1
<1>4. \A k \in 1..n : 1 <= k /\ k <= n
  BY <1>1
<1> QED  BY <1>1, <1>2, <1>3, <1>4 DEF n

(* The median and the percentiles, by their places.                         *)
LEMMA PlacesAreInOrder ==
    ASSUME NEW t, InOrderOf(t)
    PROVE  /\ MedianOf(t) \in Nat
           /\ t[1] <= MedianOf(t) /\ MedianOf(t) <= Percentile(t, 95)
           /\ Percentile(t, 95) <= Percentile(t, 99)
           /\ Percentile(t, 99) <= t[Len(t)] /\ MedianOf(t) <= t[Len(t)]
           /\ Len(t) \div 2 + 1 \in 1..Len(t)
           /\ MedianOf(t) <= t[Len(t) \div 2 + 1]
<1> DEFINE n == Len(t)
           half == n \div 2
           place(p) == IF (n * p) \div 100 < n THEN (n * p) \div 100 + 1 ELSE n
<1>1. /\ n \in Nat \ {0}
      /\ \A k \in 1..n : t[k] \in Nat /\ t[1] <= t[k] /\ t[k] <= t[n]
      /\ \A j, k \in 1..n : j <= k => t[j] <= t[k]
  BY OrderIs DEF InOrderOf
<1>2. \A p : Percentile(t, p) = t[place(p)]
  BY DEF Percentile
<1>3. MedianOf(t) = IF n % 2 = 0 THEN (t[half] + t[half + 1]) \div 2 ELSE t[half + 1]
  BY DEF MedianOf
<1> HIDE DEF n
<1>4. half \in Nat /\ half + 1 \in Nat /\ (n % 2 = 0 => half \in 1..n)
      /\ (n % 2 = 0 => n = 2 * half) /\ (n % 2 # 0 => n = 2 * half + 1)
  BY <1>1
<1>5. half + 1 \in 1..n \/ half + 1 = n + 1
  BY <1>1, <1>4
<1>6. place(95) \in 1..n /\ place(99) \in 1..n
      /\ place(95) <= place(99) /\ half + 1 <= place(95)
  <2>1. /\ (n * 95) \div 100 \in Nat /\ (n * 99) \div 100 \in Nat
        /\ (n * 95) \div 100 <= (n * 99) \div 100 /\ half <= (n * 95) \div 100
    BY <1>1, <1>4
  <2>2. half + 1 <= n
    BY <1>1, <1>4
  <2> QED  BY <1>1, <1>4, <2>1, <2>2
<1>7. half + 1 \in 1..n
  BY <1>4, <1>6
<1> HIDE DEF half, place
<1>8. /\ MedianOf(t) \in Nat
      /\ t[1] <= MedianOf(t) /\ MedianOf(t) <= t[half + 1]
  <2>1. CASE n % 2 = 0
    <3>1. half \in 1..n /\ half <= half + 1
      BY <1>4, <2>1
    <3>2. t[half] \in Nat /\ t[half + 1] \in Nat /\ t[1] <= t[half] /\ t[1] \in Nat
          /\ t[half] <= t[half + 1]
      BY <1>1, <1>7, <3>1
    <3>3. \A a, b, c \in Nat : c <= a /\ a <= b =>
             (a + b) \div 2 \in Nat /\ c <= (a + b) \div 2 /\ (a + b) \div 2 <= b
      OBVIOUS
    <3> QED  BY <1>3, <2>1, <3>2, <3>3
  <2>2. CASE n % 2 # 0
    <3>1. MedianOf(t) = t[half + 1] /\ t[half + 1] \in Nat /\ t[1] <= t[half + 1]
      BY <1>1, <1>3, <1>7, <2>2
    <3> QED  BY <3>1
  <2> QED  BY <2>1, <2>2
<1>9. /\ t[half + 1] <= t[place(95)] /\ t[place(95)] <= t[place(99)]
      /\ t[place(99)] <= t[n]
      /\ t[half + 1] \in Nat /\ t[place(95)] \in Nat
  BY <1>1, <1>6, <1>7
<1>10. MedianOf(t) <= t[n]
  <2>1. t[half + 1] \in Nat /\ t[half + 1] <= t[n] /\ t[n] \in Nat
    BY <1>1, <1>7
  <2> QED  BY <1>8, <2>1
<1> QED  BY <1>2, <1>7, <1>8, <1>9, <1>10 DEF n, half

(* At least half of the samples reach the median.                           *)
LEMMA HalfReachTheMedian ==
    ASSUME NEW s \in Seq(Nat), s # <<>>, NEW x \in Nat, MedianOf(Sorted(s)) > x
    PROVE  2 * Cardinality({i \in 1..Len(s) : s[i] > x}) >= Len(s)
<1> DEFINE n == Len(s)
           t == Sorted(s)
           A == {i \in 1..n : s[i] <= x}
           B == {i \in 1..n : s[i] > x}
           half == n \div 2
<1>1. n \in Nat \ {0} /\ \A i \in 1..n : s[i] \in Nat
  OBVIOUS
<1>2. /\ t \in Seq(Nat) /\ Len(t) = n
      /\ \A j, k \in 1..n : j <= k => t[j] <= t[k]
      /\ \A k \in 1..n : k <= Cardinality(A) => t[k] <= x
  BY SortedIs
<1> HIDE DEF t
<1>3. InOrderOf(t)
  BY <1>1, <1>2 DEF InOrderOf
<1>4. /\ MedianOf(t) \in Nat /\ half + 1 \in 1..n
      /\ MedianOf(t) <= t[half + 1] /\ t[half + 1] \in Nat
  BY <1>2, <1>3, PlacesAreInOrder
<1>5. MedianOf(t) > x
  BY DEF t
<1>6. ~(half + 1 <= Cardinality(A))
  <2>1. half + 1 <= Cardinality(A) => t[half + 1] <= x
    BY <1>2, <1>4
  <2> HIDE DEF A, half
  <2> QED  BY <1>4, <1>5, <2>1
<1>7. B = (1..n) \ A /\ A = (1..n) \cap A
  BY <1>1
<1> HIDE DEF n, A, B, half
<1>8. IsFiniteSet(1..n) /\ Cardinality(1..n) = n
  BY <1>1, FS_Interval
<1>9. A \subseteq 1..n /\ IsFiniteSet(A) /\ Cardinality(A) \in Nat
  BY <1>7, <1>8, FS_Subset, FS_CardinalityType
<1>10. Cardinality(B) = n - Cardinality(A)
  <2>1. Cardinality((1..n) \ A) = Cardinality(1..n) - Cardinality((1..n) \cap A)
    BY <1>8, FS_Difference, Zenon
  <2>2. Cardinality((1..n) \ A) = Cardinality(B) /\ Cardinality((1..n) \cap A) = Cardinality(A)
    BY <1>7
  <2> QED  BY <1>8, <2>1, <2>2, Zenon
<1>11. 2 * half <= n /\ half \in Int
  BY <1>1 DEF half
<1>12. 2 * Cardinality(B) >= n
  BY <1>1, <1>6, <1>9, <1>10, <1>11
<1> QED  BY <1>12 DEF B, n

(* Products of numbers that are not negative.                               *)
LEMMA Products ==
    /\ \A a, b \in Nat : a * b \in Nat
    /\ \A a, b, c \in Nat : a <= b => a * c <= b * c
    /\ \A a, b \in Nat : a <= b => a * a <= b * b
    /\ \A a \in Int, b \in Nat : -b <= a /\ a <= b => a * a \in Nat /\ a * a <= b * b
<1>1. \A a, b \in Nat : a * b \in Nat
  OBVIOUS
<1>2. \A a, b, c \in Nat : a <= b => a * c <= b * c
  OBVIOUS
<1>3. ASSUME NEW a \in Nat, NEW b \in Nat, a <= b PROVE a * a <= b * b
  <2>1. a * a <= b * a /\ b * a = a * b /\ a * b <= b * b
    BY <1>2, <1>3
  <2>2. a * a \in Nat /\ a * b \in Nat /\ b * b \in Nat
    BY <1>1
  <2> QED  BY <2>1, <2>2
<1>4. ASSUME NEW a \in Int, NEW b \in Nat, -b <= a, a <= b
      PROVE  a * a \in Nat /\ a * a <= b * b
  <2>1. CASE 0 <= a
    BY <1>1, <1>3, <1>4, <2>1
  <2>2. CASE a < 0
    <3>1. -a \in Nat /\ -a <= b
      BY <1>4, <2>2
    <3>2. (-a) * (-a) = a * a
      OBVIOUS
    <3> QED  BY <1>1, <1>3, <3>1, <3>2
  <2> QED  BY <2>1, <2>2
<1> QED  BY <1>1, <1>2, <1>3, <1>4

(* The mean of samples, and their total.                                    *)
LEMMA MeanIsInRange ==
    ASSUME NEW t, InOrderOf(t)
    PROVE  /\ Total(t) \in Int
           /\ Mean(t) \in Int /\ t[1] <= Mean(t) /\ Mean(t) <= t[Len(t)]
<1> DEFINE lo == t[1]
           hi == t[Len(t)]
<1>1. /\ t \in Seq(Int) /\ t # <<>>
      /\ lo \in Int /\ hi \in Int
      /\ \A i \in 1..Len(t) : lo <= t[i] /\ t[i] <= hi
  BY OrderIs DEF InOrderOf
<1> HIDE DEF lo, hi
<1>2. Total(t) \in Int
  BY <1>1, TotalBounds
<1>3. Mean(t) \in Int /\ lo <= Mean(t) /\ Mean(t) <= hi
  BY <1>1, MeanBounds
<1> QED  BY <1>2, <1>3 DEF lo, hi

(* The standard deviation is there, and no more than the range.             *)
LEMMA DeviationIsInRange ==
    ASSUME NEW t, InOrderOf(t)
    PROVE  StdDev(t) \in Nat /\ StdDev(t) <= t[Len(t)] - t[1]
<1> DEFINE n == Len(t)
           range == t[n] - t[1]
           off == [i \in 1..n |-> (t[i] - Mean(t)) * (t[i] - Mean(t))]
           squares == Total(off)
           fits(d) == d * d * n <= squares
<1>1. /\ n \in Nat \ {0} /\ t \in Seq(Int)
      /\ \A k \in 1..n : t[k] \in Nat /\ t[1] <= t[k] /\ t[k] <= t[n]
      /\ t[1] \in Nat /\ t[n] \in Nat
  BY OrderIs DEF InOrderOf
<1>2. Mean(t) \in Int /\ t[1] <= Mean(t) /\ Mean(t) <= t[n]
  BY MeanIsInRange
<1>3. StdDev(t) = CHOOSE d \in 0..Total(t) : fits(d) /\ ~fits(d + 1)
  BY DEF StdDev
<1>4. range \in Nat
  BY <1>1, <1>2
<1>5. off \in Seq(Int) /\ Len(off) = n /\ \A i \in 1..n : 0 <= off[i] /\ off[i] <= range * range
  <2>1. ASSUME NEW i \in 1..n
        PROVE  off[i] \in Int /\ 0 <= off[i] /\ off[i] <= range * range
    <3>1. /\ t[i] - Mean(t) \in Int
          /\ -range <= t[i] - Mean(t) /\ t[i] - Mean(t) <= range
      BY <1>1, <1>2
    <3> QED  BY <1>4, <3>1, Products
  <2> HIDE DEF n, range
  <2> QED  BY <1>1, <2>1
<1> HIDE DEF range, off
<1>6. squares \in Int /\ 0 * n <= squares /\ squares <= range * range * n
  <2>1. range * range \in Int /\ 0 \in Int
    BY <1>4
  <2> QED  BY <1>5, <2>1, TotalBounds
<1>7. range <= Total(t)
  <2>1. \A i \in 1..Len(t) : 0 <= t[i]
    BY <1>1
  <2>2. PICK f \in [0..n -> Int] : Sums(f, t, n) /\ Total(t) = f[n]
    BY <1>1, TotalIs
  <2>3. f[n - 1] \in Int /\ 0 * (n - 1) <= f[n - 1]
    <3>1. \A i \in 1..n : t[i] \in Int /\ 0 <= t[i] /\ t[i] <= t[n]
      BY <1>1
    <3>2. n - 1 \in 0..n /\ n \in Nat /\ 0 \in Int /\ t[n] \in Int
      BY <1>1
    <3> HIDE DEF n
    <3> QED  BY <2>2, <3>1, <3>2, PartialBounds
  <2>4. f[n] = f[n - 1] + t[n]
    <3>1. n \in 1..n
      BY <1>1
    <3> HIDE DEF n
    <3> QED  BY <2>2, <3>1 DEF Sums
  <2>5. 0 * (n - 1) = 0
    BY <1>1
  <2> QED  BY <1>1, <2>2, <2>3, <2>4, <2>5 DEF range
<1> HIDE DEF squares, n
<1>8. \A d \in Nat : fits(d) => d <= range
  <2> SUFFICES ASSUME NEW d \in Nat, fits(d), range + 1 <= d PROVE FALSE
    BY <1>4
  <2>1. (range + 1) * (range + 1) <= d * d /\ d * d \in Nat
    BY <1>4, Products
  <2>2. (range + 1) * (range + 1) = range * range + 2 * range + 1 /\ range * range \in Nat
    BY <1>4
  <2>3. range * range + 1 <= d * d
    BY <1>4, <2>1, <2>2
  <2>4. (range * range + 1) * n <= d * d * n
    <3>1. \A a, b \in Nat : a <= b => a * n <= b * n
      BY <1>1, Products
    <3>2. range * range + 1 \in Nat
      BY <2>2
    <3> QED  BY <2>1, <2>3, <3>1, <3>2
  <2>5. (range * range + 1) * n = range * range * n + n
    BY <1>1, <2>2
  <2>6. range * range * n \in Int /\ d * d * n \in Int
    BY <1>1, <2>1, <2>2
  <2> QED  BY <1>1, <1>6, <2>4, <2>5, <2>6
<1>9. \E d \in 0..Total(t) : fits(d) /\ ~fits(d + 1)
  <2> DEFINE D == {d \in Nat : ~fits(d + 1)}
  <2>1. range \in D
    BY <1>4, <1>8
  <2>2. PICK d \in D : \A e \in D : d <= e
    <3>1. D \in SUBSET Nat /\ D # {}
      BY <2>1
    <3> HIDE DEF D
    <3> QED  BY <3>1, LeastNatural
  <2>3. fits(d)
    <3>1. CASE d = 0
      <4>1. 0 * n = 0 /\ 0 * 0 * n = 0
        BY <1>1
      <4> QED  BY <1>6, <3>1, <4>1
    <3>2. CASE d # 0
      <4>1. d - 1 \in Nat /\ d - 1 \notin D
        BY <2>2, <3>2
      <4>2. fits(d - 1 + 1) /\ d - 1 + 1 = d
        BY <4>1
      <4> QED  BY <4>2
    <3> QED  BY <3>1, <3>2
  <2>4. Total(t) \in Int
    BY MeanIsInRange
  <2>5. d \in Nat /\ d <= range
    BY <2>1, <2>2
  <2>6. d \in 0..Total(t)
    BY <1>4, <1>7, <2>4, <2>5
  <2> QED  BY <2>2, <2>3, <2>6
<1> HIDE DEF fits
<1>10. StdDev(t) \in 0..Total(t) /\ fits(StdDev(t))
  BY <1>3, <1>9
<1> QED  BY <1>8, <1>10 DEF range, n
----------------------------------------------------------------------------
(* Jitter.                                                                  *)

Steps(s) ==
    [i \in 1..Len(s) - 1 |->
        IF s[i] < s[i + 1] THEN s[i + 1] - s[i] ELSE s[i] - s[i + 1]]

\* The steps from each sample to the next, and jitter as their mean.
LEMMA StepsAre ==
    ASSUME NEW s \in Seq(Nat), s # <<>>
    PROVE  /\ Len(s) - 1 \in Nat
           /\ Steps(s) \in Seq(Int) /\ Len(Steps(s)) = Len(s) - 1
           /\ \A i \in 1..Len(s) - 1 :
                 Steps(s)[i] = IF s[i] < s[i + 1] THEN s[i + 1] - s[i] ELSE s[i] - s[i + 1]
           /\ Jitter(s) = IF Len(s) > 1 THEN Total(Steps(s)) \div (Len(s) - 1) ELSE 0
           /\ \E f \in [0..Len(s) - 1 -> Int] :
                 Sums(f, Steps(s), Len(s) - 1) /\ Total(Steps(s)) = f[Len(s) - 1]
<1> DEFINE n == Len(s)
<1>1. n \in Nat /\ n # 0 /\ \A i \in 1..n : s[i] \in Nat
  OBVIOUS
<1>2. Steps(s) = [i \in 1..n - 1 |->
          IF s[i] < s[i + 1] THEN s[i + 1] - s[i] ELSE s[i] - s[i + 1]]
  BY DEF Steps
<1>3. Jitter(s) = IF n > 1 THEN Mean(Steps(s)) ELSE 0
  BY DEF Jitter, Steps
<1> HIDE DEF n
<1>4. n - 1 \in Nat
  BY <1>1
<1>5. \A i \in 1..n - 1 :
         (IF s[i] < s[i + 1] THEN s[i + 1] - s[i] ELSE s[i] - s[i + 1]) \in Int
  BY <1>1
<1>6. Steps(s) \in Seq(Int) /\ Len(Steps(s)) = n - 1
  BY <1>2, <1>4, <1>5
<1>7. \E f \in [0..n - 1 -> Int] : Sums(f, Steps(s), n - 1) /\ Total(Steps(s)) = f[n - 1]
  <2> DEFINE d == Steps(s)
  <2> HIDE DEF d
  <2>1. d \in Seq(Int) /\ Len(d) = n - 1
    BY <1>6 DEF d
  <2>2. \E f \in [0..Len(d) -> Int] : Sums(f, d, Len(d)) /\ Total(d) = f[Len(d)]
    BY <2>1, TotalIs
  <2> QED  BY <2>1, <2>2 DEF d
<1> QED  BY <1>2, <1>3, <1>4, <1>6, <1>7 DEF Mean, n

(* The steps of sorted samples add up to their range.                       *)
LEMMA StepsTelescope ==
    ASSUME NEW t, InOrderOf(t)
    PROVE  Total(Steps(t)) = t[Len(t)] - t[1]
<1> DEFINE n == Len(t)
           d == Steps(t)
<1>1. /\ t \in Seq(Nat) /\ t # <<>>
      /\ n \in Nat \ {0} /\ \A k \in 1..n : t[k] \in Nat
      /\ \A j, k \in 1..n : j <= k => t[j] <= t[k]
  BY OrderIs DEF InOrderOf
<1>2. \A k \in 1..n - 1 :
         d[k] = IF t[k] < t[k + 1] THEN t[k + 1] - t[k] ELSE t[k] - t[k + 1]
  BY <1>1, StepsAre
<1>3. PICK f \in [0..n - 1 -> Int] : Sums(f, d, n - 1) /\ Total(d) = f[n - 1]
  BY <1>1, StepsAre
<1> HIDE DEF n, d
<1> DEFINE S == {k \in Nat : k \in 0..n - 1 => f[k] = t[k + 1] - t[1]}
<1>4. 0 \in S
  BY <1>1, <1>3 DEF Sums
<1>5. ASSUME NEW k \in Nat, k \in S PROVE k + 1 \in S
  <2> SUFFICES ASSUME k + 1 \in 0..n - 1 PROVE f[k + 1] = t[k + 1 + 1] - t[1]
    OBVIOUS
  <2>1. /\ k \in 0..n - 1 /\ k + 1 \in 1..n - 1 /\ k + 1 \in 1..n /\ k + 1 + 1 \in 1..n
        /\ k + 1 <= k + 1 + 1 /\ k + 1 - 1 = k
    BY <1>1
  <2>2. f[k] = t[k + 1] - t[1]
    BY <1>5, <2>1
  <2>3. f[k + 1] = f[k] + d[k + 1]
    BY <1>3, <2>1 DEF Sums
  <2>4. t[k + 1] <= t[k + 1 + 1] /\ t[k + 1] \in Nat /\ t[k + 1 + 1] \in Nat /\ t[1] \in Nat
    BY <1>1, <2>1
  <2>5. d[k + 1] = t[k + 1 + 1] - t[k + 1]
    BY <1>2, <2>1, <2>4
  <2> HIDE DEF S
  <2> QED  BY <2>2, <2>3, <2>4, <2>5
<1> HIDE DEF S
<1>6. Nat \subseteq S
  BY <1>4, <1>5, SetInduction
<1>7. n - 1 \in Nat /\ n - 1 \in 0..n - 1 /\ n - 1 + 1 = n
  BY <1>1
<1>8. f[n - 1] = t[n] - t[1]
  BY <1>6, <1>7 DEF S
<1> QED  BY <1>3, <1>8 DEF n, d

(* The jitter is the range shared out.                                      *)
LEMMA JitterIsInRange ==
    ASSUME NEW t, InOrderOf(t)
    PROVE  /\ Jitter(t) \in Nat /\ Jitter(t) <= t[Len(t)] - t[1]
           /\ Len(t) <= 1 => Jitter(t) = 0
<1> DEFINE n == Len(t)
           range == t[n] - t[1]
<1>1. /\ t \in Seq(Nat) /\ t # <<>>
      /\ n \in Nat \ {0} /\ range \in Nat
  BY OrderIs DEF InOrderOf
<1>2. Total(Steps(t)) = range
  BY StepsTelescope
<1>3. Jitter(t) = IF n > 1 THEN range \div (n - 1) ELSE 0
  BY <1>1, <1>2, StepsAre
<1> HIDE DEF n, range
<1>4. CASE n > 1
  <2> DEFINE m == n - 1
  <2>1. m \in Nat \ {0}
    BY <1>1, <1>4
  <2> HIDE DEF m
  <2>2. 0 * m <= range /\ range <= range * m
    BY <1>1, <2>1
  <2>3. range \div m \in Int /\ 0 <= range \div m /\ range \div m <= range
    <3>1. range \in Int /\ 0 \in Int
      BY <1>1
    <3> QED  BY <2>1, <2>2, <3>1, Quotient, QuotientBounds
  <2>4. Jitter(t) = range \div m
    BY <1>3, <1>4 DEF m
  <2> QED  BY <1>4, <2>3, <2>4 DEF n, range
<1>5. CASE ~(n > 1)
  BY <1>1, <1>3, <1>5 DEF n, range
<1> QED  BY <1>4, <1>5
----------------------------------------------------------------------------
(* LatencyStats.                                                            *)

Samples == Rtts \cup {Lost}

\* The samples that were answered.
LEMMA AnsweredIs ==
    ASSUME NEW s \in Seq(Samples)
    PROVE  Answered(s) \in Seq(Nat) /\ Len(Answered(s)) <= Len(s)
<1> DEFINE n == Len(s)
           K == {i \in 1..n : s[i] # Lost}
           got == Pick(s, K)
<1>1. n \in Nat /\ K \in SUBSET (1..n) /\ \A k \in 1..n : s[k] \in Samples
  OBVIOUS
<1>2. \A k \in K : s[k] \in Nat
  BY <1>1, MeasuresAssumption DEF Samples
<1>3. Answered(s) = got
  BY DEF Answered
<1> HIDE DEF K
<1>4. /\ got \in Seq(Samples)
      /\ \A r \in 1..Len(got) : \E k \in K : got[r] = s[k]
  BY <1>1, PickElements
<1>5. Len(got) = Cardinality(K)
  BY <1>1, PickKeeps
<1>6. Cardinality(K) <= n
  <2>1. IsFiniteSet(1..n) /\ Cardinality(1..n) = n
    <3>1. \A m \in Nat : IsFiniteSet(1..m) /\ Cardinality(1..m) = m
      BY FS_Interval
    <3> QED  BY <1>1, <3>1
  <2> HIDE DEF n
  <2> QED  BY <1>1, <2>1, FS_Subset
<1> HIDE DEF got, n
<1>7. \A r \in 1..Len(got) : got[r] \in Nat
  BY <1>2, <1>4
<1>8. got \in Seq(Nat)
  <2>1. Len(got) \in Nat /\ got = [r \in 1..Len(got) |-> got[r]]
    BY <1>4
  <2> QED  BY <1>7, <2>1
<1> QED  BY <1>3, <1>5, <1>6, <1>8 DEF n

(* What the statistics st of n samples say of the answered ones.            *)
InOrderStats(st, got, n) ==
    /\ st.samples = n /\ st.successes = Len(got)
    /\ st.min <= st.median /\ st.median <= st.p95
    /\ st.p95 <= st.p99 /\ st.p99 <= st.max
    /\ st.min <= st.mean /\ st.mean <= st.max
    /\ st.std_dev <= st.max - st.min
    /\ \A i \in 1..Len(got) : st.min <= got[i] /\ got[i] <= st.max
    /\ st.jitter <= st.max - st.min
    /\ Len(got) <= 1 => st.jitter = 0
    /\ st.min \in Nat /\ st.median \in Nat /\ st.mean \in Nat /\ st.jitter \in Nat
    /\ got = <<>> => st.median = 0
    /\ \A x \in Nat : st.median > x =>
          2 * Cardinality({i \in 1..Len(got) : got[i] > x}) >= Len(got)

\* The statistics of any samples are in order.
LEMMA StatsAre ==
    ASSUME NEW s \in Seq(Samples)
    PROVE  InOrderStats(Stats(s), Answered(s), Len(s))
<1> DEFINE got == Answered(s)
           t == Sorted(got)
           n == Len(got)
           st == Stats(s)
           of(x) == IF t = <<>> THEN 0 ELSE x
<1>1. got \in Seq(Nat)
  BY AnsweredIs
<1>2. st = [samples |-> Len(s), successes |-> Len(t),
            min |-> of(t[1]), max |-> of(t[Len(t)]), mean |-> of(Mean(t)),
            median |-> of(MedianOf(t)), std_dev |-> of(StdDev(t)),
            jitter |-> of(Jitter(t)), p95 |-> of(Percentile(t, 95)),
            p99 |-> of(Percentile(t, 99))]
  BY DEF Stats
<1> HIDE DEF got, st
<1>3. /\ t \in Seq(Nat) /\ Len(t) = n
      /\ \A k \in 1..n : \E i \in 1..n : t[k] = got[i]
      /\ \A j, k \in 1..n : j <= k => t[j] <= t[k]
      /\ \A i \in 1..n : t[1] <= got[i] /\ got[i] <= t[n]
  BY <1>1, SortedIs
<1> HIDE DEF t
<1>4. t = <<>> <=> got = <<>>
  BY <1>1, <1>3
<1>5. CASE got = <<>>
  <2>1. /\ st.samples = Len(s) /\ st.successes = 0 /\ n = 0
        /\ st.min = 0 /\ st.median = 0 /\ st.p95 = 0 /\ st.p99 = 0 /\ st.max = 0
        /\ st.mean = 0 /\ st.std_dev = 0 /\ st.jitter = 0
    BY <1>2, <1>3, <1>4, <1>5
  <2> QED  BY <1>5, <2>1 DEF InOrderStats, got, st
<1>6. CASE got # <<>>
  <2>1. /\ st.samples = Len(s) /\ st.successes = n
        /\ st.min = t[1] /\ st.max = t[n] /\ st.mean = Mean(t)
        /\ st.median = MedianOf(t) /\ st.p95 = Percentile(t, 95)
        /\ st.p99 = Percentile(t, 99)
        /\ st.std_dev = StdDev(t) /\ st.jitter = Jitter(t)
    BY <1>2, <1>3, <1>4, <1>6
  <2>2. InOrderOf(t) /\ n \in Nat \ {0}
    BY <1>1, <1>3, <1>4, <1>6 DEF InOrderOf
  <2>3. /\ MedianOf(t) \in Nat
        /\ t[1] <= MedianOf(t) /\ MedianOf(t) <= Percentile(t, 95)
        /\ Percentile(t, 95) <= Percentile(t, 99) /\ Percentile(t, 99) <= t[n]
    BY <1>3, <2>2, PlacesAreInOrder
  <2>4. Mean(t) \in Int /\ t[1] <= Mean(t) /\ Mean(t) <= t[n]
    BY <1>3, <2>2, MeanIsInRange
  <2>5. StdDev(t) <= t[n] - t[1]
    BY <1>3, <2>2, DeviationIsInRange
  <2>6. t[1] \in Nat
    BY <2>2, OrderIs
  <2>7. Jitter(t) \in Nat /\ Jitter(t) <= t[n] - t[1] /\ (n <= 1 => Jitter(t) = 0)
    BY <1>3, <2>2, JitterIsInRange
  <2>8. ASSUME NEW x \in Nat, st.median > x
        PROVE  2 * Cardinality({i \in 1..n : got[i] > x}) >= n
    <3>1. MedianOf(Sorted(got)) > x
      BY <2>1, <2>8 DEF t
    <3> QED  BY <1>1, <1>6, <3>1, HalfReachTheMedian
  <2>9. Mean(t) \in Nat
    BY <2>4, <2>6
  <2>10. \A k \in 1..n : st.min <= got[k] /\ got[k] <= st.max
    BY <1>3, <2>1
  <2> QED
    BY <1>6, <2>1, <2>3, <2>4, <2>5, <2>6, <2>7, <2>8, <2>9, <2>10
    DEF InOrderStats, got, st
<1> QED  BY <1>5, <1>6
----------------------------------------------------------------------------
(* The counters o of analyze_reordering, of the samples s of n pings: what  *)
(* is expected next follows the last answer, so all from it on were lost.   *)

Run(s, i, m) == \A k \in i - m..i - 1 : s[k] = Lost
Back(s) == {i \in 2..Len(s) : s[i] # Lost /\ Run(s, i, 1)}

Counters ==
    [expected_next : Nat, out_of_order : Nat, max_extent : Nat, duplicates : Nat,
     received : SUBSET Nat]

Counted(o, s) ==
    /\ o.duplicates = 0
    /\ o.out_of_order = Cardinality(Back(s))
    /\ o.expected_next \in 0..Len(s)
    /\ o.received \subseteq 0..Len(s) - 1
    /\ o.expected_next > 0 => s[o.expected_next] # Lost
    /\ \A k \in o.expected_next + 1..Len(s) : s[k] = Lost
    /\ o.max_extent > 0 =>
          \E i \in Back(s) : i > o.max_extent /\ Run(s, i, o.max_extent)
    /\ \A i \in Back(s) : \A m \in 1..i - 1 : Run(s, i, m) => m <= o.max_extent

(* A run of lost pings is the same after one more ping.                     *)
LEMMA RunsStay ==
    ASSUME NEW s, NEW q, NEW n \in Nat, \A k \in 1..n : q[k] = s[k],
           NEW i \in 2..n + 1, NEW m \in 1..i - 1
    PROVE  Run(q, i, m) <=> Run(s, i, m)
<1>1. \A k \in i - m..i - 1 : k \in 1..n
  OBVIOUS
<1> QED  BY <1>1 DEF Run

\* A run of one is one lost ping.
LEMMA RunOfOne ==
    ASSUME NEW s, NEW i \in Nat
    PROVE  Run(s, i, 1) <=> s[i - 1] = Lost
<1>1. i - 1..i - 1 = {i - 1}
  OBVIOUS
<1>2. Run(s, i, 1) <=> \A k \in i - 1..i - 1 : s[k] = Lost
  BY DEF Run
<1> QED  BY <1>1, <1>2, Zenon

(* q is s and one ping more; and what comes back after it.                  *)
OneMore(s, q, n) ==
    n \in Nat /\ Len(s) = n /\ Len(q) = n + 1 /\ \A k \in 1..n : q[k] = s[k]

Grown(s, q, n) ==
    /\ Back(s) \subseteq 2..n
    /\ Back(s) \subseteq Back(q)
    /\ Back(q) \subseteq Back(s) \cup {n + 1}
    /\ n + 1 \in Back(q) <=> n >= 1 /\ q[n + 1] # Lost /\ s[n] = Lost

\* One more ping comes back exactly if it is answered and the one before was
\* not.
LEMMA BackGrows ==
    ASSUME NEW s, NEW q, NEW n, OneMore(s, q, n)
    PROVE  Grown(s, q, n)
<1>1. /\ n \in Nat /\ Len(s) = n /\ Len(q) = n + 1
      /\ \A k \in 1..n : q[k] = s[k]
  BY DEF OneMore
<1>2. Back(s) = {i \in 2..n : s[i] # Lost /\ Run(s, i, 1)}
  BY <1>1 DEF Back
<1>3. Back(q) = {i \in 2..n + 1 : q[i] # Lost /\ Run(q, i, 1)}
  BY <1>1 DEF Back
<1>4. \A i \in 2..n + 1 : Run(q, i, 1) <=> Run(s, i, 1)
  <2> TAKE i \in 2..n + 1
  <2>1. 1 \in 1..i - 1
    BY <1>1
  <2> QED  BY <1>1, <2>1, RunsStay
<1>5. ASSUME NEW i \in Back(s) PROVE i \in Back(q)
  <2>1. i \in 2..n /\ i \in 2..n + 1 /\ i \in 1..n
    BY <1>1, <1>2
  <2> QED  BY <1>1, <1>2, <1>3, <1>4, <2>1
<1>6. ASSUME NEW i \in Back(q), i # n + 1 PROVE i \in Back(s)
  <2>1. i \in 2..n /\ i \in 2..n + 1 /\ i \in 1..n
    BY <1>1, <1>3, <1>6
  <2> QED  BY <1>1, <1>2, <1>3, <1>4, <2>1
<1>7. n + 1 \in Back(q) <=> n >= 1 /\ q[n + 1] # Lost /\ s[n] = Lost
  <2>1. CASE n = 0
    BY <1>1, <1>3, <2>1
  <2>2. CASE n # 0
    <3>1. n + 1 \in 2..n + 1 /\ n \in 1..n /\ n >= 1
      BY <1>1, <2>2
    <3>2. n + 1 \in Nat /\ n + 1 - 1 = n
      BY <1>1
    <3>3. Run(s, n + 1, 1) <=> s[n + 1 - 1] = Lost
      BY <1>1, <3>2, RunOfOne
    <3>4. Run(s, n + 1, 1) <=> s[n] = Lost
      BY <3>2, <3>3, Zenon
    <3> QED  BY <1>1, <1>3, <1>4, <3>1, <3>4
  <2> QED  BY <2>1, <2>2
<1>8. Back(s) \subseteq 2..n
  BY <1>2
<1> QED  BY <1>1, <1>5, <1>6, <1>7, <1>8 DEF Grown

(* A ping that is lost changes no counter.                                  *)
LEMMA LostPing ==
    ASSUME NEW s \in Seq(Samples), NEW o \in Counters, Counted(o, s),
           NEW q, q = Append(s, Lost)
    PROVE  Counted(o, q)
<1>0. PICK n : n = Len(s)
  OBVIOUS
<1> DEFINE e == o.expected_next
           x == o.max_extent
           B == Back(s)
<1>1. /\ n \in Nat /\ Len(q) = n + 1 /\ q[n + 1] = Lost
      /\ \A k \in 1..n : q[k] = s[k]
      /\ B \subseteq 2..n /\ Back(q) = B
  <2>1. Lost \in Samples
    BY DEF Samples
  <2>2. /\ n \in Nat /\ Len(q) = n + 1 /\ q[n + 1] = Lost
        /\ \A k \in 1..n : q[k] = s[k]
    BY <1>0, <2>1
  <2>3. /\ Back(s) \subseteq 2..n /\ Back(s) \subseteq Back(q)
        /\ Back(q) \subseteq Back(s) \cup {n + 1}
        /\ n + 1 \in Back(q) <=> n >= 1 /\ q[n + 1] # Lost /\ s[n] = Lost
    <3>1. OneMore(s, q, n)
      BY <1>0, <2>2 DEF OneMore
    <3>2. Grown(s, q, n)
      BY <3>1, BackGrows
    <3> QED  BY <3>2 DEF Grown
  <2>4. n + 1 \notin Back(q)
    BY <2>2, <2>3, Zenon
  <2>5. Back(q) = Back(s)
    BY <2>3, <2>4, Zenon
  <2> QED  BY <2>2, <2>3, <2>5, Zenon
<1>2. /\ o.duplicates = 0 /\ o.out_of_order = Cardinality(B)
      /\ e \in 0..n /\ (e > 0 => s[e] # Lost)
      /\ \A k \in e + 1..n : s[k] = Lost
      /\ o.received \subseteq 0..n - 1
      /\ x > 0 => \E i \in B : i > x /\ Run(s, i, x)
      /\ \A i \in B : \A m \in 1..i - 1 : Run(s, i, m) => m <= x
  BY <1>0 DEF Counted
<1>3. x \in Nat
  BY DEF Counters
<1> HIDE DEF e, x, B
<1>4. /\ e \in 0..n + 1 /\ (e > 0 => q[e] # Lost)
      /\ \A k \in e + 1..n + 1 : q[k] = Lost
  BY <1>1, <1>2
<1>5. o.received \subseteq 0..n + 1 - 1
  BY <1>1, <1>2
<1>6. ASSUME NEW i \in B, NEW m \in 1..i - 1 PROVE Run(q, i, m) <=> Run(s, i, m)
  <2>1. i \in 2..n + 1
    BY <1>1
  <2> QED  BY <1>1, <2>1, RunsStay
<1>7. x > 0 => \E i \in B : i > x /\ Run(q, i, x)
  <2> SUFFICES ASSUME x > 0 PROVE \E i \in B : i > x /\ Run(q, i, x)
    OBVIOUS
  <2>1. PICK i \in B : i > x /\ Run(s, i, x)
    BY <1>2
  <2>2. x \in 1..i - 1
    BY <1>1, <1>3, <2>1
  <2> QED  BY <1>6, <2>1, <2>2
<1>8. \A i \in B : \A m \in 1..i - 1 : Run(q, i, m) => m <= x
  BY <1>2, <1>6
<1> QED
  <2>1. /\ o.duplicates = 0 /\ o.out_of_order = Cardinality(Back(q))
        /\ e \in 0..Len(q) /\ (e > 0 => q[e] # Lost)
        /\ o.received \subseteq 0..Len(q) - 1
        /\ \A k \in e + 1..Len(q) : q[k] = Lost
    BY <1>1, <1>2, <1>4, <1>5
  <2>2. /\ x > 0 => \E i \in Back(q) : i > x /\ Run(q, i, x)
        /\ \A i \in Back(q) : \A m \in 1..i - 1 : Run(q, i, m) => m <= x
    BY <1>1, <1>7, <1>8
  <2> QED  BY <2>1, <2>2 DEF Counted, e, x

(* An answered one counts as out of order just if the one before was lost,  *)
(* by as much as the run of lost ones is long.                              *)
LEMMA AnsweredPing ==
    ASSUME NEW s \in Seq(Samples), NEW o \in Counters, Counted(o, s),
           NEW r \in Rtts, NEW q, q = Append(s, r), NEW p, p = Arrives(o, Len(s))
    PROVE  p \in Counters /\ Counted(p, q)
<1>0. PICK n : n = Len(s)
  OBVIOUS
<1> DEFINE e == o.expected_next
           x == o.max_extent
           B == Back(s)
<1>1. /\ n \in Nat /\ Len(q) = n + 1 /\ q[n + 1] # Lost
      /\ \A k \in 1..n : q[k] = s[k]
      /\ B \subseteq 2..n
      /\ B \subseteq Back(q) /\ Back(q) \subseteq B \cup {n + 1}
      /\ n + 1 \in Back(q) <=> n >= 1 /\ s[n] = Lost
  <2>1. r \in Samples /\ r # Lost
    BY MeasuresAssumption DEF Samples
  <2>2. /\ n \in Nat /\ Len(q) = n + 1 /\ q[n + 1] = r
        /\ \A k \in 1..n : q[k] = s[k]
    BY <1>0, <2>1
  <2>3. /\ Back(s) \subseteq 2..n /\ Back(s) \subseteq Back(q)
        /\ Back(q) \subseteq Back(s) \cup {n + 1}
        /\ n + 1 \in Back(q) <=> n >= 1 /\ q[n + 1] # Lost /\ s[n] = Lost
    <3>1. OneMore(s, q, n)
      BY <1>0, <2>2 DEF OneMore
    <3>2. Grown(s, q, n)
      BY <3>1, BackGrows
    <3> QED  BY <3>2 DEF Grown
  <2> QED  BY <2>1, <2>2, <2>3, Zenon
<1>2. /\ o.duplicates = 0 /\ o.out_of_order = Cardinality(B)
      /\ e \in 0..n /\ (e > 0 => s[e] # Lost)
      /\ \A k \in e + 1..n : s[k] = Lost
      /\ o.received \subseteq 0..n - 1
      /\ x > 0 => \E i \in B : i > x /\ Run(s, i, x)
      /\ \A i \in B : \A m \in 1..i - 1 : Run(s, i, m) => m <= x
  BY <1>0 DEF Counted
<1>3. /\ x \in Nat /\ o.received \subseteq Nat /\ o.out_of_order \in Nat
      /\ o.duplicates \in Nat
  BY DEF Counters
<1>4. p = [o EXCEPT
          !.received = @ \cup {n},
          !.out_of_order = IF n - e # 0 THEN @ + 1 ELSE @,
          !.max_extent = IF n - e > @ THEN n - e ELSE @,
          !.expected_next = n + 1]
  <2> HIDE DEF e
  <2>1. n \notin o.received /\ ~(n < e)
    BY <1>1, <1>2
  <2>2. p = Arrives(o, n)
    BY <1>0
  <2> QED  BY <2>1, <2>2 DEF Arrives, e
<1>5. /\ p.received = o.received \cup {n}
      /\ p.out_of_order = IF n - e # 0 THEN o.out_of_order + 1 ELSE o.out_of_order
      /\ p.max_extent = IF n - e > x THEN n - e ELSE x
      /\ p.expected_next = n + 1
      /\ p.duplicates = o.duplicates
      /\ p = [expected_next |-> p.expected_next, out_of_order |-> p.out_of_order,
              max_extent |-> p.max_extent, duplicates |-> p.duplicates,
              received |-> p.received]
  <2> QED  BY <1>4 DEF Counters
<1> HIDE DEF e, x, B
<1>6. p \in Counters
  <2>1. n \in Nat /\ e \in Nat /\ n - e \in Nat
    BY <1>1, <1>2
  <2>2. p.received \subseteq Nat
    BY <1>3, <1>5, <2>1
  <2>3. p.out_of_order \in Nat /\ p.max_extent \in Nat
    BY <1>3, <1>5, <2>1
  <2>4. p.expected_next \in Nat /\ p.duplicates \in Nat
    BY <1>3, <1>5, <2>1
  <2> QED  BY <1>5, <2>2, <2>3, <2>4 DEF Counters
<1>7. ASSUME NEW i \in 2..n + 1, NEW m \in 1..i - 1
      PROVE  Run(q, i, m) <=> Run(s, i, m)
  BY <1>1, RunsStay
<1>8. n - e # 0 <=> n >= 1 /\ s[n] = Lost
  <2>1. CASE n = e
    BY <1>1, <1>2, <2>1
  <2>2. CASE n # e
    <3>1. n \in e + 1..n /\ n >= 1 /\ n - e # 0
      BY <1>1, <1>2, <2>2
    <3> QED  BY <1>2, <3>1
  <2> QED  BY <2>1, <2>2
<1>9. Back(q) = IF n - e # 0 THEN B \cup {n + 1} ELSE B
  <2>1. n + 1 \in Back(q) <=> n - e # 0
    BY <1>1, <1>8
  <2>2. CASE n - e # 0
    BY <1>1, <2>1, <2>2
  <2>3. CASE ~(n - e # 0)
    <3>1. n + 1 \notin Back(q)
      BY <2>1, <2>3
    <3>2. Back(q) = B
      BY <1>1, <3>1, Zenon
    <3> QED  BY <2>3, <3>2
  <2> QED  BY <2>2, <2>3
<1>10. p.out_of_order = Cardinality(Back(q))
  <2>1. IsFiniteSet(B)
    <3>1. IsFiniteSet(2..n)
      BY <1>1, FS_Interval
    <3> QED  BY <1>1, <3>1, FS_Subset
  <2>2. n + 1 \notin B
    BY <1>1
  <2>3. Cardinality(B \cup {n + 1}) = Cardinality(B) + 1
    BY <2>1, <2>2, FS_AddElement
  <2> QED  BY <1>2, <1>5, <1>9, <2>3
<1>11. n - e > 0 => Run(q, n + 1, n - e)
  <2> SUFFICES ASSUME n - e > 0 PROVE Run(q, n + 1, n - e)
    OBVIOUS
  <2>1. \A k \in n + 1 - (n - e)..n + 1 - 1 : k \in e + 1..n /\ k \in 1..n
    BY <1>1, <1>2
  <2> QED  BY <1>1, <1>2, <2>1 DEF Run
<1>12. ASSUME NEW m \in 1..n, Run(q, n + 1, m) PROVE m <= n - e
  <2> SUFFICES ASSUME m > n - e PROVE FALSE
    BY <1>1, <1>2
  <2>1. n \in Nat /\ e \in Nat /\ m \in 1..n
    BY <1>1, <1>2
  <2>2. e <= n /\ m > n - e
    BY <1>2
  <2>3. e > 0 /\ e \in 1..n /\ e \in (n + 1) - m..(n + 1) - 1
    <3> HIDE DEF e, x, B
    <3>1. \A a, b, d \in Int : d <= a /\ b <= a /\ d > a - b => b > 0 /\ (a + 1) - d <= b
      OBVIOUS
    <3>2. e > 0 /\ (n + 1) - m <= e
      BY <2>1, <2>2, <3>1
    <3> QED  BY <2>1, <2>2, <3>2
  <2>4. \A k \in (n + 1) - m..(n + 1) - 1 : q[k] = Lost
    BY <1>12 DEF Run
  <2>5. q[e] = Lost
    BY <2>3, <2>4
  <2>6. q[e] = s[e] /\ s[e] # Lost
    BY <1>1, <1>2, <2>3
  <2> QED  BY <2>5, <2>6
<1>13. p.max_extent \in Nat /\ x <= p.max_extent /\ n - e <= p.max_extent
  BY <1>1, <1>2, <1>3, <1>5
<1>14. p.max_extent > 0 =>
         \E i \in Back(q) : i > p.max_extent /\ Run(q, i, p.max_extent)
  <2> SUFFICES ASSUME p.max_extent > 0
               PROVE  \E i \in Back(q) : i > p.max_extent /\ Run(q, i, p.max_extent)
    OBVIOUS
  <2>1. CASE n - e > x
    <3>1. n - e > 0 /\ p.max_extent = n - e /\ n + 1 > n - e
      BY <1>1, <1>2, <1>3, <1>5, <2>1
    <3>2. n + 1 \in Back(q)
      BY <1>1, <1>2, <1>9, <3>1
    <3> QED  BY <1>11, <3>1, <3>2
  <2>2. CASE ~(n - e > x)
    <3>1. p.max_extent = x
      BY <1>5, <2>2
    <3>2. PICK i \in B : i > x /\ Run(s, i, x)
      BY <1>2, <3>1
    <3>3. i \in Back(q) /\ i \in 2..n + 1 /\ x \in 1..i - 1
      BY <1>1, <1>3, <3>1, <3>2
    <3>4. Run(q, i, x)
      BY <1>7, <3>2, <3>3
    <3> QED  BY <3>1, <3>2, <3>3, <3>4
  <2> QED  BY <2>1, <2>2
<1>15. ASSUME NEW i \in Back(q), NEW m \in 1..i - 1, Run(q, i, m)
       PROVE  m <= p.max_extent
  <2>1. CASE i \in B
    <3>1. i \in 2..n + 1
      BY <1>1, <2>1
    <3>2. m <= x
      BY <1>2, <1>7, <1>15, <2>1, <3>1
    <3> QED  BY <1>3, <1>13, <3>1, <3>2
  <2>2. CASE i = n + 1
    <3>1. m \in 1..n
      BY <1>1, <2>2
    <3>2. m <= n - e
      BY <1>12, <1>15, <2>2, <3>1
    <3> QED  BY <1>1, <1>2, <1>13, <3>1, <3>2
  <2> QED  BY <1>1, <2>1, <2>2
<1>16. p.received \subseteq 0..n + 1 - 1
  BY <1>1, <1>2, <1>5
<1>17. /\ p.expected_next \in 0..n + 1 /\ p.duplicates = 0
       /\ p.expected_next > 0 => q[p.expected_next] # Lost
       /\ \A k \in p.expected_next + 1..n + 1 : q[k] = Lost
  BY <1>1, <1>2, <1>5
<1> QED
  BY <1>1, <1>6, <1>10, <1>14, <1>15, <1>16, <1>17 DEF Counted
----------------------------------------------------------------------------
(* The invariant.                                                           *)

Phases == {"start", "idle", "reload", "settle", "loaded", "done", "failed"}

MeterInv ==
    /\ measure \in Measures /\ phase \in Phases
    /\ samples \in Seq(Samples)
    /\ \E b \in Seq(Samples) : baseline = Stats(b)
    /\ phase \in {"reload", "settle", "loaded"} => measure.kind = "bloat"
    /\ phase = "done" =>
          report = IF measure.kind = "bloat" THEN Bloat(baseline, Stats(samples))
                   ELSE Stats(samples)
    /\ measure.kind = "reorder" => order \in Counters /\ Counted(order, samples)

\* The invariant holds before the first ping.
LEMMA MeterStart == MeterInit => MeterInv
<1> SUFFICES ASSUME MeterInit PROVE MeterInv
  OBVIOUS
<1>1. samples = <<>> /\ <<>> \in Seq(Samples) /\ Len(<<>>) = 0
  BY DEF MeterInit
<1>2. order = [expected_next |-> 0, out_of_order |-> 0, max_extent |-> 0,
               duplicates |-> 0, received |-> {}]
  BY DEF MeterInit
<1>3. order \in Counters
  BY <1>2 DEF Counters
<1>4. Counted(order, <<>>)
  <2>1. Back(<<>>) = {}
    BY DEF Back
  <2>2. Cardinality(Back(<<>>)) = 0
    BY <2>1, FS_EmptySet
  <2> QED  BY <1>1, <1>2, <2>1, <2>2 DEF Counted
<1> QED  BY <1>1, <1>3, <1>4 DEF MeterInit, MeterInv, Phases

\* Every step keeps the invariant.
LEMMA MeterStep == MeterInv /\ [MeterNext]_meterVars => MeterInv'
<1> SUFFICES ASSUME MeterInv, [MeterNext]_meterVars PROVE MeterInv'
  OBVIOUS
<1>1. /\ measure \in Measures /\ phase \in Phases
      /\ samples \in Seq(Samples)
      /\ \E b \in Seq(Samples) : baseline = Stats(b)
      /\ phase \in {"reload", "settle", "loaded"} => measure.kind = "bloat"
      /\ phase = "done" =>
            report = IF measure.kind = "bloat" THEN Bloat(baseline, Stats(samples))
                     ELSE Stats(samples)
      /\ measure.kind = "reorder" => order \in Counters /\ Counted(order, samples)
  BY DEF MeterInv
(* A step that leaves what is measured alone.                               *)
<1>2. ASSUME UNCHANGED <<measure, samples, baseline, order, report>>,
             phase' \in Phases,
             phase' = "done" => phase = "done",
             phase' \in {"reload", "settle", "loaded"} =>
                phase \in {"reload", "settle", "loaded"}
      PROVE  MeterInv'
  BY <1>1, <1>2 DEF MeterInv
<1>3. CASE Begins
  BY <1>2, <1>3 DEF Begins, Phases
<1>4. CASE ResolveFails
  BY <1>2, <1>4 DEF ResolveFails, Phases
<1>5. CASE Ping
  <2>1. PICK r \in Rtts \cup {Lost} :
           /\ samples' = Append(samples, r)
           /\ order' = IF r # Lost /\ measure.kind = "reorder"
                       THEN Arrives(order, Len(samples)) ELSE order
    BY <1>5 DEF Ping
  <2>2. UNCHANGED <<measure, phase, baseline, report>> /\ phase # "done"
    BY <1>5 DEF Ping
  <2>3. samples' \in Seq(Samples)
    BY <1>1, <2>1 DEF Samples
  <2>4. measure.kind = "reorder" => order' \in Counters /\ Counted(order', samples')
    <3> SUFFICES ASSUME measure.kind = "reorder"
                 PROVE  order' \in Counters /\ Counted(order', samples')
      OBVIOUS
    <3>1. CASE r = Lost
      BY <1>1, <2>1, <3>1, LostPing
    <3>2. CASE r # Lost
      <4>1. r \in Rtts /\ order' = Arrives(order, Len(samples))
        BY <2>1, <3>2
      <4> QED  BY <1>1, <2>1, <4>1, AnsweredPing
    <3> QED  BY <3>1, <3>2
  <2> QED  BY <1>1, <2>2, <2>3, <2>4 DEF MeterInv
<1>6. CASE Returns
  <2>1. UNCHANGED <<measure, order>>
    BY <1>6 DEF Returns
  <2>2. CASE measure.kind = "bloat"
    <3>1. baseline' = Stats(samples) /\ samples' = <<>> /\ phase' = "reload"
      BY <1>6, <2>2 DEF Returns
    <3>2. <<>> \in Seq(Samples)
      OBVIOUS
    <3> QED  BY <1>1, <2>1, <2>2, <3>1, <3>2 DEF MeterInv, Phases
  <2>3. CASE measure.kind # "bloat"
    BY <1>1, <1>6, <2>1, <2>3 DEF Returns, MeterInv, Phases
  <2> QED  BY <2>2, <2>3
<1>7. CASE Loads
  BY <1>2, <1>7 DEF Loads, Phases
<1>8. CASE Settled
  BY <1>2, <1>8 DEF Settled, Phases
<1>9. CASE Compares
  BY <1>1, <1>9 DEF Compares, MeterInv, Phases
<1>10. ASSUME NEW i \in LoadTasks, Accepts(i) \/ Connected(i) \/ Wakes(i)
       PROVE  MeterInv'
  BY <1>1, <1>2, <1>10 DEF Accepts, Connected, Wakes
<1>11. CASE UNCHANGED meterVars
  BY <1>1, <1>2, <1>11 DEF meterVars
<1> QED
  BY <1>3, <1>4, <1>5, <1>6, <1>7, <1>8, <1>9, <1>10, <1>11 DEF MeterNext

\* The invariant holds in every reachable state.
THEOREM MeterInvariance == MeterSpec => []MeterInv
<1> QED  BY MeterStart, MeterStep, PTL DEF MeterSpec

\* For any number of pings and any round-trip times: least, median, percentiles
\* and greatest are in order, the mean and every sample between them, the
\* deviation and the jitter within the range, and packet loss takes a lost ping
\* (analytics.rs:52).
THEOREM StatisticsAreInOrder == MeterSpec => []StatsOrdered
<1>1. ASSUME MeterInv PROVE StatsOrdered
  <2> DEFINE got == Answered(samples)
             st == report
             n == Len(samples)
  <2> SUFFICES ASSUME phase = "done", measure.kind # "bloat"
               PROVE  /\ st.min <= st.median /\ st.median <= st.p95
                      /\ st.p95 <= st.p99 /\ st.p99 <= st.max
                      /\ st.min <= st.mean /\ st.mean <= st.max
                      /\ st.std_dev <= st.max - st.min
                      /\ \A i \in 1..Len(got) : st.min <= got[i] /\ got[i] <= st.max
                      /\ st.jitter <= st.max - st.min
                      /\ HasHighJitter(st) => Len(got) > 1
                      /\ HasPacketLoss(st) => got = <<>> \/ Len(got) < Len(samples)
                      /\ got = <<>> \/ (Len(got) < Len(samples) /\ Len(samples) <= 100)
                            => HasPacketLoss(st)
    BY DEF StatsOrdered
  <2>1. samples \in Seq(Samples) /\ st = Stats(samples)
    BY <1>1 DEF MeterInv
  <2>2. InOrderStats(st, got, n)
    BY <2>1, StatsAre
  <2>3. n \in Nat /\ got \in Seq(Nat) /\ Len(got) \in Nat /\ Len(got) <= n
    BY <2>1, AnsweredIs
  <2> HIDE DEF got, st, n
  <2>4. HasHighJitter(st) => Len(got) > 1
    <3> SUFFICES ASSUME ~(Len(got) > 1) PROVE ~HasHighJitter(st)
      OBVIOUS
    <3>1. Len(got) <= 1
      BY <2>3
    <3>2. st.jitter = 0 /\ st.mean \in Nat
      BY <2>2, <3>1 DEF InOrderStats
    <3> QED  BY <3>2 DEF HasHighJitter
  <2>5. got = <<>> <=> Len(got) = 0
    BY <2>3
  <2> DEFINE m == Len(got)
  <2>6. /\ n \in Nat /\ m \in Nat /\ m <= n
        /\ HasPacketLoss(st) <=> 100 * (n - m) >= n
    BY <2>2, <2>3 DEF HasPacketLoss, InOrderStats
  <2> HIDE DEF m
  <2>7. /\ HasPacketLoss(st) => m = 0 \/ m < n
        /\ m = 0 \/ (m < n /\ n <= 100) => HasPacketLoss(st)
    BY <2>6
  <2> QED  BY <2>2, <2>4, <2>5, <2>7 DEF InOrderStats, n, m
<1> QED  BY <1>1, MeterInvariance, PTL

\* Bufferbloat is found only if at least half of the answers under load, of
\* which there are some, are more than 30 ms above the median without load (0 if
\* nothing was answered then), and grade and detection agree but at 30 ms
\* (analytics.rs:519).
THEOREM BloatIsOfAnswers == MeterSpec => []BloatNeedsAnswers
<1>1. ASSUME MeterInv PROVE BloatNeedsAnswers
  <2> DEFINE got == Answered(samples)
             after == Stats(samples)
             x == baseline.median
             y == after.median
  <2> SUFFICES ASSUME phase = "done", measure.kind = "bloat"
               PROVE  /\ report.detected =>
                            /\ got # <<>>
                            /\ 2 * Cardinality({i \in 1..Len(got) : got[i] > x + 30})
                                  >= Len(got)
                            /\ report.grade \in {"C", "D", "F"}
                      /\ report.grade \in {"D", "F"} => report.detected
                      /\ report.grade = "C" /\ ~report.detected => y = x + 30
    BY DEF BloatNeedsAnswers
  <2>1. samples \in Seq(Samples) /\ report = Bloat(baseline, after)
    BY <1>1 DEF MeterInv
  <2>2. PICK b \in Seq(Samples) : baseline = Stats(b)
    BY <1>1 DEF MeterInv
  <2>3. InOrderStats(after, got, Len(samples)) /\ InOrderStats(baseline, Answered(b), Len(b))
    BY <2>1, <2>2, StatsAre
  <2> HIDE DEF got, after
  <2>4. /\ x \in Nat /\ y \in Nat
        /\ got = <<>> => y = 0
        /\ \A k \in Nat : y > k =>
              2 * Cardinality({i \in 1..Len(got) : got[i] > k}) >= Len(got)
    BY <2>3 DEF InOrderStats
  <2>5. /\ report.grade = Grade(y - x)
        /\ report.detected <=> y - x > 30
    BY <2>1 DEF Bloat
  <2> HIDE DEF x, y
  <2>6. y - x > 30 => /\ got # <<>>
                      /\ 2 * Cardinality({i \in 1..Len(got) : got[i] > x + 30}) >= Len(got)
    <3> SUFFICES ASSUME y - x > 30
                 PROVE  /\ got # <<>>
                        /\ 2 * Cardinality({i \in 1..Len(got) : got[i] > x + 30}) >= Len(got)
      OBVIOUS
    <3>1. x + 30 \in Nat /\ y > x + 30 /\ y # 0
      BY <2>4
    <3> QED  BY <2>4, <3>1
  <2>7. /\ y - x > 30 => Grade(y - x) \in {"C", "D", "F"}
        /\ Grade(y - x) \in {"D", "F"} => y - x > 30
        /\ Grade(y - x) = "C" /\ ~(y - x > 30) => y = x + 30
    BY <2>4 DEF Grade
  <2> QED  BY <2>5, <2>6, <2>7
<1> QED  BY <1>1, MeterInvariance, PTL

\* A lost ping for each answer that comes back, and one more for each step of
\* the longest run.
LEMMA LossesOf ==
    ASSUME NEW s \in Seq(Samples), NEW i \in Back(s), NEW x \in Nat, x > 0,
           i > x, Run(s, i, x)
    PROVE  /\ IsFiniteSet(Back(s))
           /\ Cardinality(Back(s)) + x
                 <= Cardinality({k \in 1..Len(s) : s[k] = Lost}) + 1
<1> DEFINE n == Len(s)
           L == {k \in 1..n : s[k] = Lost}
           R == i - x..i - 1
           O == Back(s) \ {i}
           D == {j - 1 : j \in O}
<1>1. n \in Nat /\ i \in 2..n /\ IsFiniteSet(1..n)
  BY FS_Interval DEF Back
<1>2. \A j \in Back(s) : j \in 2..n /\ s[j] # Lost /\ s[j - 1] = Lost
  <2> SUFFICES ASSUME NEW j \in Back(s)
               PROVE  j \in 2..n /\ s[j] # Lost /\ s[j - 1] = Lost
    OBVIOUS
  <2>1. j \in 2..n /\ s[j] # Lost /\ Run(s, j, 1)
    BY DEF Back
  <2>2. j \in Nat
    BY <1>1, <2>1
  <2> QED  BY <2>1, <2>2, RunOfOne
<1>3. R \subseteq L
  BY <1>1 DEF Run
<1>4. D \subseteq L
  BY <1>1, <1>2
<1>5. R \cap D = {}
  <2> SUFFICES ASSUME NEW j \in O, j - 1 \in R PROVE FALSE
    OBVIOUS
  <2>1. j \in 2..n /\ j # i /\ s[j] # Lost
    BY <1>2
  <2>2. j \in i - x..i - 1
    BY <1>1, <2>1
  <2>3. \A k \in i - x..i - 1 : s[k] = Lost
    BY DEF Run
  <2> QED  BY <2>1, <2>2, <2>3, Zenon
<1>6. IsFiniteSet(L) /\ IsFiniteSet(Back(s))
  <2>1. L \subseteq 1..n
    OBVIOUS
  <2> HIDE DEF n, L
  <2>2. \A j \in Back(s) : j \in 1..n
    BY <1>1, <1>2
  <2>3. Back(s) \subseteq 1..n
    BY <2>2, Zenon
  <2> QED  BY <1>1, <2>1, <2>3, FS_Subset
<1>7. IsFiniteSet(O) /\ Cardinality(O) = Cardinality(Back(s)) - 1
  BY <1>6, FS_RemoveElement
<1>8. IsFiniteSet(R) /\ Cardinality(R) = x
  <2>1. i - x \in Int /\ i - 1 \in Int /\ i - x <= i - 1
    BY <1>1
  <2>2. IsFiniteSet(R) /\ Cardinality(R) = (i - 1) - (i - x) + 1
    BY <2>1, FS_Interval
  <2>3. (i - 1) - (i - x) + 1 = x
    BY <1>1
  <2> QED  BY <2>2, <2>3
<1>9. IsFiniteSet(D) /\ Cardinality(D) = Cardinality(O)
  <2> DEFINE f == [j \in O |-> j - 1]
  <2>1. f \in Surjection(O, D)
    BY DEF Surjection
  <2>2. f \in Injection(O, D)
    <3>1. \A j \in O : f[j] = j - 1 /\ j - 1 \in D
      OBVIOUS
    <3>2. \A j \in O : j \in Int /\ f[j] = j - 1 /\ f[j] \in D
      <4> SUFFICES ASSUME NEW j \in O
                   PROVE  j \in Int /\ f[j] = j - 1 /\ f[j] \in D
        OBVIOUS
      <4>1. j \in 2..n
        BY <1>2
      <4> HIDE DEF f, D, O, n
      <4>2. j \in Int
        BY <1>1, <4>1
      <4> QED  BY <3>1, <4>2
    <3>3. f \in [O -> D]
      BY <3>2
    <3>4. \A j, k \in O : f[j] = f[k] => j = k
      <4> HIDE DEF f, O
      <4> QED  BY <3>2
    <3>5. DOMAIN f = O
      OBVIOUS
    <3> QED  BY <3>3, <3>4, <3>5 DEF Injection, IsInjective
  <2>3. f \in Bijection(O, D)
    BY <2>1, <2>2 DEF Bijection
  <2> HIDE DEF f, D, O
  <2>4. ExistsBijection(O, D)
    BY <2>3 DEF ExistsBijection
  <2> QED  BY <1>7, <2>4, FS_Bijection
<1> HIDE DEF n, L, R, O, D
<1>10. Cardinality(R \cup D) = Cardinality(R) + Cardinality(D)
  <2>1. Cardinality(R \cap D) = 0
    BY <1>5, FS_EmptySet
  <2>2. Cardinality(R \cup D) = Cardinality(R) + Cardinality(D) - Cardinality(R \cap D)
    BY <1>8, <1>9, FS_Union, Zenon
  <2>3. Cardinality(R) \in Nat /\ Cardinality(D) \in Nat
    BY <1>8, <1>9, FS_CardinalityType
  <2> QED  BY <2>1, <2>2, <2>3
<1>11. Cardinality(R \cup D) <= Cardinality(L)
  <2>1. R \cup D \in SUBSET L
    BY <1>3, <1>4
  <2> QED  BY <1>6, <2>1, FS_Subset, Zenon
<1>12. Cardinality(L) \in Nat /\ Cardinality(Back(s)) \in Nat
  BY <1>6, FS_CardinalityType
<1>13. Cardinality(Back(s)) + x <= Cardinality(L) + 1
  BY <1>7, <1>8, <1>9, <1>10, <1>11, <1>12
<1> QED  BY <1>6, <1>13 DEF L, n

\* For any number of pings: answers counted as out of order, and the greatest
\* extent, have lost pings for their cause, and without a loss there are none
\* (analytics.rs:629).
THEOREM ReorderingIsLoss == MeterSpec => []ReorderingNeedsLoss
<1>1. ASSUME MeterInv PROVE ReorderingNeedsLoss
  <2> DEFINE losses == Cardinality({i \in 1..Len(samples) : samples[i] = Lost})
             oo == order.out_of_order
             x == order.max_extent
  <2> SUFFICES ASSUME measure.kind = "reorder"
               PROVE  /\ oo > 0 <=> x > 0
                      /\ oo > 0 => oo + x <= losses + 1
    BY DEF ReorderingNeedsLoss
  <2>1. samples \in Seq(Samples) /\ order \in Counters /\ Counted(order, samples)
    BY <1>1 DEF MeterInv
  <2>2. oo \in Nat /\ x \in Nat
    BY <2>1 DEF Counters
  <2>3. /\ oo = Cardinality(Back(samples))
        /\ x > 0 => \E i \in Back(samples) : i > x /\ Run(samples, i, x)
        /\ \A i \in Back(samples) : \A m \in 1..i - 1 : Run(samples, i, m) => m <= x
    BY <2>1 DEF Counted
  <2>4. IsFiniteSet(Back(samples))
    <3>1. IsFiniteSet(2..Len(samples))
      <4>1. \A m \in Nat : IsFiniteSet(2..m)
        BY FS_Interval
      <4> QED  BY <2>1, <4>1
    <3>2. Back(samples) \subseteq 2..Len(samples)
      BY DEF Back
    <3> QED  BY <3>1, <3>2, FS_Subset
  <2> HIDE DEF oo, x, losses
  <2>5. oo > 0 => x > 0
    <3> SUFFICES ASSUME oo > 0 PROVE x > 0
      OBVIOUS
    <3>1. PICK i \in Back(samples) : TRUE
      BY <2>2, <2>3, FS_EmptySet
    <3>2. i \in 2..Len(samples) /\ Run(samples, i, 1)
      BY DEF Back
    <3>3. 1 \in 1..i - 1
      BY <2>1, <3>2
    <3> QED  BY <2>2, <2>3, <3>2, <3>3
  <2>6. ASSUME x > 0 PROVE oo > 0 /\ oo + x <= losses + 1
    <3>1. PICK i \in Back(samples) : i > x /\ Run(samples, i, x)
      BY <2>3, <2>6
    <3>2. oo + x <= losses + 1
      BY <2>1, <2>2, <2>3, <2>6, <3>1, LossesOf DEF losses
    <3>3. oo # 0
      BY <2>3, <2>4, <3>1, FS_EmptySet
    <3> QED  BY <2>2, <3>2, <3>3
  <2> QED  BY <2>5, <2>6
<1> QED  BY <1>1, MeterInvariance, PTL

----------------------------------------------------------------------------
(* TlsProbe.                                                                *)

TlsPlaces == {"resolve", "connect", "hello", "read", "done", "failed", "panicked"}
TlsVersions == {"unknown", "1.0", "1.1", "1.2", "1.3"}
TlsResults == [server : Servers, success : BOOLEAN, version : TlsVersions,
            cipher : Ciphers \cup {"none"}, reply : {"hello", "alert", "nothing"}]

TlsTypes ==
    /\ tls_task \in Seq(Servers)
    /\ tls_at \in TlsPlaces
    /\ tls_done \in Seq(TlsResults)
    /\ tls_at \notin {"done", "failed", "panicked"} => tls_task # <<>>

(* What one result says of its server.                                      *)
True(res) ==
    LET s == res.server IN
    /\ res.version # "unknown" \/ res.cipher # "none" =>
          res.success /\ res.reply = "hello"
    /\ \/ res.version \in {"unknown", s.version}
       \/ s.version = "1.3" /\ res.version = "1.2"
       \/ s.version = "1.2" /\ res.version = "1.3" /\ s.stray
    /\ res.cipher # "none" => res.cipher = s.cipher /\ res.version # "unknown"

TlsInv == TlsTypes /\ \A i \in 1..Len(tls_done) : True(tls_done[i])

\* What a server is made of.
LEMMA ServerIs ==
    ASSUME NEW s \in Servers
    PROVE  /\ s.version \in {"1.0", "1.1", "1.2", "1.3"} /\ s.cipher \in Ciphers
           /\ s.sid \in {0, 32} /\ s.before \in Nat /\ s.stray \in BOOLEAN
  BY ServersAssumption DEF ServerKinds

(* The offsets: a cipher suite that was read lies behind the version.       *)
LEMMA ParsedIs ==
    ASSUME NEW r, NEW s \in Servers, r.server = s, NEW n \in Nat
    PROVE  /\ Version(r, n) \in TlsVersions /\ Cipher(r, n) \in Ciphers \cup {"none"}
           /\ \/ Version(r, n) \in {"unknown", s.version}
              \/ s.version = "1.3" /\ Version(r, n) = "1.2"
              \/ s.version = "1.2" /\ Version(r, n) = "1.3" /\ s.stray
           /\ Version(r, n) # "unknown" => r.kind = "hello"
           /\ Cipher(r, n) # "none" =>
                 /\ Cipher(r, n) = s.cipher /\ r.kind = "hello"
                 /\ Version(r, n) # "unknown"
<1>1. /\ s.version \in {"1.0", "1.1", "1.2", "1.3"} /\ s.cipher \in Ciphers
      /\ s.stray \in BOOLEAN
  BY ServerIs
<1>2. CASE n <= 9 \/ r.kind # "hello"
  <2>1. ~(n > 50 /\ r.kind = "hello")
    BY <1>2
  <2>2. Version(r, n) = "unknown"
    BY <1>2, <2>1 DEF Version
  <2>3. Cipher(r, n) = "none"
    BY <1>2 DEF Cipher
  <2> QED
    BY <2>2, <2>3 DEF TlsVersions
<1>3. CASE ~(n <= 9 \/ r.kind # "hello")
  <2>1. LooksLike13(r, n) => s.stray \/ s.version = "1.3"
    BY DEF LooksLike13
  <2>2. \/ Version(r, n) = Legacy(s)
        \/ Version(r, n) = "1.3" /\ Legacy(s) = "1.2" /\ LooksLike13(r, n)
    BY <1>3 DEF Version
  <2>3. Legacy(s) = IF s.version = "1.3" THEN "1.2" ELSE s.version
    BY DEF Legacy
  <2>4. Cipher(r, n) \in {"none", s.cipher}
    BY DEF Cipher
  <2>5. /\ Version(r, n) \in TlsVersions /\ Version(r, n) # "unknown"
        /\ \/ Version(r, n) = s.version
           \/ s.version = "1.3" /\ Version(r, n) = "1.2"
           \/ s.version = "1.2" /\ Version(r, n) = "1.3" /\ s.stray
    BY <1>1, <2>1, <2>2, <2>3 DEF TlsVersions
  <2> QED
    BY <1>1, <1>3, <2>4, <2>5
<1> QED
  BY <1>2, <1>3

\* The invariant holds before the first probe.
LEMMA TlsStart == TlsInit => TlsInv
<1> SUFFICES ASSUME TlsInit PROVE TlsInv
  OBVIOUS
<1>1. tls_task \in Seq(Servers) /\ tls_task # <<>>
  BY ServersAssumption DEF TlsInit
<1>2. tls_done = <<>> /\ tls_done \in Seq(TlsResults) /\ Len(tls_done) = 0
  BY DEF TlsInit
<1> QED
  BY <1>1, <1>2 DEF TlsInit, TlsInv, TlsTypes, TlsPlaces

(* A probe that ends adds a result that is true of its server.              *)
LEMMA EndedInv ==
    ASSUME TlsInv, tls_at \in {"connect", "hello", "read"},
           NEW res \in TlsResults, True(res), Ended(res)
    PROVE  TlsInv'
<1>1. /\ tls_task \in Seq(Servers) /\ tls_task # <<>> /\ tls_done \in Seq(TlsResults)
      /\ tls_done' = Append(tls_done, res) /\ tls_task' = Tail(tls_task)
  BY DEF TlsInv, TlsTypes, Ended
<1>2. tls_task' \in Seq(Servers) /\ tls_done' \in Seq(TlsResults)
  BY <1>1
<1>3. /\ Len(tls_done') = Len(tls_done) + 1 /\ tls_done'[Len(tls_done) + 1] = res
      /\ \A i \in 1..Len(tls_done) : tls_done'[i] = tls_done[i]
      /\ Len(tls_done) \in Nat
  BY <1>1
<1>4. \A i \in 1..Len(tls_done') : True(tls_done'[i])
  <2> SUFFICES ASSUME NEW i \in 1..Len(tls_done')
               PROVE  True(tls_done'[i])
    OBVIOUS
  <2>1. CASE i = Len(tls_done) + 1
    BY <1>3, <2>1
  <2>2. CASE i \in 1..Len(tls_done)
    BY <1>3, <2>2 DEF TlsInv
  <2> QED
    BY <1>3, <2>1, <2>2
<1>5. tls_at' \in TlsPlaces /\ (tls_at' \notin {"done", "failed", "panicked"} => tls_task' # <<>>)
  BY <1>1 DEF Ended, TlsPlaces
<1> QED
  BY <1>2, <1>4, <1>5 DEF TlsInv, TlsTypes

\* Every step keeps the invariant.
LEMMA TlsStep == TlsInv /\ [TlsNext]_tlsVars => TlsInv'
<1> SUFFICES ASSUME TlsInv, [TlsNext]_tlsVars PROVE TlsInv'
  OBVIOUS
<1>1. tls_at \notin {"done", "failed", "panicked"} => Server \in Servers
  BY DEF TlsInv, TlsTypes, Server
<1>2. CASE TlsResolves \/ TlsUnresolved \/ Connects \/ SaysHello
  BY <1>2 DEF TlsResolves, TlsUnresolved, Connects, SaysHello, TlsInv, TlsTypes, TlsPlaces
<1>3. CASE TlsFails
  <2>1. Failure \in TlsResults
    BY <1>1, <1>3 DEF TlsFails, Failure, Result, TlsResults, TlsVersions
  <2>2. Failure.version = "unknown" /\ Failure.cipher = "none"
    BY DEF Failure, Result
  <2>3. True(Failure)
    BY <2>2 DEF True
  <2> QED
    BY <1>3, <2>1, <2>3, EndedInv DEF TlsFails
<1>4. CASE Reads
  <2>1. Server \in Servers
    BY <1>1, <1>4 DEF Reads
  <2>2. PICK n \in Prefixes :
          \/ /\ tls_at' = "panicked"
             /\ UNCHANGED <<tls_task, tls_done>>
          \/ Ended(Result(TRUE, Version(Reply, n), Cipher(Reply, n), Reply.kind))
    BY <1>4 DEF Reads
  <2>3. PICK kind \in {"hello", "alert"} : Reply = [kind |-> kind, server |-> Server]
    BY DEF Reply
  <2> DEFINE res == Result(TRUE, Version(Reply, n), Cipher(Reply, n), Reply.kind)
  <2>4. /\ Version(Reply, n) \in TlsVersions /\ Cipher(Reply, n) \in Ciphers \cup {"none"}
        /\ \/ Version(Reply, n) \in {"unknown", Server.version}
           \/ Server.version = "1.3" /\ Version(Reply, n) = "1.2"
           \/ Server.version = "1.2" /\ Version(Reply, n) = "1.3" /\ Server.stray
        /\ Version(Reply, n) # "unknown" => kind = "hello"
        /\ Cipher(Reply, n) # "none" =>
              /\ Cipher(Reply, n) = Server.cipher /\ kind = "hello"
              /\ Version(Reply, n) # "unknown"
    <3>1. n \in Nat
      BY ServersAssumption
    <3>2. Reply.server = Server /\ Reply.kind = kind
      BY <2>3
    <3> QED
      BY <2>1, <3>1, <3>2, ParsedIs
  <2>5. res \in TlsResults /\ True(res)
    <3>1. /\ res.server = Server /\ res.success = TRUE
          /\ res.version = Version(Reply, n) /\ res.cipher = Cipher(Reply, n)
          /\ res.reply = kind
      BY <2>3 DEF Result
    <3>2. res \in TlsResults
      BY <2>1, <2>3, <2>4 DEF Result, TlsResults
    <3> QED
      BY <2>4, <3>1, <3>2 DEF True
  <2>6. CASE tls_at' = "panicked" /\ UNCHANGED <<tls_task, tls_done>>
    BY <2>6 DEF TlsInv, TlsTypes, TlsPlaces
  <2>7. CASE Ended(res)
    BY <1>4, <2>5, <2>7, EndedInv DEF Reads
  <2> QED
    BY <2>2, <2>6, <2>7
<1>5. CASE UNCHANGED tlsVars
  BY <1>5 DEF tlsVars, TlsInv, TlsTypes
<1> QED
  BY <1>2, <1>3, <1>4, <1>5 DEF TlsNext

\* The invariant holds in every reachable state.
THEOREM TlsInvariance == TlsSpec => []TlsInv
BY TlsStart, TlsStep, PTL DEF TlsSpec

(* Over any servers and any division of their replies into reads, what is   *)
(* read at fixed offsets (tls.rs:457-542) is the server's choice or         *)
(* nothing, except that 1.3 and 1.2 may be taken for each other; and so     *)
(* compare_tls (tls.rs:554) finds no difference between equal servers that  *)
(* were both read far enough.                                               *)
THEOREM ReportsAreOfTheServer == TlsSpec => []ReportIsOfTheServer
<1>1. TlsInv => ReportIsOfTheServer
  <2> SUFFICES ASSUME TlsInv PROVE ReportIsOfTheServer
    OBVIOUS
  <2>1. \A i \in 1..Len(tls_done) : True(tls_done[i])
    BY DEF TlsInv
  <2>2. ASSUME Len(tls_done) = 2
        PROVE  /\ BothModern => tls_done[1].success /\ tls_done[2].success
               /\ tls_done[1].server = tls_done[2].server /\ ~SameCipher =>
                     \E i \in 1..2 : tls_done[i].cipher = "none"
    <3>1. True(tls_done[1]) /\ True(tls_done[2])
      BY <2>1, <2>2
    <3> QED
      BY <3>1 DEF True, BothModern, Modern, SameCipher
  <2> QED
    BY <2>1, <2>2 DEF ReportIsOfTheServer, True
<1> QED
  BY <1>1, TlsInvariance, PTL

=============================================================================
