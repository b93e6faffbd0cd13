----------------------------- MODULE LatencyMeter -----------------------------
(***************************************************************************)
(* analytics.rs: latency statistics, bufferbloat detection and packet      *)
(* reordering, all made of tcp_ping, one connect after the other.          *)
(*                                                                         *)
(* Round-trip times are in milliseconds (the code's are in microseconds).  *)
(* A rate is never divided out: a comparison is multiplied instead.        *)
(***************************************************************************)
EXTENDS Lists

CONSTANTS
    Rtts,       \* round-trip times a connect may take
    Lost,       \* the sample of a connect that times out
    Measures,   \* what is called
    LoadTasks   \* the tasks of measure_latency_under_load

\* A call of measure_latency, detect_bufferbloat or analyze_reordering.
MeasureCalls ==
    [kind : {"latency", "bloat", "reorder"}, samples : Nat, loaded : Nat,
     listens : BOOLEAN]

ASSUME MeasuresAssumption ==
    Rtts \subseteq Nat /\ Lost \notin Nat /\ Measures \subseteq MeasureCalls

VARIABLES
    measure,    \* the call
    phase,
    samples,    \* Vec<Option<Duration>> of the phase
    baseline,   \* LatencyStats of the first phase of detect_bufferbloat
    load,       \* the load tasks
    held,       \* the load tasks whose connection is open
    order,      \* the counters of analyze_reordering
    report      \* LatencyStats or BufferbloatResult

meterVars == <<measure, phase, samples, baseline, load, held, order, report>>

----------------------------------------------------------------------------
(* LatencyStats::from_samples.                                              *)

Answered(s) == Pick(s, {i \in 1..Len(s) : s[i] # Lost})

\* Mutant of Sorted: sort_unstable left out.
Unsorted(s) == s

\* The k-th is the least value that at least k of the samples do not exceed.
Sorted(s) ==
    LET values == {s[i] : i \in 1..Len(s)}
        reaches(x, k) == k <= Cardinality({i \in 1..Len(s) : s[i] <= x})
    IN  [k \in 1..Len(s) |->
            CHOOSE x \in values : /\ reaches(x, k)
                                 /\ \A y \in values : reaches(y, k) => x <= y]

Total(s) ==
    LET sum[i \in 0..Len(s)] == IF i = 0 THEN 0 ELSE sum[i - 1] + s[i]
    IN  sum[Len(s)]

Mean(s) == Total(s) \div Len(s)

MedianOf(t) ==
    LET half == Len(t) \div 2 IN
    IF Len(t) % 2 = 0 THEN (t[half] + t[half + 1]) \div 2 ELSE t[half + 1]

Percentile(t, p) ==
    LET index == (Len(t) * p) \div 100 IN
    t[IF index < Len(t) THEN index + 1 ELSE Len(t)]

\* The mean difference of neighbours, here of the sorted samples.
Jitter(t) ==
    LET apart(x, y) == IF x < y THEN y - x ELSE x - y IN
    IF Len(t) > 1
    THEN Mean([i \in 1..Len(t) - 1 |-> apart(t[i], t[i + 1])]) ELSE 0

\* The root of the variance, rounded down.
StdDev(t) ==
    LET squares == Total([i \in 1..Len(t) |-> (t[i] - Mean(t)) * (t[i] - Mean(t))])
        fits(d) == d * d * Len(t) <= squares
    IN  CHOOSE d \in 0..Total(t) : fits(d) /\ ~fits(d + 1)

Stats(s) ==
    LET t == Sorted(Answered(s))
        of(x) == IF t = <<>> THEN 0 ELSE x
    IN  [samples |-> Len(s), successes |-> Len(t),
         min |-> of(t[1]), max |-> of(t[Len(t)]), mean |-> of(Mean(t)),
         median |-> of(MedianOf(t)), std_dev |-> of(StdDev(t)),
         jitter |-> of(Jitter(t)), p95 |-> of(Percentile(t, 95)),
         p99 |-> of(Percentile(t, 99))]

\* loss_rate, 1 minus the share of successes and 1 of no samples, is over 0.01.
\* At exactly one lost in a hundred the difference, as a double, is already
\* more than the double 0.01.
HasPacketLoss(st) == 100 * (st.samples - st.successes) >= st.samples
HasHighJitter(st) == st.mean # 0 /\ 10 * st.jitter > st.mean

----------------------------------------------------------------------------
(* BufferbloatResult and ReorderingResult.                                  *)

Grade(increase) ==
    IF increase < 5 THEN "A"
    ELSE IF increase < 30 THEN "B"
    ELSE IF increase < 60 THEN "C"
    ELSE IF increase < 200 THEN "D" ELSE "F"

\* Mutant of Bloat: the increase the wrong way round.
BloatReversed(before, after) ==
    [grade |-> Grade(before.median - after.median),
     detected |-> before.median - after.median > 30]

Bloat(before, after) ==
    [grade |-> Grade(after.median - before.median),
     detected |-> after.median - before.median > 30]

\* Mutant of Arrives: a lost number is expected again.
ArrivesExpectingLost(o, seq) ==
    [o EXCEPT !.received = @ \cup {seq},
              !.out_of_order = IF seq # o.expected_next THEN @ + 1 ELSE @,
              !.expected_next = @ + 1]

\* An answer to number seq is counted.
Arrives(o, seq) ==
    IF seq \in o.received THEN [o EXCEPT !.duplicates = @ + 1]
    ELSE LET extent == IF seq < o.expected_next THEN o.expected_next - seq
                       ELSE seq - o.expected_next
         IN  [o EXCEPT !.received = @ \cup {seq},
                       !.out_of_order = IF extent # 0 THEN @ + 1 ELSE @,
                       !.max_extent = IF extent > @ THEN extent ELSE @,
                       !.expected_next = seq + 1]

\* reorder_rate > 0.01
HasReordering(o) == 100 * o.out_of_order > Cardinality(o.received)

----------------------------------------------------------------------------
(* Actions.                                                                 *)

NoReport == [none |-> TRUE]

MeterInit ==
    /\ measure \in Measures
    /\ phase = "start"
    /\ samples = <<>>
    /\ baseline = Stats(<<>>)
    /\ load = [i \in LoadTasks |-> "none"]
    /\ held = {}
    /\ order = [expected_next |-> 0, out_of_order |-> 0, max_extent |-> 0,
                duplicates |-> 0, received |-> {}]
    /\ report = NoReport

\* The target resolves to an IPv4 address.
Begins ==
    /\ phase = "start"
    /\ phase' = "idle"
    /\ UNCHANGED <<measure, samples, baseline, load, held, order, report>>

\* It does not, at the start or when the load is about to be made.
ResolveFails ==
    /\ phase \in {"start", "reload"}
    /\ phase' = "failed"
    /\ UNCHANGED <<measure, samples, baseline, load, held, order, report>>

Wanted == IF phase = "loaded" THEN measure.loaded ELSE measure.samples

\* tcp_ping: a connect that is accepted, or fails with any error, has
\* answered; one that does neither within the timeout is lost.  The loop body
\* of analyze_reordering counts the answer.
Ping ==
    /\ phase \in {"idle", "loaded"}
    /\ Len(samples) < Wanted
    /\ \E r \in Rtts \cup {Lost} :
          /\ samples' = Append(samples, r)
          /\ order' = IF r # Lost /\ measure.kind = "reorder"
                      THEN Arrives(order, Len(samples)) ELSE order
    /\ UNCHANGED <<measure, phase, baseline, load, held, report>>

\* measure_latency and analyze_reordering return.
Returns ==
    /\ phase = "idle"
    /\ Len(samples) = Wanted
    /\ \/ /\ measure.kind = "bloat"
          /\ baseline' = Stats(samples)
          /\ samples' = <<>>
          /\ phase' = "reload"
          /\ UNCHANGED report
       \/ /\ measure.kind # "bloat"
          /\ report' = Stats(samples)
          /\ phase' = "done"
          /\ UNCHANGED <<samples, baseline>>
    /\ UNCHANGED <<measure, load, held, order>>

\* measure_latency_under_load resolves the target again and spawns its tasks.
Loads ==
    /\ phase = "reload"
    /\ phase' = "settle"
    /\ load' = [i \in LoadTasks |-> "connecting"]
    /\ UNCHANGED <<measure, samples, baseline, held, order, report>>

\* The pause of 500 ms is over.
Settled ==
    /\ phase = "settle"
    /\ phase' = "loaded"
    /\ UNCHANGED <<measure, samples, baseline, load, held, order, report>>

\* The target accepts a load connection.
Accepts(i) ==
    /\ load[i] = "connecting"
    /\ measure.listens
    /\ i \notin held
    /\ held' = held \cup {i}
    /\ UNCHANGED <<measure, phase, samples, baseline, load, order, report>>

\* The task's connect returns: let _ drops the stream, or the error, before
\* the task goes to sleep.
Connected(i) ==
    /\ load[i] = "connecting"
    /\ i \in held \/ ~measure.listens
    /\ held' = held \ {i}
    /\ load' = [load EXCEPT ![i] = "sleeping"]
    /\ UNCHANGED <<measure, phase, samples, baseline, order, report>>

\* Its 5 s are over.
Wakes(i) ==
    /\ load[i] = "sleeping"
    /\ load' = [load EXCEPT ![i] = "ended"]
    /\ UNCHANGED <<measure, phase, samples, baseline, held, order, report>>

\* The tasks are aborted and the two medians compared.
Compares ==
    /\ phase = "loaded"
    /\ Len(samples) = Wanted
    /\ load' = [i \in LoadTasks |-> "aborted"]
    /\ held' = {}
    /\ report' = Bloat(baseline, Stats(samples))
    /\ phase' = "done"
    /\ UNCHANGED <<measure, samples, baseline, order>>

MeterNext ==
    \/ Begins \/ ResolveFails \/ Ping \/ Returns \/ Loads \/ Settled \/ Compares
    \/ \E i \in LoadTasks : Accepts(i) \/ Connected(i) \/ Wakes(i)

MeterSpec == MeterInit /\ [][MeterNext]_meterVars

----------------------------------------------------------------------------
(* Properties.                                                              *)

\* The statistics of a call are in order whatever the order of the samples,
\* and every sample is in their range; and packet loss takes a loss, which
\* among no more than a hundred samples is enough.  Of the jitter only what any
\* reading of it gives: the code takes neighbours of the sorted samples, where
\* analytics.rs:36 says "mean absolute deviation" and :106 "RFC 3550 style",
\* which takes neighbours in time.
StatsOrdered ==
    phase = "done" /\ measure.kind # "bloat" =>
        LET st == report
            got == Answered(samples)
        IN  /\ st.min <= st.median /\ st.median <= st.p95
            /\ st.p95 <= st.p99 /\ st.p99 <= st.max
            /\ st.min <= st.mean /\ st.mean <= st.max
            /\ st.std_dev <= st.max - st.min
            /\ \A i \in 1..Len(got) : st.min <= got[i] /\ got[i] <= st.max
            /\ st.jitter <= st.max - st.min
            /\ HasHighJitter(st) => Len(got) > 1
            /\ HasPacketLoss(st) => got = <<>> \/ Len(got) < Len(samples)
            /\ got = <<>> \/ (Len(got) < Len(samples) /\ Len(samples) <= 100)
                  => HasPacketLoss(st)

\* Bufferbloat is found only on answers under load, at least half of them more
\* than 30 ms above the median without load, however many were lost.  That
\* median is the placeholder 0 if nothing was answered without load, and then
\* answers that take over 30 ms are enough.  Grade and detection agree but for
\* an increase of exactly 30 ms, which is fair but not detected.
BloatNeedsAnswers ==
    phase = "done" /\ measure.kind = "bloat" =>
        LET got == Answered(samples) IN
        /\ report.detected =>
              /\ got # <<>>
              /\ 2 * Cardinality({i \in 1..Len(got) : got[i] > baseline.median + 30})
                    >= Len(got)
              /\ report.grade \in {"C", "D", "F"}
        /\ report.grade \in {"D", "F"} => report.detected
        /\ report.grade = "C" /\ ~report.detected =>
              Stats(samples).median = baseline.median + 30

\* Numbers are sent one after the other, each when the one before is answered
\* or given up, so none can overtake another, and what is counted as out of
\* order has lost pings for its cause: one for each answer counted, and as many
\* as the greatest extent.  analytics.rs:609-628 and docs/04 promise more, the
\* detection of reordering and of duplicates.
ReorderingNeedsLoss ==
    measure.kind = "reorder" =>
        LET losses == Cardinality({i \in 1..Len(samples) : samples[i] = Lost})
        IN  /\ order.out_of_order > 0 <=> order.max_extent > 0
            /\ order.out_of_order > 0 =>
                  order.out_of_order + order.max_extent <= losses + 1

\* "Try to establish and hold connection": a load task that found the target
\* listening holds its connection while it sleeps and the pings are made.
LoadIsHeld ==
    phase = "loaded" /\ measure.listens =>
        \A i \in LoadTasks : load[i] = "sleeping" => i \in held

=============================================================================
