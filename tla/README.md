# multiprobe in TLA+

A verification project for multiprobe, a Rust library and command-line tool
that probes a network target with ICMP, TCP and UDP and draws conclusions from
how the answers differ. The modules model the code of `src/` of the repository
(`src/src/...` in `PROJECT.json`); `.cfg` files check them with TLC on small
instances, and the `*_proofs` modules prove the properties that matter most
with TLAPS, for every value of the constants.

## The system

The library is a set of measurements. Each is one async function that resolves
its target, sends probes, waits for answers under timeouts and returns a
result; there is no state between calls except in the echo server and in the
cache of AS numbers. What makes it hard is that answers are matched to probes
loosely: most probes read "the next ICMP packet" from a raw socket that gets
every ICMP packet of the host, and the echo protocol reads "the next bytes" of
a TCP stream.

| Component | Source | State | Operations | What is hard | What makes it correct |
|---|---|---|---|---|---|
| Bidirectional probing | `bidirectional.rs` | server: `running`, `probes_handled`, one task per connection; session: three `DirectionStats`, a TCP stream | `bind`, `run`, `stop`, `handle_connection`, `probe_bidirectional` | late echoes, messages merged or cut by TCP, stop against accept, detached handlers | one sample per echo and per probe, in order; what has a timeout ends |
| Path MTU discovery | `analytics.rs` 195-400 | `low`, `high`, `max_working`, `min_failing` | `discover_path_mtu` | lost and late answers, u16 overflow | never more than the path takes; exact when answered; returns |
| Protocol divergence | `divergence.rs` | hops, first divergence, protocols that reached | `analyze_divergence` and its tasks per protocol | each packet is copied to all tasks; late packets of earlier rounds | no hop from ahead, no early stop, divergence only for a reason |
| Paris traceroute | `paris.rs` | hops, flow identifiers | `paris_traceroute`, `detect_load_balancing`, `discover_paths` | connect still in progress, ports that cannot be bound, a raw socket opened after the send | a wrong hop, an early stop and a balancer found have a cause; reached means reached |
| Traceroute | `traceroute.rs` | hops | `traceroute` | late answers, two traces at once | a hop off the route has a cause |
| BGP correlation | `bgp/correlation.rs` | hops with AS numbers, AS path, score | `correlate_divergence`, `calculate_abds` | gaps: private and unknown addresses | boundaries agree with the path; score counts what it says |
| AS number cache | `bgp/asn_lookup.rs` | a map under a lock that is released for the DNS query | `lookup`, `lookup_batch`, `clear_cache` | two lookups of one address, clear against a lookup in flight | an entry is some query's answer |
| MultiProbe, builders | `probe.rs` | list of protocols, options | `send` | concurrent probes, errors dropped | a verdict has evidence |
| Classifier | `classifier.rs`, `types.rs` | none | `classify`, `calculate`, `interpret`, fingerprints | overlapping cases in order | verdict, score and fingerprint agree |
| ICMP, TCP, UDP probes | `icmp.rs`, `tcp.rs`, `udp.rs` | a socket | `probe` | shared identifier and sequence, a timeout that is a success | a success means what the verdict takes it for |
| Statistics | `analytics.rs` 1-195, 400-687 | samples, load tasks, counters | latency, bufferbloat, reordering | boundaries, empty input, lost answers, load tasks against pings | the statistics are in order; bufferbloat and reordering have a cause |
| TLS fingerprinting | `tls.rs` | a stream, one read | `probe_tls`, `compare_tls`, parsers | a read that ends anywhere, offsets, alerts | version and suite are the server's |
| DNS | `dns.rs` | none | `resolve_ipv4` | external | its outcomes are choices of the callers' models |
| Errors, root, CLI | `error.rs`, `lib.rs`, `bin/multiprobe.rs` | none | printing, argument parsing | - | not modelled |

The command line and the tests call these functions one by one. Inside the
library `correlate_divergence` calls `analyze_divergence` and then looks up the
hops; `MultiProbe::send` runs the single probes concurrently and hands their
results to `Classifier::classify`; `probe_bidirectional` and
`BidirectionalServer` meet over TCP.

## What is modelled

### `Bidirectional` (and the abstract `ProbeLedger`)

The sessions of `probe_bidirectional`, the `run` loop, the connection handlers
and the streams between them.

* A stream is a sequence of bytes `<<q, i>>`, byte `i` of the message with
  sequence number `q`. A read returns any prefix of at most `BufLen` bytes of
  what has arrived; both ends parse one message at its start and drop the rest,
  as `stream.read(&mut buf)` followed by `from_bytes(&buf[..n])` does. Nothing
  else of a message matters to the properties: a parse succeeds when the chunk
  is long enough and begins at the first byte of a message, where the magic is.
* `pc[c]` is the place of a session in its loop: `connect`, `send`, `await`,
  `done`, or `failed` for the early returns. `sent` is counted before the
  write, as in the code, so a write that fails still counts.
* `forward`, `reverse` and `round_trip` are updated by the same statements. One
  `samples` stands for all three; it records under which probe a sample was
  booked and which echo it came from.
* `handler[c]` is the spawned `handle_connection`; the increment of
  `probes_handled` is a step of its own because it follows the await of
  `write_all`. `Reset(c)` is a connection reset at any time, and `EndArrives(c)`
  the end of a session's stream reaching the server, which it need not do.
* `WriteMayWait(c)` is where `write_all` of a probe, which has no timeout, may
  find no room: unread probes are in the connection. How much a connection holds
  is the operating system's affair, so the model may take the write or leave it.
* `running` and `loop` are the flag and the place of `run`, with `Stop` at any
  time, the accept timeout, and the accept error that returns `Err`.

`ProbeLedger` says what a session promises with no network in sight: probes are
issued one at a time, each settled by exactly one verdict, lost or the number
of an echo, and echoes are credited at most once, in order and never before
their probe. `KeepsLedger` is the refinement: `Verdicts(c)` reads the ledger
off the samples.

### `PathMtu`

The binary search over u16 sizes, in a debug build (overflow panics) and a
release build (it wraps). A probe receives its own answer, the late answer to
an earlier probe, or none; `late`, `worked`, `missed` and `confused` are
history variables the properties use.

### `Divergence`

One round per TTL, one task per entry of `options.protocols`. A route
(`Routes`) is the target's distance, what its host does with each protocol
(`verdict`), and for each protocol at most one router that stops it from some
TTL on (`filter`), in silence or with a Destination Unreachable of either code
the code tells apart. `IcmpAnswer` is what comes back: the filtering router's
answer, Time Exceeded, or `TargetAnswer`. The raw sockets are the point:
`Deliver(m)` gives a copy of a packet to every task that is listening, whatever
probe it answers, and packets may be late by any number of rounds. `StatusFrom`
is the three `match icmp_type` statements. The end of a round books the hop,
with the results of a repeated protocol in any order. `agreement_score` is kept
as `has_divergence`.

### `AsnCache`

One `AsnLookup` shared by several callers, each looking up a batch of addresses
(`lookup` is a batch of one) or clearing the cache. `pc[c]` follows the awaits
of `lookup`: the read guard (`reading`), the two DNS queries without a guard
(`origin`, `name`), the write guard (`writing`). The lock is tokio's `RwLock`:
`Readers` and `Writers` are read off the places. The registry may answer the
same address differently each time, or fail; private addresses are refused
before the cache is looked at and IPv6 addresses never get an answer. `told`
and `learned` are history: what the registry answered, and what a caller was
told since the last clear. Of an `AsnInfo` the number is kept.

### `BgpCorrelation`

`correlate_divergence` after `analyze_divergence` has returned: one step per
hop, over every trace `DivergenceHop` allows. The address is any of those that
answered, because `results.values()` of a `HashMap` come in any order; the
lookup is one step, because the `AsnLookup` belongs to this call and its
lookups are sequential. `prev_asn` and `as_path` are the loop's two
accumulators, and the result (`at_boundary`, `intra_as`, `unknown`,
`interpretation`, `primary_cause`, `as_transitions`) is computed from the hops.
The score is a fraction of whole numbers and is compared as one.

### `HopTrace`

`traceroute`, `paris_traceroute` in its four modes, `detect_load_balancing` and
`discover_paths`, as calls of one process (`Tracers`) that may run at once. The
two files have the same loop around different probe functions, so they are one
module; `classic` is `traceroute.rs`.

* `pc[p]` is the place in a probe: `send`, `open` (the UDP mode has sent its
  datagram and not yet opened the raw socket it will listen on), `recv`.
  `Records` is what follows a probe: the hop is pushed, the loop goes on or ends
  (`TraceRecords`), the test for load balancing goes on to the next flow
  (`LbRecords`), and a finished trace gives way to the next flow of
  `discover_paths` (`TraceEnds`).
* The network is `Route[t][f]`, the routers of each flow. A router answers Time
  Exceeded, or Destination Unreachable if it is one of `Filters`; an answer may
  be lost, and `wire` holds it as long as it likes. `Deliver(a)` gives a packet
  to every raw socket that is open; the error queue of the unprivileged mode
  gets its own socket's answers only.
* The balancer may put an Echo Request on any flow (`EchoFlows`), because its
  checksum covers its sequence number, and a UDP datagram whose source port was
  taken leaves on any flow (`fell`).
* `Receive` takes the first packet, whatever it answers. In the unprivileged
  mode the hop is always the target: `msg_name` of an error queue is where the
  datagram was sent to, not the router that complained.
* The properties about hops and balancers are of undisturbed calls
  (`Undisturbed`): in a mode with a raw socket, with no other call under way and
  every source port bound. Another call's packets, and another flow's routers,
  are taken for the call's own, since nothing is compared; of pairs of calls the
  run shows that they return.

### `MultiProbe` over `Classifier`

Concurrent calls of `MultiProbe::send`, each a list of ICMP, TCP and UDP probes
whose futures `join_all` polls in order. An Echo Reply of any host reaches every
ICMP probe that waits, because identifier and sequence number are constants of
the process and the sender is not looked at. `TcpOutcomes`, `UdpOutcomes` and
`IcmpOutcomes` are what a probe may return: a UDP timeout is a success, errors
leave no result. `Join` collects and classifies.

`Classifier` holds the pure functions: the decision list of `classify` in its
order, the differences of `ProtocolDifferentialScore` as fractions, `interpret`,
and the two fingerprints.

### `LatencyMeter`

`measure_latency`, `detect_bufferbloat` and `analyze_reordering`: a sequence of
`tcp_ping`s that answer in some round-trip time or not at all, the statistics of
`from_samples` with its integer divisions, and the load tasks of
`measure_latency_under_load` with the connection each may hold (`held`).

### `TlsProbe`

`probe_tls` and `compare_tls`. The server's record is the length of its parts;
one read returns its first `n` bytes, and the parsers look at fixed offsets of
them. `Panics` is the index one past a record of ten bytes.

`Lists` holds what `HopTrace`, `Classifier` and `LatencyMeter` share: the elements
of a list at certain positions, which is what `filter` and `collect` leave.

`MCMeasures` composes these four with a variable that says which of the three
measurements a program asks for: they share nothing, and one run covers them.

## The runs

| Run | Module / cfg | Shows | Bounds |
|---|---|---|---|
| `bidirectional` | `MCBidirectional` | `SamplesInOrder`, `ReceivedWereHandled`; sessions return unless a write waits, stop ends run, handlers drain once the end has arrived; refinement of `ProbeLedger` | two sessions, of 3 and 0 probes; lengths 2, 3 and buffer 5 |
| `path_mtu` | `MCPathMtu` | no overflow, ordering, no overestimate, exactness of the MTU reported, logarithmic number of probes, return | sizes up to 31, every kind of option; attempts counted to 6 |
| `divergence` | `MCDivergence` | no hop from ahead, no early stop, divergence needs a cause, return | three protocols, 2 hops, targets 1 to 3 hops away, 4 kinds of target, 3 kinds of filtering router |
| `asn_cache` | `MCAsnCache` | only answers are cached and returned, what was learned stays answered, every call returns | two callers, an address of each kind and a second public one, two AS numbers |
| `bgp` | `MCBgpCorrelation` | boundaries make the path, one AS per address, causes match the score, the interpretation follows the hops | traces of up to 3 hops, two public addresses and a private one, an AS of each kind |
| `traces` | `MCHopTrace` | a wrong hop, an early stop and a load balancer found each have a cause; every call returns | each mode alone on five routes of 1 to 3 routers, three pairs of calls; 2 flows, 3 hops, 2 answers on their way |
| `measures` | `MCMeasures` | verdicts have evidence and agree with score and fingerprint; statistics in order; bufferbloat and reordering have a cause; TLS reports are of the server | up to 4 probes, 2 calls; 4 round-trip times and loss, up to 6 pings, 2 load tasks; 7 servers, 20 ends of a read |
| `late_echo` | `MCLateEcho.cfg` | a violation: the round trip of a probe measured on another's echo | one session of 3 probes |
| `divergence_tcp` | `MCDivergenceTcp.cfg` | a violation: TCP is not reached at a target that accepts it | TCP alone, an open target two hops away |
| `paris_tcp` | `MCTracesTcp.cfg` | a violation: a connect still in progress is a connection to the destination | as `traces` |
| `load_held` | `MCLoadHeld.cfg` | a violation: the load connections are closed before latency is measured | as `measures` |
| `tls_alert` | `MCTlsAlert.cfg` | a violation: an alert is a successful handshake | as `measures` |

Why the bounds are enough. Three probes let an echo be late by two, and by one
after a probe that was answered; the lengths let a read return two probes, an
echo and most of the next, or end inside a message, and let a later read start
inside one. A second session matters only for the server's loop and its count,
for which a session without probes does: the first one's book-keeping is its
own. Five-bit sizes reach both ends of the range, sums above it, a maximum of 0
to one step below the range, and searches of up to five probes. Two rounds let
a packet of the first be taken in the second; a third target beyond `MaxHops`
covers the trace that is cut off, and on its path the first router stops a
protocol: with a rejection that is `Unreachable` to every task, with one that
is an answer to the UDP task, or in silence, at its own TTL or behind it. Two
callers are enough for the lock and for every way one caller's insert or clear
falls between another's check and insert; the batch `<<pub, other, pub>>` asks
for an address again after another one, and `<<priv, six>>` holds those that
fail. Three hops are the shortest trace with a gap in the middle and with a
return to an AS left before.

Three hops are the fewest at which `detect_load_balancing` tests anything, and
the routes cover what its verdict can depend on: flows that never part, that
part at the hop tested or before it, and that differ in length. Two answers on
their way let one of an earlier probe and one of another call be late together.
Two flows are enough for a second address; more only add addresses to a set of
which the code asks whether it has one. For the verdicts, three probes of
different protocols and a fourth on a second port of one of them reach every
case of the decision list, and each port meets every answer; the second call is
there for its host's Echo Reply. Round-trip times of 10, 40, 100 and 250 ms put
increases on both sides of every grade's limit and exactly on the 30 ms of
detection. Six pings let a run of losses of every length up to four be followed
by an answer. Below 20 samples p95 and p99 are the maximum, so their index
arithmetic is checked only at its end. The ends of a read are on either side of
every offset the parsers look at.

Deadlock is checked for `bidirectional` and `asn_cache`, where there is always
somebody who may call; the other calls really end,
and their configurations say so.

### Fairness

`Bidirectional`: weak fairness of what a timeout bounds or an arrival has
completed. The runtime polls every task: the client's connect and reads are
bounded by `options.timeout`, accept by 100 ms. Two waits have no timeout, and
nothing is assumed of them. `write_all` of a probe (`bidirectional.rs:459`) may
wait for ever on a peer that does not read, so a session is fair only outside
`WriteMayWait`, and `SessionsReturn` says that it returns or stays in that
wait. A handler's read and write (`:402`, `:409`) are fair only when the end of
the client's stream or a reset has arrived, and `HandlersDrain` is about those
connections: a client whose host vanishes leaves its handler for ever. Neither
`EndArrives` nor `Reset` is fair, and nothing makes anybody call `run` or
`stop`. `PathMtu`: weak fairness of the step, because each probe is bounded by
its read timeout. `Divergence`: weak fairness of each task, which the read
timeout of its socket bounds, and of the end of a round, which the caller
awaits. Deliveries are not fair. `AsnCache`: weak fairness of what a caller
does between two waits for the lock, because a DNS query ends by an answer or
by the resolver's timeout; strong fairness of taking the lock, because tokio's
`RwLock` hands it out in the order of the requests. Nobody has to call.
`HopTrace`: weak fairness of each tracer's step, because every probe runs in a
blocking task that its read timeout, the pause before `take_error` or the polls
of the error queue bound. `BgpCorrelation` and the modules of `measures` state
safety only.

### Disagreements between the code and its documentation

* `late_echo`: `probe_bidirectional` does not compare the echo's sequence number
  with the probe's, so an echo that missed its timeout is booked with the next
  probe's `send_time` ("Round-trip measured locally", `bidirectional.rs:483`).
* `divergence_tcp`: `probe_hop_tcp` listens for ICMP only, and a target that
  accepts a SYN answers on TCP ("Whether destination was reached by all
  protocols", `divergence.rs:184`). In the run TCP is traced alone: it hears the
  router's Time Exceeded in round 1 and waits in vain in round 2, so that its
  status is a timeout and TCP is not among the protocols reached. With other
  protocols in the list a copy of one of their packets may settle the TCP task,
  and a copy of the target's Echo Reply marks TCP as reached.
* `paris_tcp`: `probe_tcp_paris_sync` asks `take_error` after a pause, and takes
  no error for "Connected successfully - we reached the destination"
  (`paris.rs:533`). A connect whose SYN expired, was lost or is unanswered has
  no error yet.
* `load_held`: `let _ = connect(..).await` drops the stream at once; the comment
  says "Try to establish and hold connection" (`analytics.rs:573`) and
  "Measure latency while load is active" (`:582`).
* `tls_alert`: any non-empty read is a success ("Whether handshake succeeded",
  `tls.rs:86`), an alert too; and the ClientHello asks for one, because its ALPN
  extension declares 11 bytes and carries 14.

Read in the code, and stated here without a run, because a few lines show each:

* after an accept error `is_running` still returns true (`bidirectional.rs:378`,
  "Check if the server is running");
* a path MTU search none of whose probes was answered reports success and
  `min_mtu` as the "Minimum MTU tested that worked" (`analytics.rs:206`, `:262`);
  and the size in that field is the largest that worked, `max_working`;
* when the AS of every divergent hop is unknown the score is 0.0 and the
  interpretation `InternalPolicyDriven`, "Divergence mostly within ASes"
  (`correlation.rs:102`, `:416`);
* the score is documented as `at_boundary / total_divergent`
  (`correlation.rs:84`) and divides by the divergent hops whose AS is known
  (`:413`). One boundary hop and two unknown ones score 0.33 by the comment,
  `InternalPolicyDriven`, and 1.0 in the code, `RoutingPolicyDriven`.
  `InterpretationFollowsHops` says what holds by both formulas;
* `max_failing` is the "Maximum MTU tested that failed" (`analytics.rs:208`) and
  holds the last size that failed, which is the smallest: between 1 and 15, on a
  path that takes 5, sizes 8 and 6 fail and 6 is reported. `ExactWhenAnswered`
  speaks of the MTU only;
* jitter is the "mean absolute deviation" (`analytics.rs:36`) and "RFC 3550
  style - mean of absolute differences" (`:106`); the differences are taken of the
  sorted samples, so that it is the range over their number, in whatever
  order the answers came. `StatsOrdered` says only that it is within the range;
* `has_packet_loss` is for ">1%" (`analytics.rs:146`), and exactly 1% counts
  too, because `1.0 - 0.99` is above `0.01` in floating point (`HasPacketLoss`
  has it so);
* a grade of A is "Excellent (< 5ms increase)" (`analytics.rs:450`), and a target
  that answers nothing under load gets it, since the median under load is then the
  placeholder 0; with nothing answered in the baseline, whose median is then 0,
  answers of 31 ms are bufferbloat. `BloatNeedsAnswers` is stated with the placeholder;
* `analyze_reordering` "Detects whether packets arrive out of order"
  (`docs/04-path-analytics.md`, "Out-of-order delivery detection" in the
  repository's README, and `out_of_order` and `duplicates` at
  `analytics.rs:609-617`). Its pings go one after the other, so none can arrive
  out of order or twice: what it counts are answers that follow a loss, and
  `duplicates` is always 0. `ReorderingNeedsLoss` says what the counters tell of
  losses;
* the hop tested for load balancing is to "avoid first and last"
  (`paris.rs:818`) and is the last one of a trace of three to ten hops;
* `parse_errqueue_addr` says it reads the offender's address (`paris.rs:659`)
  and reads `msg_name`, the target's: the unprivileged trace ends with its first
  answer. `parse_icmp_type_code` uses `mem::` where only another function
  imports it (`paris.rs:704`);
* `tcp_ping` counts a connect that fails with any error as an answer
  (`analytics.rs:188`), and a host that answers nothing is, after a UDP probe,
  "ICMP filtered" and never "blocked" (`VerdictsHaveEvidence` says so);
* `parse_tls_version` reads `data[10]` of ten bytes (`tls.rs:472`); the model
  has this as the end `panicked`;
* the options `lookup_as_names` and `cache_asn` are stored and never looked at.

## What is proved

`Bidirectional_proofs` proves, for every set of clients, every probe count and
all lengths that `LengthsAssumption` allows (a probe and an echo fit the
buffer):

* `TypeCorrect`: `Spec => []TypeOK`.
* `SamplesAreInOrder`: `Spec => []SamplesInOrder`. The order of the samples is
  not inductive: a session that reads an echo must know that the echo is newer
  than all it has booked. `IInv` adds `InFlightOrder`: each stream carries its
  messages in increasing order, what is on the way back is older than what is
  on the way out, and what was booked is older than both. Only the starts of
  messages matter, so what a read leaves behind (`RestStarts`), what a write
  adds (`WriteIs`) and what a reset keeps (`ChunkStarts`) are the lemmas the
  actions rest on.

* `ReceivedAreHandled`: `Spec => []ReceivedWereHandled`, for any number of
  sessions, infinitely many too, since only the echoes there are have to be
  finite in number. `EchoesCounted` says that the echoes
  booked or on their way to a session are no more than the probes counted and the
  handlers about to count one. A write adds one echo together with one such
  handler (`EchoAdds`), a read, a loss and a reset only take echoes away, and by
  `IInv` no two samples of a session are the same echo, so that the property
  follows by counting.
* `SessionsKeepLedger`, the refinement of `ProbeLedger` that the run checks on
  three probes. The ledger is computed from the samples (`LedgerOf`), so the
  lemmas say how it grows: by a loss when the samples stay (`LedgerLoses`), by
  the echo when one is booked (`BookedOnce`, `LedgerAppends`). That a credited
  echo is newer than those before is what `IInv` knows of the stream it was read
  from.

`PathMtu_proofs` proves, for every word size, option and path, `TypeCorrect`,
`SearchNeverOverflows`, `WorkingIsBelowFailing`, `SearchNeverOverestimates`,
`SearchIsExact` and `ProbesAreLogarithmic`. The invariant says that `low` and
`high` enclose what is not known yet (`Enclosed`) and that they are tight while
every answer is the probe's own (`Tight`). The bound on the number of probes is
inductive beside it: a probe, answered or not, leaves at most half of what there
was (`Halves`).

`AsnCache_proofs` proves `TypeCorrect`, `OnlyAnswersAreTold` and `LearnedStays`
for any number of callers, addresses, AS numbers and batches. What the cache
holds does not say what a caller is about to put into it: `CallerInv` adds that
a caller past its query holds an answer for the address at the head of its
batch, and that a caller who asks has not learned that address yet, so a failure
cannot take back what it was told.

`BgpCorrelation_proofs` proves `TypeCorrect`, `BoundariesAreThePath`,
`AddressKeepsAs`, `CausesAreTheScore` and `InterpretationIsOfHops` for traces of
any length over any addresses and AS numbers. The invariant ties the two
accumulators together (`prev_asn` is the last entry of `as_path`), relates the
cache to the hops that filled it, and keeps the causes hop by hop; the counts
follow from equal sets.

`Divergence_proofs` proves `TypeCorrect`, `NothingFromAhead`,
`StopsAtTheTarget` and `DivergenceIsCaused` for any protocols, targets,
filters, distances and limits. Every packet on the wire answers a probe of this
round or an earlier one (`WireIsAnswers`), so no task has heard of a router
from ahead (`StatusNotAhead`); and short of the target a task that listens has
its answer on the wire unless a router drops it, one that is silent had it lost
or dropped, and one that heard a rejection has a router on the path that
rejects some protocol (`StatusExplained`). `LoopBound` and `ReachedBeyond` say
why the loop goes on.

`HopTrace_proofs` proves `TypeCorrect`, `WrongHopsHaveCauses`,
`ShortTracesHaveFilters` and `BalancingHasCauses` for any routes, flows, filters
and limits. The first two properties depend
on what packets an undisturbed call can still hear. `Quiet` says that while
every probe was answered there is at most one packet about, the answer to the
present probe, and none between two probes; `Late` says that in a first trace,
whatever was lost, no packet comes from farther away than the present TTL and
one that would end the trace comes from a filter or the target.
`HopsExplained` keeps the two properties hop by hop; `ClosedEmpty` (a socket
that is not open holds nothing), `TestsWhenAsked` and `IdleDone` are what the
actions need besides.

`BalancingHasCauses` needs more than single hops. `BalInv` says that while every
probe was answered the hops of each trace follow its route without a gap and end
where the trace may end (`TracesWhole`), that the addresses the test has
collected are those of the flows tested so far at the hop tested
(`AddrsAreOfFlows`), and that the verdict is what those addresses say
(`LbKeeps`). Where all flows have one route, two such traces have the same
path.

`Measures_proofs` is about the modules that `MCMeasures` composes.

* `ResultsStayTyped`, `VerdictsAreFounded` and `ReadingsOfResultsAgree`, for any
  worlds, any number of callers and probe lists of any length. `MultiInv` keeps
  what each outcome was due to (`Evidence`) and that what is returned is what was
  collected (`Joined`). The code classifies filtered lists; `KindOf` gives the
  same verdict from which results exist and passed, which makes it plain that
  their order does not matter. What a fingerprint and its hash depend on is found
  in the same way.
* `StatisticsAreInOrder`, `BloatIsOfAnswers` and `ReorderingIsLoss`,
  for samples of any number and size. A sum is the last of its partial sums
  (`Sums`), so that the mean lies where the samples do, and the steps of the
  sorted samples add up to their range, which bounds the jitter. At least half of
  the answers reach the median (`HalfReachTheMedian`), which turns an increase of
  medians into answers that were slow. The samples are natural numbers and the
  divisions the integer ones of `Duration`. `Counted` is the invariant of the
  reordering counters: where the last answer was, and that each count is that of
  the answers that follow a loss. `LossesOf` counts the losses that takes.
* `ReportsAreOfTheServer`, for every server, comparison and place a read may end.
  The invariant says of each report what the property says, and `ParsedIs` that a
  cipher suite that was read lies behind the version.

`Lists_proofs` has what these proofs share. The library's induction theorems take
an operator as a parameter and cannot be used; induction is done on a set of
numbers instead (`SetInduction`, from the well-foundedness of `<` by way of
`LeastNatural`), and sums and filtered lists are functions and positions rather
than recursive operators. `PickKeeps` and `PickElements` say what a filter keeps
and in which order, `PowerOfTwo` how powers grow.

Each invariant and refinement that a passing run checks is proved. What they are
proved from are the named assumptions of the modules on their constants: that
options, calls and routes are of their types, that the kinds of addresses are
disjoint, and that the buffer holds a probe and an echo. Some properties carry a
premise, and promise nothing outside it: sizes whose sums fit (`SaneOptions`), no
mistaken answer (`confused`), calls that nothing disturbs (`Undisturbed`). The
steps of the network are those of the models, so what the models leave out is
left out here too.

Only model-checked: liveness, which TLAPS cannot prove under fairness. These are
`SessionsReturn`, `StopEndsRun`, `HandlersDrain`, `SearchReturns`,
`AnalysisReturns`, `CallsReturn` and `TracesReturn`.

## What is not modelled

* DNS (`dns.rs`): a call of an external resolver; an IPv4 address or an error
  are choices of every module that resolves a target.
* `error.rs`, `lib.rs`: types and re-exports without state.
* The command line: argument parsing, calls of the library one by one, printing.
* The single-probe builders of `probe.rs`, which pass their options on.
* The encoding of packets, checksums and payloads, and wording. Packets that
  are too short to parse are left out: a probe that reads one ends as a timeout
  or an error, which are in the models for other reasons.
* `ParisTraceResult::has_asymmetry`, a comparison of round-trip times, and
  latencies elsewhere than in `LatencyMeter`.
* `lb_detection_flows = 0`, with which the test has nothing to compare.
