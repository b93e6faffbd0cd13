---------------------------- MODULE Bidirectional ----------------------------
(***************************************************************************)
(* bidirectional.rs: the echo server, its run loop and its detached        *)
(* connection handlers, and the client sessions of probe_bidirectional.    *)
(*                                                                         *)
(* TCP keeps no message boundaries.  Each direction of a connection is a   *)
(* sequence of bytes <<q, i>>: byte i of the message that carries sequence *)
(* number q.  Both ends read into a buffer of BufLen bytes, parse one      *)
(* message at the start of what one read returned and drop the rest, so    *)
(* where a read happens to end decides which messages exist for them.      *)
(*                                                                         *)
(* forward, reverse and round_trip are counted by the same statements, so  *)
(* one `sent` and one `samples` stand for the three DirectionStats;        *)
(* `received` is Len(samples).  A sample keeps the probe it was booked     *)
(* under (round_trip measures from that probe's send_time) and the echo    *)
(* it came from (forward and reverse use that echo's timestamps).          *)
(***************************************************************************)
EXTENDS Integers, Sequences, FiniteSets

CONSTANTS
    Clients,      \* the sessions of probe_bidirectional
    ProbeCount,   \* ProbeCount[c] = options.probe_count of session c
    ProbeLen,     \* ProbeMessage::SIZE
    EchoLen,      \* EchoMessage::SIZE
    BufLen        \* the read buffers' size

ASSUME CountsAssumption == ProbeCount \in [Clients -> Nat]

\* 18, 34 and 64 in the code: the buffer holds several probes, one echo and a
\* part of the next.
ASSUME LengthsAssumption ==
    /\ ProbeLen \in Nat \ {0}
    /\ EchoLen \in Nat \ {0}
    /\ BufLen \in Nat
    /\ ProbeLen <= BufLen
    /\ EchoLen <= BufLen

VARIABLES
    pc,           \* pc[c]: where session c is
    sent,         \* sent[c]: probes counted as sent
    samples,      \* samples[c]: the samples booked, in order
    link,         \* link[c]: the connection as the network keeps it
    toServer,     \* toServer[c]: bytes written by the client and not yet read
    toClient,     \* toClient[c]: bytes written by the handler and not yet read
    handler,      \* handler[c]: the spawned handle_connection task
    running,      \* BidirectionalServer::running
    loop,         \* where BidirectionalServer::run is
    probes_handled

clientVars == <<pc, sent, samples>>
serverVars == <<running, loop>>
vars == <<pc, sent, samples, link, toServer, toClient, handler, running, loop,
          probes_handled>>

MinOf(a, b) == IF a < b THEN a ELSE b

\* The bytes of the message that carries q.
Message(q, len) == [i \in 1..len |-> <<q, i>>]

\* Mutant of Parses: neither the magic nor the length is looked at.
ParsesAnything(chunk, len) == len > 0

\* from_bytes accepts a chunk that is long enough and starts with the magic,
\* which only the first byte of a message does.
Parses(chunk, len) == Len(chunk) >= len /\ chunk[1][2] = 1

Chunk(stream, n) == SubSeq(stream, 1, n)

Rest(stream, n) == SubSeq(stream, n + 1, Len(stream))

\* One read returns from 1 to BufLen of the bytes that have arrived.
ReadSizes(stream) == 1..MinOf(BufLen, Len(stream))

Init ==
    /\ pc = [c \in Clients |-> "connect"]
    /\ sent = [c \in Clients |-> 0]
    /\ samples = [c \in Clients |-> <<>>]
    /\ link = [c \in Clients |-> "none"]
    /\ toServer = [c \in Clients |-> <<>>]
    /\ toClient = [c \in Clients |-> <<>>]
    /\ handler = [c \in Clients |-> "absent"]
    /\ running = FALSE
    /\ loop = "idle"
    /\ probes_handled = 0

----------------------------------------------------------------------------
(* The client session.                                                      *)

\* Mutant of LoopHead: 0..=probe_count.
LoopHeadInclusive(c, count) == IF count <= ProbeCount[c] THEN "send" ELSE "done"

\* Where the loop goes once `count` probes are counted.  The interval between
\* probes changes no state.
LoopHead(c, count) == IF count < ProbeCount[c] THEN "send" ELSE "done"

\* The kernel completes the handshake as long as the listener exists, whether
\* or not run is accepting.
Connect(c) ==
    /\ pc[c] = "connect"
    /\ pc' = [pc EXCEPT ![c] = LoopHead(c, 0)]
    /\ link' = [link EXCEPT ![c] = "up"]
    /\ UNCHANGED <<sent, samples, toServer, toClient, handler, serverVars,
                   probes_handled>>

\* Resolution or connection fails or times out: Err before any probe.
ConnectFails(c) ==
    /\ pc[c] = "connect"
    /\ pc' = [pc EXCEPT ![c] = "failed"]
    /\ UNCHANGED <<sent, samples, link, toServer, toClient, handler,
                   serverVars, probes_handled>>

\* write_all returns once the kernel has taken the bytes, and has no timeout:
\* while earlier probes are unread it may have no room and wait for ever.
WriteMayWait(c) ==
    /\ pc[c] = "send"
    /\ link[c] = "up"
    /\ toServer[c] # <<>>

SendProbe(c) ==
    /\ pc[c] = "send"
    /\ link[c] = "up"
    /\ sent' = [sent EXCEPT ![c] = @ + 1]
    /\ toServer' = [toServer EXCEPT ![c] = @ \o Message(sent[c], ProbeLen)]
    /\ pc' = [pc EXCEPT ![c] = "await"]
    /\ UNCHANGED <<samples, link, toClient, handler, serverVars,
                   probes_handled>>

\* write_all fails: the probe is counted as sent and the loop goes on.
SendFails(c) ==
    /\ pc[c] = "send"
    /\ link[c] = "reset"
    /\ sent' = [sent EXCEPT ![c] = @ + 1]
    /\ pc' = [pc EXCEPT ![c] = LoopHead(c, sent[c] + 1)]
    /\ UNCHANGED <<samples, link, toServer, toClient, handler, serverVars,
                   probes_handled>>

\* The samples after one read of n bytes: one more if the chunk parses, booked
\* under the probe just sent whatever the echo's own number is.
Book(c, n) ==
    LET chunk == Chunk(toClient[c], n)
    IN IF Parses(chunk, EchoLen)
       THEN Append(samples[c], [probe |-> sent[c] - 1, echo |-> chunk[1][1]])
       ELSE samples[c]

ReadEcho(c, n) ==
    /\ pc[c] = "await"
    /\ samples' = [samples EXCEPT ![c] = Book(c, n)]
    /\ toClient' = [toClient EXCEPT ![c] = Rest(@, n)]
    /\ pc' = [pc EXCEPT ![c] = LoopHead(c, sent[c])]
    /\ UNCHANGED <<sent, link, toServer, handler, serverVars, probes_handled>>

\* Mutant of ReadGivesUp: the read is not under a timeout.
ReadGivesUpWithoutTimeout(c) ==
    /\ pc[c] = "await"
    /\ link[c] = "reset"
    /\ pc' = [pc EXCEPT ![c] = LoopHead(c, sent[c])]
    /\ UNCHANGED <<sent, samples, link, toServer, toClient, handler,
                   serverVars, probes_handled>>

\* The read times out, or returns an error or end of file: the probe is lost.
\* Bytes that are on their way stay on their way.
ReadGivesUp(c) ==
    /\ pc[c] = "await"
    /\ pc' = [pc EXCEPT ![c] = LoopHead(c, sent[c])]
    /\ UNCHANGED <<sent, samples, link, toServer, toClient, handler,
                   serverVars, probes_handled>>

----------------------------------------------------------------------------
(* The network.                                                             *)

\* The end of a session that closed its stream reaches the server, after all
\* its bytes.  It may never arrive: the client's host can vanish.
EndArrives(c) ==
    /\ pc[c] = "done"
    /\ link[c] = "up"
    /\ link' = [link EXCEPT ![c] = "closed"]
    /\ UNCHANGED <<clientVars, toServer, toClient, handler, serverVars,
                   probes_handled>>

\* The connection is reset.  The client can still read what had reached it; a
\* handler that reads on cannot write an echo any more, so what had reached it
\* makes no difference.
Reset(c) ==
    /\ link[c] \in {"up", "closed"}
    /\ link' = [link EXCEPT ![c] = "reset"]
    /\ toServer' = [toServer EXCEPT ![c] = <<>>]
    /\ \E n \in 0..Len(toClient[c]) :
           toClient' = [toClient EXCEPT ![c] = Chunk(@, n)]
    /\ UNCHANGED <<clientVars, handler, serverVars, probes_handled>>

----------------------------------------------------------------------------
(* A connection handler.                                                    *)

\* One read of n bytes whose start is a probe: its echo is written.  A session
\* that has ended does not make the write fail, only a reset does.
HandlerEchoes(c, n) ==
    /\ handler[c] = "reading"
    /\ link[c] \in {"up", "closed"}
    /\ LET chunk == Chunk(toServer[c], n)
       IN /\ Parses(chunk, ProbeLen)
          /\ toClient' = [toClient EXCEPT
                            ![c] = @ \o Message(chunk[1][1], EchoLen)]
    /\ toServer' = [toServer EXCEPT ![c] = Rest(@, n)]
    /\ handler' = [handler EXCEPT ![c] = "counting"]
    /\ UNCHANGED <<clientVars, link, serverVars, probes_handled>>

\* One read of n bytes that do not parse.
HandlerDrops(c, n) ==
    /\ handler[c] = "reading"
    /\ ~Parses(Chunk(toServer[c], n), ProbeLen)
    /\ toServer' = [toServer EXCEPT ![c] = Rest(@, n)]
    /\ UNCHANGED <<clientVars, link, toClient, handler, serverVars,
                   probes_handled>>

\* Mutant of HandlerCounts: the increment is lost.
HandlerLosesCount(c) ==
    /\ handler[c] = "counting"
    /\ handler' = [handler EXCEPT ![c] = "reading"]
    /\ UNCHANGED <<clientVars, link, toServer, toClient, serverVars,
                   probes_handled>>

\* probes_handled.fetch_add, a step of its own after write_all returned.
HandlerCounts(c) ==
    /\ handler[c] = "counting"
    /\ probes_handled' = probes_handled + 1
    /\ handler' = [handler EXCEPT ![c] = "reading"]
    /\ UNCHANGED <<clientVars, link, toServer, toClient, serverVars>>

\* Mutant of HandlerEnds: only an error ends the loop, Ok(0) reads on.
HandlerEndsOnErrorOnly(c) ==
    /\ handler[c] = "reading"
    /\ toServer[c] = <<>>
    /\ link[c] = "reset"
    /\ handler' = [handler EXCEPT ![c] = "closed"]
    /\ UNCHANGED <<clientVars, link, toServer, toClient, serverVars,
                   probes_handled>>

\* Nothing is left and the end of the stream, or the reset, has arrived: read
\* returns 0 or an error.
HandlerEnds(c) ==
    /\ handler[c] = "reading"
    /\ toServer[c] = <<>>
    /\ link[c] \in {"closed", "reset"}
    /\ handler' = [handler EXCEPT ![c] = "closed"]
    /\ UNCHANGED <<clientVars, link, toServer, toClient, serverVars,
                   probes_handled>>

----------------------------------------------------------------------------
(* The run loop and stop.                                                   *)

serverUnchanged == UNCHANGED <<clientVars, link, toServer, toClient,
                               probes_handled>>

\* run may be called again after it returned.
RunStarts ==
    /\ loop \in {"idle", "ok", "err"}
    /\ running' = TRUE
    /\ loop' = "check"
    /\ UNCHANGED handler
    /\ serverUnchanged

Stop ==
    /\ running' = FALSE
    /\ UNCHANGED <<loop, handler>>
    /\ serverUnchanged

\* Mutant of LoopChecks: loop { .. } instead of while running.
LoopNeverChecks ==
    /\ loop = "check"
    /\ loop' = "accept"
    /\ UNCHANGED <<running, handler>>
    /\ serverUnchanged

\* while self.running.load(..)
LoopChecks ==
    /\ loop = "check"
    /\ loop' = IF running THEN "accept" ELSE "ok"
    /\ UNCHANGED <<running, handler>>
    /\ serverUnchanged

\* A completed handshake is taken from the backlog and its handler spawned,
\* even if stop came while accept was waiting.
Accepts(c) ==
    /\ loop = "accept"
    /\ link[c] # "none"
    /\ handler[c] = "absent"
    /\ handler' = [handler EXCEPT ![c] = "reading"]
    /\ loop' = "check"
    /\ UNCHANGED running
    /\ serverUnchanged

\* Nothing to accept within 100 ms.
AcceptTimesOut ==
    /\ loop = "accept"
    /\ loop' = "check"
    /\ UNCHANGED <<running, handler>>
    /\ serverUnchanged

\* accept fails: run returns Err, unless it was stopped meanwhile.  `running`
\* is left as it is.
AcceptFails ==
    /\ loop = "accept"
    /\ loop' = IF running THEN "err" ELSE "check"
    /\ UNCHANGED <<running, handler>>
    /\ serverUnchanged

----------------------------------------------------------------------------

ClientStep(c) ==
    \/ Connect(c)
    \/ ConnectFails(c)
    \/ SendProbe(c)
    \/ SendFails(c)
    \/ \E n \in ReadSizes(toClient[c]) : ReadEcho(c, n)
    \/ ReadGivesUp(c)

HandlerStep(c) ==
    \/ \E n \in ReadSizes(toServer[c]) : HandlerEchoes(c, n)
    \/ \E n \in ReadSizes(toServer[c]) : HandlerDrops(c, n)
    \/ HandlerCounts(c)
    \/ HandlerEnds(c)

NetworkStep(c) == EndArrives(c) \/ Reset(c)

LoopStep ==
    \/ LoopChecks
    \/ \E c \in Clients : Accepts(c)
    \/ AcceptTimesOut
    \/ AcceptFails

Next ==
    \/ \E c \in Clients : ClientStep(c) \/ HandlerStep(c) \/ NetworkStep(c)
    \/ RunStarts
    \/ Stop
    \/ LoopStep

Spec == Init /\ [][Next]_vars

\* The runtime polls every task it holds.  What is bounded by a timeout goes
\* on: the session's connect and reads, and accept.  What is not is fair only
\* where it cannot wait: write_all of a probe, unless unread probes may fill
\* the connection; the handler's read and write, once the end or the reset is
\* there.  The network owes nothing, and nobody has to call run or stop.
Fairness ==
    /\ \A c \in Clients :
           /\ WF_vars(~WriteMayWait(c) /\ ClientStep(c))
           /\ WF_vars(HandlerCounts(c))
           /\ WF_vars(link[c] \in {"closed", "reset"} /\ HandlerStep(c))
    /\ WF_vars(LoopStep)

FairSpec == Spec /\ Fairness

----------------------------------------------------------------------------
(* Properties.                                                              *)

\* Type invariant.
TypeOK ==
    /\ pc \in [Clients -> {"connect", "send", "await", "done", "failed"}]
    /\ sent \in [Clients -> Nat]
    /\ \A c \in Clients : sent[c] <= ProbeCount[c]
    /\ samples \in [Clients -> Seq([probe : Nat, echo : Nat])]
    /\ link \in [Clients -> {"none", "up", "closed", "reset"}]
    /\ toServer \in [Clients -> Seq(Nat \X (1..ProbeLen))]
    /\ toClient \in [Clients -> Seq(Nat \X (1..EchoLen))]
    /\ handler \in [Clients -> {"absent", "reading", "counting", "closed"}]
    /\ running \in BOOLEAN
    /\ loop \in {"idle", "check", "accept", "ok", "err"}
    /\ probes_handled \in Nat

\* Whatever is late, lost or cut in pieces, no echo is booked twice, no probe
\* has two samples, and no echo is booked before its own probe was counted as
\* sent.  So received never exceeds sent, and the u32 subtraction of
\* loss_percent cannot underflow.
SamplesInOrder ==
    \A c \in Clients :
        /\ Len(samples[c]) <= sent[c]
        /\ \A i \in DOMAIN samples[c] :
               /\ samples[c][i].echo <= samples[c][i].probe
               /\ samples[c][i].probe < sent[c]
        /\ \A i, j \in DOMAIN samples[c] :
               i < j => /\ samples[c][i].probe < samples[c][j].probe
                        /\ samples[c][i].echo < samples[c][j].echo

\* Over all sessions, no more echoes are booked than the server's handlers
\* wrote: those probes_handled already counts, and one more for each handler
\* between its write_all and its fetch_add.  probes_handled read by itself
\* may be behind what the sessions have received.
ReceivedWereHandled ==
    Cardinality(UNION {{c} \X DOMAIN samples[c] : c \in Clients})
        <= probes_handled
             + Cardinality({c \in Clients : handler[c] = "counting"})

\* The round-trip sample of a probe is measured on that probe's own echo:
\* what the comments of probe_bidirectional and the names of the fields say.
RoundTripIsOwnEcho ==
    \A c \in Clients : \A i \in DOMAIN samples[c] :
        samples[c][i].echo = samples[c][i].probe

\* Whatever the server and the network lose or delay, a session returns, with
\* a result or an error, or else waits for ever in write_all, the one await
\* that options.timeout does not bound, on a server that does not read.
SessionsReturn ==
    \A c \in Clients :
        <>(pc[c] \in {"done", "failed"}) \/ <>[]WriteMayWait(c)

\* Once running is cleared under run's loop, run returns: by the check after
\* the accept timeout, after one more connection, or after an accept error.
StopEndsRun ==
    (loop \in {"check", "accept"} /\ ~running) ~> (loop \in {"ok", "err"})

\* Once the end of the session or a reset has reached the server, the handler
\* drains what was written and ends, whether or not run has returned.  Its read
\* has no timeout: a handler whose client vanished without either stays.
HandlersDrain ==
    \A c \in Clients :
        (handler[c] \in {"reading", "counting"} /\ link[c] \in {"closed", "reset"})
            ~> (handler[c] = "closed")

----------------------------------------------------------------------------
(* The ledger a session keeps.                                              *)

Settled(c) == IF pc[c] = "await" THEN sent[c] - 1 ELSE sent[c]

SamplesOf(c, q) == {i \in DOMAIN samples[c] : samples[c][i].probe = q}

Verdicts(c) ==
    [k \in 1..Settled(c) |->
        LET own == SamplesOf(c, k - 1)
        IN IF own = {} THEN -1 ELSE samples[c][CHOOSE i \in own : TRUE].echo]

Ledger == INSTANCE ProbeLedger
            WITH Lost <- -1, issued <- sent,
                 verdicts <- [c \in Clients |-> Verdicts(c)]

\* A session keeps its books like ProbeLedger: one verdict per probe, no echo
\* credited twice, early or out of order.
KeepsLedger == Ledger!Spec

=============================================================================
