------------------------------- MODULE AsnCache -------------------------------
(***************************************************************************)
(* bgp/asn_lookup.rs: one AsnLookup shared by several callers.             *)
(*                                                                         *)
(* The map is behind tokio's RwLock.  A lookup holds it to look for the    *)
(* address, lets it go, asks the registry over DNS for the origin and then *)
(* for the name of the AS, and takes it again to insert the answer.        *)
(* Anything may happen in between: the same address asked for by another   *)
(* caller, or the cache cleared.                                           *)
(*                                                                         *)
(* Of an AsnInfo only the number is kept.                                  *)
(***************************************************************************)
EXTENDS Integers, Sequences

CONSTANTS
    Callers,      \* the tasks that share the AsnLookup
    Private,      \* addresses for which is_private_ip holds
    Ipv6,         \* IPv6 addresses, for which there is no query
    Public,       \* the other addresses
    Asns,         \* the AS numbers the registry may answer with
    Batches       \* the arguments of lookup and lookup_batch

Addrs == Private \cup Ipv6 \cup Public

ASSUME AddrsAssumption ==
    /\ Private \cap (Ipv6 \cup Public) = {}
    /\ Ipv6 \cap Public = {}

ASSUME BatchesAssumption == Batches \subseteq Seq(Addrs)

VARIABLES
    cache,        \* AsnLookup::cache, a function on the addresses it holds
    pc,           \* pc[c]: where caller c is
    todo,         \* todo[c]: the addresses c has yet to look up
    info,         \* info[c]: the answer c is about to insert
    results,      \* results[c]: what its lookups returned, <<>> for an Err
    told,         \* history: the pairs <<address, AS>> the registry answered
    learned       \* history: learned[c]: what c was told since the last clear

vars == <<cache, pc, todo, info, results, told, learned>>

None == <<>>
Some(x) == <<x>>

EmptyMap == [a \in {} |-> None]

\* HashMap::insert: what the key had before is overwritten.
MapInsert(map, key, value) ==
    [k \in DOMAIN map \cup {key} |-> IF k = key THEN value ELSE map[k]]

\* Mutant of Readers: the guard lives to the end of the lookup.
ReadersToTheEnd == {c \in Callers : pc[c] \in {"reading", "origin", "name", "write"}}

\* The block around the check of the cache drops the guard before the query.
Readers == {c \in Callers : pc[c] = "reading"}

Writers == {c \in Callers : pc[c] \in {"writing", "clearing"}}

Init ==
    /\ cache = EmptyMap
    /\ pc = [c \in Callers |-> "idle"]
    /\ todo = [c \in Callers |-> <<>>]
    /\ info = [c \in Callers |-> None]
    /\ results = [c \in Callers |-> EmptyMap]
    /\ told = {}
    /\ learned = [c \in Callers |-> {}]

----------------------------------------------------------------------------
(* A lookup.                                                                *)

Goto(c, place) == pc' = [pc EXCEPT ![c] = place]

\* The lookup of the first address in todo[c] returns: the batch goes on with
\* the next one.
Return(c, result) ==
    /\ results' = [results EXCEPT ![c] = MapInsert(@, Head(todo[c]), result)]
    /\ todo' = [todo EXCEPT ![c] = Tail(@)]
    /\ info' = [info EXCEPT ![c] = None]
    /\ Goto(c, IF Len(todo[c]) = 1 THEN "idle" ELSE "lookup")

\* lookup is a batch of one.
Start(c, batch) ==
    /\ pc[c] = "idle"
    /\ todo' = [todo EXCEPT ![c] = batch]
    /\ results' = [results EXCEPT ![c] = EmptyMap]
    /\ Goto(c, IF batch = <<>> THEN "idle" ELSE "lookup")
    /\ UNCHANGED <<cache, info, told, learned>>

\* Private addresses are refused before the cache is looked at.
RefusesPrivate(c) ==
    /\ pc[c] = "lookup"
    /\ Head(todo[c]) \in Private
    /\ Return(c, None)
    /\ UNCHANGED <<cache, told, learned>>

\* cache.read().await
LocksForReading(c) ==
    /\ pc[c] = "lookup"
    /\ Head(todo[c]) \notin Private
    /\ Writers = {}
    /\ Goto(c, "reading")
    /\ UNCHANGED <<cache, todo, info, results, told, learned>>

Hit(c) ==
    /\ pc[c] = "reading"
    /\ Head(todo[c]) \in DOMAIN cache
    /\ Return(c, Some(cache[Head(todo[c])]))
    /\ learned' = [learned EXCEPT ![c] = @ \cup {Head(todo[c])}]
    /\ UNCHANGED <<cache, told>>

Miss(c) ==
    /\ pc[c] = "reading"
    /\ Head(todo[c]) \notin DOMAIN cache
    /\ Goto(c, "origin")
    /\ UNCHANGED <<cache, todo, info, results, told, learned>>

\* Mutant of OriginFails: the failure is cached as AS 0.
OriginFailsForGood(c) ==
    /\ pc[c] = "origin"
    /\ cache' = MapInsert(cache, Head(todo[c]), 0)
    /\ Return(c, None)
    /\ UNCHANGED <<told, learned>>

\* No IPv6 query, a DNS error, an answer that is not a number or no answer at
\* all: the `?` returns the error and nothing is cached.
OriginFails(c) ==
    /\ pc[c] = "origin"
    /\ Return(c, None)
    /\ UNCHANGED <<cache, told, learned>>

\* The registry's answer; it may be another one the next time.
OriginAnswers(c, asn) ==
    /\ pc[c] = "origin"
    /\ Head(todo[c]) \notin Ipv6
    /\ told' = told \cup {<<Head(todo[c]), asn>>}
    /\ info' = [info EXCEPT ![c] = Some(asn)]
    /\ Goto(c, "name")
    /\ UNCHANGED <<cache, todo, results, learned>>

\* lookup_as_name ends: its failure is ignored.
NameEnds(c) ==
    /\ pc[c] = "name"
    /\ Goto(c, "write")
    /\ UNCHANGED <<cache, todo, info, results, told, learned>>

\* Mutant of LocksForWriting: read() where write() is needed.
LocksForWritingShared(c) ==
    /\ pc[c] = "write"
    /\ Writers = {}
    /\ Goto(c, "writing")
    /\ UNCHANGED <<cache, todo, info, results, told, learned>>

\* cache.write().await
LocksForWriting(c) ==
    /\ pc[c] = "write"
    /\ Readers = {} /\ Writers = {}
    /\ Goto(c, "writing")
    /\ UNCHANGED <<cache, todo, info, results, told, learned>>

\* Mutant of Inserted: the map is replaced by the one entry.
InsertedAlone(c) == MapInsert(EmptyMap, Head(todo[c]), info[c][1])

\* Whatever another caller inserted for the address is overwritten.
Inserted(c) == MapInsert(cache, Head(todo[c]), info[c][1])

Insert(c) ==
    /\ pc[c] = "writing"
    /\ cache' = Inserted(c)
    /\ Return(c, info[c])
    /\ learned' = [learned EXCEPT ![c] = @ \cup {Head(todo[c])}]
    /\ UNCHANGED told

----------------------------------------------------------------------------
(* clear_cache.                                                             *)

StartClear(c) ==
    /\ pc[c] = "idle"
    /\ Goto(c, "clear")
    /\ UNCHANGED <<cache, todo, info, results, told, learned>>

LocksForClear(c) ==
    /\ pc[c] = "clear"
    /\ Readers = {} /\ Writers = {}
    /\ Goto(c, "clearing")
    /\ UNCHANGED <<cache, todo, info, results, told, learned>>

Clear(c) ==
    /\ pc[c] = "clearing"
    /\ cache' = EmptyMap
    /\ learned' = [d \in Callers |-> {}]
    /\ Goto(c, "idle")
    /\ UNCHANGED <<todo, info, results, told>>

----------------------------------------------------------------------------

\* What a caller does while it waits for nobody.
Works(c) ==
    \/ RefusesPrivate(c)
    \/ Hit(c)
    \/ Miss(c)
    \/ OriginFails(c)
    \/ \E asn \in Asns : OriginAnswers(c, asn)
    \/ NameEnds(c)
    \/ Insert(c)
    \/ Clear(c)

Locks(c) == LocksForReading(c) \/ LocksForWriting(c) \/ LocksForClear(c)

Calls(c) == (\E batch \in Batches : Start(c, batch)) \/ StartClear(c)

Next == \E c \in Callers : Calls(c) \/ Works(c) \/ Locks(c)

Spec == Init /\ [][Next]_vars

\* Every query ends, by an answer or by the resolver's own timeout, and the
\* lock is handed out in the order of the requests, so a caller that can have
\* it again and again gets it.  Nobody has to call.
Fairness == \A c \in Callers : WF_vars(Works(c)) /\ SF_vars(Locks(c))

FairSpec == Spec /\ Fairness

----------------------------------------------------------------------------
(* Properties.                                                              *)

\* What a lookup returns: Ok of an AS number, or an Err.
Answers == {None} \cup {Some(asn) : asn \in Asns}

Maps(values) == UNION {[D -> values] : D \in SUBSET Addrs}

\* Type invariant.  The lock has one writer or any number of readers.
TypeOK ==
    /\ cache \in Maps(Asns)
    /\ pc \in [Callers -> {"idle", "lookup", "reading", "origin", "name",
                           "write", "writing", "clear", "clearing"}]
    /\ todo \in [Callers -> Seq(Addrs)]
    /\ \A c \in Callers :
           pc[c] \in {"lookup", "reading", "origin", "name", "write", "writing"}
               <=> todo[c] # <<>>
    /\ info \in [Callers -> Answers]
    /\ results \in [Callers -> Maps(Answers)]
    /\ told \subseteq Addrs \X Asns
    /\ learned \in [Callers -> SUBSET Addrs]
    /\ \A c, d \in Writers : c = d
    /\ Writers = {} \/ Readers = {}

\* Whatever the callers interleave, an entry of the cache and an Ok are an
\* answer the registry gave for that very address; private and IPv6 addresses
\* never have one.
OnlyAnswers ==
    /\ \A a \in DOMAIN cache : <<a, cache[a]>> \in told
    /\ \A c \in Callers : \A a \in DOMAIN results[c] :
           results[c][a] # None => <<a, results[c][a][1]>> \in told
    /\ \A pair \in told : pair[1] \in Public

\* What a caller was told stays in the cache until somebody clears it: another
\* caller's insert does not evict it, and if the registry fails afterwards no
\* later lookup of the same caller does.
LearnedStaysAnswered ==
    \A c \in Callers : \A a \in learned[c] :
        /\ a \in DOMAIN cache
        /\ a \in DOMAIN results[c] => results[c][a] # None

\* Every lookup, batch and clear returns: no guard is held while another one
\* is waited for.
CallsReturn == \A c \in Callers : pc[c] # "idle" ~> pc[c] = "idle"

=============================================================================
