---------------------------- MODULE AsnCache_proofs ----------------------------
(***************************************************************************)
(* AsnLookup for any number of callers, addresses and batches.             *)
(*                                                                         *)
(* What a caller knows across its queries is what the cache cannot tell:   *)
(* its answer is the registry's for the address at the head of its batch,  *)
(* that address is not private, and it has not learned it yet.             *)
(***************************************************************************)
EXTENDS AsnCache, SequenceTheorems, TLAPS

Places == {"idle", "lookup", "reading", "origin", "name", "write", "writing",
           "clear", "clearing"}

Busy == {"lookup", "reading", "origin", "name", "write", "writing"}

Asking == {"origin", "name", "write", "writing"}

CallerInv(c) ==
    /\ pc[c] \in Asking \cup {"reading"} => Head(todo[c]) \notin Private
    /\ pc[c] \in Asking => Head(todo[c]) \notin learned[c]
    /\ pc[c] \in {"name", "write", "writing"} =>
           info[c] # None /\ <<Head(todo[c]), info[c][1]>> \in told

IInv ==
    /\ TypeOK
    /\ OnlyAnswers
    /\ LearnedStaysAnswered
    /\ \A c \in Callers : CallerInv(c)

----------------------------------------------------------------------------
(* Maps and batches.                                                        *)

\* insert keeps a map of values of one kind such a map.
LEMMA MapInsertType ==
    ASSUME NEW V, NEW map \in Maps(V), NEW key \in Addrs, NEW value \in V
    PROVE  MapInsert(map, key, value) \in Maps(V)
<1>1. PICK D \in SUBSET Addrs : map \in [D -> V]
  BY DEF Maps
<1>2. MapInsert(map, key, value) \in [D \cup {key} -> V]
  BY <1>1 DEF MapInsert
<1>3. D \cup {key} \in SUBSET Addrs
  BY <1>1
<1> QED  BY <1>2, <1>3 DEF Maps

\* A new map holds nothing.
LEMMA EmptyMapIs ==
    ASSUME NEW V
    PROVE  EmptyMap \in Maps(V) /\ DOMAIN EmptyMap = {}
<1>1. EmptyMap \in [{} -> V] /\ DOMAIN EmptyMap = {}
  BY DEF EmptyMap
<1>2. {} \in SUBSET Addrs
  OBVIOUS
<1> QED  BY <1>1, <1>2 DEF Maps

\* The keys of a map are addresses and its values of its kind.
LEMMA MapDomain ==
    ASSUME NEW V, NEW map \in Maps(V)
    PROVE  DOMAIN map \subseteq Addrs /\ \A a \in DOMAIN map : map[a] \in V
  BY DEF Maps

\* A batch under way has an address at its head.
LEMMA HeadIs ==
    ASSUME TypeOK, NEW c \in Callers,
           pc[c] \in {"lookup", "reading", "origin", "name", "write", "writing"}
    PROVE  /\ todo[c] \in Seq(Addrs) /\ todo[c] # <<>>
           /\ Head(todo[c]) \in Addrs
           /\ Tail(todo[c]) \in Seq(Addrs)
           /\ Tail(todo[c]) = <<>> <=> Len(todo[c]) = 1
<1>1. todo[c] \in Seq(Addrs) /\ todo[c] # <<>>
  BY DEF TypeOK
<1>2. /\ Head(todo[c]) \in Addrs
      /\ Tail(todo[c]) \in Seq(Addrs)
      /\ Len(Tail(todo[c])) = Len(todo[c]) - 1
      /\ Len(todo[c]) \in Nat
  BY <1>1, HeadTailProperties, LenProperties
<1>3. Tail(todo[c]) = <<>> <=> Len(Tail(todo[c])) = 0
  BY <1>2, EmptySeq
<1>4. Len(todo[c]) - 1 = 0 <=> Len(todo[c]) = 1
  BY <1>2
<1> HIDE DEF TypeOK
<1>5. Tail(todo[c]) = <<>> <=> Len(todo[c]) = 1
  BY <1>2, <1>3, <1>4
<1> QED  BY <1>1, <1>2, <1>5

\* The end of one lookup.
LEMMA ReturnIs ==
    ASSUME TypeOK, NEW c \in Callers, NEW result \in Answers,
           pc[c] \in {"lookup", "reading", "origin", "name", "write", "writing"},
           Return(c, result)
    PROVE  /\ todo' \in [Callers -> Seq(Addrs)]
           /\ info' \in [Callers -> Answers]
           /\ results' \in [Callers -> Maps(Answers)]
           /\ pc' \in [Callers -> {"idle", "lookup", "reading", "origin", "name",
                                   "write", "writing", "clear", "clearing"}]
           /\ pc'[c] = IF todo'[c] = <<>> THEN "idle" ELSE "lookup"
           /\ \A d \in Callers \ {c} :
                  /\ pc'[d] = pc[d] /\ todo'[d] = todo[d]
                  /\ info'[d] = info[d] /\ results'[d] = results[d]
           /\ DOMAIN results'[c] = DOMAIN results[c] \cup {Head(todo[c])}
           /\ results'[c][Head(todo[c])] = result
           /\ \A a \in DOMAIN results[c] \ {Head(todo[c])} :
                  results'[c][a] = results[c][a]
<1>1. /\ todo[c] \in Seq(Addrs) /\ Head(todo[c]) \in Addrs
      /\ Tail(todo[c]) \in Seq(Addrs)
      /\ Tail(todo[c]) = <<>> <=> Len(todo[c]) = 1
  BY HeadIs
<1>2. results[c] \in Maps(Answers)
  BY DEF TypeOK
<1> PICK h \in Addrs : h = Head(todo[c])
  BY <1>1
<1> DEFINE new == MapInsert(results[c], h, result)
<1>3. /\ DOMAIN new = DOMAIN results[c] \cup {h}
      /\ new[h] = result
      /\ \A a \in DOMAIN results[c] \ {h} : new[a] = results[c][a]
  BY DEF MapInsert
<1>9. new \in Maps(Answers)
  BY <1>2, MapInsertType
<1>4. results' = [results EXCEPT ![c] = new]
  BY DEF Return
<1> HIDE DEF new
<1>5. results' \in [Callers -> Maps(Answers)] /\ results'[c] = new
      /\ \A d \in Callers \ {c} : results'[d] = results[d]
  BY <1>4, <1>9 DEF TypeOK
<1>6. None \in Answers
  BY DEF Answers
<1>7. /\ todo' \in [Callers -> Seq(Addrs)] /\ todo'[c] = Tail(todo[c])
      /\ info' \in [Callers -> Answers]
      /\ \A d \in Callers \ {c} : todo'[d] = todo[d] /\ info'[d] = info[d]
  BY <1>1, <1>6 DEF Return, TypeOK
<1>8. /\ pc' = [pc EXCEPT ![c] = IF Len(todo[c]) = 1 THEN "idle" ELSE "lookup"]
      /\ pc \in [Callers -> {"idle", "lookup", "reading", "origin", "name",
                             "write", "writing", "clear", "clearing"}]
  BY DEF Return, Goto, TypeOK
<1> QED  BY <1>1, <1>3, <1>5, <1>7, <1>8

----------------------------------------------------------------------------
(* The invariant.                                                           *)

\* The invariant holds before any call.
LEMMA InitInv ==
    ASSUME Init
    PROVE  IInv
<1>1. cache \in Maps(Asns) /\ DOMAIN cache = {}
  BY EmptyMapIs DEF Init
<1>2. results \in [Callers -> Maps(Answers)] /\ \A c \in Callers : DOMAIN results[c] = {}
  BY EmptyMapIs DEF Init
<1>3. TypeOK
  BY <1>1, <1>2 DEF Init, TypeOK, Answers, Readers, Writers
<1>4. OnlyAnswers /\ LearnedStaysAnswered
  BY <1>1, <1>2 DEF Init, OnlyAnswers, LearnedStaysAnswered
<1>5. \A c \in Callers : CallerInv(c)
  BY DEF Init, CallerInv, Asking
<1> QED  BY <1>3, <1>4, <1>5 DEF IInv

\* A step by which caller c returns from a lookup with the cache as it is.
LEMMA ReturnKeepsInv ==
    ASSUME IInv, NEW c \in Callers, NEW result \in Answers,
           pc[c] \in {"lookup", "reading", "origin"}, Return(c, result),
           UNCHANGED <<cache, told>>, NEW more \in SUBSET {Head(todo[c])},
           learned' = [learned EXCEPT ![c] = @ \cup more],
           result # None => <<Head(todo[c]), result[1]>> \in told,
           result = None => more = {} /\ Head(todo[c]) \notin learned[c],
           more \subseteq DOMAIN cache
    PROVE  IInv'
<1>1. TypeOK /\ Head(todo[c]) \in Addrs
  BY HeadIs DEF IInv
<1>2. /\ todo' \in [Callers -> Seq(Addrs)]
      /\ info' \in [Callers -> Answers]
      /\ results' \in [Callers -> Maps(Answers)]
      /\ pc' \in [Callers -> {"idle", "lookup", "reading", "origin", "name",
                              "write", "writing", "clear", "clearing"}]
      /\ pc'[c] = IF todo'[c] = <<>> THEN "idle" ELSE "lookup"
      /\ \A d \in Callers \ {c} :
             /\ pc'[d] = pc[d] /\ todo'[d] = todo[d]
             /\ info'[d] = info[d] /\ results'[d] = results[d]
      /\ DOMAIN results'[c] = DOMAIN results[c] \cup {Head(todo[c])}
      /\ results'[c][Head(todo[c])] = result
      /\ \A a \in DOMAIN results[c] \ {Head(todo[c])} :
             results'[c][a] = results[c][a]
  BY <1>1, ReturnIs
<1>3. /\ learned' \in [Callers -> SUBSET Addrs]
      /\ learned'[c] = learned[c] \cup more
      /\ \A d \in Callers \ {c} : learned'[d] = learned[d]
  BY <1>1 DEF TypeOK
<1>4. Readers' \subseteq Readers /\ Writers' \subseteq Writers
  BY <1>2 DEF Readers, Writers
<1>5. TypeOK'
  BY <1>1, <1>2, <1>3, <1>4 DEF TypeOK
<1>6. OnlyAnswers'
  <2>1. OnlyAnswers /\ cache' = cache /\ told' = told
    BY DEF IInv
  <2>2. ASSUME NEW a \in DOMAIN results'[c], results'[c][a] # None
        PROVE  <<a, results'[c][a][1]>> \in told
    <3>1. CASE a = Head(todo[c])
      BY <1>2, <2>2, <3>1
    <3>2. CASE a # Head(todo[c])
      BY <1>2, <2>1, <2>2, <3>2 DEF OnlyAnswers
    <3> QED  BY <3>1, <3>2
  <2>3. ASSUME NEW d \in Callers \ {c}, NEW a \in DOMAIN results'[d], results'[d][a] # None
        PROVE  <<a, results'[d][a][1]>> \in told
    BY <1>2, <2>1, <2>3 DEF OnlyAnswers
  <2> QED  BY <2>1, <2>2, <2>3 DEF OnlyAnswers
<1>7. LearnedStaysAnswered'
  <2>1. LearnedStaysAnswered /\ cache' = cache
    BY DEF IInv
  <2>2. ASSUME NEW a \in learned'[c]
        PROVE  a \in DOMAIN cache /\ (a \in DOMAIN results'[c] => results'[c][a] # None)
    <3>1. CASE a = Head(todo[c])
      BY <1>2, <1>3, <2>1, <2>2, <3>1 DEF LearnedStaysAnswered
    <3>2. CASE a # Head(todo[c])
      <4>1. a \in learned[c]
        BY <1>3, <2>2, <3>2
      <4> QED  BY <1>2, <2>1, <3>2, <4>1 DEF LearnedStaysAnswered
    <3> QED  BY <3>1, <3>2
  <2>3. ASSUME NEW d \in Callers \ {c}, NEW a \in learned'[d]
        PROVE  a \in DOMAIN cache /\ (a \in DOMAIN results'[d] => results'[d][a] # None)
    <3>1. a \in learned[d] /\ results'[d] = results[d]
      BY <1>2, <1>3, <2>3
    <3> QED  BY <2>1, <3>1 DEF LearnedStaysAnswered
  <2> QED  BY <2>1, <2>2, <2>3 DEF LearnedStaysAnswered
<1>8. \A d \in Callers : CallerInv(d)'
  BY <1>2, <1>3 DEF IInv, CallerInv, Asking
<1> QED  BY <1>5, <1>6, <1>7, <1>8 DEF IInv

\* A step by which caller c goes to another place and nothing else happens.
LEMMA GotoKeepsInv ==
    ASSUME IInv, NEW c \in Callers, NEW place \in Places, Goto(c, place),
           UNCHANGED <<cache, todo, info, results, told, learned>>,
           place \in Busy <=> pc[c] \in Busy,
           place \in Asking \cup {"reading"} => Head(todo[c]) \notin Private,
           place \in Asking => Head(todo[c]) \notin learned[c],
           place \in {"name", "write", "writing"} => pc[c] \in {"name", "write", "writing"},
           place = "reading" => Writers = {},
           place \in {"writing", "clearing"} => Readers = {} /\ Writers = {}
    PROVE  IInv'
<1>1. /\ pc' \in [Callers -> Places]
      /\ pc'[c] = place
      /\ \A d \in Callers \ {c} : pc'[d] = pc[d]
  BY DEF IInv, TypeOK, Goto, Places
<1>2. /\ Writers' = IF place \in {"writing", "clearing"} THEN {c} ELSE Writers \ {c}
      /\ Readers' = IF place = "reading" THEN Readers \cup {c} ELSE Readers \ {c}
  <2>1. /\ \A d \in Callers \ {c} : (d \in Writers' <=> d \in Writers)
                                 /\ (d \in Readers' <=> d \in Readers)
        /\ c \in Writers' <=> place \in {"writing", "clearing"}
        /\ c \in Readers' <=> place = "reading"
    BY <1>1 DEF Writers, Readers
  <2>2. Writers \subseteq Callers /\ Readers \subseteq Callers
        /\ Writers' \subseteq Callers /\ Readers' \subseteq Callers
    BY DEF Writers, Readers
  <2> QED  BY <2>1, <2>2
<1>3. TypeOK'
  BY <1>1, <1>2 DEF IInv, TypeOK, Busy, Places
<1>4. OnlyAnswers' /\ LearnedStaysAnswered'
  BY DEF IInv, OnlyAnswers, LearnedStaysAnswered
<1>5. \A d \in Callers : CallerInv(d)'
  BY <1>1 DEF IInv, CallerInv, Asking
<1> QED  BY <1>3, <1>4, <1>5 DEF IInv

\* A caller begins a batch: it has learned nothing yet.
LEMMA StartKeepsInv ==
    ASSUME IInv, NEW c \in Callers, NEW batch \in Batches, Start(c, batch)
    PROVE  IInv'
<1>1. batch \in Seq(Addrs)
  BY BatchesAssumption
<1>2. /\ todo' = [todo EXCEPT ![c] = batch]
      /\ results' = [results EXCEPT ![c] = EmptyMap]
      /\ pc' = [pc EXCEPT ![c] = IF batch = <<>> THEN "idle" ELSE "lookup"]
      /\ UNCHANGED <<cache, info, told, learned>>
      /\ pc[c] = "idle"
  BY DEF Start, Goto
<1>3. EmptyMap \in Maps(Answers) /\ DOMAIN EmptyMap = {}
  BY EmptyMapIs
<1>4. /\ todo' \in [Callers -> Seq(Addrs)]
      /\ results' \in [Callers -> Maps(Answers)]
      /\ DOMAIN results'[c] = {}
      /\ \A d \in Callers \ {c} : results'[d] = results[d]
  BY <1>1, <1>2, <1>3 DEF IInv, TypeOK
<1>5. Writers' = Writers /\ Readers' = Readers
  BY <1>2 DEF IInv, TypeOK, Writers, Readers
<1>6. TypeOK'
  BY <1>2, <1>4, <1>5 DEF IInv, TypeOK
<1>7. OnlyAnswers'
  BY <1>2, <1>4 DEF IInv, OnlyAnswers
<1>8. LearnedStaysAnswered'
  BY <1>2, <1>4 DEF IInv, LearnedStaysAnswered
<1>9. \A d \in Callers : CallerInv(d)'
  BY <1>2 DEF IInv, TypeOK, CallerInv, Asking
<1> QED  BY <1>6, <1>7, <1>8, <1>9 DEF IInv

\* The registry answers: the answer is the caller's, not yet the cache's.
LEMMA OriginAnswersKeepsInv ==
    ASSUME IInv, NEW c \in Callers, NEW asn \in Asns, OriginAnswers(c, asn)
    PROVE  IInv'
<1>1. /\ pc[c] = "origin" /\ Head(todo[c]) \notin Ipv6
      /\ told' = told \cup {<<Head(todo[c]), asn>>}
      /\ info' = [info EXCEPT ![c] = <<asn>>]
      /\ pc' = [pc EXCEPT ![c] = "name"]
      /\ UNCHANGED <<cache, todo, results, learned>>
  BY DEF OriginAnswers, Goto, Some
<1>2. /\ Head(todo[c]) \in Addrs /\ Head(todo[c]) \notin Private
      /\ Head(todo[c]) \notin learned[c]
  BY <1>1, HeadIs DEF IInv, CallerInv, Asking
<1>3. Head(todo[c]) \in Public
  BY <1>1, <1>2 DEF Addrs
<1>4. <<asn>> \in Answers /\ <<asn>> # None /\ <<asn>>[1] = asn
  BY DEF Answers, Some, None
<1>5. Writers' = Writers /\ Readers' = Readers
  BY <1>1 DEF IInv, TypeOK, Writers, Readers
<1>6. TypeOK'
  <2>1. /\ info' \in [Callers -> Answers] /\ told' \subseteq Addrs \X Asns
        /\ pc' \in [Callers -> Places]
    BY <1>1, <1>2, <1>4 DEF IInv, TypeOK, Places
  <2>2. \A d \in Callers : pc'[d] \in Busy <=> todo'[d] # <<>>
    BY <1>1 DEF IInv, TypeOK, Busy
  <2> QED  BY <1>1, <1>5, <2>1, <2>2 DEF IInv, TypeOK, Places, Busy
<1>7. OnlyAnswers'
  BY <1>1, <1>3 DEF IInv, OnlyAnswers
<1>8. LearnedStaysAnswered'
  BY <1>1 DEF IInv, LearnedStaysAnswered
<1>9. \A d \in Callers : CallerInv(d)'
  <2>1. CallerInv(c)'
    <3>1. /\ pc'[c] = "name" /\ info'[c] = <<asn>> /\ todo'[c] = todo[c]
          /\ learned'[c] = learned[c]
      BY <1>1 DEF IInv, TypeOK
    <3>2. <<Head(todo[c]), asn>> \in told'
      BY <1>1
    <3> QED  BY <1>2, <1>4, <3>1, <3>2 DEF CallerInv, Asking
  <2>2. ASSUME NEW d \in Callers \ {c}
        PROVE  CallerInv(d)'
    <3>1. /\ pc'[d] = pc[d] /\ info'[d] = info[d] /\ todo'[d] = todo[d]
          /\ learned'[d] = learned[d] /\ told \subseteq told'
      BY <1>1 DEF IInv, TypeOK
    <3> QED  BY <3>1 DEF IInv, CallerInv
  <2> QED  BY <2>1, <2>2
<1> QED  BY <1>6, <1>7, <1>8, <1>9 DEF IInv

\* The answer is put in the cache under the write lock and told.
LEMMA InsertKeepsInv ==
    ASSUME IInv, NEW c \in Callers, Insert(c)
    PROVE  IInv'
<1>1. /\ pc[c] = "writing" /\ Return(c, info[c]) /\ told' = told
      /\ cache' = MapInsert(cache, Head(todo[c]), info[c][1])
      /\ learned' = [learned EXCEPT ![c] = @ \cup {Head(todo[c])}]
  BY DEF Insert, Inserted
<1>2. /\ TypeOK /\ OnlyAnswers /\ LearnedStaysAnswered
      /\ Head(todo[c]) \in Addrs
      /\ info[c] \in Answers /\ info[c] # None
      /\ <<Head(todo[c]), info[c][1]>> \in told
  BY <1>1, HeadIs DEF IInv, CallerInv, TypeOK
<1>3. info[c][1] \in Asns
  BY <1>2 DEF Answers, Some
<1>4. /\ cache' \in Maps(Asns)
      /\ DOMAIN cache' = DOMAIN cache \cup {Head(todo[c])}
      /\ cache'[Head(todo[c])] = info[c][1]
      /\ \A a \in DOMAIN cache \ {Head(todo[c])} : cache'[a] = cache[a]
  <2>1. cache' \in Maps(Asns)
    BY <1>1, <1>2, <1>3, MapInsertType DEF TypeOK
  <2> QED  BY <1>1, <2>1 DEF MapInsert
<1>5. /\ todo' \in [Callers -> Seq(Addrs)]
      /\ info' \in [Callers -> Answers]
      /\ results' \in [Callers -> Maps(Answers)]
      /\ pc' \in [Callers -> Places]
      /\ pc'[c] = IF todo'[c] = <<>> THEN "idle" ELSE "lookup"
      /\ \A d \in Callers \ {c} :
             /\ pc'[d] = pc[d] /\ todo'[d] = todo[d]
             /\ info'[d] = info[d] /\ results'[d] = results[d]
      /\ DOMAIN results'[c] = DOMAIN results[c] \cup {Head(todo[c])}
      /\ results'[c][Head(todo[c])] = info[c]
      /\ \A a \in DOMAIN results[c] \ {Head(todo[c])} :
             results'[c][a] = results[c][a]
  BY <1>1, <1>2, ReturnIs DEF Places
<1>6. /\ learned' \in [Callers -> SUBSET Addrs]
      /\ learned'[c] = learned[c] \cup {Head(todo[c])}
      /\ \A d \in Callers \ {c} : learned'[d] = learned[d]
  BY <1>1, <1>2 DEF TypeOK
<1>7. Readers' \subseteq Readers /\ Writers' \subseteq Writers
  BY <1>5 DEF Readers, Writers
<1>8. TypeOK'
  BY <1>1, <1>2, <1>4, <1>5, <1>6, <1>7, ZenonT(60) DEF TypeOK, Places
<1>9. OnlyAnswers'
  <2>1. ASSUME NEW a \in DOMAIN cache'
        PROVE  <<a, cache'[a]>> \in told
    <3>1. CASE a = Head(todo[c])
      BY <1>2, <1>4, <3>1
    <3>2. CASE a # Head(todo[c])
      BY <1>2, <1>4, <3>2 DEF OnlyAnswers
    <3> QED  BY <3>1, <3>2
  <2>2. ASSUME NEW a \in DOMAIN results'[c], results'[c][a] # None
        PROVE  <<a, results'[c][a][1]>> \in told
    <3>1. CASE a = Head(todo[c])
      BY <1>2, <1>5, <3>1
    <3>2. CASE a # Head(todo[c])
      BY <1>2, <1>5, <2>2, <3>2 DEF OnlyAnswers
    <3> QED  BY <3>1, <3>2
  <2>3. ASSUME NEW d \in Callers \ {c}, NEW a \in DOMAIN results'[d], results'[d][a] # None
        PROVE  <<a, results'[d][a][1]>> \in told
    BY <1>2, <1>5, <2>3 DEF OnlyAnswers
  <2> QED  BY <1>1, <1>2, <2>1, <2>2, <2>3 DEF OnlyAnswers
<1>10. LearnedStaysAnswered'
  <2>1. ASSUME NEW a \in learned'[c]
        PROVE  a \in DOMAIN cache' /\ (a \in DOMAIN results'[c] => results'[c][a] # None)
    <3>1. CASE a = Head(todo[c])
      BY <1>2, <1>4, <1>5, <3>1
    <3>2. CASE a # Head(todo[c])
      <4>1. a \in learned[c]
        BY <1>6, <2>1, <3>2
      <4> QED  BY <1>2, <1>4, <1>5, <3>2, <4>1 DEF LearnedStaysAnswered
    <3> QED  BY <3>1, <3>2
  <2>2. ASSUME NEW d \in Callers \ {c}, NEW a \in learned'[d]
        PROVE  a \in DOMAIN cache' /\ (a \in DOMAIN results'[d] => results'[d][a] # None)
    <3>1. a \in learned[d] /\ results'[d] = results[d]
      BY <1>5, <1>6, <2>2
    <3> QED  BY <1>2, <1>4, <3>1 DEF LearnedStaysAnswered
  <2> QED  BY <2>1, <2>2 DEF LearnedStaysAnswered
<1>11. \A d \in Callers : CallerInv(d)'
  BY <1>1, <1>5, <1>6 DEF IInv, CallerInv, Asking
<1> QED  BY <1>8, <1>9, <1>10, <1>11 DEF IInv

\* The cache is emptied under the write lock, and what was learned forgotten.
LEMMA ClearKeepsInv ==
    ASSUME IInv, NEW c \in Callers, Clear(c)
    PROVE  IInv'
<1>1. /\ pc[c] = "clearing" /\ pc' = [pc EXCEPT ![c] = "idle"]
      /\ cache' = EmptyMap /\ learned' = [d \in Callers |-> {}]
      /\ UNCHANGED <<todo, info, results, told>>
  BY DEF Clear, Goto
<1>2. cache' \in Maps(Asns) /\ DOMAIN cache' = {}
  BY <1>1, EmptyMapIs
<1>3. Readers' = Readers /\ Writers' \subseteq Writers
  BY <1>1 DEF IInv, TypeOK, Readers, Writers
<1>4. TypeOK'
  BY <1>1, <1>2, <1>3 DEF IInv, TypeOK
<1>5. OnlyAnswers' /\ LearnedStaysAnswered'
  BY <1>1, <1>2 DEF IInv, OnlyAnswers, LearnedStaysAnswered
<1>6. \A d \in Callers : CallerInv(d)'
  BY <1>1 DEF IInv, TypeOK, CallerInv, Asking
<1> QED  BY <1>4, <1>5, <1>6 DEF IInv

\* Every step keeps the invariant.
LEMMA Inductive ==
    ASSUME IInv, [Next]_vars
    PROVE  IInv'
<1>1. CASE Next
  <2> PICK c \in Callers : Calls(c) \/ Works(c) \/ Locks(c)
    BY <1>1 DEF Next
  <2>1. ASSUME NEW batch \in Batches, Start(c, batch)
        PROVE  IInv'
    BY <2>1, StartKeepsInv
  <2>2. CASE StartClear(c)
    BY <2>2, GotoKeepsInv DEF StartClear, Places, Busy, Asking
  <2>3. CASE RefusesPrivate(c)
    <3>1. Head(todo[c]) \notin learned[c]
      <4>1. learned[c] \subseteq DOMAIN cache
        BY DEF IInv, LearnedStaysAnswered
      <4>2. DOMAIN cache \subseteq Public
        <5>1. ASSUME NEW a \in DOMAIN cache
              PROVE  a \in Public
          <6>1. <<a, cache[a]>> \in told
            BY DEF IInv, OnlyAnswers
          <6>2. <<a, cache[a]>>[1] \in Public
            BY <6>1 DEF IInv, OnlyAnswers
          <6> QED  BY <6>2
        <5> QED  BY <5>1
      <4> QED  BY <2>3, <4>1, <4>2, AddrsAssumption DEF RefusesPrivate
    <3>2. learned' = [learned EXCEPT ![c] = @ \cup {}]
      BY <2>3 DEF RefusesPrivate, IInv, TypeOK
    <3>3. None \in Answers
      BY DEF Answers
    <3>4. {} \in SUBSET {Head(todo[c])}
      OBVIOUS
    <3> QED  BY <2>3, <3>1, <3>2, <3>3, <3>4, ReturnKeepsInv DEF RefusesPrivate
  <2>4. CASE Hit(c)
    <3> PICK result \in Answers : result = Some(cache[Head(todo[c])])
      BY <2>4, MapDomain DEF Hit, IInv, TypeOK, Answers
    <3>1. /\ pc[c] = "reading" /\ Return(c, result) /\ UNCHANGED <<cache, told>>
          /\ learned' = [learned EXCEPT ![c] = @ \cup {Head(todo[c])}]
          /\ {Head(todo[c])} \subseteq DOMAIN cache
      BY <2>4 DEF Hit
    <3>2. result # None /\ <<Head(todo[c]), result[1]>> \in told
      BY <2>4 DEF Hit, IInv, OnlyAnswers, Some, None
    <3>3. {Head(todo[c])} \in SUBSET {Head(todo[c])}
      OBVIOUS
    <3> QED  BY <3>1, <3>2, <3>3, ReturnKeepsInv
  <2>5. CASE Miss(c)
    <3>1. Head(todo[c]) \notin learned[c] /\ Head(todo[c]) \notin Private
      BY <2>5 DEF Miss, IInv, LearnedStaysAnswered, CallerInv
    <3> QED  BY <2>5, <3>1, GotoKeepsInv DEF Miss, Places, Busy, Asking
  <2>6. CASE OriginFails(c)
    <3>1. Head(todo[c]) \notin learned[c]
      BY <2>6 DEF OriginFails, IInv, CallerInv, Asking
    <3>2. learned' = [learned EXCEPT ![c] = @ \cup {}]
      BY <2>6 DEF OriginFails, IInv, TypeOK
    <3>3. None \in Answers
      BY DEF Answers
    <3>4. {} \in SUBSET {Head(todo[c])}
      OBVIOUS
    <3> QED  BY <2>6, <3>1, <3>2, <3>3, <3>4, ReturnKeepsInv DEF OriginFails
  <2>7. ASSUME NEW asn \in Asns, OriginAnswers(c, asn)
        PROVE  IInv'
    BY <2>7, OriginAnswersKeepsInv
  <2>8. CASE NameEnds(c)
    <3>1. Head(todo[c]) \notin learned[c] /\ Head(todo[c]) \notin Private
      BY <2>8 DEF NameEnds, IInv, CallerInv, Asking
    <3> QED  BY <2>8, <3>1, GotoKeepsInv DEF NameEnds, Places, Busy, Asking
  <2>9. CASE Insert(c)
    BY <2>9, InsertKeepsInv
  <2>10. CASE Clear(c)
    BY <2>10, ClearKeepsInv
  <2>11. CASE LocksForReading(c)
    BY <2>11, GotoKeepsInv DEF LocksForReading, Places, Busy, Asking
  <2>12. CASE LocksForWriting(c)
    <3>1. Head(todo[c]) \notin learned[c] /\ Head(todo[c]) \notin Private
      BY <2>12 DEF LocksForWriting, IInv, CallerInv, Asking
    <3> QED  BY <2>12, <3>1, GotoKeepsInv DEF LocksForWriting, Places, Busy, Asking
  <2>13. CASE LocksForClear(c)
    BY <2>13, GotoKeepsInv DEF LocksForClear, Places, Busy, Asking
  <2> QED  BY <2>1, <2>2, <2>3, <2>4, <2>5, <2>6, <2>7, <2>8, <2>9, <2>10,
              <2>11, <2>12, <2>13 DEF Calls, Works, Locks
<1>2. CASE UNCHANGED vars
  <2>1. TypeOK'
    BY <1>2 DEF IInv, TypeOK, Readers, Writers, vars
  <2>2. OnlyAnswers' /\ LearnedStaysAnswered'
    BY <1>2 DEF IInv, OnlyAnswers, LearnedStaysAnswered, vars
  <2>3. \A c \in Callers : CallerInv(c)'
    BY <1>2 DEF IInv, CallerInv, vars
  <2> QED  BY <2>1, <2>2, <2>3 DEF IInv
<1> QED  BY <1>1, <1>2

----------------------------------------------------------------------------
(* The theorems.                                                            *)

\* The strengthened invariant holds of every behaviour of the callers.
THEOREM Invariant == Spec => []IInv
  BY InitInv, Inductive, PTL DEF Spec

\* Type invariant: however many callers share the cache, the lock has one
\* writer or any number of readers, and a batch under way has an address left.
THEOREM TypeCorrect == Spec => []TypeOK
<1>1. IInv => TypeOK
  BY DEF IInv
<1> QED  BY <1>1, Invariant, PTL

\* What the cache holds and what a lookup returns was answered by the registry
\* for that address, whatever the interleaving of lookups and clears.
THEOREM OnlyAnswersAreTold == Spec => []OnlyAnswers
<1>1. IInv => OnlyAnswers
  BY DEF IInv
<1> QED  BY <1>1, Invariant, PTL

\* What a caller has been told stays cached until a clear, and no later lookup
\* of its batch comes back with an error for it.
THEOREM LearnedStays == Spec => []LearnedStaysAnswered
<1>1. IInv => LearnedStaysAnswered
  BY DEF IInv
<1> QED  BY <1>1, Invariant, PTL

=============================================================================
