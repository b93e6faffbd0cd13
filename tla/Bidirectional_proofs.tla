------------------------- MODULE Bidirectional_proofs -------------------------
(***************************************************************************)
(* Safety of the echo sessions for every set of clients, every probe count *)
(* and all message and buffer lengths that LengthsAssumption allows.       *)
(*                                                                         *)
(* The order of the samples is not inductive by itself: it holds because   *)
(* each byte stream carries its messages in increasing order, because what *)
(* is on the way back is older than what is on the way out, and because    *)
(* what was booked is older than both.  Only the first byte of a message   *)
(* matters, the one a parse can start at.  InFlightOrder says this.        *)
(*                                                                         *)
(* What the sessions have received is bounded by what the server counted   *)
(* because each echo, booked or still on its way, was written by a handler *)
(* that has counted it or is about to (EchoesCounted); and the samples are *)
(* in order, so each is an echo of its own.                                *)
(*                                                                         *)
(* The sessions implement ProbeLedger: the ledger is read off the samples, *)
(* so a step changes it in one of three ways: not at all, by one verdict   *)
(* more on unchanged samples (the probe is lost), or by one verdict more   *)
(* that is the sample just booked.  That a booked echo is newer than every *)
(* echo credited before is what InFlightOrder says of the streams.         *)
(***************************************************************************)
EXTENDS Bidirectional, SequenceTheorems, FiniteSetTheorems, TLAPS

Byte == Nat \X Nat

\* The positions of s where a message starts.
Starts(s) == {i \in DOMAIN s : s[i][2] = 1}

Ascending(s) == \A i, j \in Starts(s) : i < j => s[i][1] < s[j][1]

\* Every message that starts in s is older than every one that starts in t.
Older(s, t) == \A i \in Starts(s), j \in Starts(t) : s[i][1] < t[j][1]

Below(s, bound) == \A i \in Starts(s) : s[i][1] < bound

\* Every booked echo is older than every message that starts in s.
Booked(sm, s) == \A k \in DOMAIN sm, i \in Starts(s) : sm[k].echo < s[i][1]

\* The samples are in order, on probes below `bound`.
Ordered(sm, bound) ==
    /\ Len(sm) <= bound
    /\ \A i \in DOMAIN sm : sm[i].echo <= sm[i].probe /\ sm[i].probe < bound
    /\ \A i, j \in DOMAIN sm :
           i < j => sm[i].probe < sm[j].probe /\ sm[i].echo < sm[j].echo

\* The streams out and back, the samples and the number of probes sent.
InFlightOrder(out, back, sm, snt) ==
    /\ Ascending(out)
    /\ Ascending(back)
    /\ Older(back, out)
    /\ Below(out, snt)
    /\ Below(back, snt)
    /\ Booked(sm, out)
    /\ Booked(sm, back)

SessionInv(c) ==
    /\ pc[c] = "connect" => sent[c] = 0
    /\ pc[c] = "send" => sent[c] < ProbeCount[c]
    /\ pc[c] = "await" => sent[c] > 0
    /\ Ordered(samples[c], Settled(c))
    /\ InFlightOrder(toServer[c], toClient[c], samples[c], sent[c])

IInv == TypeOK /\ \A c \in Clients : SessionInv(c)

Sample == [probe : Nat, echo : Nat]

----------------------------------------------------------------------------
(* The operators on streams.                                                *)

\* A read of n bytes leaves the others, in order.
LEMMA RestIs ==
    ASSUME NEW B, NEW s \in Seq(B), NEW n \in 0..Len(s)
    PROVE  /\ Rest(s, n) \in Seq(B)
           /\ Len(Rest(s, n)) = Len(s) - n
           /\ \A i \in 1..(Len(s) - n) : Rest(s, n)[i] = s[n + i]
<1>1. Len(s) \in Nat /\ \A i \in (n + 1)..Len(s) : s[i] \in B
  BY LenProperties
<1>2. /\ SubSeq(s, n + 1, Len(s)) \in Seq(B)
      /\ Len(SubSeq(s, n + 1, Len(s)))
           = IF n + 1 <= Len(s) THEN Len(s) - (n + 1) + 1 ELSE 0
      /\ \A i \in 1..(Len(s) - (n + 1) + 1) :
             SubSeq(s, n + 1, Len(s))[i] = s[(n + 1) + i - 1]
  BY <1>1, SubSeqProperties
<1> QED  BY <1>1, <1>2 DEF Rest

\* What a read of n bytes returns.
LEMMA ChunkIs ==
    ASSUME NEW B, NEW s \in Seq(B), NEW n \in 0..Len(s)
    PROVE  /\ Chunk(s, n) \in Seq(B)
           /\ Len(Chunk(s, n)) = n
           /\ \A i \in 1..n : Chunk(s, n)[i] = s[i]
<1>1. Len(s) \in Nat /\ \A i \in 1..n : s[i] \in B
  BY LenProperties
<1>2. /\ SubSeq(s, 1, n) \in Seq(B)
      /\ Len(SubSeq(s, 1, n)) = IF 1 <= n THEN n - 1 + 1 ELSE 0
      /\ \A i \in 1..(n - 1 + 1) : SubSeq(s, 1, n)[i] = s[1 + i - 1]
  BY <1>1, SubSeqProperties
<1> QED  BY <1>1, <1>2 DEF Chunk

\* The bytes of a message, in order.
LEMMA MessageIs ==
    ASSUME NEW q \in Nat, NEW len \in Nat
    PROVE  /\ Message(q, len) \in Seq(Nat \X (1..len))
           /\ Len(Message(q, len)) = len
           /\ DOMAIN Message(q, len) = 1..len
           /\ \A i \in 1..len : Message(q, len)[i] = <<q, i>>
  BY DEF Message

\* A message is written behind a stream: it starts at one place, and what was
\* there stays where it was.
LEMMA WriteIs ==
    ASSUME NEW s \in Seq(Byte), NEW q \in Nat, NEW len \in Nat,
           NEW i \in Starts(s \o Message(q, len))
    PROVE  \/ i \in Starts(s) /\ (s \o Message(q, len))[i] = s[i]
           \/ i = Len(s) + 1 /\ (s \o Message(q, len))[i] = <<q, 1>>
<1> DEFINE m == Message(q, len)
<1>1. m \in Seq(Byte) /\ Len(m) = len /\ \A k \in 1..len : m[k] = <<q, k>>
  BY MessageIs DEF Byte, Message
<1>2. /\ Len(s \o m) = Len(s) + len
      /\ s \o m \in Seq(Byte)
      /\ \A k \in 1..(Len(s) + len) :
             (s \o m)[k] = IF k <= Len(s) THEN s[k] ELSE m[k - Len(s)]
  BY <1>1, ConcatProperties, ZenonT(60)
<1>3. i \in 1..(Len(s) + len) /\ (s \o m)[i][2] = 1
  BY <1>2, LenProperties DEF Starts
<1>4. Len(s) \in Nat /\ DOMAIN s = 1..Len(s)
  BY LenProperties
<1>5. CASE i <= Len(s)
  BY <1>2, <1>3, <1>4, <1>5 DEF Starts
<1>6. CASE i > Len(s)
  <2>1. i - Len(s) \in 1..len
    BY <1>3, <1>4, <1>6
  <2>2. (s \o m)[i] = <<q, i - Len(s)>>
    BY <1>1, <1>2, <1>3, <1>4, <1>6, <2>1
  <2> QED  BY <1>3, <1>4, <2>1, <2>2
<1>7. i <= Len(s) \/ i > Len(s)
  BY <1>3, <1>4
<1> QED  BY <1>5, <1>6, <1>7

\* A start of what a read leaves is a start of the stream, n places on.
LEMMA RestStarts ==
    ASSUME NEW s \in Seq(Byte), NEW n \in 0..Len(s), NEW i \in Starts(Rest(s, n))
    PROVE  /\ n + i \in Starts(s)
           /\ Rest(s, n)[i] = s[n + i]
           /\ i \in Nat \ {0}
<1>1. Len(s) \in Nat /\ DOMAIN s = 1..Len(s)
  BY LenProperties
<1>2. /\ Rest(s, n) \in Seq(Byte)
      /\ Len(Rest(s, n)) = Len(s) - n
      /\ \A k \in 1..(Len(s) - n) : Rest(s, n)[k] = s[n + k]
  BY RestIs
<1>3. i \in 1..(Len(s) - n) /\ Rest(s, n)[i][2] = 1
  BY <1>1, <1>2, LenProperties DEF Starts
<1> QED  BY <1>1, <1>2, <1>3 DEF Starts

\* A start of the part of a stream that a reset keeps is one of the stream.
LEMMA ChunkStarts ==
    ASSUME NEW s \in Seq(Byte), NEW n \in 0..Len(s), NEW i \in Starts(Chunk(s, n))
    PROVE  i \in Starts(s) /\ Chunk(s, n)[i] = s[i]
<1>1. Len(s) \in Nat /\ DOMAIN s = 1..Len(s)
  BY LenProperties
<1>2. /\ Chunk(s, n) \in Seq(Byte)
      /\ Len(Chunk(s, n)) = n
      /\ \A k \in 1..n : Chunk(s, n)[k] = s[k]
  BY ChunkIs
<1>3. i \in 1..n /\ Chunk(s, n)[i][2] = 1
  BY <1>1, <1>2, LenProperties DEF Starts
<1> QED  BY <1>1, <1>2, <1>3 DEF Starts

----------------------------------------------------------------------------
(* What each operation does to the order of the streams.                    *)

\* The client writes the probe it has just counted.
LEMMA SendKeepsOrder ==
    ASSUME NEW out \in Seq(Byte), NEW back \in Seq(Byte), NEW sm \in Seq(Sample),
           NEW snt \in Nat, NEW len \in Nat,
           InFlightOrder(out, back, sm, snt),
           Ordered(sm, snt)
    PROVE  InFlightOrder(out \o Message(snt, len), back, sm, snt + 1)
<1> DEFINE new == out \o Message(snt, len)
<1>1. \A i \in Starts(new) :
          \/ i \in Starts(out) /\ new[i] = out[i]
          \/ i = Len(out) + 1 /\ new[i] = <<snt, 1>>
  BY WriteIs
<1>2. Len(out) \in Nat /\ DOMAIN out = 1..Len(out)
  BY LenProperties
<1>3. Starts(out) \subseteq 1..Len(out)
  BY <1>2 DEF Starts
<1>4. /\ \A i \in Starts(out) : out[i][1] \in Nat /\ out[i][1] < snt
      /\ \A i \in Starts(back) : back[i][1] \in Nat /\ back[i][1] < snt
  BY LenProperties DEF InFlightOrder, Below, Starts, Byte
<1>5. DOMAIN sm = 1..Len(sm) /\ \A k \in DOMAIN sm : sm[k] \in Sample
  BY LenProperties
<1>6. \A k \in DOMAIN sm : sm[k].echo < snt
  BY <1>5 DEF Ordered, Sample
<1> HIDE DEF new
<1>7. Ascending(new)
  <2> SUFFICES ASSUME NEW i \in Starts(new), NEW j \in Starts(new), i < j
               PROVE  new[i][1] < new[j][1]
    BY DEF Ascending
  <2>1. i \in Starts(out) /\ new[i] = out[i]
    <3>1. j \in Starts(out) \/ j = Len(out) + 1
      BY <1>1
    <3>2. i # Len(out) + 1
      BY <1>2, <1>3, <3>1
    <3> QED  BY <1>1, <3>2
  <2>2. CASE j \in Starts(out) /\ new[j] = out[j]
    BY <2>1, <2>2 DEF InFlightOrder, Ascending
  <2>3. CASE new[j] = <<snt, 1>>
    BY <1>4, <2>1, <2>3
  <2> QED  BY <1>1, <2>2, <2>3
<1>8. Older(back, new)
  BY <1>1, <1>4 DEF Older, InFlightOrder
<1>9. Below(new, snt + 1) /\ Below(back, snt + 1)
  BY <1>1, <1>4 DEF Below
<1>10. Booked(sm, new)
  BY <1>1, <1>6 DEF Booked, InFlightOrder
<1> QED  BY <1>7, <1>8, <1>9, <1>10 DEF InFlightOrder, new

\* The handler reads n bytes and echoes nothing.
LEMMA DropKeepsOrder ==
    ASSUME NEW out \in Seq(Byte), NEW back \in Seq(Byte), NEW sm, NEW snt,
           NEW n \in 0..Len(out), InFlightOrder(out, back, sm, snt)
    PROVE  InFlightOrder(Rest(out, n), back, sm, snt)
<1>1. \A i \in Starts(Rest(out, n)) :
          n + i \in Starts(out) /\ Rest(out, n)[i] = out[n + i] /\ i \in Nat \ {0}
  BY RestStarts
<1>2. n \in Nat
  BY LenProperties
<1>3. Ascending(Rest(out, n))
  <2> SUFFICES ASSUME NEW i \in Starts(Rest(out, n)),
                      NEW j \in Starts(Rest(out, n)), i < j
               PROVE  Rest(out, n)[i][1] < Rest(out, n)[j][1]
    BY DEF Ascending
  <2>1. n + i < n + j
    BY <1>1, <1>2
  <2> QED  BY <1>1, <2>1 DEF InFlightOrder, Ascending
<1>4. Older(back, Rest(out, n)) /\ Below(Rest(out, n), snt) /\ Booked(sm, Rest(out, n))
  BY <1>1 DEF InFlightOrder, Older, Below, Booked
<1> QED  BY <1>3, <1>4 DEF InFlightOrder

\* The handler reads n bytes that start with a probe and writes its echo.
LEMMA EchoKeepsOrder ==
    ASSUME NEW out \in Seq(Byte), NEW back \in Seq(Byte), NEW sm \in Seq(Sample),
           NEW snt \in Nat, NEW len \in Nat, NEW n \in 1..Len(out),
           out[1][2] = 1, InFlightOrder(out, back, sm, snt)
    PROVE  InFlightOrder(Rest(out, n), back \o Message(out[1][1], len), sm, snt)
<1> DEFINE q == out[1][1]
           new == back \o Message(q, len)
<1>1. Len(out) \in Nat /\ DOMAIN out = 1..Len(out) /\ n \in 0..Len(out) /\ n \in Nat
  BY LenProperties
<1>2. 1 \in Starts(out)
  BY <1>1 DEF Starts
<1>3. q \in Nat /\ q < snt
  BY <1>1, <1>2, LenProperties DEF Byte, InFlightOrder, Below
<1>4. \A i \in Starts(new) :
          \/ i \in Starts(back) /\ new[i] = back[i]
          \/ i = Len(back) + 1 /\ new[i] = <<q, 1>>
  BY <1>3, WriteIs
<1>5. Len(back) \in Nat /\ Starts(back) \subseteq 1..Len(back)
  BY LenProperties DEF Starts
<1>6. \A i \in Starts(back) : back[i][1] \in Nat /\ back[i][1] < q
  <2> TAKE i \in Starts(back)
  <2>1. i \in DOMAIN back
    BY DEF Starts
  <2>2. back[i] \in Byte
    BY <2>1, LenProperties
  <2>3. back[i][1] < out[1][1]
    BY <1>2 DEF InFlightOrder, Older
  <2> QED  BY <2>2, <2>3 DEF Byte
<1>7. \A i \in Starts(Rest(out, n)) :
          /\ n + i \in Starts(out)
          /\ Rest(out, n)[i] = out[n + i]
          /\ i \in Nat \ {0}
  BY <1>1, RestStarts
<1>8. \A i \in Starts(Rest(out, n)) : q < Rest(out, n)[i][1]
  <2> TAKE i \in Starts(Rest(out, n))
  <2>1. 1 < n + i
    BY <1>1, <1>7
  <2> QED  BY <1>2, <1>7, <2>1 DEF InFlightOrder, Ascending
<1>9. \A i \in Starts(Rest(out, n)) : Rest(out, n)[i][1] \in Nat
  BY <1>1, <1>7, LenProperties, SMTT(30) DEF Byte, Starts
<1>10. InFlightOrder(Rest(out, n), back, sm, snt)
  BY <1>1, DropKeepsOrder
<1> HIDE DEF q, new
<1>11. Ascending(new)
  <2> SUFFICES ASSUME NEW i \in Starts(new), NEW j \in Starts(new), i < j
               PROVE  new[i][1] < new[j][1]
    BY DEF Ascending
  <2>1. i \in Starts(back) /\ new[i] = back[i]
    <3>1. j \in Starts(back) \/ j = Len(back) + 1
      BY <1>4
    <3>2. i # Len(back) + 1
      BY <1>5, <3>1
    <3> QED  BY <1>4, <3>2
  <2>2. CASE j \in Starts(back) /\ new[j] = back[j]
    BY <2>1, <2>2 DEF InFlightOrder, Ascending
  <2>3. CASE new[j] = <<q, 1>>
    BY <1>6, <2>1, <2>3
  <2> QED  BY <1>4, <2>2, <2>3
<1>12. Older(new, Rest(out, n))
  BY <1>3, <1>4, <1>6, <1>8, <1>9, <1>10, SMTT(30) DEF Older, InFlightOrder
<1>13. Below(new, snt)
  BY <1>3, <1>4 DEF Below, InFlightOrder
<1>14. Booked(sm, new)
  <2>1. \A k \in DOMAIN sm : sm[k].echo < q
    BY <1>2 DEF Booked, InFlightOrder, q
  <2> QED  BY <1>4, <2>1 DEF Booked, InFlightOrder
<1> QED  BY <1>10, <1>11, <1>12, <1>13, <1>14 DEF InFlightOrder, new, q

\* The connection is reset: what the client had not received may be cut short.
LEMMA ResetKeepsOrder ==
    ASSUME NEW out \in Seq(Byte), NEW back \in Seq(Byte), NEW sm, NEW snt,
           NEW n \in 0..Len(back), InFlightOrder(out, back, sm, snt)
    PROVE  InFlightOrder(<<>>, Chunk(back, n), sm, snt)
<1>1. \A i \in Starts(Chunk(back, n)) :
          i \in Starts(back) /\ Chunk(back, n)[i] = back[i]
  BY ChunkStarts
<1>2. Starts(<<>>) = {}
  BY DEF Starts
<1> QED
  BY <1>1, <1>2 DEF InFlightOrder, Ascending, Older, Below, Booked

\* Samples in order below a bound are in order below a larger one.
LEMMA OrderedBelowMore ==
    ASSUME NEW sm \in Seq(Sample), NEW small \in Int, NEW large \in Int,
           small <= large, Ordered(sm, small)
    PROVE  Ordered(sm, large)
<1>1. Len(sm) \in Nat /\ \A i \in DOMAIN sm : sm[i] \in Sample
  BY LenProperties
<1> QED  BY <1>1 DEF Ordered, Sample

\* What is below a bound is below the next.
LEMMA BelowMore ==
    ASSUME NEW s \in Seq(Byte), NEW bound \in Nat, Below(s, bound)
    PROVE  Below(s, bound + 1)
<1> SUFFICES ASSUME NEW i \in Starts(s)
             PROVE  s[i][1] < bound + 1
  BY DEF Below
<1>1. s[i] \in Byte
  BY LenProperties DEF Starts
<1> QED  BY <1>1 DEF Below, Byte

\* The client reads n bytes of the way back and books nothing.
LEMMA SkipKeepsOrder ==
    ASSUME NEW out \in Seq(Byte), NEW back \in Seq(Byte), NEW sm, NEW snt,
           NEW n \in 0..Len(back), InFlightOrder(out, back, sm, snt)
    PROVE  InFlightOrder(out, Rest(back, n), sm, snt)
<1>1. \A i \in Starts(Rest(back, n)) :
          n + i \in Starts(back) /\ Rest(back, n)[i] = back[n + i] /\ i \in Nat \ {0}
  BY RestStarts
<1>2. n \in Nat
  BY LenProperties
<1>3. Ascending(Rest(back, n))
  <2> SUFFICES ASSUME NEW i \in Starts(Rest(back, n)),
                      NEW j \in Starts(Rest(back, n)), i < j
               PROVE  Rest(back, n)[i][1] < Rest(back, n)[j][1]
    BY DEF Ascending
  <2>1. n + i < n + j
    BY <1>1, <1>2
  <2> QED  BY <1>1, <2>1 DEF InFlightOrder, Ascending
<1>4. Older(Rest(back, n), out) /\ Below(Rest(back, n), snt) /\ Booked(sm, Rest(back, n))
  BY <1>1 DEF InFlightOrder, Older, Below, Booked
<1> QED  BY <1>3, <1>4 DEF InFlightOrder

\* The client reads n bytes that start with an echo and books it under the
\* last probe sent.
LEMMA BookKeepsOrder ==
    ASSUME NEW out \in Seq(Byte), NEW back \in Seq(Byte), NEW sm \in Seq(Sample),
           NEW snt \in Nat \ {0}, NEW n \in 1..Len(back),
           back[1][2] = 1, InFlightOrder(out, back, sm, snt),
           Ordered(sm, snt - 1)
    PROVE  LET e == [probe |-> snt - 1, echo |-> back[1][1]]
           IN /\ e \in Sample
              /\ InFlightOrder(out, Rest(back, n), Append(sm, e), snt)
              /\ Ordered(Append(sm, e), snt)
<1> DEFINE q == back[1][1]
           e == [probe |-> snt - 1, echo |-> q]
           new == Append(sm, e)
<1>1. Len(back) \in Nat /\ DOMAIN back = 1..Len(back) /\ n \in 0..Len(back) /\ n \in Nat
  BY LenProperties
<1>2. 1 \in Starts(back)
  BY <1>1 DEF Starts
<1>3. q \in Nat /\ q < snt
  BY <1>1, <1>2, LenProperties DEF Byte, InFlightOrder, Below
<1>4. e \in Sample /\ e.probe = snt - 1 /\ e.echo = q
  BY <1>3 DEF Sample
<1>5. /\ Len(new) = Len(sm) + 1
      /\ Len(sm) \in Nat
      /\ DOMAIN sm = 1..Len(sm)
      /\ DOMAIN new = 1..(Len(sm) + 1)
      /\ \A k \in DOMAIN sm : new[k] = sm[k] /\ sm[k] \in Sample
      /\ new[Len(sm) + 1] = e
  BY <1>4, AppendProperties, LenProperties
<1>6. \A k \in DOMAIN sm : sm[k].echo < q
  BY <1>2 DEF InFlightOrder, Booked
<1>7. \A k \in DOMAIN sm : sm[k].probe < snt - 1 /\ sm[k].probe \in Nat /\ sm[k].echo \in Nat
  BY <1>5 DEF Ordered, Sample
<1>8. InFlightOrder(out, Rest(back, n), sm, snt)
  BY <1>1, SkipKeepsOrder
<1>9. \A i \in Starts(Rest(back, n)) : q < Rest(back, n)[i][1]
  <2> TAKE i \in Starts(Rest(back, n))
  <2>1. n + i \in Starts(back) /\ Rest(back, n)[i] = back[n + i] /\ i \in Nat \ {0}
    BY <1>1, RestStarts
  <2>2. 1 < n + i
    BY <1>1, <2>1
  <2> QED  BY <1>2, <2>1, <2>2 DEF InFlightOrder, Ascending
<1>10. \A i \in Starts(out) : q < out[i][1]
  BY <1>2 DEF InFlightOrder, Older
<1> HIDE DEF q, e, new
<1>11. \A k \in DOMAIN new : k \in DOMAIN sm \/ k = Len(sm) + 1
  BY <1>5
<1>12. Booked(new, out) /\ Booked(new, Rest(back, n))
  BY <1>4, <1>5, <1>8, <1>9, <1>10, <1>11 DEF Booked, InFlightOrder
<1>13. InFlightOrder(out, Rest(back, n), new, snt)
  BY <1>8, <1>12 DEF InFlightOrder
<1>14. Len(new) <= snt
  BY <1>5 DEF Ordered
<1>15. \A i \in DOMAIN new : new[i].echo <= new[i].probe /\ new[i].probe < snt
  BY <1>3, <1>4, <1>5, <1>7, <1>11, SMTT(30) DEF Ordered
<1>16. ASSUME NEW i \in DOMAIN new, NEW j \in DOMAIN new, i < j
       PROVE  new[i].probe < new[j].probe /\ new[i].echo < new[j].echo
  <2>1. i \in DOMAIN sm
    BY <1>5, <1>16
  <2>2. CASE j \in DOMAIN sm
    BY <1>5, <1>16, <2>1, <2>2 DEF Ordered
  <2>3. CASE j = Len(sm) + 1
    BY <1>4, <1>5, <1>6, <1>7, <2>1, <2>3
  <2> QED  BY <1>11, <2>2, <2>3
<1>17. Ordered(new, snt)
  BY <1>14, <1>15, <1>16 DEF Ordered
<1> QED  BY <1>4, <1>13, <1>17 DEF q, e, new

----------------------------------------------------------------------------
(* Every step keeps the types.                                              *)

Probes == Seq(Nat \X (1..ProbeLen))
Echoes == Seq(Nat \X (1..EchoLen))

\* A read takes at least one byte and no more than there are.
LEMMA ReadSizeIs ==
    ASSUME NEW B, NEW s \in Seq(B), NEW n \in ReadSizes(s)
    PROVE  n \in 1..Len(s)
<1>1. Len(s) \in Nat /\ BufLen \in Nat
  BY LenProperties, LengthsAssumption
<1> QED  BY <1>1 DEF ReadSizes, MinOf

\* The loop goes on with the next probe or is done.
LEMMA LoopHeadIs ==
    ASSUME NEW c \in Clients, NEW count \in Nat
    PROVE  /\ LoopHead(c, count) \in {"send", "done"}
           /\ LoopHead(c, count) = "send" => count < ProbeCount[c]
  BY DEF LoopHead

\* What a parse needs: a first byte that starts a message.
LEMMA ParsesIs ==
    ASSUME NEW B, NEW s \in Seq(B), NEW n \in 1..Len(s), NEW len \in Nat,
           Parses(Chunk(s, n), len)
    PROVE  Chunk(s, n)[1] = s[1] /\ s[1][2] = 1 /\ s[1] \in B
<1>1. Len(s) \in Nat /\ n \in 0..Len(s) /\ 1 \in 1..n
  BY LenProperties
<1>2. Chunk(s, n)[1] = s[1]
  BY <1>1, ChunkIs
<1> QED  BY <1>1, <1>2, LenProperties DEF Parses

\* Every step keeps the types and the bound on the probes sent.
LEMMA TypeStep ==
    ASSUME IInv, [Next]_vars
    PROVE  TypeOK'
<1> USE DEF IInv
<1>0. ProbeLen \in Nat /\ EchoLen \in Nat /\ ProbeCount \in [Clients -> Nat]
  BY LengthsAssumption, CountsAssumption
<1>1. ASSUME NEW c \in Clients, Connect(c) PROVE TypeOK'
  <2>1. LoopHead(c, 0) \in {"send", "done"}
    BY LoopHeadIs
  <2> QED  BY <1>1, <2>1 DEF TypeOK, Connect, serverVars
<1>2. ASSUME NEW c \in Clients, ConnectFails(c) PROVE TypeOK'
  BY <1>2 DEF TypeOK, ConnectFails, serverVars
<1>3. ASSUME NEW c \in Clients, SendProbe(c) PROVE TypeOK'
  <2>1. toServer[c] \in Probes /\ sent[c] \in Nat /\ sent[c] < ProbeCount[c]
    BY <1>3 DEF TypeOK, SendProbe, SessionInv, Probes
  <2>2. Message(sent[c], ProbeLen) \in Probes
    BY <1>0, <2>1, MessageIs DEF Probes
  <2>3. toServer[c] \o Message(sent[c], ProbeLen) \in Probes
    BY <2>1, <2>2, ConcatProperties DEF Probes
  <2>4. toServer' \in [Clients -> Probes]
    BY <1>3, <2>3 DEF TypeOK, SendProbe, Probes
  <2>5. sent' \in [Clients -> Nat] /\ \A d \in Clients : sent'[d] <= ProbeCount[d]
    BY <1>0, <1>3, <2>1 DEF TypeOK, SendProbe
  <2> QED  BY <1>3, <2>4, <2>5 DEF TypeOK, SendProbe, serverVars, Probes
<1>4. ASSUME NEW c \in Clients, SendFails(c) PROVE TypeOK'
  <2>1. sent[c] \in Nat /\ sent[c] < ProbeCount[c]
    BY <1>4 DEF TypeOK, SendFails, SessionInv
  <2>2. LoopHead(c, sent[c] + 1) \in {"send", "done"}
    BY <2>1, LoopHeadIs
  <2>3. sent' \in [Clients -> Nat] /\ \A d \in Clients : sent'[d] <= ProbeCount[d]
    BY <1>0, <1>4, <2>1 DEF TypeOK, SendFails
  <2> QED  BY <1>4, <2>2, <2>3 DEF TypeOK, SendFails, serverVars
<1>5. ASSUME NEW c \in Clients, NEW n \in ReadSizes(toClient[c]), ReadEcho(c, n)
      PROVE  TypeOK'
  <2>1. toClient[c] \in Echoes /\ samples[c] \in Seq(Sample) /\ sent[c] \in Nat \ {0}
    BY <1>5 DEF TypeOK, ReadEcho, SessionInv, Echoes, Sample
  <2>2. n \in 1..Len(toClient[c]) /\ n \in 0..Len(toClient[c])
    BY <2>1, ReadSizeIs, LenProperties DEF Echoes
  <2>3. Rest(toClient[c], n) \in Echoes
    BY <2>1, <2>2, RestIs DEF Echoes
  <2>4. Book(c, n) \in Seq(Sample)
    <3>1. CASE ~Parses(Chunk(toClient[c], n), EchoLen)
      BY <2>1, <3>1 DEF Book
    <3>2. CASE Parses(Chunk(toClient[c], n), EchoLen)
      <4>1. /\ Chunk(toClient[c], n)[1] = toClient[c][1]
            /\ toClient[c][1] \in Nat \X (1..EchoLen)
        BY <1>0, <2>1, <2>2, <3>2, ParsesIs DEF Echoes
      <4>2. [probe |-> sent[c] - 1, echo |-> Chunk(toClient[c], n)[1][1]] \in Sample
        BY <2>1, <4>1 DEF Sample
      <4> QED  BY <2>1, <3>2, <4>2, AppendProperties DEF Book
    <3> QED  BY <3>1, <3>2
  <2>5. LoopHead(c, sent[c]) \in {"send", "done"}
    BY <2>1, LoopHeadIs
  <2>6. samples' \in [Clients -> Seq(Sample)] /\ toClient' \in [Clients -> Echoes]
    BY <1>5, <2>3, <2>4 DEF TypeOK, ReadEcho, Echoes, Sample
  <2> QED  BY <1>5, <2>5, <2>6 DEF TypeOK, ReadEcho, serverVars, Echoes, Sample
<1>6. ASSUME NEW c \in Clients, ReadGivesUp(c) PROVE TypeOK'
  <2>1. LoopHead(c, sent[c]) \in {"send", "done"}
    BY LoopHeadIs DEF TypeOK
  <2> QED  BY <1>6, <2>1 DEF TypeOK, ReadGivesUp, serverVars
<1>7. ASSUME NEW c \in Clients, NEW n \in ReadSizes(toServer[c]), HandlerEchoes(c, n)
      PROVE  TypeOK'
  <2>1. toServer[c] \in Probes /\ toClient[c] \in Echoes
    BY DEF TypeOK, Probes, Echoes
  <2>2. n \in 1..Len(toServer[c]) /\ n \in 0..Len(toServer[c])
    BY <2>1, ReadSizeIs, LenProperties DEF Probes
  <2>3. Rest(toServer[c], n) \in Probes
    BY <2>1, <2>2, RestIs DEF Probes
  <2>4. /\ Chunk(toServer[c], n)[1] = toServer[c][1]
        /\ toServer[c][1] \in Nat \X (1..ProbeLen)
    BY <1>0, <1>7, <2>1, <2>2, ParsesIs DEF HandlerEchoes, Probes
  <2>5. Chunk(toServer[c], n)[1][1] \in Nat
    BY <2>4
  <2>6. Message(Chunk(toServer[c], n)[1][1], EchoLen) \in Echoes
    BY <1>0, <2>5, MessageIs DEF Echoes
  <2>7. toClient[c] \o Message(Chunk(toServer[c], n)[1][1], EchoLen) \in Echoes
    BY <2>1, <2>6, ConcatProperties DEF Echoes
  <2>8. toServer' \in [Clients -> Probes] /\ toClient' \in [Clients -> Echoes]
    BY <1>7, <2>3, <2>7 DEF TypeOK, HandlerEchoes, Probes, Echoes
  <2> QED
    BY <1>7, <2>8 DEF TypeOK, HandlerEchoes, clientVars, serverVars, Probes, Echoes
<1>8. ASSUME NEW c \in Clients, NEW n \in ReadSizes(toServer[c]), HandlerDrops(c, n)
      PROVE  TypeOK'
  <2>1. toServer[c] \in Probes
    BY DEF TypeOK, Probes
  <2>2. n \in 0..Len(toServer[c])
    BY <2>1, ReadSizeIs, LenProperties DEF Probes
  <2>3. Rest(toServer[c], n) \in Probes
    BY <2>1, <2>2, RestIs DEF Probes
  <2>4. toServer' \in [Clients -> Probes]
    BY <1>8, <2>3 DEF TypeOK, HandlerDrops, Probes
  <2> QED  BY <1>8, <2>4 DEF TypeOK, HandlerDrops, clientVars, serverVars, Probes
<1>9. ASSUME NEW c \in Clients, HandlerCounts(c) \/ HandlerEnds(c) PROVE TypeOK'
  <2>1. CASE HandlerCounts(c)
    BY <2>1 DEF TypeOK, HandlerCounts, clientVars, serverVars
  <2>2. CASE HandlerEnds(c)
    BY <2>2 DEF TypeOK, HandlerEnds, clientVars, serverVars
  <2> QED  BY <1>9, <2>1, <2>2
<1>10. ASSUME NEW c \in Clients, Reset(c) PROVE TypeOK'
  <2>1. PICK n \in 0..Len(toClient[c]) :
            toClient' = [toClient EXCEPT ![c] = Chunk(@, n)]
    BY <1>10 DEF Reset
  <2>2. Chunk(toClient[c], n) \in Echoes
    BY ChunkIs DEF TypeOK, Echoes
  <2>3. toClient' \in [Clients -> Echoes]
    BY <2>1, <2>2 DEF TypeOK, Echoes
  <2>4. toServer' \in [Clients -> Probes]
    <3>1. toServer \in [Clients -> Probes] /\ <<>> \in Probes
      BY EmptySeq DEF TypeOK, Probes
    <3> QED  BY <1>10, <3>1 DEF Reset
  <2> QED
    BY <1>10, <2>3, <2>4 DEF TypeOK, Reset, clientVars, serverVars, Probes, Echoes
<1>11. ASSUME NEW c \in Clients, EndArrives(c) PROVE TypeOK'
  BY <1>11 DEF TypeOK, EndArrives, clientVars, serverVars
<1>12. CASE RunStarts \/ Stop \/ LoopStep
  BY <1>12 DEF TypeOK, RunStarts, Stop, LoopStep, LoopChecks, Accepts,
               AcceptTimesOut, AcceptFails, serverUnchanged, clientVars
<1>13. CASE UNCHANGED vars
  BY <1>13 DEF TypeOK, vars
<1> QED
  BY <1>1, <1>2, <1>3, <1>4, <1>5, <1>6, <1>7, <1>8, <1>9, <1>10, <1>11, <1>12,
     <1>13 DEF Next, ClientStep, HandlerStep, NetworkStep

----------------------------------------------------------------------------
(* Every step keeps the order.                                              *)

\* SessionInv(d) is about five components of session d only.
LEMMA OthersKeep ==
    ASSUME NEW d \in Clients, SessionInv(d),
           pc'[d] = pc[d], sent'[d] = sent[d], samples'[d] = samples[d],
           toServer'[d] = toServer[d], toClient'[d] = toClient[d]
    PROVE  SessionInv(d)'
  BY DEF SessionInv, Settled

\* The types of one session, as the lemmas on streams want them.
LEMMA SessionTypes ==
    ASSUME TypeOK, NEW c \in Clients
    PROVE  /\ toServer[c] \in Seq(Byte)
           /\ toClient[c] \in Seq(Byte)
           /\ samples[c] \in Seq(Sample)
           /\ sent[c] \in Nat
           /\ ProbeLen \in Nat
           /\ EchoLen \in Nat
<1>1. Nat \X (1..ProbeLen) \subseteq Byte /\ Nat \X (1..EchoLen) \subseteq Byte
  BY LengthsAssumption DEF Byte
<1>2. toServer[c] \in Seq(Nat \X (1..ProbeLen)) /\ toClient[c] \in Seq(Nat \X (1..EchoLen))
  BY DEF TypeOK
<1>3. toServer[c] \in Seq(Byte) /\ toClient[c] \in Seq(Byte)
  BY <1>1, <1>2
<1> QED  BY <1>3, LengthsAssumption DEF TypeOK, Sample

\* A step of client c leaves the other sessions alone.
LEMMA ClientFrame ==
    ASSUME IInv, NEW c \in Clients, NEW d \in Clients, d # c,
           \/ ClientStep(c)
           \/ HandlerStep(c)
           \/ NetworkStep(c)
    PROVE  SessionInv(d)'
<1> USE DEF IInv
<1>1. CASE ClientStep(c)
  <2>1. /\ pc'[d] = pc[d] /\ sent'[d] = sent[d] /\ samples'[d] = samples[d]
        /\ toServer'[d] = toServer[d] /\ toClient'[d] = toClient[d]
    BY <1>1 DEF TypeOK, ClientStep, Connect, ConnectFails, SendProbe, SendFails,
                ReadEcho, ReadGivesUp
  <2> QED  BY <2>1, OthersKeep
<1>2. CASE HandlerStep(c)
  <2>1. /\ pc'[d] = pc[d] /\ sent'[d] = sent[d] /\ samples'[d] = samples[d]
        /\ toServer'[d] = toServer[d] /\ toClient'[d] = toClient[d]
    BY <1>2 DEF TypeOK, HandlerStep, HandlerEchoes, HandlerDrops, HandlerCounts,
                HandlerEnds, clientVars
  <2> QED  BY <2>1, OthersKeep
<1>3. CASE NetworkStep(c)
  <2>1. /\ pc'[d] = pc[d] /\ sent'[d] = sent[d] /\ samples'[d] = samples[d]
        /\ toServer'[d] = toServer[d] /\ toClient'[d] = toClient[d]
    BY <1>3 DEF TypeOK, NetworkStep, EndArrives, Reset, clientVars
  <2> QED  BY <2>1, OthersKeep
<1> QED  BY <1>1, <1>2, <1>3

\* A step of a session keeps what the invariant says of it.
LEMMA ClientKeepsSession ==
    ASSUME IInv, TypeOK', NEW c \in Clients, ClientStep(c)
    PROVE  SessionInv(c)'
<1> USE DEF IInv
<1>0. /\ toServer[c] \in Seq(Byte) /\ toClient[c] \in Seq(Byte)
      /\ samples[c] \in Seq(Sample) /\ sent[c] \in Nat
      /\ ProbeLen \in Nat /\ EchoLen \in Nat
      /\ SessionInv(c)
  BY SessionTypes
<1>1. CASE Connect(c)
  <2>1. pc'[c] = LoopHead(c, 0) /\ sent[c] = 0
    BY <1>1 DEF Connect, SessionInv, TypeOK
  <2>2. pc'[c] \in {"send", "done"} /\ (pc'[c] = "send" => 0 < ProbeCount[c])
    BY <2>1, LoopHeadIs
  <2> QED  BY <1>0, <1>1, <2>1, <2>2 DEF Connect, SessionInv, Settled
<1>2. CASE ConnectFails(c)
  <2>1. pc'[c] = "failed"
    BY <1>2 DEF ConnectFails, TypeOK
  <2> QED  BY <1>0, <1>2, <2>1 DEF ConnectFails, SessionInv, Settled
<1>3. CASE SendProbe(c)
  <2>1. /\ pc'[c] = "await"
        /\ sent'[c] = sent[c] + 1
        /\ toServer'[c] = toServer[c] \o Message(sent[c], ProbeLen)
        /\ toClient'[c] = toClient[c]
        /\ samples'[c] = samples[c]
    BY <1>3, SMTT(30) DEF SendProbe, TypeOK
  <2>2. Ordered(samples[c], sent[c])
        /\ InFlightOrder(toServer[c], toClient[c], samples[c], sent[c])
    BY <1>0, <1>3 DEF SendProbe, SessionInv, Settled
  <2>3. InFlightOrder(toServer'[c], toClient'[c], samples'[c], sent'[c])
    BY <1>0, <2>1, <2>2, SendKeepsOrder
  <2>4. Settled(c)' = sent[c]
    BY <1>0, <2>1 DEF Settled
  <2> QED  BY <1>0, <2>1, <2>2, <2>3, <2>4 DEF SessionInv
<1>4. CASE SendFails(c)
  <2>1. /\ pc'[c] = LoopHead(c, sent[c] + 1)
        /\ sent'[c] = sent[c] + 1
        /\ UNCHANGED <<samples, toServer, toClient>>
    BY <1>4 DEF SendFails, TypeOK
  <2>2. pc'[c] \in {"send", "done"} /\ (pc'[c] = "send" => sent'[c] < ProbeCount[c])
    BY <1>0, <2>1, LoopHeadIs
  <2>3. Ordered(samples[c], sent[c])
        /\ InFlightOrder(toServer[c], toClient[c], samples[c], sent[c])
    BY <1>0, <1>4 DEF SendFails, SessionInv, Settled
  <2>4. Ordered(samples[c], sent[c] + 1)
    BY <1>0, <2>3, OrderedBelowMore
  <2>5. Below(toServer[c], sent[c] + 1) /\ Below(toClient[c], sent[c] + 1)
    BY <1>0, <2>3, BelowMore DEF InFlightOrder
  <2>6. InFlightOrder(toServer[c], toClient[c], samples[c], sent[c] + 1)
    BY <2>3, <2>5 DEF InFlightOrder
  <2> QED  BY <2>1, <2>2, <2>4, <2>6 DEF SessionInv, Settled
<1>5. ASSUME NEW n \in ReadSizes(toClient[c]), ReadEcho(c, n)
      PROVE  SessionInv(c)'
  <2>1. /\ pc'[c] = LoopHead(c, sent[c])
        /\ samples'[c] = Book(c, n)
        /\ toClient'[c] = Rest(toClient[c], n)
        /\ UNCHANGED <<sent, toServer>>
    BY <1>5 DEF ReadEcho, TypeOK
  <2>2. pc'[c] \in {"send", "done"} /\ (pc'[c] = "send" => sent'[c] < ProbeCount[c])
    BY <1>0, <2>1, LoopHeadIs
  <2>3. /\ sent[c] \in Nat \ {0}
        /\ Ordered(samples[c], sent[c] - 1)
        /\ InFlightOrder(toServer[c], toClient[c], samples[c], sent[c])
    BY <1>0, <1>5 DEF ReadEcho, SessionInv, Settled
  <2>4. n \in 1..Len(toClient[c]) /\ n \in 0..Len(toClient[c])
    BY <1>0, ReadSizeIs, LenProperties
  <2>5. /\ Ordered(samples'[c], sent[c])
        /\ InFlightOrder(toServer[c], toClient'[c], samples'[c], sent[c])
    <3>1. CASE ~Parses(Chunk(toClient[c], n), EchoLen)
      <4>1. samples'[c] = samples[c]
        BY <2>1, <3>1 DEF Book
      <4> QED  BY <1>0, <2>1, <2>3, <2>4, <4>1, OrderedBelowMore, SkipKeepsOrder
    <3>2. CASE Parses(Chunk(toClient[c], n), EchoLen)
      <4>1. /\ Chunk(toClient[c], n)[1] = toClient[c][1]
            /\ toClient[c][1][2] = 1
        BY <1>0, <2>4, <3>2, ParsesIs
      <4>2. samples'[c] = Append(samples[c],
                            [probe |-> sent[c] - 1, echo |-> toClient[c][1][1]])
        BY <2>1, <3>2, <4>1 DEF Book
      <4> QED  BY <1>0, <2>1, <2>3, <2>4, <4>1, <4>2, BookKeepsOrder
    <3> QED  BY <3>1, <3>2
  <2> QED  BY <2>1, <2>2, <2>3, <2>5 DEF SessionInv, Settled
<1>6. CASE ReadGivesUp(c)
  <2>1. /\ pc'[c] = LoopHead(c, sent[c])
        /\ UNCHANGED <<sent, samples, toServer, toClient>>
    BY <1>6 DEF ReadGivesUp, TypeOK
  <2>2. pc'[c] \in {"send", "done"} /\ (pc'[c] = "send" => sent'[c] < ProbeCount[c])
    BY <1>0, <2>1, LoopHeadIs
  <2>3. Ordered(samples[c], sent[c] - 1)
        /\ InFlightOrder(toServer[c], toClient[c], samples[c], sent[c])
    BY <1>0, <1>6 DEF ReadGivesUp, SessionInv, Settled
  <2>4. Ordered(samples[c], sent[c])
    BY <1>0, <2>3, OrderedBelowMore
  <2> QED  BY <2>1, <2>2, <2>3, <2>4 DEF SessionInv, Settled
<1> QED  BY <1>1, <1>2, <1>3, <1>4, <1>5, <1>6 DEF ClientStep

\* So does a step of its handler or of the network.
LEMMA ServerKeepsSession ==
    ASSUME IInv, TypeOK', NEW c \in Clients, HandlerStep(c) \/ NetworkStep(c)
    PROVE  SessionInv(c)'
<1> USE DEF IInv
<1>0. /\ toServer[c] \in Seq(Byte) /\ toClient[c] \in Seq(Byte)
      /\ samples[c] \in Seq(Sample) /\ sent[c] \in Nat
      /\ ProbeLen \in Nat /\ EchoLen \in Nat
      /\ SessionInv(c)
  BY SessionTypes
<1>1. UNCHANGED <<pc, sent, samples>>
  BY DEF HandlerStep, HandlerEchoes, HandlerDrops, HandlerCounts, HandlerEnds,
         NetworkStep, EndArrives, Reset, clientVars
<1>2. InFlightOrder(toServer[c], toClient[c], samples[c], sent[c])
  BY <1>0 DEF SessionInv
<1>3. SUFFICES InFlightOrder(toServer'[c], toClient'[c], samples[c], sent[c])
  BY <1>0, <1>1 DEF SessionInv, Settled
<1>4. ASSUME NEW n \in ReadSizes(toServer[c]), HandlerEchoes(c, n)
      PROVE  InFlightOrder(toServer'[c], toClient'[c], samples[c], sent[c])
  <2>1. n \in 1..Len(toServer[c])
    BY <1>0, ReadSizeIs
  <2>2. Chunk(toServer[c], n)[1] = toServer[c][1] /\ toServer[c][1][2] = 1
    BY <1>0, <1>4, <2>1, ParsesIs DEF HandlerEchoes
  <2>3. /\ toServer'[c] = Rest(toServer[c], n)
        /\ toClient'[c] = toClient[c] \o Message(toServer[c][1][1], EchoLen)
    BY <1>4, <2>2, ZenonT(60) DEF HandlerEchoes, TypeOK
  <2> QED  BY <1>0, <1>2, <2>1, <2>2, <2>3, EchoKeepsOrder
<1>5. ASSUME NEW n \in ReadSizes(toServer[c]), HandlerDrops(c, n)
      PROVE  InFlightOrder(toServer'[c], toClient'[c], samples[c], sent[c])
  <2>1. n \in 0..Len(toServer[c])
    BY <1>0, ReadSizeIs, LenProperties
  <2>2. toServer'[c] = Rest(toServer[c], n) /\ toClient'[c] = toClient[c]
    BY <1>5 DEF HandlerDrops, TypeOK
  <2> QED  BY <1>0, <1>2, <2>1, <2>2, DropKeepsOrder
<1>6. CASE HandlerCounts(c) \/ HandlerEnds(c) \/ EndArrives(c)
  <2>1. UNCHANGED <<toServer, toClient>>
    BY <1>6 DEF HandlerCounts, HandlerEnds, EndArrives
  <2> QED  BY <1>2, <2>1
<1>7. CASE Reset(c)
  <2>1. PICK n \in 0..Len(toClient[c]) :
            toClient' = [toClient EXCEPT ![c] = Chunk(@, n)]
    BY <1>7 DEF Reset
  <2>2. toServer'[c] = <<>> /\ toClient'[c] = Chunk(toClient[c], n)
    BY <1>7, <2>1 DEF Reset, TypeOK
  <2> QED  BY <1>0, <1>2, <2>2, ResetKeepsOrder
<1> QED  BY <1>4, <1>5, <1>6, <1>7 DEF HandlerStep, NetworkStep

\* The invariant holds before any session has connected.
LEMMA InvInit == Init => IInv
<1> SUFFICES ASSUME Init PROVE IInv
  OBVIOUS
<1>1. <<>> \in Probes /\ <<>> \in Echoes /\ <<>> \in Seq(Sample)
  BY EmptySeq DEF Probes, Echoes
<1>2. TypeOK
  <2>1. /\ toServer \in [Clients -> Probes]
        /\ toClient \in [Clients -> Echoes]
        /\ samples \in [Clients -> Seq(Sample)]
    BY <1>1 DEF Init
  <2>2. sent \in [Clients -> Nat] /\ \A c \in Clients : sent[c] <= ProbeCount[c]
    BY CountsAssumption DEF Init
  <2> QED  BY <2>1, <2>2 DEF Init, TypeOK, Probes, Echoes, Sample
<1>3. ASSUME NEW c \in Clients
      PROVE  SessionInv(c)
  <2>1. /\ pc[c] = "connect" /\ sent[c] = 0 /\ samples[c] = <<>>
        /\ toServer[c] = <<>> /\ toClient[c] = <<>>
    BY DEF Init
  <2>2. DOMAIN <<>> = {} /\ Len(<<>>) = 0
    BY EmptySeq
  <2>3. Ordered(<<>>, 0)
    BY <2>2 DEF Ordered
  <2>4. InFlightOrder(<<>>, <<>>, <<>>, 0)
    BY <2>2 DEF InFlightOrder, Ascending, Older, Below, Booked, Starts
  <2> QED  BY <2>1, <2>3, <2>4 DEF SessionInv, Settled
<1> QED  BY <1>2, <1>3 DEF IInv

\* Every step keeps the invariant.
LEMMA InvStep == IInv /\ [Next]_vars => IInv'
<1> SUFFICES ASSUME IInv, [Next]_vars PROVE IInv'
  OBVIOUS
<1>1. TypeOK'
  BY TypeStep
<1>2. SUFFICES ASSUME NEW d \in Clients PROVE SessionInv(d)'
  BY <1>1 DEF IInv
<1>3. ASSUME NEW c \in Clients, ClientStep(c) \/ HandlerStep(c) \/ NetworkStep(c)
      PROVE  SessionInv(d)'
  <2>1. CASE d # c
    BY <1>3, <2>1, ClientFrame
  <2>2. CASE d = c
    BY <1>1, <1>3, <2>2, ClientKeepsSession, ServerKeepsSession
  <2> QED  BY <2>1, <2>2
<1>4. CASE RunStarts \/ Stop \/ LoopStep \/ UNCHANGED vars
  <2>1. UNCHANGED <<pc, sent, samples, toServer, toClient>>
    BY <1>4 DEF RunStarts, Stop, LoopStep, LoopChecks, Accepts, AcceptTimesOut,
                AcceptFails, serverUnchanged, clientVars, vars
  <2> QED  BY <2>1, OthersKeep DEF IInv
<1> QED  BY <1>3, <1>4 DEF Next

----------------------------------------------------------------------------

\* IInv holds in every reachable state.
THEOREM Inductive == Spec => []IInv
<1> QED  BY InvInit, InvStep, PTL DEF Spec

\* The sessions, the streams and the server keep their types, and no session
\* sends more probes than its options say, whatever the schedule.
THEOREM TypeCorrect == Spec => []TypeOK
<1>1. IInv => TypeOK
  BY DEF IInv
<1> QED  BY <1>1, Inductive, PTL

\* No echo is booked twice, early or out of order, and received never exceeds
\* sent: the samples of probe_bidirectional under every interleaving, loss and
\* segmentation of the streams.
THEOREM SamplesAreInOrder == Spec => []SamplesInOrder
<1>1. IInv => SamplesInOrder
  <2> SUFFICES ASSUME IInv, NEW c \in Clients
               PROVE  /\ Len(samples[c]) <= sent[c]
                      /\ \A i \in DOMAIN samples[c] :
                             /\ samples[c][i].echo <= samples[c][i].probe
                             /\ samples[c][i].probe < sent[c]
                      /\ \A i, j \in DOMAIN samples[c] :
                             i < j => /\ samples[c][i].probe < samples[c][j].probe
                                      /\ samples[c][i].echo < samples[c][j].echo
    BY DEF SamplesInOrder
  <2>1. samples[c] \in Seq(Sample) /\ sent[c] \in Nat
    BY SessionTypes DEF IInv
  <2>2. Ordered(samples[c], Settled(c)) /\ Settled(c) \in Int /\ Settled(c) <= sent[c]
    BY <2>1 DEF IInv, SessionInv, Settled
  <2>3. Ordered(samples[c], sent[c])
    BY <2>1, <2>2, OrderedBelowMore
  <2> QED  BY <2>3 DEF Ordered
<1> QED  BY <1>1, Inductive, PTL

----------------------------------------------------------------------------
(* What the sessions have received, against what the server counted.        *)

\* The echoes that one session has booked or that are on the way to it whole
\* at their first byte, by the number of their probe.
EchoNumbers(sm, back) == {sm[i].echo : i \in DOMAIN sm} \cup {back[i][1] : i \in Starts(back)}

\* The echoes of all sessions.
AllEchoes(sms, backs) == UNION {{c} \X EchoNumbers(sms[c], backs[c]) : c \in Clients}

\* The handlers between their write_all and their fetch_add.
Counting(hs) == {c \in Clients : hs[c] = "counting"}

\* Every echo that a session has booked or still may book was written by a
\* handler that has counted it or is about to.
EchoesCounted ==
    /\ IsFiniteSet(Counting(handler))
    /\ IsFiniteSet(AllEchoes(samples, toClient))
    /\ Cardinality(AllEchoes(samples, toClient))
           <= probes_handled + Cardinality(Counting(handler))

\* Writing an echo adds its number and no other.
LEMMA EchoAdds ==
    ASSUME NEW sm, NEW back \in Seq(Byte), NEW q \in Nat, NEW len \in Nat
    PROVE  EchoNumbers(sm, back \o Message(q, len)) \subseteq EchoNumbers(sm, back) \cup {q}
<1>1. ASSUME NEW i \in Starts(back \o Message(q, len))
      PROVE  (back \o Message(q, len))[i][1] \in EchoNumbers(sm, back) \cup {q}
  <2>1. \/ i \in Starts(back) /\ (back \o Message(q, len))[i] = back[i]
        \/ i = Len(back) + 1 /\ (back \o Message(q, len))[i] = <<q, 1>>
    BY WriteIs
  <2>2. CASE i \in Starts(back) /\ (back \o Message(q, len))[i] = back[i]
    <3>1. back[i][1] \in EchoNumbers(sm, back)
      BY <2>2 DEF EchoNumbers
    <3> QED  BY <2>2, <3>1
  <2>3. CASE (back \o Message(q, len))[i] = <<q, 1>>
    BY <2>3
  <2> QED  BY <2>1, <2>2, <2>3
<1> QED  BY <1>1 DEF EchoNumbers

\* Bytes that are read and not booked, or cut off, take numbers away.
LEMMA RestTakes ==
    ASSUME NEW sm, NEW back \in Seq(Byte), NEW n \in 0..Len(back)
    PROVE  EchoNumbers(sm, Rest(back, n)) \subseteq EchoNumbers(sm, back)
<1>1. \A i \in Starts(Rest(back, n)) :
          n + i \in Starts(back) /\ Rest(back, n)[i] = back[n + i]
  BY RestStarts
<1> QED  BY <1>1 DEF EchoNumbers

\* So does cutting the stream short.
LEMMA ChunkTakes ==
    ASSUME NEW sm, NEW back \in Seq(Byte), NEW n \in 0..Len(back)
    PROVE  EchoNumbers(sm, Chunk(back, n)) \subseteq EchoNumbers(sm, back)
<1>1. \A i \in Starts(Chunk(back, n)) :
          i \in Starts(back) /\ Chunk(back, n)[i] = back[i]
  BY ChunkStarts
<1> QED  BY <1>1 DEF EchoNumbers

\* Booking the echo a read starts with moves its number from the stream to
\* the samples.
LEMMA BookMoves ==
    ASSUME NEW sm \in Seq(Sample), NEW back \in Seq(Byte), NEW n \in 1..Len(back),
           NEW e \in Sample, back[1][2] = 1, e.echo = back[1][1]
    PROVE  EchoNumbers(Append(sm, e), Rest(back, n)) \subseteq EchoNumbers(sm, back)
<1>1. Len(back) \in Nat /\ DOMAIN back = 1..Len(back) /\ n \in 0..Len(back)
  BY LenProperties
<1>2. 1 \in Starts(back)
  BY <1>1 DEF Starts
<1>3. EchoNumbers(sm, Rest(back, n)) \subseteq EchoNumbers(sm, back)
  BY <1>1, RestTakes
<1>4. /\ Append(sm, e) \in Seq(Sample)
      /\ Len(Append(sm, e)) = Len(sm) + 1
      /\ \A i \in 1..Len(sm) : Append(sm, e)[i] = sm[i]
      /\ Append(sm, e)[Len(sm) + 1] = e
  BY AppendProperties
<1>5. /\ Len(sm) \in Nat /\ DOMAIN sm = 1..Len(sm)
      /\ DOMAIN Append(sm, e) = 1..(Len(sm) + 1)
  BY <1>4, LenProperties
<1>6. ASSUME NEW i \in DOMAIN Append(sm, e)
      PROVE  Append(sm, e)[i].echo \in EchoNumbers(sm, back)
  <2>1. i \in DOMAIN sm \/ i = Len(sm) + 1
    BY <1>5
  <2>2. CASE i \in DOMAIN sm
    <3>1. Append(sm, e)[i] = sm[i]
      BY <1>4, <1>5, <2>2
    <3> QED  BY <2>2, <3>1 DEF EchoNumbers
  <2>3. CASE i = Len(sm) + 1
    BY <1>2, <1>4, <2>3 DEF EchoNumbers
  <2> QED  BY <2>1, <2>2, <2>3
<1> QED  BY <1>3, <1>6 DEF EchoNumbers

\* A step of session c that takes numbers away or leaves them.
LEMMA FewerEchoes ==
    ASSUME NEW sms, NEW backs, NEW sms2, NEW backs2,
           \A c \in Clients : EchoNumbers(sms2[c], backs2[c]) \subseteq EchoNumbers(sms[c], backs[c])
    PROVE  AllEchoes(sms2, backs2) \subseteq AllEchoes(sms, backs)
  BY DEF AllEchoes

\* The bound survives when no echo is added and no handler starts to count.
LEMMA NoEchoMore ==
    ASSUME TypeOK, EchoesCounted, UNCHANGED <<handler, probes_handled>>,
           \A c \in Clients :
               EchoNumbers(samples'[c], toClient'[c]) \subseteq EchoNumbers(samples[c], toClient[c])
    PROVE  EchoesCounted'
<1>1. AllEchoes(samples', toClient') \subseteq AllEchoes(samples, toClient)
  BY FewerEchoes
<1>2. /\ IsFiniteSet(AllEchoes(samples', toClient'))
      /\ Cardinality(AllEchoes(samples', toClient'))
             <= Cardinality(AllEchoes(samples, toClient))
  BY <1>1, FS_Subset DEF EchoesCounted
<1>3. /\ Cardinality(AllEchoes(samples', toClient')) \in Nat
      /\ Cardinality(AllEchoes(samples, toClient)) \in Nat
      /\ Cardinality(Counting(handler)) \in Nat
      /\ probes_handled \in Nat
  BY <1>2, FS_CardinalityType DEF EchoesCounted, TypeOK
<1> QED  BY <1>2, <1>3 DEF EchoesCounted

\* One handler writes one echo and is the one more that counts.
LEMMA OneEchoMore ==
    ASSUME TypeOK, EchoesCounted, NEW c \in Clients, NEW q,
           handler[c] # "counting",
           handler' = [handler EXCEPT ![c] = "counting"],
           UNCHANGED <<samples, probes_handled>>,
           \A d \in Clients \ {c} : toClient'[d] = toClient[d],
           EchoNumbers(samples[c], toClient'[c]) \subseteq EchoNumbers(samples[c], toClient[c]) \cup {q}
    PROVE  EchoesCounted'
<1> DEFINE old == AllEchoes(samples, toClient)
           new == AllEchoes(samples', toClient')
           p == <<c, q>>
           busy == Counting(handler)
<1>1. new \subseteq old \cup {p}
  BY DEF AllEchoes
<1>2. Counting(handler') = busy \cup {c} /\ c \notin busy
  BY DEF Counting, TypeOK
<1>3. IsFiniteSet(old) /\ IsFiniteSet(busy) /\ Cardinality(old) <= probes_handled + Cardinality(busy)
  BY DEF EchoesCounted
<1> HIDE DEF old, new, p, busy
<1>4. /\ IsFiniteSet(old \cup {p})
      /\ Cardinality(old \cup {p}) = IF p \in old THEN Cardinality(old) ELSE Cardinality(old) + 1
  BY <1>3, FS_AddElement
<1>5. /\ IsFiniteSet(busy \cup {c})
      /\ Cardinality(busy \cup {c}) = Cardinality(busy) + 1
  BY <1>2, <1>3, FS_AddElement
<1>6. IsFiniteSet(new) /\ Cardinality(new) <= Cardinality(old \cup {p})
  BY <1>1, <1>4, FS_Subset
<1>7. /\ Cardinality(old) \in Nat /\ Cardinality(new) \in Nat
      /\ Cardinality(busy) \in Nat /\ probes_handled \in Nat
  BY <1>3, <1>6, FS_CardinalityType DEF TypeOK
<1>8. Cardinality(new) <= probes_handled + (Cardinality(busy) + 1)
  BY <1>3, <1>4, <1>6, <1>7
<1> QED  BY <1>2, <1>5, <1>6, <1>8 DEF EchoesCounted, new

\* A handler counts the echo it wrote.
LEMMA OneCountMore ==
    ASSUME TypeOK, EchoesCounted, NEW c \in Clients, HandlerCounts(c)
    PROVE  EchoesCounted'
<1> DEFINE busy == Counting(handler)
<1>1. /\ UNCHANGED <<samples, toClient>>
      /\ probes_handled' = probes_handled + 1
      /\ Counting(handler') = busy \ {c}
      /\ c \in busy
  BY DEF HandlerCounts, clientVars, Counting, TypeOK
<1>2. IsFiniteSet(busy)
  BY DEF EchoesCounted
<1> HIDE DEF busy
<1>3. IsFiniteSet(busy \ {c}) /\ Cardinality(busy \ {c}) = Cardinality(busy) - 1
  BY <1>1, <1>2, FS_RemoveElement
<1>4. Cardinality(busy) \in Nat /\ probes_handled \in Nat
  BY <1>2, FS_CardinalityType DEF TypeOK
<1>5. probes_handled' + Cardinality(busy \ {c}) = probes_handled + Cardinality(busy)
  BY <1>1, <1>3, <1>4
<1> QED  BY <1>1, <1>3, <1>5 DEF EchoesCounted, busy

\* Nothing is booked or counted at first.
LEMMA EchoesInit ==
    ASSUME Init
    PROVE  EchoesCounted
<1>1. AllEchoes(samples, toClient) = {}
  BY DEF Init, AllEchoes, EchoNumbers, Starts
<1>2. Counting(handler) = {}
  BY DEF Init, Counting
<1> QED  <2>1. IsFiniteSet({}) /\ Cardinality({}) = 0 /\ probes_handled = 0
    BY FS_EmptySet DEF Init
  <2> QED  BY <1>1, <1>2, <2>1 DEF EchoesCounted

\* A read of a session books at most the echo it starts with.
LEMMA ReadEchoes ==
    ASSUME IInv, EchoesCounted, NEW c \in Clients, NEW n \in ReadSizes(toClient[c]),
           ReadEcho(c, n)
    PROVE  EchoesCounted'
<1>1. /\ toClient[c] \in Seq(Byte) /\ samples[c] \in Seq(Sample)
      /\ sent[c] \in Nat /\ EchoLen \in Nat
  BY SessionTypes DEF IInv
<1>2. n \in 1..Len(toClient[c]) /\ n \in 0..Len(toClient[c])
  BY <1>1, ReadSizeIs, LenProperties
<1>3. /\ samples'[c] = Book(c, n) /\ toClient'[c] = Rest(toClient[c], n)
      /\ \A d \in Clients \ {c} : samples'[d] = samples[d] /\ toClient'[d] = toClient[d]
      /\ UNCHANGED <<handler, probes_handled>>
      /\ sent[c] > 0
      /\ TypeOK
  BY DEF ReadEcho, IInv, TypeOK, SessionInv
<1>4. EchoNumbers(samples'[c], toClient'[c]) \subseteq EchoNumbers(samples[c], toClient[c])
  <2>1. CASE Parses(Chunk(toClient[c], n), EchoLen)
    <3> DEFINE e == [probe |-> sent[c] - 1, echo |-> toClient[c][1][1]]
    <3>1. /\ Chunk(toClient[c], n)[1] = toClient[c][1]
          /\ toClient[c][1][2] = 1 /\ toClient[c][1] \in Byte
      BY <1>1, <1>2, <2>1, ParsesIs
    <3>2. Book(c, n) = Append(samples[c], e)
      BY <2>1, <3>1 DEF Book
    <3>3. e \in Sample /\ e.echo = toClient[c][1][1]
      BY <1>1, <1>3, <3>1 DEF Sample, Byte
    <3> HIDE DEF e
    <3>4. EchoNumbers(Append(samples[c], e), Rest(toClient[c], n))
            \subseteq EchoNumbers(samples[c], toClient[c])
      BY <1>1, <1>2, <3>1, <3>3, BookMoves, SMTT(30)
    <3> QED  BY <1>3, <3>2, <3>4
  <2>2. CASE ~Parses(Chunk(toClient[c], n), EchoLen)
    <3>1. samples'[c] = samples[c]
      BY <1>3, <2>2 DEF Book
    <3>2. EchoNumbers(samples[c], Rest(toClient[c], n)) \subseteq EchoNumbers(samples[c], toClient[c])
      BY <1>1, <1>2, RestTakes
    <3> QED  BY <1>3, <3>1, <3>2
  <2> QED  BY <2>1, <2>2
<1>5. \A d \in Clients :
          EchoNumbers(samples'[d], toClient'[d]) \subseteq EchoNumbers(samples[d], toClient[d])
  BY <1>3, <1>4
<1> QED  BY <1>3, <1>5, NoEchoMore

\* A handler reads a probe and writes its echo.
LEMMA EchoEchoes ==
    ASSUME IInv, EchoesCounted, NEW c \in Clients, NEW n \in ReadSizes(toServer[c]),
           HandlerEchoes(c, n)
    PROVE  EchoesCounted'
<1> DEFINE q == toServer[c][1][1]
<1>1. /\ toServer[c] \in Seq(Byte) /\ toClient[c] \in Seq(Byte)
      /\ ProbeLen \in Nat /\ EchoLen \in Nat
  BY SessionTypes DEF IInv
<1>2. n \in 1..Len(toServer[c])
  BY <1>1, ReadSizeIs
<1>3. Chunk(toServer[c], n)[1] = toServer[c][1] /\ toServer[c][1] \in Byte
  BY <1>1, <1>2, ParsesIs DEF HandlerEchoes
<1>4. q \in Nat
  BY <1>3 DEF Byte
<1>5. /\ handler[c] # "counting"
      /\ handler' = [handler EXCEPT ![c] = "counting"]
      /\ UNCHANGED <<samples, probes_handled>>
      /\ \A d \in Clients \ {c} : toClient'[d] = toClient[d]
      /\ toClient'[c] = toClient[c] \o Message(q, EchoLen)
      /\ TypeOK
  BY <1>3 DEF HandlerEchoes, clientVars, IInv, TypeOK
<1> HIDE DEF q
<1>6. EchoNumbers(samples[c], toClient[c] \o Message(q, EchoLen))
        \subseteq EchoNumbers(samples[c], toClient[c]) \cup {q}
  BY <1>1, <1>4, EchoAdds
<1> QED  BY <1>5, <1>6, OneEchoMore

\* What had not reached the client is cut short.
LEMMA ResetEchoes ==
    ASSUME IInv, EchoesCounted, NEW c \in Clients, Reset(c)
    PROVE  EchoesCounted'
<1>1. PICK n \in 0..Len(toClient[c]) : toClient' = [toClient EXCEPT ![c] = Chunk(@, n)]
  BY DEF Reset
<1>2. toClient[c] \in Seq(Byte) /\ TypeOK /\ UNCHANGED <<samples, handler, probes_handled>>
  BY SessionTypes DEF IInv, Reset, clientVars
<1>3. EchoNumbers(samples[c], Chunk(toClient[c], n)) \subseteq EchoNumbers(samples[c], toClient[c])
  BY <1>2, ChunkTakes
<1>4. \A d \in Clients :
          EchoNumbers(samples'[d], toClient'[d]) \subseteq EchoNumbers(samples[d], toClient[d])
  BY <1>1, <1>2, <1>3 DEF TypeOK
<1> QED  BY <1>2, <1>4, NoEchoMore

\* Every other step leaves the samples, the way back and the counts alone.
LEMMA EchoesSame ==
    ASSUME TypeOK, EchoesCounted, UNCHANGED <<samples, toClient, probes_handled>>,
           Counting(handler') = Counting(handler)
    PROVE  EchoesCounted'
  BY DEF EchoesCounted

\* Every step keeps the echoes within what is counted.
LEMMA EchoesStep ==
    ASSUME IInv, EchoesCounted, [Next]_vars
    PROVE  EchoesCounted'
<1> TypeOK
  BY DEF IInv
<1>1. ASSUME NEW c \in Clients, ClientStep(c)
      PROVE  EchoesCounted'
  <2>1. CASE \E n \in ReadSizes(toClient[c]) : ReadEcho(c, n)
    BY <2>1, ReadEchoes
  <2>2. CASE \/ Connect(c) \/ ConnectFails(c) \/ SendProbe(c)
             \/ SendFails(c) \/ ReadGivesUp(c)
    <3>1. UNCHANGED <<samples, toClient, handler, probes_handled>>
      BY <2>2 DEF Connect, ConnectFails, SendProbe, SendFails, ReadGivesUp
    <3> QED  BY <3>1, EchoesSame
  <2> QED  BY <1>1, <2>1, <2>2 DEF ClientStep
<1>2. ASSUME NEW c \in Clients, HandlerStep(c)
      PROVE  EchoesCounted'
  <2>1. CASE \E n \in ReadSizes(toServer[c]) : HandlerEchoes(c, n)
    BY <2>1, EchoEchoes
  <2>2. CASE HandlerCounts(c)
    BY <2>2, OneCountMore
  <2>3. CASE (\E n \in ReadSizes(toServer[c]) : HandlerDrops(c, n)) \/ HandlerEnds(c)
    <3>1. /\ UNCHANGED <<samples, toClient, probes_handled>>
          /\ Counting(handler') = Counting(handler)
      BY <2>3 DEF HandlerDrops, HandlerEnds, clientVars, Counting, TypeOK
    <3> QED  BY <3>1, EchoesSame
  <2> QED  BY <1>2, <2>1, <2>2, <2>3 DEF HandlerStep
<1>3. ASSUME NEW c \in Clients, NetworkStep(c)
      PROVE  EchoesCounted'
  <2>1. CASE EndArrives(c)
    <3>1. UNCHANGED <<samples, toClient, handler, probes_handled>>
      BY <2>1 DEF EndArrives, clientVars
    <3> QED  BY <3>1, EchoesSame
  <2> QED  BY <1>3, <2>1, ResetEchoes DEF NetworkStep
<1>4. CASE RunStarts \/ Stop \/ LoopStep \/ UNCHANGED vars
  <2>1. /\ UNCHANGED <<samples, toClient, probes_handled>>
        /\ Counting(handler') = Counting(handler)
    BY <1>4 DEF RunStarts, Stop, LoopStep, LoopChecks, Accepts, AcceptTimesOut,
                AcceptFails, serverUnchanged, clientVars, vars, Counting, TypeOK
  <2> QED  BY <2>1, EchoesSame
<1> QED  BY <1>1, <1>2, <1>3, <1>4 DEF Next

\* Each sample has an echo of its own, so there are no more samples than
\* echoes.
LEMMA SamplesAreEchoes ==
    ASSUME IInv, EchoesCounted
    PROVE  ReceivedWereHandled
<1> DEFINE got == UNION {{c} \X DOMAIN samples[c] : c \in Clients}
           all == AllEchoes(samples, toClient)
           f == [p \in got |-> <<p[1], samples[p[1]][p[2]].echo>>]
<1>1. \A p \in got : /\ p = <<p[1], p[2]>> /\ p[1] \in Clients
                     /\ p[2] \in DOMAIN samples[p[1]]
  OBVIOUS
<1>2. \A p \in got : f[p] \in all
  <2> TAKE p \in got
  <2>1. samples[p[1]][p[2]].echo \in EchoNumbers(samples[p[1]], toClient[p[1]])
    BY <1>1 DEF EchoNumbers
  <2>2. <<p[1], samples[p[1]][p[2]].echo>> \in all
    BY <1>1, <2>1 DEF AllEchoes
  <2> QED  BY <2>2
<1>3. ASSUME NEW p \in got, NEW r \in got, f[p] = f[r]
      PROVE  p = r
  <2>1. p[1] = r[1] /\ samples[p[1]][p[2]].echo = samples[p[1]][r[2]].echo
    BY <1>3
  <2>2. PICK c \in Clients : c = p[1] /\ c = r[1]
    BY <1>1, <2>1
  <2>3. samples[c] \in Seq(Sample) /\ Ordered(samples[c], Settled(c))
    BY SessionTypes DEF IInv, SessionInv
  <2>4. \A i \in DOMAIN samples[c] : i \in Nat /\ samples[c][i].echo \in Nat
    <3> TAKE i \in DOMAIN samples[c]
    <3>1. samples[c][i] \in Sample /\ i \in Nat
      BY <2>3, LenProperties
    <3> QED  BY <3>1 DEF Sample
  <2>5. p[2] \in DOMAIN samples[c] /\ r[2] \in DOMAIN samples[c]
    BY <1>1, <2>2
  <2>6. ~(p[2] < r[2]) /\ ~(r[2] < p[2])
    BY <2>1, <2>2, <2>3, <2>4, <2>5 DEF Ordered
  <2>7. p[2] = r[2]
    BY <2>4, <2>5, <2>6
  <2> QED  BY <1>1, <2>1, <2>7
<1>4. f \in [got -> all]
  BY <1>2
<1>5. f \in Injection(got, all)
  <2> HIDE DEF f, got, all
  <2> QED  BY <1>3, <1>4 DEF Injection, IsInjective
<1>6. IsFiniteSet(all)
  BY DEF EchoesCounted
<1>7. IsFiniteSet(got) /\ Cardinality(got) <= Cardinality(all)
  <2> HIDE DEF f, got, all
  <2> QED  BY <1>5, <1>6, FS_Injection
<1>8. /\ Cardinality(got) \in Nat /\ Cardinality(all) \in Nat
      /\ Cardinality(Counting(handler)) \in Nat /\ probes_handled \in Nat
  <2> HIDE DEF f, got, all
  <2> QED  BY <1>6, <1>7, FS_CardinalityType DEF EchoesCounted, IInv, TypeOK
<1>9. Cardinality(all) <= probes_handled + Cardinality(Counting(handler))
  BY DEF EchoesCounted
<1>10. Cardinality(got) <= probes_handled + Cardinality(Counting(handler))
  <2> HIDE DEF f, got, all
  <2> QED  BY <1>7, <1>8, <1>9
<1> QED  BY <1>10 DEF ReceivedWereHandled, Counting

\* Over all sessions, for any clients, counts and lengths, and with any losses,
\* resets and partial reads, the echoes received are no more than those that
\* probes_handled counts and the handlers about to count.
THEOREM ReceivedAreHandled == Spec => []ReceivedWereHandled
<1>1. Init => EchoesCounted
  BY EchoesInit
<1>2. IInv /\ EchoesCounted /\ [Next]_vars => EchoesCounted'
  BY EchoesStep
<1>3. IInv /\ EchoesCounted => ReceivedWereHandled
  BY SamplesAreEchoes
<1> QED  BY <1>1, <1>2, <1>3, Inductive, PTL DEF Spec

----------------------------------------------------------------------------
(* The ledger that the samples keep.                                        *)

\* The verdict that the samples sm give on probe q.
VerdictOf(sm, q) ==
    LET own == {i \in DOMAIN sm : sm[i].probe = q}
    IN IF own = {} THEN -1 ELSE sm[CHOOSE i \in own : TRUE].echo

\* The verdicts on the first n probes.
LedgerOf(sm, n) == [k \in 1..n |-> VerdictOf(sm, k - 1)]

----------------------------------------------------------------------------
(* The ledger of a list of samples.                                         *)

\* The refinement's verdicts are the ledger of the samples, before and after.
LEMMA VerdictsAre ==
    ASSUME NEW c
    PROVE  /\ Verdicts(c) = LedgerOf(samples[c], Settled(c))
           /\ Verdicts(c)' = LedgerOf(samples'[c], Settled(c)')
  BY DEF Verdicts, LedgerOf, VerdictOf, SamplesOf

\* What a sample holds.
LEMMA SamplesAre ==
    ASSUME NEW sm \in Seq(Sample), NEW i \in DOMAIN sm
    PROVE  sm[i] \in Sample /\ sm[i].probe \in Nat /\ sm[i].echo \in Nat
<1>1. sm[i] \in Sample
  BY LenProperties
<1> QED  BY <1>1 DEF Sample

\* A verdict is a loss or the echo of one of the samples.
LEMMA VerdictOfIs ==
    ASSUME NEW sm \in Seq(Sample), NEW q
    PROVE  \/ VerdictOf(sm, q) = -1
           \/ \E i \in DOMAIN sm : VerdictOf(sm, q) = sm[i].echo /\ sm[i].echo \in Nat
<1> DEFINE own == {i \in DOMAIN sm : sm[i].probe = q}
<1>1. CASE own = {}
  BY <1>1 DEF VerdictOf
<1>2. CASE own # {}
  <2>1. (CHOOSE i \in own : TRUE) \in own
    BY <1>2
  <2>2. VerdictOf(sm, q) = sm[CHOOSE i \in own : TRUE].echo
    BY <1>2 DEF VerdictOf
  <2>3. \A i \in DOMAIN sm : sm[i].echo \in Nat
    BY SamplesAre
  <2> QED  BY <2>1, <2>2, <2>3
<1> QED  BY <1>1, <1>2

\* No sample, no echo: what is at or beyond the bound is lost.
LEMMA NotBooked ==
    ASSUME NEW sm \in Seq(Sample), NEW bound \in Nat, Ordered(sm, bound)
    PROVE  VerdictOf(sm, bound) = -1
<1>1. \A i \in DOMAIN sm : sm[i].probe \in Nat /\ sm[i].probe < bound
  BY SamplesAre DEF Ordered
<1>2. {i \in DOMAIN sm : sm[i].probe = bound} = {}
  BY <1>1
<1> QED  BY <1>2 DEF VerdictOf

\* Booking an echo under a new probe settles that probe and no other.
LEMMA BookedOnce ==
    ASSUME NEW sm \in Seq(Sample), NEW e \in Sample, Ordered(sm, e.probe)
    PROVE  /\ VerdictOf(Append(sm, e), e.probe) = e.echo
           /\ \A q \in Nat : q # e.probe => VerdictOf(Append(sm, e), q) = VerdictOf(sm, q)
<1> DEFINE new == Append(sm, e)
<1>1. /\ Len(sm) \in Nat
      /\ DOMAIN sm = 1..Len(sm)
      /\ DOMAIN new = 1..(Len(sm) + 1)
      /\ \A k \in DOMAIN sm : new[k] = sm[k] /\ sm[k] \in Sample
      /\ new[Len(sm) + 1] = e
  BY AppendProperties, LenProperties
<1>2. \A k \in DOMAIN sm : sm[k].probe # e.probe
  BY <1>1 DEF Ordered, Sample
<1>3. \A k \in DOMAIN new : k \in DOMAIN sm \/ k = Len(sm) + 1
  BY <1>1
<1>4. Len(sm) + 1 \in DOMAIN new /\ Len(sm) + 1 \notin DOMAIN sm
      /\ DOMAIN sm \subseteq DOMAIN new
  BY <1>1
<1> HIDE DEF new
<1>5. {i \in DOMAIN new : new[i].probe = e.probe} = {Len(sm) + 1}
  BY <1>1, <1>2, <1>3, <1>4
<1>6. VerdictOf(new, e.probe) = e.echo
  <2>1. (CHOOSE i \in {Len(sm) + 1} : TRUE) = Len(sm) + 1
    OBVIOUS
  <2> QED  BY <1>1, <1>5, <2>1 DEF VerdictOf
<1>7. ASSUME NEW q \in Nat, q # e.probe
      PROVE  VerdictOf(new, q) = VerdictOf(sm, q)
  <2> DEFINE own == {i \in DOMAIN sm : sm[i].probe = q}
  <2>1. {i \in DOMAIN new : new[i].probe = q} = own
    BY <1>1, <1>3, <1>4, <1>7
  <2>2. CASE own = {}
    BY <2>1, <2>2 DEF VerdictOf
  <2>3. CASE own # {}
    <3>1. (CHOOSE i \in own : TRUE) \in DOMAIN sm
      BY <2>3
    <3>2. VerdictOf(new, q) = new[CHOOSE i \in own : TRUE].echo
      BY <2>1, <2>3 DEF VerdictOf
    <3>3. VerdictOf(sm, q) = sm[CHOOSE i \in own : TRUE].echo
      BY <2>3 DEF VerdictOf
    <3> QED  BY <1>1, <3>1, <3>2, <3>3
  <2> QED  BY <2>2, <2>3
<1> QED  BY <1>6, <1>7 DEF new

\* A ledger has one verdict for each settled probe.
LEMMA LedgerOfIs ==
    ASSUME NEW sm \in Seq(Sample), NEW n \in Nat
    PROVE  /\ LedgerOf(sm, n) \in Seq(Int)
           /\ Len(LedgerOf(sm, n)) = n
           /\ \A k \in 1..n : LedgerOf(sm, n)[k] = VerdictOf(sm, k - 1)
<1>1. \A k \in 1..n : VerdictOf(sm, k - 1) \in Int
  <2> TAKE k \in 1..n
  <2> QED  BY VerdictOfIs
<1> QED  BY <1>1 DEF LedgerOf

\* One more probe is settled and the verdicts on the others stand.
LEMMA LedgerAppends ==
    ASSUME NEW sm \in Seq(Sample), NEW new \in Seq(Sample), NEW n \in Nat,
           \A q \in Nat : q # n => VerdictOf(new, q) = VerdictOf(sm, q)
    PROVE  LedgerOf(new, n + 1) = Append(LedgerOf(sm, n), VerdictOf(new, n))
<1> DEFINE s == LedgerOf(sm, n)
           t == LedgerOf(new, n + 1)
           v == VerdictOf(new, n)
<1>1. s \in Seq(Int) /\ Len(s) = n /\ \A k \in 1..n : s[k] = VerdictOf(sm, k - 1)
  BY LedgerOfIs
<1>2. /\ t \in Seq(Int)
      /\ Len(t) = n + 1
      /\ \A k \in 1..(n + 1) : t[k] = VerdictOf(new, k - 1)
  BY LedgerOfIs
<1>3. v \in Int
  BY VerdictOfIs
<1> HIDE DEF s, t, v
<1>4. /\ Append(s, v) \in Seq(Int)
      /\ Len(Append(s, v)) = n + 1
      /\ \A k \in 1..n : Append(s, v)[k] = s[k]
      /\ Append(s, v)[n + 1] = v
  BY <1>1, <1>3, AppendProperties
<1>5. ASSUME NEW k \in 1..(n + 1) PROVE t[k] = Append(s, v)[k]
  <2>1. CASE k = n + 1
    BY <1>2, <1>4, <2>1 DEF v
  <2>2. CASE k \in 1..n
    <3>1. k - 1 \in Nat /\ k - 1 # n
      BY <2>2
    <3> QED  BY <1>1, <1>2, <1>4, <2>2, <3>1
  <2>3. k = n + 1 \/ k \in 1..n
    OBVIOUS
  <2> QED  BY <2>1, <2>2, <2>3
<1>6. t = Append(s, v)
  BY <1>2, <1>4, <1>5, SeqEqual
<1> QED  BY <1>6 DEF s, t, v

\* A probe at the bound is settled as lost when no sample is booked.
LEMMA LedgerLoses ==
    ASSUME NEW sm \in Seq(Sample), NEW n \in Nat, Ordered(sm, n)
    PROVE  LedgerOf(sm, n + 1) = Append(LedgerOf(sm, n), -1)
<1>1. LedgerOf(sm, n + 1) = Append(LedgerOf(sm, n), VerdictOf(sm, n))
  <2>1. \A q \in Nat : q # n => VerdictOf(sm, q) = VerdictOf(sm, q)
    OBVIOUS
  <2> QED  BY <2>1, LedgerAppends
<1>2. VerdictOf(sm, n) = -1
  BY NotBooked
<1> QED  BY <1>1, <1>2

----------------------------------------------------------------------------
(* The steps.                                                               *)

\* The ledgers of all sessions, as the refinement gives them to ProbeLedger.
Ledgers == [d \in Clients |-> Verdicts(d)]

\* What the invariant says of one session.
LEMMA SessionFacts ==
    ASSUME IInv, NEW c \in Clients
    PROVE  /\ samples[c] \in Seq(Sample)
           /\ sent[c] \in Nat
           /\ Settled(c) \in Nat
           /\ Ordered(samples[c], Settled(c))
           /\ Ledgers[c] = LedgerOf(samples[c], Settled(c))
           /\ Len(Ledgers[c]) = Settled(c)
<1>1. samples[c] \in Seq(Sample) /\ sent[c] \in Nat
  BY SessionTypes DEF IInv
<1>2. Settled(c) \in Nat /\ Ordered(samples[c], Settled(c))
  BY <1>1 DEF IInv, SessionInv, Settled
<1>3. Ledgers[c] = LedgerOf(samples[c], Settled(c))
  BY VerdictsAre DEF Ledgers
<1> QED  BY <1>1, <1>2, <1>3, LedgerOfIs

\* A step of session c changes no other ledger.
LEMMA OtherLedgers ==
    ASSUME IInv, NEW c \in Clients, NEW new,
           \A d \in Clients \ {c} : /\ samples'[d] = samples[d]
                                    /\ Settled(d)' = Settled(d),
           LedgerOf(samples'[c], Settled(c)') = new
    PROVE  Ledgers' = [Ledgers EXCEPT ![c] = new]
<1>1. \A d \in Clients : Verdicts(d) = LedgerOf(samples[d], Settled(d))
  BY VerdictsAre
<1>2. \A d \in Clients : Verdicts(d)' = LedgerOf(samples'[d], Settled(d)')
  BY VerdictsAre
<1>3. Ledgers' = [d \in Clients |-> Verdicts(d)']
  BY DEF Ledgers
<1>4. \A d \in Clients : Verdicts(d)' = IF d = c THEN new ELSE Verdicts(d)
  BY <1>1, <1>2
<1> QED  BY <1>3, <1>4 DEF Ledgers

\* A step that changes neither samples nor settled probes changes no ledger.
LEMMA SameLedgers ==
    ASSUME \A d \in Clients : samples'[d] = samples[d] /\ Settled(d)' = Settled(d)
    PROVE  Ledgers' = Ledgers
<1>1. \A d \in Clients : /\ Verdicts(d) = LedgerOf(samples[d], Settled(d))
                         /\ Verdicts(d)' = LedgerOf(samples'[d], Settled(d)')
  BY VerdictsAre
<1>2. \A d \in Clients : Verdicts(d)' = Verdicts(d)
  BY <1>1
<1> QED  BY <1>2 DEF Ledgers

\* A step of a session.
LEMMA ClientMaps ==
    ASSUME IInv, NEW c \in Clients, ClientStep(c)
    PROVE  Ledger!Next \/ UNCHANGED <<sent, Ledgers>>
<1>0. /\ samples[c] \in Seq(Sample) /\ sent[c] \in Nat /\ Settled(c) \in Nat
      /\ Ordered(samples[c], Settled(c))
      /\ Ledgers[c] = LedgerOf(samples[c], Settled(c))
      /\ Len(Ledgers[c]) = Settled(c)
      /\ SessionInv(c) /\ TypeOK
  BY SessionFacts DEF IInv
<1>1. CASE Connect(c) \/ ConnectFails(c)
  <2>1. /\ UNCHANGED <<sent, samples>>
        /\ pc[c] = "connect" /\ pc'[c] # "await"
        /\ \A d \in Clients : d # c => pc'[d] = pc[d]
    BY <1>0, <1>1, LoopHeadIs, ZenonT(60) DEF Connect, ConnectFails, TypeOK
  <2>2. \A d \in Clients : samples'[d] = samples[d] /\ Settled(d)' = Settled(d)
    BY <2>1 DEF Settled
  <2> QED  BY <2>1, <2>2, SameLedgers
<1>2. CASE SendProbe(c)
  <2>1. /\ pc[c] = "send" /\ pc'[c] = "await"
        /\ sent' = [sent EXCEPT ![c] = @ + 1]
        /\ UNCHANGED samples
        /\ \A d \in Clients : d # c => pc'[d] = pc[d] /\ sent'[d] = sent[d]
        /\ sent'[c] = sent[c] + 1
    BY <1>0, <1>2 DEF SendProbe, TypeOK
  <2>2. \A d \in Clients : samples'[d] = samples[d] /\ Settled(d)' = Settled(d)
    BY <1>0, <2>1 DEF Settled
  <2>3. Ledgers' = Ledgers
    BY <2>2, SameLedgers
  <2>4. sent[c] < ProbeCount[c] /\ Settled(c) = sent[c]
    BY <1>0, <2>1 DEF SessionInv, Settled
  <2>5. Ledger!Issue(c)
    BY <1>0, <2>1, <2>3, <2>4 DEF Ledger!Issue, Ledgers
  <2> QED  BY <2>5 DEF Ledger!Next
<1>3. CASE SendFails(c)
  <2>1. /\ pc[c] = "send" /\ pc'[c] # "await"
        /\ sent' = [sent EXCEPT ![c] = @ + 1]
        /\ UNCHANGED samples
        /\ \A d \in Clients : d # c => pc'[d] = pc[d] /\ sent'[d] = sent[d]
        /\ sent'[c] = sent[c] + 1
    <3>1. sent[c] + 1 \in Nat
      BY <1>0
    <3>2. LoopHead(c, sent[c] + 1) \in {"send", "done"}
      BY <3>1, LoopHeadIs
    <3> QED  BY <1>0, <1>3, <3>2 DEF SendFails, TypeOK
  <2>2. sent[c] < ProbeCount[c] /\ Settled(c) = sent[c] /\ Settled(c)' = sent[c] + 1
    BY <1>0, <2>1 DEF SessionInv, Settled
  <2>3. LedgerOf(samples[c], Settled(c) + 1) = Append(Ledgers[c], -1)
    BY <1>0, LedgerLoses
  <2>4. LedgerOf(samples'[c], Settled(c)') = Append(Ledgers[c], -1)
    BY <2>1, <2>2, <2>3
  <2>5. \A d \in Clients \ {c} : samples'[d] = samples[d] /\ Settled(d)' = Settled(d)
    BY <2>1 DEF Settled
  <2>6. Ledgers' = [Ledgers EXCEPT ![c] = Append(Ledgers[c], -1)]
    BY <2>4, <2>5, OtherLedgers
  <2>7. Ledger!Refuse(c)
    BY <1>0, <2>1, <2>2, <2>6 DEF Ledger!Refuse, Ledgers
  <2> QED  BY <2>7 DEF Ledger!Next
<1>4. ASSUME NEW n \in ReadSizes(toClient[c]), ReadEcho(c, n)
      PROVE  Ledger!Next
  <2>1. /\ pc[c] = "await" /\ pc'[c] # "await"
        /\ UNCHANGED sent
        /\ samples'[c] = Book(c, n)
        /\ \A d \in Clients : d # c => pc'[d] = pc[d] /\ samples'[d] = samples[d]
    BY <1>0, <1>4, LoopHeadIs DEF ReadEcho, TypeOK
  <2>2. Settled(c) = sent[c] - 1 /\ Settled(c)' = sent[c] /\ sent[c] \in Nat \ {0}
    BY <1>0, <2>1 DEF SessionInv, Settled
  <2>3. \A d \in Clients \ {c} : samples'[d] = samples[d] /\ Settled(d)' = Settled(d)
    BY <2>1 DEF Settled
  <2>6. Settled(c)' = Settled(c) + 1
    BY <2>2
  <2>4. CASE ~Parses(Chunk(toClient[c], n), EchoLen)
    <3>1. samples'[c] = samples[c]
      BY <2>1, <2>4 DEF Book
    <3>2. LedgerOf(samples[c], Settled(c) + 1) = Append(Ledgers[c], -1)
      BY <1>0, LedgerLoses
    <3>3. LedgerOf(samples'[c], Settled(c)') = Append(Ledgers[c], -1)
      BY <2>2, <2>6, <3>1, <3>2
    <3>4. Ledgers' = [Ledgers EXCEPT ![c] = Append(Ledgers[c], -1)]
      BY <2>3, <3>3, OtherLedgers
    <3>5. Ledger!WriteOff(c)
      BY <1>0, <2>1, <2>2, <3>4 DEF Ledger!WriteOff, Ledgers
    <3> QED  BY <3>5 DEF Ledger!Next
  <2>5. CASE Parses(Chunk(toClient[c], n), EchoLen)
    <3> DEFINE q == toClient[c][1][1]
               e == [probe |-> sent[c] - 1, echo |-> q]
    <3>1. toClient[c] \in Seq(Byte) /\ toServer[c] \in Seq(Byte) /\ EchoLen \in Nat
      BY SessionTypes DEF IInv
    <3>2. n \in 1..Len(toClient[c]) /\ Len(toClient[c]) \in Nat
          /\ DOMAIN toClient[c] = 1..Len(toClient[c])
      BY <3>1, ReadSizeIs, LenProperties
    <3>3. /\ Chunk(toClient[c], n)[1] = toClient[c][1]
          /\ toClient[c][1][2] = 1
          /\ toClient[c][1] \in Byte
      BY <2>5, <3>1, <3>2, ParsesIs
    <3>4. samples'[c] = Append(samples[c], e)
      BY <2>1, <2>5, <3>3 DEF Book
    <3>5. InFlightOrder(toServer[c], toClient[c], samples[c], sent[c])
      BY <1>0 DEF SessionInv
    <3>6. 1 \in Starts(toClient[c])
      BY <3>2, <3>3 DEF Starts
    <3>7. q \in Nat /\ q < sent[c]
      BY <3>3, <3>5, <3>6 DEF InFlightOrder, Below, Byte
    <3>8. \A k \in DOMAIN samples[c] : samples[c][k].echo < q
      BY <3>5, <3>6 DEF InFlightOrder, Booked
    <3>9. e \in Sample /\ e.probe = sent[c] - 1 /\ e.echo = q
      BY <2>2, <3>7 DEF Sample
    <3> HIDE DEF e, q
    <3>10. /\ VerdictOf(samples'[c], sent[c] - 1) = q
           /\ \A p \in Nat : p # sent[c] - 1 =>
                  VerdictOf(samples'[c], p) = VerdictOf(samples[c], p)
      BY <1>0, <2>2, <3>4, <3>9, BookedOnce
    <3>11. samples'[c] \in Seq(Sample)
      BY <1>0, <3>4, <3>9, AppendProperties
    <3>12. LedgerOf(samples'[c], Settled(c)') = Append(Ledgers[c], q)
      <4>1. /\ VerdictOf(samples'[c], Settled(c)) = q
            /\ \A p \in Nat : p # Settled(c) =>
                   VerdictOf(samples'[c], p) = VerdictOf(samples[c], p)
        BY <2>2, <3>10
      <4>2. LedgerOf(samples'[c], Settled(c) + 1)
              = Append(LedgerOf(samples[c], Settled(c)),
                       VerdictOf(samples'[c], Settled(c)))
        BY <1>0, <3>11, <4>1, LedgerAppends
      <4> QED  BY <1>0, <2>6, <4>1, <4>2
    <3>13. Ledgers' = [Ledgers EXCEPT ![c] = Append(Ledgers[c], q)]
      BY <2>3, <3>12, OtherLedgers
    <3>14. \A f \in Ledger!Credited(c) : f < q
      <4>1. ASSUME NEW k \in 1..Settled(c), Ledgers[c][k] # -1
            PROVE  Ledgers[c][k] < q
        <5>1. LedgerOf(samples[c], Settled(c))[k] = VerdictOf(samples[c], k - 1)
          BY <1>0, LedgerOfIs
        <5>2. Ledgers[c][k] = VerdictOf(samples[c], k - 1)
          BY <1>0, <5>1
        <5>3. \/ VerdictOf(samples[c], k - 1) = -1
              \/ \E i \in DOMAIN samples[c] :
                     VerdictOf(samples[c], k - 1) = samples[c][i].echo
          BY <1>0, VerdictOfIs
        <5> QED  BY <3>8, <4>1, <5>2, <5>3
      <4>2. DOMAIN Ledgers[c] = 1..Settled(c)
        BY <1>0 DEF LedgerOf
      <4> QED  BY <4>1, <4>2 DEF Ledger!Credited, Ledgers
    <3>15. Ledger!Credit(c, q)
      BY <1>0, <2>1, <2>2, <3>7, <3>13, <3>14 DEF Ledger!Credit, Ledgers
    <3>16. q \in 0..(sent[c] - 1)
      BY <2>2, <3>7
    <3> QED  BY <3>15, <3>16 DEF Ledger!Next
  <2> QED  BY <2>4, <2>5
<1>5. CASE ReadGivesUp(c)
  <2>1. /\ pc[c] = "await" /\ pc'[c] # "await"
        /\ UNCHANGED <<sent, samples>>
        /\ \A d \in Clients : d # c => pc'[d] = pc[d]
    BY <1>0, <1>5, LoopHeadIs DEF ReadGivesUp, TypeOK
  <2>2. Settled(c) = sent[c] - 1 /\ Settled(c)' = sent[c] /\ sent[c] \in Nat \ {0}
    BY <1>0, <2>1 DEF SessionInv, Settled
  <2>3. \A d \in Clients \ {c} : samples'[d] = samples[d] /\ Settled(d)' = Settled(d)
    BY <2>1 DEF Settled
  <2>4. LedgerOf(samples[c], Settled(c) + 1) = Append(Ledgers[c], -1)
    BY <1>0, LedgerLoses
  <2>8. samples'[c] = samples[c] /\ Settled(c)' = Settled(c) + 1
    BY <2>1, <2>2
  <2>5. LedgerOf(samples'[c], Settled(c)') = Append(Ledgers[c], -1)
    BY <2>4, <2>8
  <2>6. Ledgers' = [Ledgers EXCEPT ![c] = Append(Ledgers[c], -1)]
    BY <2>3, <2>5, OtherLedgers
  <2>7. Ledger!WriteOff(c)
    BY <1>0, <2>1, <2>2, <2>6 DEF Ledger!WriteOff, Ledgers
  <2> QED  BY <2>7 DEF Ledger!Next
<1> QED  BY <1>1, <1>2, <1>3, <1>4, <1>5 DEF ClientStep

\* Every step of Bidirectional is a step of the ledger or leaves it alone.
LEMMA StepMaps ==
    ASSUME IInv, [Next]_vars
    PROVE  [Ledger!Next]_(Ledger!vars)
<1>1. SUFFICES Ledger!Next \/ UNCHANGED <<sent, Ledgers>>
  BY DEF Ledger!vars, Ledgers
<1>2. ASSUME NEW c \in Clients, ClientStep(c)
      PROVE  Ledger!Next \/ UNCHANGED <<sent, Ledgers>>
  BY <1>2, ClientMaps
<1>3. CASE UNCHANGED <<pc, sent, samples>>
  <2>1. \A d \in Clients : samples'[d] = samples[d] /\ Settled(d)' = Settled(d)
    BY <1>3 DEF Settled
  <2> QED  BY <1>3, <2>1, SameLedgers
<1>4. ASSUME NEW c \in Clients, HandlerStep(c) \/ NetworkStep(c)
      PROVE  UNCHANGED <<pc, sent, samples>>
  BY <1>4 DEF HandlerStep, HandlerEchoes, HandlerDrops, HandlerCounts,
              HandlerEnds, NetworkStep, EndArrives, Reset, clientVars
<1>5. ASSUME RunStarts \/ Stop \/ LoopStep \/ UNCHANGED vars
      PROVE  UNCHANGED <<pc, sent, samples>>
  BY <1>5 DEF RunStarts, Stop, LoopStep, LoopChecks, Accepts, AcceptTimesOut,
              AcceptFails, serverUnchanged, clientVars, vars
<1> QED  BY <1>2, <1>3, <1>4, <1>5 DEF Next

\* Before any probe the ledger is empty.
LEMMA InitMaps ==
    ASSUME Init
    PROVE  Ledger!Init
<1>1. ASSUME NEW c \in Clients PROVE Verdicts(c) = <<>>
  <2>1. Settled(c) = 0 /\ samples[c] = <<>>
    BY DEF Init, Settled
  <2>2. LedgerOf(<<>>, 0) = <<>>
    BY DEF LedgerOf
  <2> QED  BY <2>1, <2>2, VerdictsAre
<1> QED  BY <1>1 DEF Ledger!Init, Init

\* A session of probe_bidirectional keeps its books like ProbeLedger, for all
\* clients, counts and lengths: one verdict per probe, and no echo credited
\* twice, early or out of order.
THEOREM SessionsKeepLedger == Spec => KeepsLedger
<1> QED
  BY InitMaps, StepMaps, Inductive, PTL DEF Spec, KeepsLedger, Ledger!Spec

=============================================================================
