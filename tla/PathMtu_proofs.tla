---------------------------- MODULE PathMtu_proofs ----------------------------
(***************************************************************************)
(* discover_path_mtu for every size of word, every option and every path.  *)
(*                                                                         *)
(* That nothing wraps is inductive: as long as low <= high, Mid lies       *)
(* between them, and both stay inside min_mtu..max_mtu.  What the search   *)
(* reports follows from how low and high enclose what it knows: everything *)
(* below low that counts has worked, everything above high has failed.     *)
(* Exactness needs the two to be tight while every answer is the probe's   *)
(* own.                                                                    *)
(***************************************************************************)
EXTENDS PathMtu, Lists_proofs

\* With sane options low and high enclose what is not known yet.
Enclosed ==
    SaneOptions =>
        /\ worked # {} => max_working < low
        /\ min_failing # None => high < min_failing

Answered ==
    /\ SaneOptions
    /\ ~missed
    /\ ~confused
    /\ min_mtu <= pathMtu
    /\ min_mtu <= max_mtu

\* While every probe has got its own answer low and high are tight.
Tight ==
    Answered =>
        /\ low <= high + 1
        /\ max_working <= pathMtu
        /\ IF worked = {} THEN low = min_mtu ELSE low = max_working + 1
        /\ IF min_failing = None THEN high = max_mtu
           ELSE min_failing = high + 1 /\ pathMtu < min_failing /\ high < max_mtu

\* When the search is done nothing is left between low and high.
Finished == pc = "done" => high < low

IInv ==
    /\ TypeOK
    /\ NoOverflow
    /\ Enclosed
    /\ WorkingBelowFailing
    /\ NeverOverestimates
    /\ Tight
    /\ Finished

----------------------------------------------------------------------------
(* Arithmetic.                                                              *)

\* A release build's arithmetic yields a u16.
LEMMA WrapIs ==
    ASSUME NEW x \in Int
    PROVE  /\ Wrap(x) \in 0..U16Max
           /\ ~Overflows(x) => Wrap(x) = x
  BY SizesAssumption DEF Wrap, Overflows

\* The middle is a u16 in either build.
LEMMA MidIs ==
    ASSUME TypeOK
    PROVE  Mid \in 0..U16Max
<1>1. low + high \in Int
  BY SizesAssumption DEF TypeOK
<1>2. Wrap(low + high) \in 0..U16Max
  BY <1>1, WrapIs
<1> QED  BY <1>2, SizesAssumption DEF Mid

\* With sane options the middle lies between low and high, and neither it nor
\* its neighbours overflow.
LEMMA SaneMid ==
    ASSUME TypeOK, NoOverflow, SaneOptions, LoopHolds
    PROVE  /\ Mid \in Int /\ low <= Mid /\ Mid <= high
           /\ ~Overflows(low + high)
           /\ ~Overflows(Mid + 1) /\ Wrap(Mid + 1) = Mid + 1
           /\ ~Overflows(Mid - 1) /\ Wrap(Mid - 1) = Mid - 1
<1>1. /\ low \in Nat /\ high \in Nat /\ min_mtu \in Nat /\ max_mtu \in Nat
      /\ U16Max \in Nat /\ max_mtu <= U16Max
      /\ 1 <= min_mtu /\ 2 * max_mtu <= U16Max
      /\ min_mtu <= low /\ low <= high /\ high <= max_mtu
  BY SizesAssumption DEF TypeOK, NoOverflow, SaneOptions, LoopHolds
<1>2. ~Overflows(low + high) /\ Wrap(low + high) = low + high
  BY <1>1, WrapIs DEF Overflows
<1>3. Mid \in Int /\ low <= Mid /\ Mid <= high
  BY <1>1, <1>2 DEF Mid
<1>4. ~Overflows(Mid + 1) /\ ~Overflows(Mid - 1)
  BY <1>1, <1>3 DEF Overflows
<1> QED  BY <1>2, <1>3, <1>4, WrapIs

----------------------------------------------------------------------------
(* The moves of the bounds.                                                 *)

\* low = mid + 1 keeps the bounds in their types; with sane options it does
\* what it says.
LEMMA RaiseLowIs ==
    ASSUME TypeOK, NoOverflow, LoopHolds, RaiseLow, pc = "search"
    PROVE  /\ low' \in 0..U16Max /\ high' = high /\ pc' \in {"search", "panic"}
           /\ SaneOptions => low' = Mid + 1 /\ pc' = "search"
<1>1. Mid + 1 \in Int
  BY MidIs, SizesAssumption
<1>2. Wrap(Mid + 1) \in 0..U16Max
  BY <1>1, WrapIs
<1>3. low' \in 0..U16Max /\ high' = high /\ pc' \in {"search", "panic"}
  BY <1>2 DEF RaiseLow, Panic, TypeOK
<1>4. ASSUME SaneOptions PROVE low' = Mid + 1 /\ pc' = "search"
  BY <1>4, SaneMid DEF RaiseLow, Panics
<1> QED  BY <1>3, <1>4

\* high = mid - 1 likewise.
LEMMA LowerHighIs ==
    ASSUME TypeOK, NoOverflow, LoopHolds, LowerHigh, pc = "search"
    PROVE  /\ high' \in 0..U16Max /\ low' = low /\ pc' \in {"search", "panic"}
           /\ SaneOptions => high' = Mid - 1 /\ pc' = "search"
<1>1. Mid - 1 \in Int
  BY MidIs, SizesAssumption
<1>2. Wrap(Mid - 1) \in 0..U16Max
  BY <1>1, WrapIs
<1>3. high' \in 0..U16Max /\ low' = low /\ pc' \in {"search", "panic"}
  BY <1>2 DEF LowerHigh, Panic, TypeOK
<1>4. ASSUME SaneOptions PROVE high' = Mid - 1 /\ pc' = "search"
  BY <1>4, SaneMid DEF LowerHigh, Panics
<1> QED  BY <1>3, <1>4

\* What an answer to a probe changes besides the bounds.
LEMMA ReceivesIs ==
    ASSUME TypeOK, NEW s, Receives(s)
    PROVE  /\ late' \subseteq 0..U16Max
           /\ attempts' \in 0..MaxAttempts
           /\ confused' \in BOOLEAN
           /\ missed' = missed
           /\ UNCHANGED inputs
           /\ ~confused' => ~confused /\ s = Mid
<1>1. late' \subseteq 0..U16Max
  BY MidIs DEF Receives, TypeOK
<1>2. attempts' \in 0..MaxAttempts
  BY AttemptsAssumption DEF Receives, Capped, TypeOK
<1> QED  BY <1>1, <1>2 DEF Receives, TypeOK

----------------------------------------------------------------------------
(* The invariant.                                                           *)

\* The invariant holds before the first probe.
LEMMA InvInit == Init => IInv
<1> SUFFICES ASSUME Init PROVE IInv
  OBVIOUS
<1>1. TypeOK
  <2>1. /\ min_mtu \in MinMtus /\ max_mtu \in MaxMtus /\ pathMtu \in PathMtus
        /\ low = min_mtu /\ high = max_mtu /\ max_working = min_mtu
        /\ min_failing = None
    BY DEF Init
  <2>2. low \in 0..U16Max /\ high \in 0..U16Max /\ max_working \in 0..U16Max
    BY <2>1, SizesAssumption
  <2>3. frag_needed_count \in 0..MaxAttempts /\ attempts \in 0..MaxAttempts
    BY AttemptsAssumption DEF Init
  <2> QED  BY <2>1, <2>2, <2>3 DEF Init, TypeOK
<1>2. min_mtu \in Int /\ max_mtu \in Int /\ pathMtu \in Int
  BY <1>1, SizesAssumption DEF TypeOK
<1>3. NoOverflow
  BY <1>2 DEF Init, NoOverflow
<1>4. Enclosed /\ WorkingBelowFailing /\ NeverOverestimates /\ Finished
  BY <1>2 DEF Init, Enclosed, WorkingBelowFailing, NeverOverestimates, Finished
<1>5. Tight
  BY <1>2 DEF Init, Tight, Answered
<1> QED  BY <1>1, <1>3, <1>4, <1>5 DEF IInv

\* What TypeOK says of the numbers.
LEMMA Numbers ==
    ASSUME TypeOK
    PROVE  /\ low \in Nat /\ high \in Nat /\ max_working \in Nat
           /\ min_mtu \in Nat /\ max_mtu \in Nat /\ pathMtu \in Nat
           /\ min_failing \in Int /\ (min_failing # None => min_failing \in Nat)
           /\ Mid \in Nat /\ U16Max \in Nat
<1>1. Mid \in Nat
  BY MidIs, SizesAssumption
<1> QED  BY <1>1, SizesAssumption DEF TypeOK, None

\* A probe got through.
LEMMA SuccessStep ==
    ASSUME IInv, NEW s \in late \cup {Mid}, Success(s)
    PROVE  IInv'
<1>1. TypeOK /\ NoOverflow /\ LoopHolds /\ pc = "search"
  BY DEF IInv, Success, Searching
<1>2. /\ low' \in 0..U16Max /\ high' = high /\ pc' \in {"search", "panic"}
      /\ SaneOptions => low' = Mid + 1 /\ pc' = "search"
  BY <1>1, RaiseLowIs DEF Success
<1>3. /\ late' \subseteq 0..U16Max
      /\ attempts' \in 0..MaxAttempts
      /\ confused' \in BOOLEAN
      /\ missed' = missed
      /\ UNCHANGED inputs
      /\ ~confused' => ~confused /\ s = Mid
  BY <1>1, ReceivesIs DEF Success
<1>4. /\ max_working' = Mid
      /\ worked' = worked \cup {Mid}
      /\ s <= pathMtu
      /\ UNCHANGED <<min_failing, frag_needed_count>>
  BY DEF Success
<1>5. Mid \in 0..U16Max
  BY <1>1, MidIs
<1>6. TypeOK'
  BY <1>1, <1>2, <1>3, <1>4, <1>5 DEF TypeOK, inputs
<1>7. SaneOptions' = SaneOptions
  BY <1>3 DEF SaneOptions, inputs
<1>8. /\ low \in Nat /\ high \in Nat /\ max_working \in Nat
      /\ min_mtu \in Nat /\ max_mtu \in Nat /\ pathMtu \in Nat
      /\ min_failing \in Int /\ (min_failing # None => min_failing \in Nat)
      /\ Mid \in Nat
  BY <1>1, Numbers
<1>9. SaneOptions => low <= Mid /\ Mid <= high
  BY <1>1, SaneMid
<1>10. NoOverflow'
  BY <1>1, <1>2, <1>3, <1>7, <1>8, <1>9 DEF NoOverflow, inputs
<1>11. Enclosed' /\ WorkingBelowFailing'
  BY <1>2, <1>4, <1>7, <1>8, <1>9
     DEF IInv, Enclosed, WorkingBelowFailing
<1>12. NeverOverestimates'
  BY <1>3, <1>4 DEF NeverOverestimates, inputs
<1>13. Tight'
  <2> SUFFICES ASSUME Answered'
               PROVE  /\ low' <= high' + 1
                      /\ max_working' <= pathMtu'
                      /\ worked' # {} /\ low' = max_working' + 1
                      /\ IF min_failing' = None THEN high' = max_mtu'
                         ELSE /\ min_failing' = high' + 1
                              /\ pathMtu' < min_failing'
                              /\ high' < max_mtu'
    BY DEF Tight
  <2>1. Answered /\ s = Mid
    BY <1>3, <1>7 DEF Answered, inputs
  <2>2. SaneOptions
    BY <2>1 DEF Answered
  <2> QED
    BY <1>2, <1>3, <1>4, <1>8, <1>9, <2>1, <2>2 DEF IInv, Tight, inputs
<1>14. Finished'
  BY <1>2 DEF Finished
<1> QED  BY <1>6, <1>10, <1>11, <1>12, <1>13, <1>14 DEF IInv

\* A router said the probe was too large.
LEMMA FragNeededStep ==
    ASSUME IInv, NEW s \in late \cup {Mid}, FragNeeded(s)
    PROVE  IInv'
<1>1. TypeOK /\ NoOverflow /\ LoopHolds /\ pc = "search"
  BY DEF IInv, FragNeeded, Searching
<1>2. /\ high' \in 0..U16Max /\ low' = low /\ pc' \in {"search", "panic"}
      /\ SaneOptions => high' = Mid - 1 /\ pc' = "search"
  BY <1>1, LowerHighIs DEF FragNeeded
<1>3. /\ late' \subseteq 0..U16Max
      /\ attempts' \in 0..MaxAttempts
      /\ confused' \in BOOLEAN
      /\ missed' = missed
      /\ UNCHANGED inputs
      /\ ~confused' => ~confused /\ s = Mid
  BY <1>1, ReceivesIs DEF FragNeeded
<1>4. /\ min_failing' = Mid
      /\ s > pathMtu
      /\ frag_needed_count' \in 0..MaxAttempts
      /\ UNCHANGED <<max_working, worked>>
  BY AttemptsAssumption, <1>1 DEF FragNeeded, Capped, TypeOK
<1>5. Mid \in 0..U16Max
  BY <1>1, MidIs
<1>6. TypeOK'
  BY <1>1, <1>2, <1>3, <1>4, <1>5 DEF TypeOK, inputs
<1>7. SaneOptions' = SaneOptions
  BY <1>3 DEF SaneOptions, inputs
<1>8. /\ low \in Nat /\ high \in Nat /\ max_working \in Nat
      /\ min_mtu \in Nat /\ max_mtu \in Nat /\ pathMtu \in Nat
      /\ min_failing \in Int /\ Mid \in Nat /\ Mid # None
  BY <1>1, Numbers DEF None
<1>9. SaneOptions => min_mtu <= low /\ low <= Mid /\ Mid <= high /\ high <= max_mtu
  BY <1>1, SaneMid, <1>8 DEF NoOverflow, LoopHolds
<1>10. NoOverflow'
  BY <1>1, <1>2, <1>3, <1>7, <1>8, <1>9 DEF NoOverflow, inputs
<1>11. Enclosed' /\ WorkingBelowFailing'
  BY <1>2, <1>4, <1>7, <1>8, <1>9
     DEF IInv, Enclosed, WorkingBelowFailing
<1>12. NeverOverestimates'
  BY <1>3, <1>4, <1>7 DEF IInv, NeverOverestimates, inputs
<1>13. Tight'
  <2> SUFFICES ASSUME Answered'
               PROVE  /\ low' <= high' + 1
                      /\ max_working' <= pathMtu'
                      /\ IF worked' = {} THEN low' = min_mtu'
                         ELSE low' = max_working' + 1
                      /\ min_failing' # None
                      /\ min_failing' = high' + 1
                      /\ pathMtu' < min_failing'
                      /\ high' < max_mtu'
    BY DEF Tight
  <2>1. Answered /\ s = Mid
    BY <1>3, <1>7 DEF Answered, inputs
  <2>2. SaneOptions
    BY <2>1 DEF Answered
  <2> QED
    BY <1>2, <1>3, <1>4, <1>8, <1>9, <2>1, <2>2 DEF IInv, Tight, inputs
<1>14. Finished'
  BY <1>2 DEF Finished
<1> QED  BY <1>6, <1>10, <1>11, <1>12, <1>13, <1>14 DEF IInv

\* A probe got no answer.
LEMMA NoAnswerStep ==
    ASSUME IInv, NoAnswer
    PROVE  IInv'
<1>1. TypeOK /\ NoOverflow /\ LoopHolds /\ pc = "search"
  BY DEF IInv, NoAnswer, Searching
<1>2. /\ high' \in 0..U16Max /\ low' = low /\ pc' \in {"search", "panic"}
      /\ SaneOptions => high' = Mid - 1 /\ pc' = "search"
  BY <1>1, LowerHighIs DEF NoAnswer
<1>3. /\ late' = late \cup {Mid}
      /\ missed' = TRUE
      /\ attempts' \in 0..MaxAttempts
      /\ UNCHANGED <<inputs, max_working, min_failing, frag_needed_count, worked,
                     confused>>
  BY AttemptsAssumption, <1>1 DEF NoAnswer, Capped, TypeOK
<1>4. Mid \in 0..U16Max
  BY <1>1, MidIs
<1>5. TypeOK'
  BY <1>1, <1>2, <1>3, <1>4 DEF TypeOK, inputs
<1>6. SaneOptions' = SaneOptions
  BY <1>3 DEF SaneOptions, inputs
<1>7. /\ low \in Nat /\ high \in Nat /\ max_working \in Nat
      /\ min_mtu \in Nat /\ max_mtu \in Nat /\ min_failing \in Int /\ Mid \in Nat
  BY <1>1, Numbers
<1>8. SaneOptions => min_mtu <= low /\ low <= Mid /\ Mid <= high /\ high <= max_mtu
  BY <1>1, SaneMid, <1>7 DEF NoOverflow, LoopHolds
<1>9. NoOverflow'
  BY <1>1, <1>2, <1>3, <1>6, <1>7, <1>8 DEF NoOverflow, inputs
<1>10. Enclosed' /\ WorkingBelowFailing'
  BY <1>2, <1>3, <1>6, <1>7, <1>8
     DEF IInv, Enclosed, WorkingBelowFailing
<1>11. NeverOverestimates'
  BY <1>3, <1>6 DEF IInv, NeverOverestimates, inputs
<1>12. Tight' /\ Finished'
  BY <1>2, <1>3 DEF Tight, Answered, Finished
<1> QED  BY <1>5, <1>9, <1>10, <1>11, <1>12 DEF IInv

\* Every step keeps the invariant.
LEMMA InvStep == IInv /\ [Next]_vars => IInv'
<1> SUFFICES ASSUME IInv, [Next]_vars PROVE IInv'
  OBVIOUS
<1>1. ASSUME NEW s \in late \cup {Mid}, Success(s) \/ FragNeeded(s) PROVE IInv'
  BY <1>1, SuccessStep, FragNeededStep
<1>2. CASE NoAnswer
  BY <1>2, NoAnswerStep
<1>3. CASE SumPanics
  <2>1. ~SaneOptions
    BY <1>3, SaneMid DEF SumPanics, Panics, IInv
  <2>2. /\ pc' = "panic"
        /\ UNCHANGED <<inputs, low, high, max_working, min_failing,
                       frag_needed_count, late, worked, missed, confused, attempts>>
    BY <1>3 DEF SumPanics, Panic
  <2>3. ~SaneOptions'
    BY <2>1, <2>2 DEF SaneOptions, inputs
  <2>4. TypeOK'
    BY <2>2 DEF IInv, TypeOK, inputs
  <2> QED
    BY <2>2, <2>3, <2>4 DEF IInv, NoOverflow, Enclosed, WorkingBelowFailing,
       NeverOverestimates, Tight, Answered, Finished
<1>4. CASE Returns
  <2>1. /\ pc = "search" /\ pc' = "done" /\ ~(low <= high)
        /\ UNCHANGED <<inputs, low, high, max_working, min_failing,
                       frag_needed_count, late, worked, missed, confused, attempts>>
    BY <1>4 DEF Returns, LoopHolds
  <2>2. low \in Nat /\ high \in Nat
    BY Numbers DEF IInv
  <2>3. TypeOK'
    BY <2>1 DEF IInv, TypeOK, inputs
  <2>4. Finished'
    BY <2>1, <2>2 DEF Finished
  <2>5. NoOverflow' /\ Enclosed' /\ WorkingBelowFailing' /\ NeverOverestimates'
    BY <2>1 DEF IInv, NoOverflow, Enclosed, WorkingBelowFailing,
                NeverOverestimates, SaneOptions, inputs
  <2>6. Tight'
    BY <2>1 DEF IInv, Tight, Answered, SaneOptions, inputs
  <2> QED  BY <2>3, <2>4, <2>5, <2>6 DEF IInv
<1>5. CASE UNCHANGED vars
  BY <1>5 DEF vars, IInv, TypeOK, NoOverflow, Enclosed, WorkingBelowFailing,
              NeverOverestimates, Tight, Answered, SaneOptions, Finished
<1> QED  BY <1>1, <1>2, <1>3, <1>4, <1>5 DEF Next

----------------------------------------------------------------------------

\* IInv holds in every reachable state.
THEOREM Inductive == Spec => []IInv
<1> QED  BY InvInit, InvStep, PTL DEF Spec

\* Every variable keeps its type, in both builds: sizes stay u16 even when
\* the arithmetic of a release build wraps.
THEOREM TypeCorrect == Spec => []TypeOK
<1>1. IInv => TypeOK
  BY DEF IInv
<1> QED  BY <1>1, Inductive, PTL

\* With a minimum of at least 1 and a maximum whose double is a u16, the
\* search neither panics nor wraps.
THEOREM SearchNeverOverflows == Spec => []NoOverflow
<1>1. IInv => NoOverflow
  BY DEF IInv
<1> QED  BY <1>1, Inductive, PTL

\* Whatever is lost, late or mistaken, what is reported to work is smaller
\* than what is reported to fail.
THEOREM WorkingIsBelowFailing == Spec => []WorkingBelowFailing
<1>1. IInv => WorkingBelowFailing
  BY DEF IInv
<1> QED  BY <1>1, Inductive, PTL

\* Without a mistaken answer the MTU reported on the strength of an answered
\* probe is never larger than the path's.
THEOREM SearchNeverOverestimates == Spec => []NeverOverestimates
<1>1. IInv => NeverOverestimates
  BY DEF IInv
<1> QED  BY <1>1, Inductive, PTL

\* When every probe got its own answer, the MTU reported is exactly the path's,
\* or max_mtu if the path takes more.
THEOREM SearchIsExact == Spec => []ExactWhenAnswered
<1>1. IInv => ExactWhenAnswered
  <2> SUFFICES ASSUME IInv, pc = "done", Answered
               PROVE  max_working = IF pathMtu < max_mtu THEN pathMtu ELSE max_mtu
    BY DEF ExactWhenAnswered, Answered
  <2>1. /\ low \in Nat /\ high \in Nat /\ max_working \in Nat
        /\ min_mtu \in Nat /\ max_mtu \in Nat /\ pathMtu \in Nat
        /\ min_failing \in Int
    BY Numbers DEF IInv
  <2>2. min_mtu <= pathMtu /\ min_mtu <= max_mtu
    BY DEF Answered
  <2> QED  BY <2>1, <2>2 DEF IInv, Finished, Tight
<1> QED  BY <1>1, Inductive, PTL

\* A probe leaves at most half of what there was between low and high.
LEMMA Halves ==
    ASSUME IInv, SaneOptions, min_mtu <= max_mtu, Searching, attempts < MaxAttempts,
           attempts' = Capped(attempts),
           (low' = Mid + 1 /\ high' = high) \/ (low' = low /\ high' = Mid - 1),
           UNCHANGED inputs, LogarithmicProbes
    PROVE  LogarithmicProbes'
<1>1. TypeOK /\ NoOverflow /\ LoopHolds
  BY DEF IInv, Searching
<1>2. /\ low \in Nat /\ high \in Nat /\ min_mtu \in Nat /\ max_mtu \in Nat
      /\ Mid \in Nat /\ attempts \in Nat /\ low <= high
  BY <1>1, Numbers DEF TypeOK, LoopHolds
<1>3. ~Overflows(low + high) /\ Wrap(low + high) = low + high
  BY <1>1, <1>2, SaneMid, WrapIs
<1>4. Mid = (low + high) \div 2
  BY <1>3 DEF Mid
<1> DEFINE n == high - low + 1
           m == high' - low' + 1
           N == max_mtu - min_mtu + 1
<1>5. n \in Int /\ m \in Int /\ N \in Int /\ 2 * m <= n
  BY <1>2, <1>4
<1>6. attempts' = attempts + 1
  BY DEF Capped
<1>7. 2^attempts \in Nat /\ 2^attempts' = 2 * 2^attempts
  BY <1>2, <1>6, PowerOfTwo
<1>8. 2^attempts * n <= N
  BY DEF LogarithmicProbes
<1>9. ASSUME NEW p \in Nat, NEW i \in Int, NEW j \in Int, 2 * j <= i
      PROVE  (2 * p) * j <= p * i
  <2>1. (2 * p) * j = p * (2 * j)
    OBVIOUS
  <2>2. p * (2 * j) <= p * i
    BY <1>9
  <2> QED  BY <2>1, <2>2
<1> HIDE DEF n, m, N
<1>10. 2^attempts' * m <= 2^attempts * n
  BY <1>5, <1>7, <1>9
<1>11. 2^attempts' * m \in Int /\ 2^attempts * n \in Int
  BY <1>5, <1>7
<1>12. 2^attempts' * m <= N
  BY <1>5, <1>8, <1>10, <1>11
<1> QED  BY <1>12 DEF LogarithmicProbes, m, N, inputs

\* Every probe, answered or not, at least halves what is left, so their
\* number is logarithmic in the range of sizes searched.
THEOREM ProbesAreLogarithmic == Spec => []LogarithmicProbes
<1>1. Init => LogarithmicProbes
  <2> SUFFICES ASSUME Init PROVE LogarithmicProbes
    OBVIOUS
  <2>1. min_mtu \in Int /\ max_mtu \in Int
    BY InvInit, Numbers DEF IInv
  <2> QED  BY <2>1, PowerOfTwo DEF Init, LogarithmicProbes
<1>2. IInv /\ LogarithmicProbes /\ [Next]_vars => LogarithmicProbes'
  <2> SUFFICES ASSUME IInv, LogarithmicProbes, [Next]_vars,
                      SaneOptions', attempts' < MaxAttempts', min_mtu' <= max_mtu'
               PROVE  LogarithmicProbes'
    BY DEF LogarithmicProbes
  <2>1. TypeOK /\ NoOverflow
    BY DEF IInv
  <2>2. attempts \in 0..MaxAttempts /\ MaxAttempts \in Nat
    BY <2>1, AttemptsAssumption DEF TypeOK
  <2>3. attempts' = Capped(attempts) => attempts < MaxAttempts
    BY <2>2 DEF Capped
  <2>4. UNCHANGED inputs => SaneOptions /\ min_mtu <= max_mtu
    BY DEF SaneOptions, inputs
  <2>5. ASSUME NEW s, Success(s) PROVE LogarithmicProbes'
    <3>1. /\ UNCHANGED inputs /\ attempts' = Capped(attempts)
          /\ Searching /\ RaiseLow /\ LoopHolds /\ pc = "search"
      BY <2>5 DEF Success, Receives, Searching
    <3>2. low' = Mid + 1 /\ high' = high
      BY <3>1, <2>1, <2>4, RaiseLowIs
    <3> QED  BY <3>1, <3>2, <2>3, <2>4, Halves
  <2>6. ASSUME NEW s, FragNeeded(s) PROVE LogarithmicProbes'
    <3>1. /\ UNCHANGED inputs /\ attempts' = Capped(attempts)
          /\ Searching /\ LowerHigh /\ LoopHolds /\ pc = "search"
      BY <2>6 DEF FragNeeded, Receives, Searching
    <3>2. low' = low /\ high' = Mid - 1
      BY <3>1, <2>1, <2>4, LowerHighIs
    <3> QED  BY <3>1, <3>2, <2>3, <2>4, Halves
  <2>7. CASE NoAnswer
    <3>1. /\ UNCHANGED inputs /\ attempts' = Capped(attempts)
          /\ Searching /\ LowerHigh /\ LoopHolds /\ pc = "search"
      BY <2>7 DEF NoAnswer, Searching
    <3>2. low' = low /\ high' = Mid - 1
      BY <3>1, <2>1, <2>4, LowerHighIs
    <3> QED  BY <3>1, <3>2, <2>3, <2>4, Halves
  <2>8. CASE SumPanics \/ Returns \/ UNCHANGED vars
    <3>1. UNCHANGED <<inputs, low, high, attempts>>
      BY <2>8 DEF SumPanics, Panic, Returns, vars, inputs
    <3> QED  BY <3>1 DEF LogarithmicProbes, SaneOptions, inputs
  <2> QED  BY <2>5, <2>6, <2>7, <2>8 DEF Next
<1> QED  BY <1>1, <1>2, Inductive, PTL DEF Spec

=============================================================================
