------------------------------- MODULE PathMtu -------------------------------
(***************************************************************************)
(* analytics.rs, discover_path_mtu: the binary search for the largest ICMP *)
(* packet that crosses the path, over u16 sizes.                           *)
(*                                                                         *)
(* Each probe opens a raw ICMP socket, sends one echo request of the size  *)
(* under test and takes the first ICMP packet that arrives as its answer:  *)
(* identifier and sequence number are the constant 1 and are not compared. *)
(* An answer to an earlier probe that comes late is therefore taken for    *)
(* the answer to the present one.                                          *)
(*                                                                         *)
(* u16 arithmetic panics on overflow in a debug build and wraps in a       *)
(* release build.  Sizes are in whatever unit makes U16Max small enough to *)
(* check; a size below the 28 bytes of the headers is not told apart from  *)
(* one of 28, because no path refuses either.                              *)
(***************************************************************************)
EXTENDS Integers

CONSTANTS
    U16Max,       \* the largest size, 65535 in the code
    MinMtus,      \* the values of options.min_mtu
    MaxMtus,      \* the values of options.max_mtu
    PathMtus,     \* the largest packets the paths let through
    MaxAttempts   \* where the counters of attempts stop: a bound of the model

ASSUME SizesAssumption ==
    /\ U16Max \in Nat
    /\ MinMtus \subseteq 0..U16Max
    /\ MaxMtus \subseteq 0..U16Max
    /\ PathMtus \subseteq Nat

ASSUME AttemptsAssumption == MaxAttempts \in Nat

VARIABLES
    min_mtu, max_mtu,   \* the options
    pathMtu,            \* the largest packet this path lets through
    build,              \* "debug" or "release"
    pc,
    low, high,
    max_working,
    min_failing,        \* None until a probe was answered Fragmentation Needed
    frag_needed_count,
    late,               \* sizes probed whose answer has not been received
    worked,             \* history: sizes whose probe was answered Success
    missed,             \* history: some probe ended in Timeout or Error
    confused,           \* history: some probe took another probe's answer
    attempts            \* history: probes made

inputs == <<min_mtu, max_mtu, pathMtu, build>>
vars == <<min_mtu, max_mtu, pathMtu, build, pc, low, high, max_working,
          min_failing, frag_needed_count, late, worked, missed, confused,
          attempts>>

None == -1

Wrap(x) == x % (U16Max + 1)
Overflows(x) == x < 0 \/ x > U16Max

\* An overflow check that fires.
Panics(x) == build = "debug" /\ Overflows(x)

Capped(n) == IF n < MaxAttempts THEN n + 1 ELSE n

Init ==
    /\ min_mtu \in MinMtus
    /\ max_mtu \in MaxMtus
    /\ pathMtu \in PathMtus
    /\ build \in {"debug", "release"}
    /\ pc = "search"
    /\ low = min_mtu
    /\ high = max_mtu
    /\ max_working = min_mtu
    /\ min_failing = None
    /\ frag_needed_count = 0
    /\ late = {}
    /\ worked = {}
    /\ missed = FALSE
    /\ confused = FALSE
    /\ attempts = 0

\* Mutant of Mid: low + high / 2.
MidPrecedence == Wrap(low + high \div 2)

\* Mutant of Mid: a search that steps through every size.
MidLinear == low

Mid == Wrap(low + high) \div 2

\* Mutant of LoopHolds: while low < high.
LoopHoldsStrictly == low < high

\* while low <= high
LoopHolds == low <= high

\* The loop goes round with the sum of its bounds in range.
Searching == pc = "search" /\ LoopHolds /\ ~Panics(low + high)

Panic ==
    /\ pc' = "panic"
    /\ UNCHANGED <<low, high>>

\* low = mid + 1
RaiseLow ==
    IF Panics(Mid + 1) THEN Panic
    ELSE /\ low' = Wrap(Mid + 1)
         /\ UNCHANGED <<pc, high>>

\* Mutant of LowerHigh: high = mid.
LowerHighToMid ==
    /\ high' = Mid
    /\ UNCHANGED <<pc, low>>

\* Mutant of LowerHigh: signed sizes that go below zero.
LowerHighSigned ==
    /\ high' = Mid - 1
    /\ UNCHANGED <<pc, low>>

\* high = mid - 1
LowerHigh ==
    IF Panics(Mid - 1) THEN Panic
    ELSE /\ high' = Wrap(Mid - 1)
         /\ UNCHANGED <<pc, low>>

\* The probe of Mid receives the answer to the probe of size s, its own or a
\* late one.
Receives(s) ==
    /\ s \in late \cup {Mid}
    /\ late' = (late \cup {Mid}) \ {s}
    /\ confused' = (confused \/ s # Mid)
    /\ attempts' = Capped(attempts)
    /\ UNCHANGED <<inputs, missed>>

\* Echo Reply.
Success(s) ==
    /\ Searching
    /\ s <= pathMtu
    /\ Receives(s)
    /\ max_working' = Mid
    /\ worked' = worked \cup {Mid}
    /\ RaiseLow
    /\ UNCHANGED <<min_failing, frag_needed_count>>

\* Mutant of FragNeeded: the failing size raises the floor.
FragNeededRaises(s) ==
    /\ Searching
    /\ s > pathMtu
    /\ Receives(s)
    /\ min_failing' = Mid
    /\ RaiseLow
    /\ frag_needed_count' = Capped(frag_needed_count)
    /\ UNCHANGED <<max_working, worked>>

\* Destination Unreachable, Fragmentation Needed.
FragNeeded(s) ==
    /\ Searching
    /\ s > pathMtu
    /\ Receives(s)
    /\ min_failing' = Mid
    /\ LowerHigh
    /\ frag_needed_count' = Capped(frag_needed_count)
    /\ UNCHANGED <<max_working, worked>>

\* Mutant of NoAnswer: no news is good news.
NoAnswerWorks ==
    /\ Searching
    /\ late' = late \cup {Mid}
    /\ missed' = TRUE
    /\ attempts' = Capped(attempts)
    /\ max_working' = Mid
    /\ RaiseLow
    /\ UNCHANGED <<inputs, min_failing, frag_needed_count, worked, confused>>

\* Timeout or Error: nothing came in time, the packet could not be sent, or an
\* unrelated packet came first.  An answer may still be on its way.
NoAnswer ==
    /\ Searching
    /\ late' = late \cup {Mid}
    /\ missed' = TRUE
    /\ attempts' = Capped(attempts)
    /\ LowerHigh
    /\ UNCHANGED <<inputs, max_working, min_failing, frag_needed_count, worked,
                   confused>>

\* low + high overflows under overflow checks.
SumPanics ==
    /\ pc = "search"
    /\ LoopHolds
    /\ Panics(low + high)
    /\ Panic
    /\ UNCHANGED <<inputs, max_working, min_failing, frag_needed_count, late,
                   worked, missed, confused, attempts>>

\* The loop ends and the result is built; success is always true.
Returns ==
    /\ pc = "search"
    /\ ~LoopHolds
    /\ pc' = "done"
    /\ UNCHANGED <<inputs, low, high, max_working, min_failing,
                   frag_needed_count, late, worked, missed, confused, attempts>>

Next ==
    \/ \E s \in late \cup {Mid} : Success(s) \/ FragNeeded(s)
    \/ NoAnswer
    \/ SumPanics
    \/ Returns

Spec == Init /\ [][Next]_vars

\* Each probe is bounded by options.timeout, so the search keeps stepping.
FairSpec == Spec /\ WF_vars(Next)

----------------------------------------------------------------------------
(* Properties.                                                              *)

\* Type invariant.
TypeOK ==
    /\ min_mtu \in MinMtus
    /\ max_mtu \in MaxMtus
    /\ pathMtu \in PathMtus
    /\ build \in {"debug", "release"}
    /\ pc \in {"search", "done", "panic"}
    /\ low \in 0..U16Max
    /\ high \in 0..U16Max
    /\ max_working \in 0..U16Max
    /\ min_failing \in 0..U16Max \cup {None}
    /\ frag_needed_count \in 0..MaxAttempts
    /\ late \subseteq 0..U16Max
    /\ worked \subseteq 0..U16Max
    /\ missed \in BOOLEAN
    /\ confused \in BOOLEAN
    /\ attempts \in 0..MaxAttempts

\* The options under which no step of the search can leave u16: a minimum of
\* at least 1 and a maximum whose double fits.  The defaults, 68 and 1500, do.
SaneOptions == 1 <= min_mtu /\ 2 * max_mtu <= U16Max

\* With such options neither build ever panics, and low and high keep
\* bracketing what is left of min_mtu..max_mtu: nothing wraps.
NoOverflow ==
    SaneOptions =>
        /\ pc # "panic"
        /\ min_mtu <= low
        /\ low <= max_mtu + 1 \/ low = min_mtu
        /\ min_mtu - 1 <= high \/ high = max_mtu
        /\ high <= max_mtu

\* Whatever is lost, late or mistaken, a size that worked is reported below
\* the size that failed.
WorkingBelowFailing ==
    SaneOptions /\ worked # {} /\ min_failing # None
        => max_working < min_failing

\* Loss only makes the result smaller: as long as no late answer was taken for
\* another, the MTU reported on the strength of an answered probe is one the
\* path lets through.
NeverOverestimates ==
    SaneOptions /\ ~confused /\ worked # {} => max_working <= pathMtu

\* When every probe got its own answer the MTU reported is exact: the path's,
\* or max_mtu if the path takes more.  Nothing is said of min_failing: its field
\* is documented as the "Maximum MTU tested that failed" (analytics.rs:208),
\* and the search keeps the last size that failed, which is the smallest.
ExactWhenAnswered ==
    SaneOptions /\ pc = "done" /\ ~missed /\ ~confused
      /\ min_mtu <= pathMtu /\ min_mtu <= max_mtu
        => max_working = IF pathMtu < max_mtu THEN pathMtu ELSE max_mtu

\* Every probe at least halves what is left, answered or not, so the number
\* of probes, each worth a full timeout on a silent path, is logarithmic.
LogarithmicProbes ==
    SaneOptions /\ attempts < MaxAttempts /\ min_mtu <= max_mtu
        => 2 ^ attempts * (high - low + 1) <= max_mtu - min_mtu + 1

\* With such options the call returns.
SearchReturns == SaneOptions => <>(pc = "done")

=============================================================================
