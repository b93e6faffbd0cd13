----------------------------- MODULE ProbeLedger -----------------------------
(***************************************************************************)
(* What a bidirectional session promises about its books, with no network  *)
(* in sight.  A session issues probes one at a time and settles each of    *)
(* them with exactly one verdict before it issues the next: Lost, or the   *)
(* number of the echo credited to it.  An echo is credited at most once,   *)
(* never before its probe was issued, and echoes are credited in order.    *)
(*                                                                         *)
(* This is what DirectionStats relies on: loss_percent subtracts           *)
(* `received` from `sent` in u32, and one sample is one packet.            *)
(***************************************************************************)
EXTENDS Integers, Sequences

CONSTANTS
    Clients,      \* the sessions
    ProbeCount,   \* ProbeCount[c]: how many probes session c sends
    Lost          \* the verdict on a probe that got no echo

VARIABLES
    issued,       \* issued[c]: probes issued so far
    verdicts      \* verdicts[c]: the verdict on each settled probe, in order

vars == <<issued, verdicts>>

Credited(c) == {verdicts[c][i] : i \in DOMAIN verdicts[c]} \ {Lost}

Init ==
    /\ issued = [c \in Clients |-> 0]
    /\ verdicts = [c \in Clients |-> <<>>]

\* A probe goes out once every earlier one is settled.
Issue(c) ==
    /\ issued[c] < ProbeCount[c]
    /\ Len(verdicts[c]) = issued[c]
    /\ issued' = [issued EXCEPT ![c] = @ + 1]
    /\ UNCHANGED verdicts

\* The outstanding probe is settled as lost.
WriteOff(c) ==
    /\ Len(verdicts[c]) < issued[c]
    /\ verdicts' = [verdicts EXCEPT ![c] = Append(@, Lost)]
    /\ UNCHANGED issued

\* The outstanding probe is settled with echo e: one that was issued and that
\* comes after every echo credited before.
Credit(c, e) ==
    /\ Len(verdicts[c]) < issued[c]
    /\ e < issued[c]
    /\ \A f \in Credited(c) : f < e
    /\ verdicts' = [verdicts EXCEPT ![c] = Append(@, e)]
    /\ UNCHANGED issued

\* A probe that could not even be written is issued and written off at once.
Refuse(c) ==
    /\ issued[c] < ProbeCount[c]
    /\ Len(verdicts[c]) = issued[c]
    /\ issued' = [issued EXCEPT ![c] = @ + 1]
    /\ verdicts' = [verdicts EXCEPT ![c] = Append(@, Lost)]

Next ==
    \E c \in Clients :
        \/ Issue(c)
        \/ WriteOff(c)
        \/ \E e \in 0..(issued[c] - 1) : Credit(c, e)
        \/ Refuse(c)

Spec == Init /\ [][Next]_vars

=============================================================================
