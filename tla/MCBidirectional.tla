--------------------------- MODULE MCBidirectional ---------------------------
(* Two sessions against one server.  With lengths 2, 3 and 5 for the code's *)
(* 18, 34 and 64, a buffer holds two whole probes and a part of the next,   *)
(* one whole echo and most of the next.                                     *)
EXTENDS Bidirectional, TLC

CONSTANTS c1, c2

\* The first session is long enough for an echo to be late by two probes and
\* for a read to start inside an echo; the second sends nothing.
MCProbeCount == c1 :> 3 @@ c2 :> 0

\* Three probes in the only session there is.
MCOneSession == c1 :> 3

=============================================================================
