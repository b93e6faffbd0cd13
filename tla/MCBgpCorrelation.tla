--------------------------- MODULE MCBgpCorrelation ---------------------------
(* Traces of up to three hops over two public addresses and a private one. *)
EXTENDS BgpCorrelation

CONSTANTS a, b, p

=============================================================================
