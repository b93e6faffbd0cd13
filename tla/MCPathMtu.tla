------------------------------ MODULE MCPathMtu ------------------------------
(* Five-bit sizes: every option, the paths below, inside and above them.    *)
EXTENDS PathMtu

=============================================================================
