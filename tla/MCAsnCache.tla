------------------------------ MODULE MCAsnCache ------------------------------
(* Two callers, an address of each kind and a second public one; the registry *)
(* changes its mind between two AS numbers.                                   *)
EXTENDS AsnCache

CONSTANTS c1, c2, pub, other, priv, six

\* A batch that asks twice for one address with another in between, and one
\* whose addresses are refused or fail.
MCBatches == {<<pub, other, pub>>, <<priv, six>>}

=============================================================================
