--------------------------- MODULE MCLinkSession ---------------------------
(* Two callers race for a link to one destination. *)
EXTENDS LinkSession

CONSTANTS c1, c2, k1, k2

Callers == {c1, c2}
Keys == {k1, k2}
=============================================================================
