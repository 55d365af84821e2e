----------------------------- MODULE MCSessions -----------------------------
(* Sessions for TLC: the own session, two spawned ones, two conversations. *)
EXTENDS Sessions

CONSTANTS n1, n2, c1, c2

TwoNames == {n1, n2}
TwoConvs == {c1, c2}
=============================================================================
