----------------------------- MODULE MCPresence -----------------------------
(* Presence for TLC: a phone that comes back on a second connection while   *)
(* the first is still thought to be open, and another phone.               *)
EXTENDS Presence

CONSTANTS k1, k2, k3, d1, d2

ThreeSockets == {k1, k2, k3}
TwoDevices == {d1, d2}
Reconnecting == [s \in ThreeSockets |-> IF s = k3 THEN d2 ELSE d1]
=============================================================================
