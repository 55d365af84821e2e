---------------------------- MODULE MCEventStream ----------------------------
(* EventStream for TLC. *)
EXTENDS EventStream, TLC

Symmetry == Permutations(Pages) \cup Permutations(Sockets) \cup Permutations(Calls)
=============================================================================
