------------------------------ MODULE MCServers ------------------------------
(* Servers for TLC: three processes and two ports. *)
EXTENDS Servers, TLC

CONSTANTS s1, s2, s3

ThreeServers == {s1, s2, s3}
Processes == Permutations(ThreeServers)
=============================================================================
