---------------------------- MODULE MCTranscript ----------------------------
(* Transcript for TLC: two conversations of two lines each. *)
EXTENDS Transcript

CONSTANTS c1, c2

TwoConvs == {c1, c2}
=============================================================================
