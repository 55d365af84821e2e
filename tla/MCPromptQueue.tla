---------------------------- MODULE MCPromptQueue ----------------------------
(* PromptQueue for TLC: two prompts, in one conversation or in two. *)
EXTENDS PromptQueue

CONSTANTS c1, c2, p1, p2

OneConv == {c1}
TwoConvs == {c1, c2}
TwoPrompts == {p1, p2}
=============================================================================
