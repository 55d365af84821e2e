------------------------------ MODULE MCMetaJobs ------------------------------
(* MetaJobs for TLC: two jobs, the watch loop and pages. *)
EXTENDS MetaJobs

CONSTANTS j1, j2, ph1, ph2

TwoJobs == {j1, j2}
OnePhone == {ph1}
=============================================================================
