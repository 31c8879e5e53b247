---------------------------- MODULE MCMatchingRun ----------------------------
(***************************************************************************)
(* MatchingRun for TLC, by itself.                                          *)
(***************************************************************************)
EXTENDS MatchingRun, TLC

CONSTANTS r1, r2, p1, p2
=============================================================================
