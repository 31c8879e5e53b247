--------------------------- MODULE MCItemContract ---------------------------
(***************************************************************************)
(* ItemContract for TLC: two overlapping calls, a schedule long enough for  *)
(* two liners and both ways of signing off.  No symmetry: it is not sound   *)
(* for the liveness property of the run.                                    *)
(***************************************************************************)
EXTENDS ItemContract

CONSTANTS c1, c2, l1, l2
=============================================================================
