----------------------------- MODULE MCIngestion -----------------------------
(***************************************************************************)
(* Ingestion for TLC: two uploads, of one playlist or of two, and a         *)
(* re-check asked for at any time.                                          *)
(***************************************************************************)
EXTENDS Ingestion, TLC

CONSTANTS r1, p1, p2, u1, u2
=============================================================================
