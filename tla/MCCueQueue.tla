------------------------------ MODULE MCCueQueue ------------------------------
(***************************************************************************)
(* CueQueue for TLC: a file of unknown duration ahead of two others, and a  *)
(* liner, in batches of two.                                                *)
(***************************************************************************)
EXTENDS CueQueue, TLC

CONSTANTS a, b, c

MCAudio0 == (1 :> a) @@ (2 :> b) @@ (3 :> c) @@ (4 :> c)
===============================================================================
