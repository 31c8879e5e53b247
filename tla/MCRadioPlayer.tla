---------------------------- MODULE MCRadioPlayer ----------------------------
(***************************************************************************)
(* RadioPlayer for TLC, with the page's own times in seconds.               *)
(***************************************************************************)
EXTENDS RadioPlayer
=============================================================================
