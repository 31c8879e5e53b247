--------------------------- MODULE MCListenerFeed ---------------------------
(***************************************************************************)
(* ListenerFeed for TLC: overlapping streams of a channel and its pages.    *)
(***************************************************************************)
EXTENDS ListenerFeed

CONSTANTS c1, s1, s2, r1

OneChannel == [s \in Streams |-> c1]
=============================================================================
