-------------------------- MODULE MCSongMatching --------------------------
EXTENDS SongMatching

CONSTANTS a1, a2, s1, s2, f1, f2

(* Two songs of one artist, or of two artists.  The files are of one work: *)
(* the artist's is missing at the start, and the other's, which names an   *)
(* artist nobody plays, is there: a retag brings it, or a fold.            *)
OneArtist == [s \in Songs |-> a1]
TwoArtists == [s \in Songs |-> IF s = s1 THEN a1 ELSE a2]
OneWork == [f \in Files |-> "w"]
AllPlayed == [p \in Playlists |-> Songs]
FirstTagged == [f \in Files |-> IF f = f1 THEN a1 ELSE None]
FirstMissing == [f \in Files |-> IF f = f1 THEN "missing" ELSE "there"]
============================================================================
