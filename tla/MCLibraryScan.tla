--------------------------- MODULE MCLibraryScan ---------------------------
(* Two folders of one and two files.  At first song s (audio a, in file 1)  *)
(* and song t (audio b, in file 3, a FLAC: its tags hold the fingerprint);  *)
(* a file may become s with b's audio, or s with a's and a row the database *)
(* refuses, and the file 3 may be copied or moved over any other.           *)
EXTENDS LibraryScan

MCPaths == 1 .. 3
MCFolderOf == <<1, 2, 2>>
MCNameOf == <<"x", "x", "y">>
MCAudioOf == <<"a", "b", "b", "a", "a">>
MCTagsOf == <<"s", "t", "s", "s", "s">>
MCDisk0 == <<1, None, 2>>
=============================================================================
