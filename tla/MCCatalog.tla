----------------------------- MODULE MCCatalog -----------------------------
(* Two files: of one recording; with the same audio, tagged as two         *)
(* recordings of one MusicBrainz work; of a recording that names no work    *)
(* and of none.  Two events for each, one for the second.                   *)
EXTENDS Catalog

CONSTANTS mbw, r1, r2, r3, a

MCPerformedBy == [r \in {r1, r2, r3} |-> IF r = r3 THEN None ELSE mbw]
MCFacts == {[rec |-> [f \in Files |-> r1], audio |-> [f \in Files |-> None]],
            [rec |-> [f \in Files |-> IF f = 1 THEN r1 ELSE r2], audio |-> [f \in Files |-> a]],
            [rec |-> [f \in Files |-> IF f = 1 THEN r3 ELSE None], audio |-> [f \in Files |-> None]]}
(* The files with one audio need no event to meet, nor to be refused. *)
MCMaxEvents == [x \in Facts |-> IF x.rec[2] = r2 THEN 1 ELSE 2]
=============================================================================
