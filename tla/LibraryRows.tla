---------------------------- MODULE LibraryRows ----------------------------
(***************************************************************************)
(* What a scan, a reconciliation and a purge do to the library_files table *)
(* (backend/services/library_scan_service.py and                           *)
(* missing_file_reconciliation_service.py), as operators on the table.     *)
(*                                                                         *)
(* A version is one state of a file's bytes: its audio, its tags, and the  *)
(* size and mtime a stat reports.  Every write of a file makes a new       *)
(* version; a move keeps it.  The table is a function of the path, which   *)
(* is UNIQUE; a row keeps its id when it is relocated.                     *)
(***************************************************************************)
EXTENDS Naturals, FiniteSets, Folds

CONSTANTS
  Paths,     \* the audio files' paths, numbered in path order
  Folders,
  FolderOf,  \* the folder each path is directly in
  NameOf,    \* each path's file name
  Versions,
  AudioOf,   \* what the fingerprint of a version is
  TagsOf,    \* the release, disc, track and title its tags name
  Tagged,    \* versions whose tags hold their fingerprint (a FLAC's MD5)
  Broken,    \* versions whose tags cannot be read
  Refused,   \* versions whose row the database refuses
  Ids,       \* row ids; the first rows are named after their paths
  Unsure,    \* seen of a path whose row was relocated and then refused
  None

ASSUME PathsAssumption == Paths \subseteq Nat /\ IsFiniteSet(Paths)
ASSUME FolderAssumption == FolderOf \in [Paths -> Folders]
ASSUME IdsAssumption == Paths \subseteq Ids
ASSUME KindsAssumption == Tagged \cup Broken \cup Refused \subseteq Versions
ASSUME NoneAssumption == None \notin Versions \cup Ids /\ Unsure \notin Versions \cup {None}

Audios == {AudioOf[v] : v \in Versions}
Row == [id : Ids, present : BOOLEAN, stat : Versions, hash : Audios \cup {None}, grouped : BOOLEAN]
ASSUME RowAssumption == None \notin Row

Filled(rows) == {p \in Paths : rows[p] # None}
Present(rows) == {p \in Filled(rows) : rows[p].present}
Missing(rows) == Filled(rows) \ Present(rows)
Files(f) == {p \in Paths : FolderOf[p] = f}
Last(S, order) == CHOOSE p \in S : \A q \in S : order[q] <= order[p]
FreshId(rows) == CHOOSE i \in Ids : \A p \in Filled(rows) : rows[p].id # i
OnlyOne(S) == IF Cardinality(S) = 1 THEN CHOOSE x \in S : TRUE ELSE None

(* What reading the tags gives the row of a version. *)
Fingerprint(v) == IF v \in Tagged THEN AudioOf[v] ELSE None

(* The upsert: a fresh fingerprint wins, an unchanged file keeps the stored *)
(* one, and a changed file loses it.  The id and the work stay.             *)
Upserted(rows, p, v) ==
  LET old == rows[p] IN
  [rows EXCEPT ![p] =
     IF old = None
     THEN [id |-> FreshId(rows), present |-> TRUE, stat |-> v, hash |-> Fingerprint(v), grouped |-> FALSE]
     ELSE [old EXCEPT !.present = TRUE, !.stat = v,
             !.hash = CASE v \in Tagged -> AudioOf[v]
                        [] v \notin Tagged /\ old.stat = v -> old.hash
                        [] OTHER -> None]]

\* MUTANT: the adopted row stays at its old path too.
RelocatedTwice(rows, q, p) == [rows EXCEPT ![p] = [rows[q] EXCEPT !.present = TRUE]]
Relocated(rows, q, p) == [rows EXCEPT ![p] = [rows[q] EXCEPT !.present = TRUE], ![q] = None]

(* The rows a version may have come from: its audio, or its size and mtime. *)
MoveCandidates(rows, v) ==
  {q \in Filled(rows) : \/ v \in Tagged /\ rows[q].hash = AudioOf[v]
                        \/ rows[q].stat = v}

(* The only candidate, else the only one of that track, else of that name. *)
ChooseMoveOrigin(rows, p, v, gone) ==
  LET track == {q \in gone : TagsOf[rows[q].stat] = TagsOf[v]}
      name == {q \in gone : NameOf[q] = NameOf[p]}
  IN CASE Cardinality(gone) = 1 -> OnlyOne(gone)
       [] Cardinality(gone) # 1 /\ Cardinality(track) = 1 -> OnlyOne(track)
       [] OTHER -> OnlyOne(name)

\* MUTANT: a copy's original is taken for the origin of a move.
MovedFromAny(rows, disk, p, v) == ChooseMoveOrigin(rows, p, v, MoveCandidates(rows, v) \ {p})

(* A candidate whose own file is still there is a copy, not an origin. *)
MovedFrom(rows, disk, p, v) ==
  ChooseMoveOrigin(rows, p, v, {q \in MoveCandidates(rows, v) \ {p} : disk[q] = None})

AdoptMovedRow(rows, disk, p, v) ==
  LET q == MovedFrom(rows, disk, p, v) IN IF q = None THEN rows ELSE Relocated(rows, q, p)

(* A scan so far: the table, the paths that failed, and for each path what  *)
(* was last learnt of it from the disk (a history, for the properties).     *)
Learnt(seen, disk, before, after) ==
  [p \in Paths |-> IF p \in Filled(before) \ Filled(after) THEN disk[p] ELSE seen[p]]

Stored(s, disk, p, adopted) ==
  [s EXCEPT !.rows = Upserted(adopted, p, disk[p]),
            !.seen = [Learnt(s.seen, disk, s.rows, adopted) EXCEPT ![p] = disk[p]]]

Fail(s, p) == [s EXCEPT !.failed = @ \cup {p}]

(* One file a folder visit found: new, back from missing, changed or not.   *)
(* An unreadable file fails before anything is written; a refused row rolls *)
(* back alone and leaves the relocation standing: the row has the new path  *)
(* and the old tags.                                                        *)
VisitFile(s, disk, p) ==
  LET v == disk[p]
      unchanged == s.rows[p] # None /\ s.rows[p].stat = v
      adopted == IF s.rows[p] = None THEN AdoptMovedRow(s.rows, disk, p, v) ELSE s.rows
      standing == [s EXCEPT !.rows = adopted,
                     !.seen = [Learnt(@, disk, s.rows, adopted) EXCEPT
                                 ![p] = IF adopted = s.rows THEN @ ELSE Unsure]]
  IN CASE unchanged -> Stored(s, disk, p, s.rows)
       [] ~unchanged /\ v \in Broken -> Fail(s, p)
       [] ~unchanged /\ v \notin Broken /\ v \in Refused -> Fail(standing, p)
       [] OTHER -> Stored(s, disk, p, adopted)

MarkMissing(s, gone) ==
  [s EXCEPT !.rows = [p \in Paths |-> IF p \in gone \cap Present(s.rows)
                                      THEN [s.rows[p] EXCEPT !.present = FALSE]
                                      ELSE s.rows[p]],
            !.seen = [p \in Paths |-> IF p \in gone THEN None ELSE @[p]]]

(* The whole visit of a folder whose listing is `listed`: its files in the  *)
(* order the directory gives them, each on what those before it made.       *)
Listings(listed) ==
  {order \in [listed -> listed] : \A p, q \in listed : order[p] = order[q] => p = q}
Visited(s, disk, listed, order) ==
  MapThenFoldSet(LAMBDA p, t : VisitFile(t, disk, p), s, LAMBDA p : p,
                 LAMBDA S : Last(S, order), listed)
ScanFolder(s, disk, f, listed, order) ==
  MarkMissing(Visited(s, disk, listed, order), Files(f) \ listed)

(* One file of a full scan's chunk: unlike the visit it upserts unread      *)
(* whatever it reads, and a refused row rolls the chunk back to `base`.     *)
ChunkFile(s, disk, p, known, adopting, base) ==
  LET v == disk[p]
      adopted == IF adopting /\ p \notin known THEN AdoptMovedRow(s.rows, disk, p, v) ELSE s.rows
  IN CASE v = None \/ v \in Broken -> [s EXCEPT !.failed = @ \cup {p}, !.entries = @ \cup {p}]
       [] v # None /\ v \notin Broken /\ v \in Refused ->
            [s EXCEPT !.rows = base.rows, !.seen = base.seen, !.entries = base.entries \cup {p},
                      !.failed = @ \cup {p}]
       [] OTHER -> [Stored(s, disk, p, adopted) EXCEPT !.written = @ \cup {p}]

(* A full scan sorts the files it walks. *)
PathOrder == [p \in Paths |-> p]
ScanChunk(s, disk, chunk, known, adopting) ==
  MapThenFoldSet(LAMBDA p, t : ChunkFile(t, disk, p, known, adopting, s), s, LAMBDA p : p,
                 LAMBDA S : Last(S, PathOrder), chunk)

----------------------------------------------------------------------------
(* Reconciliation. *)

SameAudio(a, b) == a.hash # None /\ a.hash = b.hash
IsSameTrack(a, b) == SameAudio(a, b) \/ TagsOf[a.stat] = TagsOf[b.stat]

ReadySuccessors(rows, m) ==
  {c \in Present(rows) \ {m} : rows[c].grouped /\ IsSameTrack(rows[m], rows[c])}

Pick(m, S) == IF Cardinality(S) = 1 THEN OnlyOne(S) ELSE OnlyOne({c \in S : NameOf[c] = NameOf[m]})

(* An audio match wins once no ready candidate awaits its fingerprint. *)
ChooseSuccessor(rows, m) ==
  LET ready == ReadySuccessors(rows, m)
      audio == {c \in ready : SameAudio(rows[m], rows[c])}
  IN IF audio # {} /\ \E c \in ready : rows[c].hash = None THEN None
     ELSE Pick(m, IF audio # {} THEN audio ELSE ready)

(* The first missing row by path claims a successor; a later one waits. *)
PlanMoves(rows) ==
  {<<rows[m].id, rows[ChooseSuccessor(rows, m)].id>> :
     m \in {n \in Missing(rows) :
              /\ ChooseSuccessor(rows, n) # None
              /\ \A e \in Missing(rows) : e < n => ChooseSuccessor(rows, e) # ChooseSuccessor(rows, n)}}

IdsOf(rows, S) == {rows[p].id : p \in S}

(* lock_fold_pair: a move the library overtook since planning is stale. *)
Foldable(rows, move) ==
  move[1] \in IdsOf(rows, Missing(rows)) /\ move[2] \in IdsOf(rows, Present(rows))

Without(rows, ids) == [p \in Paths |-> IF rows[p] # None /\ rows[p].id \in ids THEN None ELSE rows[p]]

(* merge_into re-points the matches of a folded row at its successor. *)
Repointed(match, moves) ==
  [s \in DOMAIN match |->
     IF \E m \in moves : m[1] = match[s] THEN (CHOOSE m \in moves : m[1] = match[s])[2] ELSE match[s]]

(* Deleting a row releases its matches: a song left with none is reviewed. *)
Released(match, ids) == [s \in DOMAIN match |-> IF match[s] \in ids THEN None ELSE match[s]]

UnreplacedRows(rows) ==
  {m \in Missing(rows) : \A c \in Present(rows) : ~IsSameTrack(rows[m], rows[c])}

\* MUTANT: the rows the backfill may still fold are purged with the others.
SelectPurgeAll(rows, disk, unreadable) ==
  {m \in UnreplacedRows(rows) : disk[m] = None /\ FolderOf[m] \notin unreadable}
(* select_purge holds back what the backfill may still fold and what the    *)
(* disk has after all, or will not say.                                     *)
SelectPurge(rows, disk, unreadable) ==
  {m \in UnreplacedRows(rows) :
     /\ rows[m].hash = None \/ \A c \in Present(rows) : rows[c].hash # None
     /\ disk[m] = None
     /\ FolderOf[m] \notin unreadable}
=============================================================================
