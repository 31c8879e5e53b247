---------------------------- MODULE CatalogRows ----------------------------
(***************************************************************************)
(* The catalog's tables - library_files, works, recordings, song_masters,  *)
(* format_overrides, matches - and what the requests and the worker's      *)
(* items make of them (backend/routers/library/works.py, the services      *)
(* work_move, master_selection, master_choice, grouping and                *)
(* library_enrichment, and the repositories' SQL).                         *)
(*                                                                         *)
(* db is one record of tables.  Files are numbered in the order of their   *)
(* score; every recording is of one version type and every override of one *)
(* format, so a work has at most one of each.                              *)
(***************************************************************************)
EXTENDS Naturals, FiniteSets, Folds

CONSTANTS
  Files,      \* the audio files, numbered by _score_file
  Works,      \* ids a works row may get; an id is used once
  MbWorks,    \* the works MusicBrainz knows
  MbRecs,     \* the recordings it knows
  LocalRecs,  \* ids for recordings made here
  Songs,      \* the broadcast songs that may be matched
  PerformedBy,\* the work each recording performs, if MusicBrainz says
  None

ASSUME FilesAssumption == Files \subseteq Nat /\ IsFiniteSet(Files)
ASSUME PerformedAssumption == PerformedBy \in [MbRecs -> MbWorks \cup {None}]
ASSUME NoneAssumption == None \notin Files \cup Works \cup MbWorks \cup MbRecs \cup LocalRecs
ASSUME KindsAssumption == MbRecs \cap LocalRecs = {} /\ {"unmade", "gone", "local"} \cap MbWorks = {}
(* A work has one local recording at most, so there is always an id for it. *)
ASSUME IdsAssumption ==
  /\ IsFiniteSet(Works) /\ IsFiniteSet(LocalRecs)
  /\ Cardinality(LocalRecs) >= Cardinality(Works)

Recs == MbRecs \cup LocalRecs
RecRow == [work : Works \cup {None}, todo : BOOLEAN]
ASSUME RowAssumption == None \notin RecRow
Stored == {"there", "missing"}
FileRow == [status : {"none", "deleted"} \cup Stored, work : Works \cup {None},
            rec : Recs \cup {None}, enriched : {"pending", "enriched", "failed"}]
Db == [file : [Files -> FileRow],
       work : [Works -> {"unmade", "gone", "local"} \cup MbWorks],
       rec : [Recs -> RecRow \cup {None}],
       master : [Works -> [file : Files, manual : BOOLEAN] \cup {None}],
       override : [Works -> Files \cup {None}],
       match : [Songs -> [file : Files, work : Works \cup {None}] \cup {None}]]

Existing(db) == {w \in Works : db.work[w] \notin {"unmade", "gone"}}
Rows(db) == {f \in Files : db.file[f].status \in Stored}
FilesOn(db, w) == {f \in Rows(db) : db.file[f].work = w}
PresentOn(db, w) == {f \in FilesOn(db, w) : db.file[f].status = "there"}
UsersOf(db, r) == {f \in Rows(db) : db.file[f].rec = r}
RecsOf(db, w) == {r \in Recs : db.rec[r] # None /\ db.rec[r].work = w}
MatchesOn(db, w) == {s \in Songs : db.match[s] # None /\ db.match[s].work = w}
MatchesOf(db, f) == {s \in Songs : db.match[s] # None /\ db.match[s].file = f}
Unmade(db) == {w \in Works : db.work[w] = "unmade"}
NewWork(db) == CHOOSE w \in Unmade(db) : TRUE
NewRec(db) == CHOOSE r \in LocalRecs : db.rec[r] = None
AutoMaster(f) == [file |-> f, manual |-> FALSE]
ManualMaster(f) == [file |-> f, manual |-> TRUE]
Best(fs) == CHOOSE f \in fs : \A g \in fs : g <= f

-----------------------------------------------------------------------------
(* Masters *)

(* _decide_master: a manual pick on a present file of the work stays, else  *)
(* the best present file; with none, a master on a file of the work waits.  *)
\* MUTANT: the pick is replaced whenever a file scores better.
PickedBest(db, w) ==
  LET m == db.master[w] IN
  IF PresentOn(db, w) # {} THEN AutoMaster(Best(PresentOn(db, w)))
  ELSE IF m # None /\ m.file \in FilesOn(db, w) THEN m ELSE None
Picked(db, w) ==
  LET m == db.master[w] IN
  IF m # None /\ m.manual /\ m.file \in PresentOn(db, w) THEN m
  ELSE IF PresentOn(db, w) # {} THEN AutoMaster(Best(PresentOn(db, w)))
  ELSE IF m # None /\ m.file \in FilesOn(db, w) THEN m ELSE None

Reselected(db, w) == [db EXCEPT !.master[w] = Picked(db, w)]

(* recalculate_song_masters goes by the work's recordings instead, whatever *)
(* work their files are on, and keeps every manual pick.                    *)
RecalculatedByRecordings(db, w) ==
  LET m == db.master[w]
      fs == {f \in UNION {UsersOf(db, r) : r \in RecsOf(db, w)} : db.file[f].status = "there"}
  IN IF (m # None /\ m.manual) \/ fs = {} THEN db
     ELSE [db EXCEPT !.master[w] = AutoMaster(Best(fs))]

(* delete_if_empty: a work nothing but its master references goes with it. *)
Unreferenced(db, w) ==
  FilesOn(db, w) = {} /\ RecsOf(db, w) = {} /\ MatchesOn(db, w) = {} /\ db.override[w] = None
DeletedIfEmpty(db, w) ==
  IF w \in Existing(db) /\ Unreferenced(db, w)
  THEN [db EXCEPT !.work[w] = "gone", !.master[w] = None] ELSE db

(* _settle_work: the work a file left. *)
Settled(db, w) == IF Unreferenced(db, w) THEN DeletedIfEmpty(db, w) ELSE Reselected(db, w)

-----------------------------------------------------------------------------
(* Moving a file *)

(* update_work_id with move_to_work: the file's matches take its work too. *)
\* MUTANT: the matches stay where they were.
RehomedAlone(db, f, w) == IF f \in Rows(db) THEN [db EXCEPT !.file[f].work = w] ELSE db
Rehomed(db, f, w) ==
  IF f \notin Rows(db) THEN db
  ELSE [db EXCEPT !.file[f].work = w,
          !.match = [s \in Songs |-> IF s \in MatchesOf(db, f) THEN [db.match[s] EXCEPT !.work = w]
                                     ELSE db.match[s]]]

(* move_file_to_work, for a file that was read on the work prev. *)
\* MUTANT: the work the file left is not settled.
MovedUnsettled(db, f, prev, w) == IF prev = w THEN db ELSE Reselected(Rehomed(db, f, w), w)
Moved(db, f, prev, w) ==
  IF prev = w THEN db
  ELSE LET moved == Reselected(Rehomed(db, f, w), w)
       IN IF prev = None THEN moved ELSE Settled(moved, prev)

(* choose_master, for a file read on the work p: one the page shows through a *)
(* shared recording moves here first.                                         *)
ShownOn(db, f, p, w) ==
  LET r == db.file[f].rec IN
  p = w \/ (r # None /\ (db.rec[r].work = w \/ UsersOf(db, r) \cap FilesOn(db, w) # {}))
WithMaster(db, w, f, p) == [Moved(db, f, p, w) EXCEPT !.master[w] = ManualMaster(f)]

(* A pick that counted f on w, although f has left since. *)
PickedLate(db, w, f) ==
  LET m == db.master[w] IN
  IF m # None /\ m.manual /\ m.file \in PresentOn(db, w) THEN db
  ELSE [db EXCEPT !.master[w] = AutoMaster(f)]

-----------------------------------------------------------------------------
(* Grouping and enrichment *)

(* _create_local_work with its auto master *)
WithLocalWork(db, f) ==
  LET w == NewWork(db) IN [db EXCEPT !.work[w] = "local", !.master[w] = AutoMaster(f)]

(* get_or_create_local *)
LocalRec(db, w) == IF RecsOf(db, w) = {} THEN NewRec(db) ELSE CHOOSE r \in RecsOf(db, w) : TRUE
WithLocalRec(db, w) ==
  IF RecsOf(db, w) # {} THEN db ELSE [db EXCEPT !.rec[NewRec(db)] = [work |-> w, todo |-> FALSE]]

Linked(db, f, r, status) ==
  IF f \notin Rows(db) THEN db ELSE [db EXCEPT !.file[f].rec = r, !.file[f].enriched = status]

(* The grouping pass gives the row the work and, if it has one, the recording. *)
Grouped(db, f, w, r) ==
  LET placed == Rehomed(db, f, w)
  IN IF r = None THEN placed ELSE Linked(placed, f, r, "pending")

(* upsert_from_mb *)
MbWork(db, m) == IF \E w \in Works : db.work[w] = m THEN CHOOSE w \in Works : db.work[w] = m
                 ELSE NewWork(db)
WithMbWork(db, m) == [db EXCEPT !.work[MbWork(db, m)] = m]

(* recordings.upsert: a work that is not known leaves the stored one; a      *)
(* second recording of a version on one work is refused by the database.     *)
\* MUTANT: the place of the version is not looked at.
SlotUnread(db, r, w) == FALSE
SlotTaken(db, r, w) == RecsOf(db, w) \ {r} # {}
WithRecording(db, r, w) ==
  [db EXCEPT !.rec[r] = IF db.rec[r] = None THEN [work |-> w, todo |-> TRUE]
                        ELSE [db.rec[r] EXCEPT !.work = IF w = None THEN db.rec[r].work ELSE w]]

(* apply_recording_lookup for a recording read on the work known: the files of *)
(* the recording follow it, one after the other; then it is marked enhanced.   *)
Followed(db, off, w) ==
  MapThenFoldSet(LAMBDA f, d : Moved(d, f, d.file[f].work, w), db, LAMBDA f : f, Best, off)
LookupApplied(db, r, known, w) ==
  LET linked == IF db.rec[r] = None \/ known = w \/ SlotTaken(db, r, w) THEN db
                ELSE [db EXCEPT !.rec[r].work = w]
  IN Followed(linked, {f \in UsersOf(linked, r) : linked.file[f].work # w}, w)
Enhanced(db, r) == IF db.rec[r] = None THEN db ELSE [db EXCEPT !.rec[r].todo = FALSE]

(* The clean-up at the phase's end: unused recordings that were made here. *)
WithoutOrphans(db) ==
  [db EXCEPT !.rec = [r \in Recs |-> IF r \in LocalRecs /\ UsersOf(db, r) = {} THEN None ELSE db.rec[r]]]

-----------------------------------------------------------------------------
(* The curator's merge, split and reassign *)

(* The work a split or a reassign emptied: its matches are released to their *)
(* files' works, and its rows go.  The database refuses while a file of      *)
(* another work uses its recording.                                          *)
CanEmpty(db, w) == \A r \in RecsOf(db, w) : UsersOf(db, r) = {}
Emptied(db, w) ==
  [db EXCEPT
    !.match = [s \in Songs |-> IF s \in MatchesOn(db, w)
                               THEN [db.match[s] EXCEPT !.work = db.file[db.match[s].file].work]
                               ELSE db.match[s]],
    !.master[w] = None, !.override[w] = None, !.work[w] = "gone",
    !.rec = [r \in Recs |-> IF r \in RecsOf(db, w) THEN None ELSE db.rec[r]]]
CanLeave(db, w) == FilesOn(db, w) = {} => CanEmpty(db, w)
Left(db, w) == IF FilesOn(db, w) = {} THEN Emptied(db, w) ELSE Reselected(db, w)

(* split_work up to what becomes of the old work *)
SplitOff(db, f) ==
  LET w == NewWork(db)
      made == WithLocalWork(db, f)
      own == IF db.file[f].rec = None THEN made
             ELSE [WithLocalRec(made, w) EXCEPT !.file[f].rec = NewRec(made)]
  IN Rehomed(own, f, w)

(* _repoint_recording *)
Repointed(db, f, w) ==
  LET r == db.file[f].rec IN
  IF r = None THEN db
  ELSE IF RecsOf(db, w) # {} THEN [db EXCEPT !.file[f].rec = LocalRec(db, w)]
  ELSE IF UsersOf(db, r) # {f} THEN [WithLocalRec(db, w) EXCEPT !.file[f].rec = NewRec(db)]
  ELSE [db EXCEPT !.rec[r].work = w]

Reassigned(db, f, w) == Reselected(Rehomed(Repointed(db, f, w), f, w), w)

(* merge_works with one source: its files, override (unless the target has  *)
(* one), recording and matches go to the target; its master goes.           *)
MergedRecs(db, t, s) ==
  LET old == RecsOf(db, s) IN
  IF RecsOf(db, t) = {}
  THEN [db EXCEPT !.rec = [r \in Recs |-> IF r \in old THEN [db.rec[r] EXCEPT !.work = t] ELSE db.rec[r]]]
  ELSE [db EXCEPT !.file = [f \in Files |-> IF db.file[f].rec \in old
                                           THEN [db.file[f] EXCEPT !.rec = LocalRec(db, t)] ELSE db.file[f]],
                  !.rec = [r \in Recs |-> IF r \in old THEN None ELSE db.rec[r]]]
Merged(db, t, s) ==
  LET rehomed == [db EXCEPT
        !.file = [f \in Files |-> IF f \in FilesOn(db, s) THEN [db.file[f] EXCEPT !.work = t] ELSE db.file[f]],
        !.override[t] = IF db.override[t] = None THEN db.override[s] ELSE db.override[t],
        !.override[s] = None]
      moved == [MergedRecs(rehomed, t, s) EXCEPT
        !.match = [x \in Songs |-> IF x \in MatchesOn(db, s) THEN [db.match[x] EXCEPT !.work = t]
                                   ELSE db.match[x]],
        !.master[s] = None, !.work[s] = "gone"]
  IN Reselected(moved, t)

-----------------------------------------------------------------------------
(* Missing rows *)

(* merge_into: every reference to f goes to g. *)
MergedInto(db, f, g) ==
  LET At(x) == IF x = f THEN g ELSE x
  IN [db EXCEPT
       !.file[f] = [@ EXCEPT !.status = "deleted", !.work = None, !.rec = None],
       !.match = [s \in Songs |-> IF db.match[s] = None THEN None ELSE [db.match[s] EXCEPT !.file = At(@)]],
       !.master = [x \in Works |-> IF db.master[x] = None THEN None
                                   ELSE [db.master[x] EXCEPT !.file = At(@)]],
       !.override = [x \in Works |-> At(db.override[x])]]

(* settle_fold_across_works, by the works the plan read f and g on. *)
SettledAcross(db, g, left, w) ==
  LET moved == [db EXCEPT !.match = [s \in Songs |-> IF s \in MatchesOf(db, g)
                                                     THEN [db.match[s] EXCEPT !.work = w] ELSE db.match[s]]]
      settled == IF None \in {left, w} \/ moved.override[left] # g THEN moved
                 ELSE [moved EXCEPT !.override[left] = None,
                         !.override[w] = IF moved.override[w] = None THEN g ELSE moved.override[w]]
  IN IF left = None THEN settled ELSE DeletedIfEmpty(Reselected(settled, left), left)
Folded(db, f, g, left, w) ==
  IF left = w THEN MergedInto(db, f, g) ELSE SettledAcross(MergedInto(db, f, g), g, left, w)

(* The database refuses a fold that gives something to a work that is gone. *)
CanFold(db, f, g, left, w) ==
  \/ left = w \/ w \in Existing(db)
  \/ /\ MatchesOf(db, f) \cup MatchesOf(db, g) = {}
     /\ left # None => db.override[left] \notin {f, g}

(* _delete_missing_row *)
DeletedRow(db, f) ==
  LET crowned == {w \in Works : db.master[w] # None /\ db.master[w].file = f}
      freed == [db EXCEPT
        !.match = [s \in Songs |-> IF s \in MatchesOf(db, f) THEN None ELSE db.match[s]],
        !.override = [w \in Works |-> IF db.override[w] = f THEN None ELSE db.override[w]],
        !.master = [w \in Works |-> IF w \in crowned THEN None ELSE db.master[w]]]
      picked == [freed EXCEPT
        !.master = [w \in Works |-> IF w \in crowned THEN Picked(freed, w) ELSE freed.master[w]],
        !.file[f] = [@ EXCEPT !.status = "deleted", !.work = None, !.rec = None]]
  IN IF db.file[f].work = None THEN picked ELSE DeletedIfEmpty(picked, db.file[f].work)
=============================================================================
