------------------------------ MODULE Catalog ------------------------------
(***************************************************************************)
(* Works, their masters and the enrichment: the curator's requests in the  *)
(* web process against the worker's items (src/Procfile, -w 1), on the     *)
(* tables of CatalogRows.                                                  *)
(*                                                                         *)
(* A request is one transaction and one step, but for the work of a file,  *)
(* which nothing locks when it is read: a request, and the plan of a       *)
(* reconciliation, may go by any work the file was on before (seen).  An   *)
(* item of the worker reads its rows, asks MusicBrainz for seconds and     *)
(* then writes, file by file; what it has written but not committed, a     *)
(* request does not see: it goes by the works before.  The song stage      *)
(* writes a match long before it commits; until then its row is a draft    *)
(* that keeps its file and its work from being deleted (the foreign keys'  *)
(* locks), not from being moved.                                           *)
(***************************************************************************)
EXTENDS CatalogRows

CONSTANTS
  Facts,      \* what may be true of the files: the recording each is tagged with, and
              \* the fingerprint it has when it is grouped, if any
  MaxEvents   \* requests, drafts, changes on disk and failed lookups, for each fact

ASSUME FactsAssumption == \A x \in Facts : x.rec \in [Files -> MbRecs \cup {None}] /\ DOMAIN x.audio = Files
ASSUME MaxEventsAssumption == MaxEvents \in [Facts -> Nat]

VARIABLES
  db,
  facts,
  job,     \* the item the worker is in, with the rows it read
  seen,    \* history: the works each file has been on, where it may have been read
  due,     \* works whose master a request thread recalculates after its commit
  strayed, \* history: works whose master went by recordings, or by a reading since overtaken
  raced,   \* history: songs whose match did
  events

vars == <<db, facts, job, seen, due, strayed, raced>>

WorksRead == [Files -> Works \cup {None}]
Unread == [f \in Files |-> None]
Idle == [step |-> "idle", files |-> {}, read |-> Unread, file |-> None, rec |-> None,
         work |-> None, song |-> None]
Jobs == [step : {"idle", "grouping", "pending", "recording", "draft", "matched"},
         files : SUBSET Files, read : WorksRead, file : Files \cup {None},
         rec : MbRecs \cup {None}, work : Works \cup {None}, song : Songs \cup {None}]

RecOf(f) == facts.rec[f]
OffWork(d) == {w \in Works : d.master[w] # None /\ d.master[w].file \notin FilesOn(d, w)}
Astray(d) == {s \in Songs : d.match[s] # None /\ d.match[s].file \in Rows(d)
                            /\ d.match[s].work # d.file[d.match[s].file].work}

TypeOK ==
  /\ db \in Db /\ facts \in Facts /\ job \in Jobs /\ seen \in [Files -> SUBSET (Works \cup {None})]
  /\ LET kept == {r \in Recs : db.rec[r] # None}
     IN \A r, q \in kept : r # q /\ db.rec[r].work = db.rec[q].work => db.rec[r].work = None
  /\ \A f \in Rows(db) : db.file[f].work \in Existing(db) \cup {None}
  /\ \A f \in Rows(db) : db.file[f].rec # None => db.rec[db.file[f].rec] # None
  /\ \A m \in MbWorks : Cardinality({w \in Works : db.work[w] = m}) <= 1
  /\ due \subseteq Works /\ strayed \subseteq Works /\ raced \subseteq Songs

Init ==
  /\ db = [file |-> [f \in Files |-> [status |-> "none", work |-> None, rec |-> None, enriched |-> "pending"]],
           work |-> [w \in Works |-> "unmade"], rec |-> [r \in Recs |-> None],
           master |-> [w \in Works |-> None], override |-> [w \in Works |-> None],
           match |-> [s \in Songs |-> None]]
  /\ facts \in Facts /\ job = Idle /\ seen = [f \in Files |-> {None}] /\ due = {}
  /\ strayed = {} /\ raced = {} /\ events = 0

(* A write of the tables, with the works whose master and the songs whose match *)
(* it sets by something else than where the files are now.                      *)
Write(new, elsewhere, late) ==
  /\ db' = new
  /\ strayed' = (strayed \cup elsewhere) \cap OffWork(db')
  /\ raced' = (raced \cup late) \cap Astray(db')
  /\ seen' = [f \in Files |-> seen[f] \cup {db'.file[f].work}]
  /\ UNCHANGED facts

(* The work of f that is not known to who goes by p. *)
Behind(f, p) == IF p = db.file[f].work THEN {} ELSE {db.file[f].work}

Event == events < MaxEvents[facts] /\ events' = events + 1

(* A request waits for the rows the stage's draft holds. *)
Unlocked ==
  job.step = "draft" => /\ db'.file[job.file].status \in Stored
                        /\ job.work # None => db'.work[job.work] # "gone"
                        /\ db'.match[job.song] = db.match[job.song]
RequestBy(new, elsewhere, late) == Write(new, elsewhere, late) /\ Unlocked /\ UNCHANGED job
Request(new) == RequestBy(new, {}, {})

-----------------------------------------------------------------------------
(* The curator's requests *)

SetMaster(w, f) ==
  /\ w \in Existing(db) /\ f \in Rows(db) /\ db.file[f].status = "there"
  /\ \E p \in seen[f] :
       /\ ShownOn(db, f, p, w)
       /\ RequestBy(WithMaster(db, w, f, p), IF p = db.file[f].work THEN {} ELSE {w, db.file[f].work}, {})
  /\ UNCHANGED due

DeleteMaster(w) ==
  /\ db.master[w] # None
  /\ Request([db EXCEPT !.master[w] = None])
  /\ UNCHANGED due

CreateOverride(w, f) ==
  /\ f \in PresentOn(db, w) /\ db.override[w] = None
  /\ Request([db EXCEPT !.override[w] = f])
  /\ UNCHANGED due

DeleteOverride(w) ==
  /\ db.override[w] # None
  /\ Request([db EXCEPT !.override[w] = None])
  /\ UNCHANGED due

Merge(t, s) ==
  /\ t # s /\ {t, s} \subseteq Existing(db)
  /\ Request(Merged(db, t, s))
  /\ UNCHANGED due

Split(w, f) ==
  /\ w \in Existing(db) /\ f \in Rows(db) /\ w \in seen[f] /\ Unmade(db) # {}
  /\ CanLeave(SplitOff(db, f), w)
  /\ RequestBy(Left(SplitOff(db, f), w), Behind(f, w), {})
  /\ UNCHANGED due

Reassign(f, w) ==
  /\ f \in Rows(db) /\ w \in Existing(db)
  /\ \E old \in seen[f] \ {w} :
       /\ old \in Existing(db) => CanLeave(Reassigned(db, f, w), old)
       /\ RequestBy(IF old \in Existing(db) THEN Left(Reassigned(db, f, w), old) ELSE Reassigned(db, f, w),
                    Behind(f, old), {})
  /\ UNCHANGED due

(* A manual resolve: the match takes the work the file was read on, and that  *)
(* work's master is recalculated after the commit - unless that fails.        *)
Resolve(s, f) ==
  /\ f \in Rows(db)
  /\ \E p \in seen[f] \cap (Existing(db) \cup {None}) :
       /\ RequestBy([db EXCEPT !.match[s] = [file |-> f, work |-> p]], {},
                    IF p = db.file[f].work THEN {} ELSE {s})
       /\ due' = due \cup ({p} \ {None})

(* A re-pick of w among its files that was read before f left, and is written now. *)
PickLate(w, f) ==
  /\ w \in seen[f] /\ w # db.file[f].work /\ w \in Existing(db) /\ f \in Rows(db)
  /\ RequestBy(PickedLate(db, w, f), {w}, {})
  /\ UNCHANGED due

Recalculate(w) ==
  /\ w \in due /\ due' = due \ {w}
  /\ Write(RecalculatedByRecordings(db, w), {w}, {})
  /\ UNCHANGED <<job, events>>

(* The unmatch or reject of a song *)
Release(s) ==
  /\ db.match[s] # None
  /\ Request([db EXCEPT !.match[s] = None])
  /\ UNCHANGED due

DeleteMissing(f) ==
  /\ f \in Rows(db) /\ db.file[f].status = "missing"
  /\ Request(DeletedRow(db, f))
  /\ UNCHANGED due

(* A move of the scan's reconciliation, or a remap of the curator's: the lock on *)
(* the two rows sees to their status, the works are those of the plan.           *)
Fold(f, g) ==
  /\ f \in Rows(db) /\ db.file[f].status = "missing"
  /\ g \in Rows(db) /\ db.file[g].status = "there"
  /\ \E left \in seen[f], w \in seen[g] \ {None} :
       LET overtaken == left # db.file[f].work \/ w # db.file[g].work
       IN /\ CanFold(db, f, g, left, w)
          /\ RequestBy(Folded(db, f, g, left, w), IF overtaken THEN {db.file[f].work} ELSE {},
                       IF overtaken THEN MatchesOf(db, f) \cup MatchesOf(db, g) ELSE {})
  /\ UNCHANGED due

Asks ==
  \/ \E w \in Works : DeleteMaster(w) \/ DeleteOverride(w)
  \/ \E w \in Works, f \in Files : SetMaster(w, f) \/ CreateOverride(w, f) \/ PickLate(w, f)
  \/ \E w \in Works, f \in Files : Split(w, f) \/ Reassign(f, w)
  \/ \E t, s \in Works : Merge(t, s)
  \/ \E s \in Songs : Release(s) \/ \E f \in Files : Resolve(s, f)
  \/ \E f \in Files : DeleteMissing(f)
Folds == UNCHANGED events /\ \E f, g \in Files : Fold(f, g)
Curator == (Event /\ Asks) \/ Folds \/ \E w \in Works : Recalculate(w)

-----------------------------------------------------------------------------
(* The worker *)

Work(new, elsewhere, late) == Write(new, elsewhere, late) /\ UNCHANGED due
Waits == UNCHANGED <<db, facts, seen, due, strayed, raced>>

(* A scan finds a file - and has yet to group it -, misses it, or finds it again. *)
Index(f) ==
  /\ job = Idle /\ db.file[f].status = "none"
  /\ job' = [Idle EXCEPT !.step = "grouping", !.file = f]
  /\ Work([db EXCEPT !.file[f].status = "there"], {}, {}) /\ UNCHANGED events
Flip(f) ==
  /\ Event /\ job = Idle /\ f \in Rows(db)
  /\ Work([db EXCEPT !.file[f].status = IF @ = "there" THEN "missing" ELSE "there"], {}, {})
  /\ UNCHANGED job

(* repick_stranded_masters, at the end of a reconciliation *)
Repick(w) ==
  /\ job = Idle /\ db.master[w] # None /\ ~db.master[w].manual
  /\ db.file[db.master[w].file].status = "missing" /\ PresentOn(db, w) # {}
  /\ Work(Reselected(db, w), {}, {}) /\ UNCHANGED <<job, events>>

(* assign_work, each way only when those before it found nothing.  A row the *)
(* scan itself made is taken to have no work still, any other is read again. *)
Twins(f) ==
  {g \in Rows(db) \ {f} : /\ facts.audio[f] # None /\ facts.audio[g] = facts.audio[f]
                         /\ db.file[g].work # None}
Known(f) == RecOf(f) # None /\ db.rec[RecOf(f)] # None /\ db.rec[RecOf(f)].work # None
Ungrouped(f) ==
  /\ \/ job.step = "grouping" /\ job.file = f
     \/ job = Idle /\ db.file[f].work = None
  /\ f \in Rows(db) /\ job' = Idle
Groups(f, new) == Work(new, Behind(f, None), {}) /\ UNCHANGED events

GroupWithTwin(f, g) ==
  Ungrouped(f) /\ g \in Twins(f) /\ Groups(f, Grouped(db, f, db.file[g].work, db.file[g].rec))
GroupByTag(f) ==
  Ungrouped(f) /\ Twins(f) = {} /\ Known(f) /\ Groups(f, Grouped(db, f, db.rec[RecOf(f)].work, RecOf(f)))
(* The titles' likeness is the environment's: any work, or a new one.  The last *)
(* id is kept for a work of MusicBrainz (a bound).                              *)
GroupByTitle(f) ==
  /\ Ungrouped(f) /\ Twins(f) = {} /\ ~Known(f)
  /\ \/ \E w \in Existing(db) : Groups(f, Grouped(WithLocalRec(db, w), f, w, LocalRec(db, w)))
     \/ /\ Cardinality(Unmade(db)) > 1
        /\ LET w == NewWork(db)
               made == WithLocalWork(db, f)
           IN Groups(f, Grouped(WithLocalRec(made, w), f, w, LocalRec(made, w)))
(* A file without artist or title, or a write the database refuses *)
GroupsNothing(f) == job.step = "grouping" /\ f = job.file /\ job' = Idle /\ Waits /\ UNCHANGED events

(* Enrichment: an item reads the pending files of a release, a recording or a *)
(* batch, and answers for one after the other.                                *)
ReadPending ==
  /\ job = Idle
  /\ \E fs \in SUBSET {f \in Rows(db) : db.file[f].enriched = "pending"} \ {{}} :
       job' = [Idle EXCEPT !.step = "pending", !.files = fs,
                           !.read = [f \in Files |-> IF f \in fs THEN db.file[f].work ELSE None]]
  /\ Waits /\ UNCHANGED events

AnswerFor(f) ==
  /\ job.step = "pending" /\ f \in job.files
  /\ job' = IF job.files = {f} THEN Idle ELSE [job EXCEPT !.files = @ \ {f}, !.read[f] = None]

(* enrich_by_recording_batch: a search, which names no work. *)
BatchLink(f) ==
  /\ AnswerFor(f) /\ RecOf(f) # None
  /\ Work(Linked(WithRecording(db, RecOf(f), None), f, RecOf(f), "enriched"), {}, {})
  /\ UNCHANGED events

(* enrich_by_release and enrich_by_recording: the lookup names the work, and the *)
(* file moves there from the work it was read on.                                *)
PerformedBySomeone(f) == RecOf(f) # None /\ PerformedBy[RecOf(f)] # None
Refused(f) ==
  /\ PerformedBySomeone(f)
  /\ \E w \in Works : db.work[w] = PerformedBy[RecOf(f)] /\ SlotTaken(db, RecOf(f), w)
LookupLink(f) ==
  LET r == RecOf(f)
      w == MbWork(db, PerformedBy[r])
      linked == Linked(WithRecording(WithMbWork(db, PerformedBy[r]), r, w), f, r, "enriched")
      new == Moved(linked, f, job.read[f], w)
  IN /\ AnswerFor(f) /\ PerformedBySomeone(f) /\ ~Refused(f) /\ Unmade(db) # {}
     /\ Work(new, Behind(f, job.read[f]), {}) /\ UNCHANGED events
LookupNoWork(f) ==
  /\ AnswerFor(f) /\ RecOf(f) # None /\ ~PerformedBySomeone(f)
  /\ Work(Linked(WithRecording(db, RecOf(f), None), f, RecOf(f), "enriched"), {}, {})
  /\ UNCHANGED events
(* The database refuses the recording: the item is rolled back. *)
ItemEnds(f) == job.step = "pending" /\ f \in job.files /\ job' = Idle /\ Waits
LookupRefused(f) == ItemEnds(f) /\ Refused(f) /\ UNCHANGED events
(* No tag, a malformed one, nothing found: the file is marked. *)
LookupFails(f) ==
  /\ AnswerFor(f) /\ (RecOf(f) # None => Event) /\ (RecOf(f) = None => UNCHANGED events)
  /\ Work(Linked(db, f, None, "failed"), {}, {})
(* A transient error *)
LookupBreaks(f) == ItemEnds(f) /\ Event
(* Failed files are put back by hand. *)
ResetFailed ==
  /\ Event /\ \E f \in Rows(db) : db.file[f].enriched = "failed"
  /\ Work([db EXCEPT !.file = [f \in Files |-> IF @[f].enriched = "failed"
                                               THEN [@[f] EXCEPT !.enriched = "pending"] ELSE @[f]]], {}, {})
  /\ UNCHANGED job

(* The recordings phase, one recording per item; one whose lookup is not needed *)
(* or finds nothing is only marked.                                             *)
ReadRecording(r) ==
  /\ job = Idle /\ db.rec[r] # None /\ db.rec[r].todo
  /\ job' = [Idle EXCEPT !.step = "recording", !.rec = r, !.work = db.rec[r].work]
  /\ Waits /\ UNCHANGED events
ApplyLookup(r) ==
  LET m == PerformedBy[r]
      looked == IF m = None THEN db ELSE LookupApplied(WithMbWork(db, m), r, job.work, MbWork(db, m))
  IN /\ job.step = "recording" /\ r = job.rec /\ job' = Idle /\ Unmade(db) # {}
     /\ \E new \in {db, looked} : Work(Enhanced(new, r), {}, {})
     /\ UNCHANGED events
CleanUp ==
  /\ job = Idle /\ WithoutOrphans(db) # db
  /\ Work(WithoutOrphans(db), {}, {}) /\ UNCHANGED <<job, events>>

(* The song stage takes a song without a match; for what it matched it *)
(* recalculates the masters afterwards.                                *)
Draft(s, f) ==
  /\ Event /\ job = Idle /\ f \in Rows(db) /\ db.match[s] = None
  /\ job' = [Idle EXCEPT !.step = "draft", !.song = s, !.file = f, !.work = db.file[f].work]
  /\ Waits
Commit(s) ==
  /\ job.step = "draft" /\ s = job.song /\ job' = [Idle EXCEPT !.step = "matched", !.work = job.work]
  /\ Work([db EXCEPT !.match[s] = [file |-> job.file, work |-> job.work]], {}, {s}) /\ UNCHANGED events
StageDies == job.step = "draft" /\ job' = Idle /\ UNCHANGED events /\ Waits
Masters ==
  /\ job.step = "matched" /\ job' = Idle
  /\ Waits \/ (job.work # None /\ Work(RecalculatedByRecordings(db, job.work), {job.work}, {}))
  /\ UNCHANGED events

Scan(f) == Index(f) \/ GroupByTag(f) \/ GroupByTitle(f) \/ GroupsNothing(f)
           \/ \E g \in Files : GroupWithTwin(f, g)
Answer(f) ==
  BatchLink(f) \/ LookupLink(f) \/ LookupNoWork(f) \/ LookupRefused(f) \/ LookupFails(f) \/ LookupBreaks(f)
Worker ==
  \/ \E f \in Files : Scan(f) \/ Flip(f) \/ Answer(f)
  \/ ReadPending
  \/ \E w \in Works : Repick(w)
  \/ \E r \in MbRecs : ReadRecording(r) \/ ApplyLookup(r)
  \/ CleanUp \/ ResetFailed
  \/ \E s \in Songs : Commit(s) \/ \E f \in Files : Draft(s, f)
  \/ StageDies \/ Masters

Next == Curator \/ Worker
Spec == Init /\ [][Next]_vars

-----------------------------------------------------------------------------
(* A match names the work its file is on, through every move, merge, split,   *)
(* fold and deletion (_move_file_matches, move_to_work, the releases before a  *)
(* work is deleted) - unless it was written by a reading of the file's work    *)
(* that a move has overtaken since: a draft of the song stage, a resolve, a    *)
(* fold by its plan's works.                                                   *)
MatchFollowsFile == Astray(db) \subseteq raced

(* A work's master is a file of that work, whatever moved the file away        *)
(* (_settle_work, reselect) - but for the recalculation by recordings, and     *)
(* for a write by a reading that a move has overtaken since: an enrichment     *)
(* item, a fold by its plan's works, a file grouped as it was first read.      *)
MasterOnItsWork == OffWork(db) \subseteq strayed

(* A manual master stays while its file is a present file of the work, until   *)
(* the curator sets another or clears it (_decide_master, upsert's guard).     *)
ManualPickStands ==
  [][\A w \in Works :
       LET m == db.master[w] IN
       m # None /\ m.manual /\ m.file \in PresentOn(db, w) \cap PresentOn(db', w) =>
         db'.master[w] = m \/ DeleteMaster(w) \/ \E f \in Files : SetMaster(w, f)]_vars
=============================================================================
