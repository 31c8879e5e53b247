------------------------------ MODULE Ingestion ------------------------------
(***************************************************************************)
(* Uploads of playlists and the matching each of them sets off, beside the  *)
(* re-checks of MatchingRun: one worker runs all of it                      *)
(* (routers/ingestion.py, tasks/ingestion_tasks.py, services/               *)
(* ingestion_service.py, db/ingest_transaction.py).                         *)
(*                                                                         *)
(* A playlist is the content of a file: two uploads of the same bytes are   *)
(* uploads of one playlist.  Its rows are left out but for whether they     *)
(* leave it work to match.  Playlists share no artist or song here (what    *)
(* sharing does is in SongMatching), and nothing reads the vectors of the   *)
(* embedding task, which is handed off beside matching.                     *)
(***************************************************************************)
EXTENDS MatchingRun

CONSTANTS Uploads, NoUpload

ASSUME NoUploadAssumption == NoUpload \notin Uploads

VARIABLES
  upload,   \* the ingestion task of each upload
  shown,    \* its progress row
  stored,   \* the upload that stored each playlist
  pending,  \* the playlists with artists or songs that are pending
  own       \* where the matching that a playlist's upload set off is

ours == <<upload, shown, stored, pending, own>>
pipeline == <<vars, ours>>

\* "counting": its row is to be opened; "storing": in the transaction; "stored":
\* committed; "handing": COMPLETED has been written; "raised": something after the
\* commit raised.  silent: a write of its row or the answer to its commit was lost
\* (history).
Steps ==
  {"none", "queued", "counting", "storing", "stored", "handing", "over", "raised", "lost"}

IngestionTypeOK ==
  /\ upload \in [Uploads -> [at : Steps, of : Playlists, silent : BOOLEAN]]
  /\ shown \in [Uploads -> {"none", "running", "completed", "failed"}]
  /\ stored \in [Playlists -> Uploads \cup {NoUpload}]
  /\ pending \subseteq Playlists
  /\ own \in [Playlists -> Stages \ {"unqueued"}]

InitIngestion ==
  /\ Init
  /\ upload \in [Uploads -> [at : {"none"}, of : Playlists, silent : {FALSE}]]
  /\ shown = [u \in Uploads |-> "none"]
  /\ stored = [p \in Playlists |-> NoUpload]
  /\ pending = {}
  /\ own = [p \in Playlists |-> "none"]

Stored == {p \in Playlists : stored[p] # NoUpload}
At(u, step) == upload[u].at = step
MoveTo(u, step) == upload' = [upload EXCEPT ![u].at = step]
LeaveTask == worker' = Free /\ UNCHANGED <<recheck, stage, row, matched>>

\* MUTANT: a row that the reaper has failed is not written to any more.
WrittenWhileRunning(u, status) ==
  IF shown[u] \in {"none", "running"} THEN [shown EXCEPT ![u] = status] ELSE shown
\* A write of an upload's row sets the status whatever it was.
Written(u, status) == [shown EXCEPT ![u] = status]

Show(u, status) ==
  \E lands \in Landings : shown' = IF lands THEN Written(u, status) ELSE shown

\* The last write of a row: that it was lost is history.
ShowLast(u, status, step) ==
  \E lands \in Landings :
    /\ shown' = IF lands THEN Written(u, status) ELSE shown
    /\ upload' = [upload EXCEPT ![u].at = step, ![u].silent = @ \/ ~lands]

-----------------------------------------------------------------------------
(* The ingestion task *)

Upload(u) ==
  /\ At(u, "none")
  /\ MoveTo(u, "queued")
  /\ UNCHANGED <<vars, shown, stored, pending, own>>

StartIngestion(u) ==
  /\ At(u, "queued")
  /\ Take("ingestion", u)
  /\ MoveTo(u, "counting")
  /\ UNCHANGED <<recheck, stage, row, matched, shown, stored, pending, own>>

\* No connection for its row: nothing can be shown.
NoConnection(u) ==
  /\ At(u, "counting")
  /\ upload' = [upload EXCEPT ![u].at = "over", ![u].silent = TRUE]
  /\ LeaveTask
  /\ UNCHANGED <<shown, stored, pending, own>>

\* The first write of the row is the one that may not be lost.
OpenUpload(u) ==
  /\ At(u, "counting")
  /\ MoveTo(u, "storing")
  /\ shown' = [shown EXCEPT ![u] = "running"]
  /\ UNCHANGED <<vars, stored, pending, own>>

\* Every hundred rows, and again from 0 when a deadlocked attempt is retried.
TickUpload(u) ==
  /\ At(u, "storing")
  /\ Show(u, "running")
  /\ UNCHANGED <<vars, upload, stored, pending, own>>

NotDuplicate(u) == stored[upload[u].of] = NoUpload

\* Undecodable, wrong columns, a bad row, a duplicate, a third deadlock, a lost
\* database: the transaction leaves nothing.
IngestFails(u) ==
  /\ At(u, "counting") \/ At(u, "storing")
  /\ ShowLast(u, "failed", "over")
  /\ LeaveTask
  /\ UNCHANGED <<stored, pending, own>>

\* Rows of names and songs known and decided already leave nothing to match.
Store(u) ==
  /\ At(u, "storing")
  /\ NotDuplicate(u)
  /\ stored' = [stored EXCEPT ![upload[u].of] = u]
  /\ pending' \in {pending, pending \cup {upload[u].of}}
  /\ UNCHANGED own

Commit(u) ==
  /\ Store(u)
  /\ MoveTo(u, "stored")
  /\ UNCHANGED <<vars, shown>>

\* The commit went through and its answer was lost: the task takes it for a failure.
CommitUnanswered(u) ==
  /\ Store(u)
  /\ Show(u, "failed")
  /\ upload' = [upload EXCEPT ![u].at = "over", ![u].silent = TRUE]
  /\ LeaveTask

ShowCompleted(u) ==
  /\ At(u, "stored")
  /\ ShowLast(u, "completed", "handing")
  /\ UNCHANGED <<vars, stored, pending, own>>

\* An enqueue refused by the queue's database is logged; the upload is COMPLETED all
\* the same.
HandOff(u) ==
  /\ At(u, "handing")
  /\ MoveTo(u, "over")
  /\ \E refused \in BOOLEAN :
       own' = IF refused THEN own ELSE [own EXCEPT ![upload[u].of] = "artistQueued"]
  /\ LeaveTask
  /\ UNCHANGED <<shown, stored, pending>>

\* Only an error of the queue's storage is a refusal.  Whatever else raises after the
\* commit - COMPLETED's own write, its log, a hand-off - goes to the task's error
\* boundary, which writes FAILED over the row; the matching was not handed off.
RaisesAfterCommit(u) ==
  /\ At(u, "stored") \/ At(u, "handing")
  /\ ShowLast(u, "failed", "raised")
  /\ LeaveTask
  /\ UNCHANGED <<stored, pending, own>>

ReapUpload(u) ==
  /\ shown[u] = "running"
  /\ shown' = [shown EXCEPT ![u] = "failed"]
  /\ UNCHANGED <<vars, upload, stored, pending, own>>

-----------------------------------------------------------------------------
(* The matching of an upload's playlist, and what any matching does to pending: *)
(* an artist stage commits with the deferred items reset, or not at all.        *)

ArtistsDone(p) == pending' \in {pending, pending \cup {p}}
SongsDone(p, fails) ==
  pending' \in (IF fails THEN {pending, pending \ {p}} ELSE {pending \ {p}})

OwnStep(p, s) == own' = [own EXCEPT ![p] = s]
OwnWork(p) == worker = [task |-> "own", run |-> p]

\* MUTANT: a second worker takes it, whatever the first one is on.
StartOwnBeside(p) ==
  /\ own[p] = "artistQueued" /\ OwnStep(p, "artist")
  /\ worker' = [task |-> "own", run |-> p]
  /\ UNCHANGED <<recheck, stage, row, matched, upload, shown, stored, pending>>

StartOwn(p) ==
  /\ \/ own[p] = "artistQueued" /\ OwnStep(p, "artist")
     \/ own[p] = "identityQueued" /\ OwnStep(p, "identity")
  /\ Take("own", p)
  /\ UNCHANGED <<recheck, stage, row, matched, upload, shown, stored, pending>>

EndOwnArtist(p) ==
  /\ own[p] = "artist"
  /\ \E s \in {"identityQueued", "ended"} : OwnStep(p, s)
  /\ ArtistsDone(p)
  /\ LeaveTask
  /\ UNCHANGED <<upload, shown, stored>>

EndOwnIdentity(p) ==
  /\ own[p] = "identity"
  /\ OwnStep(p, "ended")
  /\ \E fails \in BOOLEAN : SongsDone(p, fails)
  /\ LeaveTask
  /\ UNCHANGED <<upload, shown, stored>>

-----------------------------------------------------------------------------
(* The re-check and its stages, with what they read and do. *)

\* MUTANT: a playlist whose own matching is still to come is left to it.
ToRematchSparing(again) ==
  (pending \cup again) \ {p \in Playlists : own[p] \notin {"none", "ended", "lost"}}
\* playlists_with_pending_work, after undecided items became pending again.
ToRematch(again) == pending \cup again

OpenRunForPending(r) ==
  /\ OpenRun(r)
  /\ \E again \in SUBSET Stored :
       /\ pending' = pending \cup again
       /\ ToRematch(again) = {p \in Playlists : stage'[r][p] # "none"}
  /\ UNCHANGED <<upload, shown, stored, own>>

NoRunOpened(r) ==
  /\ NoRun(r)
  /\ \E again \in SUBSET Stored : pending' = pending \cup again
  /\ UNCHANGED <<upload, shown, stored, own>>

StageWithItsWork(r, p) ==
  /\ \/ (QueueStage(r, p) \/ EndUnqueued(r, p) \/ StartArtist(r, p) \/ StartIdentity(r, p))
        /\ UNCHANGED pending
     \/ (ArtistFails(r, p) \/ HandOn(r, p)) /\ ArtistsDone(p)
     \/ \E fails \in BOOLEAN : IdentityEnds(r, p, fails) /\ SongsDone(p, fails)
  /\ UNCHANGED <<upload, shown, stored, own>>

RunStepAlone(r) ==
  /\ \/ Request(r) \/ StartRecheck(r) \/ RecheckEnds(r) \/ RecheckRaises(r)
     \/ LeaveHandedOn(r) \/ Tick(r) \/ Reap(r)
  /\ UNCHANGED ours

\* The worker dies in any of its tasks; an open transaction is rolled back.
WorkerDies ==
  /\ Crash
  /\ upload' = [u \in Uploads |->
       IF upload[u].at \in {"counting", "storing", "stored", "handing"}
         THEN [upload[u] EXCEPT !.at = "lost"] ELSE upload[u]]
  /\ own' = [p \in Playlists |-> IF own[p] \in {"artist", "identity"} THEN "lost" ELSE own[p]]
  /\ UNCHANGED <<shown, stored, pending>>

IngestionStep(u) ==
  \/ Upload(u) \/ StartIngestion(u) \/ NoConnection(u) \/ OpenUpload(u) \/ TickUpload(u)
  \/ IngestFails(u) \/ Commit(u) \/ CommitUnanswered(u) \/ ShowCompleted(u) \/ HandOff(u)
  \/ RaisesAfterCommit(u) \/ ReapUpload(u)

NextIngestion ==
  \/ \E u \in Uploads : IngestionStep(u)
  \/ \E p \in Playlists : StartOwn(p) \/ EndOwnArtist(p) \/ EndOwnIdentity(p)
  \/ \E r \in Runs :
       \/ RunStepAlone(r) \/ OpenRunForPending(r) \/ NoRunOpened(r)
       \/ \E p \in Playlists : StageWithItsWork(r, p)
  \/ WorkerDies

IngestionSpec == InitIngestion /\ [][NextIngestion]_pipeline

\* As FairSpec, for every task of the queue.
PipelineGoesOn ==
  []<>(worker = Free) \/ []<><<TRUE>>_<<recheck, stage, worker, upload, own>>
PipelineServed ==
  /\ QueueServed
  /\ \A u \in Uploads : []<>(upload[u].at # "queued")
  /\ \A p \in Playlists : []<>(own[p] \notin {"artistQueued", "identityQueued"})

FairIngestion == IngestionSpec /\ PipelineGoesOn /\ PipelineServed

-----------------------------------------------------------------------------
(* Properties. *)

\* An upload's row never calls lost data stored, and it calls stored data lost only
\* when something after the commit raised: COMPLETED is only shown of a file this
\* upload stored; a task that ended shows what became of its file, reaped in between
\* or not; one that raised after its commit shows FAILED of a file it did store, and
\* then no matching of that playlist was set off, so that the next re-check, or
\* nobody, matches it.  Excepted is a row whose last write or whose commit's answer
\* was lost.
Shows(u) ==
  LET mine == stored[upload[u].of] = u IN
  /\ shown[u] = "completed" => mine
  /\ upload[u].at \in {"handing", "over"} /\ ~upload[u].silent
       => shown[u] = IF mine THEN "completed" ELSE "failed"
  /\ upload[u].at = "raised"
       => /\ mine /\ own[upload[u].of] = "none"
          /\ upload[u].silent \/ shown[u] = "failed"
UploadShown == \A u \in Uploads : Shows(u)

\* Beside the uploads the re-checks go as MatchingRun has them: to them the worker
\* is free while it is on a task of an upload.
MatchingTask == IF worker.task \in Tasks THEN worker ELSE Free
Matchings == INSTANCE MatchingRun WITH worker <- MatchingTask
ImplementsMatchingRun == Matchings!Spec

\* What a re-check's own records show of it: no row of the run, or a warning.
Troubled(r) ==
  \/ recheck[r] = "over" /\ row[r].status = "none"
  \/ row[r].failed > 0 \/ row[r].dropped
  \/ \E p \in Playlists : stage[r][p] = "lost"

\* A playlist stored before a re-check was asked for has its work matched by then,
\* whatever became of the upload and its own matching - crashed before the
\* hand-off, refused, still queued - unless that run's records show the trouble.
RecheckPicksUp ==
  \A r \in Runs, p \in Playlists :
    p \in Stored /\ recheck[r] = "queued" ~> p \notin pending \/ Troubled(r)

=============================================================================
