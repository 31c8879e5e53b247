---------------------------- MODULE LibraryScan ----------------------------
(***************************************************************************)
(* How the library tables follow the disk: the watcher's poll and folder   *)
(* hashes, the folder scan and the full scan it stands in for, the fold of *)
(* moved files, the purge, and the fingerprint backfill.                   *)
(*                                                                         *)
(* One Huey worker runs one task at a time (src/Procfile, -w 1), so a task *)
(* is a sequence of steps, each ending where the task commits or where the *)
(* disk or the user can get in between.  The disk, the user's requests,    *)
(* the drive and the worker's death interleave with all of them.           *)
(***************************************************************************)
EXTENDS LibraryRows, Sequences

CONSTANTS
  Songs,      \* broadcast songs with a match
  Tasks,      \* ids of watcher scans (bounds how many are queued or staged)
  Disk0,      \* the disk at the start
  Chunk,      \* files a full scan commits together
  MaxEvents   \* changes of the disk or drive, faults and requests of the user

ASSUME BoundsAssumption == {Chunk, MaxEvents} \subseteq Nat /\ Chunk > 0
ASSUME LocksAssumption == Folders \subseteq Nat
ASSUME DiskAssumption == Disk0 \in [Paths -> Versions \cup {None}]

VARIABLES
  disk,        \* the version of each file that is there
  dark,        \* folders that cannot be listed
  mounted,     \* whether the library root is there
  swapped,     \* history: rows whose file was away when its audio was read, and came back
  rows,        \* library_files
  match,       \* the row each song is matched to; None is needs_review
  quarantine,  \* library_quarantine
  known,       \* folders with a library_folders row
  stored,      \* their folder_hash
  staged,      \* library_folder_staged_hashes
  queue,       \* tasks waiting for the worker, oldest first
  job,         \* the task the worker is in
  lingering,   \* advisory locks a dead worker's session still holds
  seen,        \* what a scan last learnt of each path (history)
  events       \* how many of MaxEvents have happened

storage == <<disk, dark, mounted, swapped>>
tables == <<rows, match, quarantine, seen>>
folders == <<known, stored, staged>>
vars == <<storage, tables, folders, queue, job, lingering, events>>

Idle == [step |-> "idle", full |-> FALSE, task |-> None, todo |-> {}, prior |-> {},
         adopting |-> FALSE, written |-> {}, walked |-> {}, failed |-> {}, plan |-> {},
         row |-> None]
Steps == {"idle", "handOff", "visit", "walk", "group", "plan", "apply", "finish", "purge", "hash", "pin"}

(* What the disk shows: nothing at all while the root is away. *)
OnDisk == [p \in Paths |-> IF mounted THEN disk[p] ELSE None]
Listed(f) == {p \in Files(f) : OnDisk[p] # None}
Hash(f) == {<<p, disk[p]>> : p \in Listed(f)}
InFlight == {s.folder : s \in staged}

TypeOK ==
  /\ disk \in [Paths -> Versions \cup {None}]
  /\ dark \subseteq Folders /\ mounted \in BOOLEAN /\ lingering \subseteq Folders
  /\ rows \in [Paths -> Row \cup {None}]
  /\ \A p, q \in Filled(rows) : rows[p].id = rows[q].id => p = q
  /\ match \in [Songs -> Ids \cup {None}]
  /\ \A s \in Songs : match[s] # None => match[s] \in IdsOf(rows, Filled(rows))
  /\ quarantine \subseteq Paths /\ known \subseteq Folders
  /\ \A f \in Folders : stored[f] # None => f \in known
  /\ staged \subseteq [folder : known, hash : SUBSET (Paths \X Versions), task : Tasks, old : BOOLEAN]
  /\ job.step \in Steps /\ (job.step = "idle" => job = Idle)

Indexed(p) == [id |-> p, present |-> TRUE, stat |-> Disk0[p], hash |-> AudioOf[Disk0[p]], grouped |-> TRUE]

(* The library as an earlier scan left it, or a database with nothing in it. *)
Init ==
  /\ disk = Disk0 /\ dark = {} /\ mounted = TRUE /\ swapped = {}
  /\ \/ /\ rows = [p \in Paths |-> IF Disk0[p] = None THEN None ELSE Indexed(p)]
        /\ match \in [Songs -> {p \in Paths : Disk0[p] # None}]
        /\ seen = Disk0
        /\ known = {f \in Folders : \E p \in Files(f) : Disk0[p] # None}
        /\ stored = [f \in Folders |-> IF f \in known THEN Hash(f) ELSE None]
     \/ /\ rows = [p \in Paths |-> None] /\ seen = rows
        /\ match = [s \in Songs |-> None]
        /\ known = {} /\ stored = [f \in Folders |-> None]
  /\ quarantine = {} /\ staged = {}
  /\ queue = <<>> /\ job = Idle /\ lingering = {}
  /\ events = 0

Event == events < MaxEvents /\ events' = events + 1

----------------------------------------------------------------------------
(* The disk and the drive. *)

Edit(d) ==
  /\ mounted /\ Event
  /\ disk' = d
  /\ swapped' = swapped \cup
       IF job.step = "pin" /\ disk[job.row.path] # job.row.stat /\ d[job.row.path] = job.row.stat
       THEN {<<job.row.id, job.row.stat>>} ELSE {}
  /\ UNCHANGED <<dark, mounted, tables, folders, queue, job, lingering>>

(* A write makes a version no path has had: sizes and mtimes move on. *)
Fresh == {v \in Versions : \A p \in Paths : v \notin {disk[p], seen[p], Disk0[p]}}
WriteFile == \E p \in Paths, v \in Fresh : Edit([disk EXCEPT ![p] = v])
RemoveFile == \E p \in Paths : disk[p] # None /\ Edit([disk EXCEPT ![p] = None])
MoveFile == \E p, q \in Paths : disk[p] # None /\ disk[q] = None
                                 /\ Edit([disk EXCEPT ![p] = None, ![q] = disk[p]])
CopyFile == \E p, q \in Paths : disk[p] # None /\ disk[q] = None /\ Edit([disk EXCEPT ![q] = disk[p]])

(* A folder stops or starts being listable; the drive goes or comes back. *)
DropFolder ==
  /\ Event
  /\ \E f \in Folders \ dark : dark' = dark \cup {f}
  /\ UNCHANGED <<disk, mounted, swapped, tables, folders, queue, job, lingering>>
Unplug ==
  /\ mounted /\ Event
  /\ mounted' = FALSE
  /\ UNCHANGED <<disk, dark, swapped, tables, folders, queue, job, lingering>>
StorageReturns ==
  /\ dark # {} \/ ~mounted
  /\ dark' = {} /\ mounted' = TRUE
  /\ UNCHANGED <<disk, swapped, tables, folders, queue, job, lingering, events>>

----------------------------------------------------------------------------
(* The user, through the API. *)

RequestScan ==
  /\ Event
  /\ queue' = Append(queue, [full |-> TRUE, task |-> None, folders |-> {}])
  /\ UNCHANGED <<storage, tables, folders, job, lingering>>

(* remap_missing_file: the user chooses where a missing row folds. *)
RemapMissing ==
  /\ \E m \in Missing(rows), t \in Present(rows) :
       /\ rows[t].grouped
       /\ match' = Repointed(match, {<<rows[m].id, rows[t].id>>})
       /\ rows' = [rows EXCEPT ![m] = None]
  /\ UNCHANGED <<storage, quarantine, seen, folders, queue, job, lingering, events>>

(* delete_missing_files on the missing rows the user selected. *)
DeleteMissing ==
  /\ \E S \in (SUBSET Missing(rows)) \ {{}} :
       /\ match' = Released(match, IdsOf(rows, S))
       /\ rows' = Without(rows, IdsOf(rows, S))
  /\ UNCHANGED <<storage, quarantine, seen, folders, queue, job, lingering, events>>

----------------------------------------------------------------------------
(* The watcher's poll. *)

Become(j) == job' = j /\ UNCHANGED lingering
Walked == {f \in Folders \ dark : Listed(f) # {} \/ f \in known}

\* MUTANT: what a dead scan staged is in flight for ever.
StagedForGood == staged
StagedLive == {s \in staged : ~s.old}

(* A first run records the folders and their hashes and reports nothing. *)
PollFirstRun ==
  /\ job.step = "idle" /\ mounted /\ known = {}
  /\ known' = Walked /\ stored' = [f \in Folders |-> IF f \in Walked THEN Hash(f) ELSE None]
  /\ staged' = StagedLive
  /\ UNCHANGED <<storage, tables, queue, job, lingering, events>>

(* Folders not in flight whose files changed; every folder looked at is     *)
(* staged with the hash it was compared by, under a task id of its own.     *)
Poll ==
  /\ job.step = "idle" /\ mounted /\ known # {}
  /\ LET live == StagedLive
         looked == Walked \ {s.folder : s \in live}
         changed == {f \in looked : f \notin known \/ stored[f] # Hash(f)}
         free == Tasks \ ({s.task : s \in live} \cup {queue[i].task : i \in DOMAIN queue})
     IN /\ known' = known \cup Walked
        /\ UNCHANGED stored
        /\ \/ changed = {} /\ staged' = live /\ UNCHANGED job
           \/ /\ changed # {} /\ free # {}
              /\ LET t == CHOOSE x \in free : TRUE IN
                 /\ staged' = live \cup {[folder |-> f, hash |-> Hash(f), task |-> t, old |-> FALSE] : f \in looked}
                 /\ job' = [Idle EXCEPT !.step = "handOff", !.task = t, !.todo = changed]
  /\ UNCHANGED <<storage, tables, queue, lingering, events>>

ClearStaged(t) == staged' = {s \in staged : s.task # t} /\ UNCHANGED <<known, stored>>

HandOff ==
  /\ job.step = "handOff" /\ Become(Idle)
  /\ queue' = Append(queue, [full |-> FALSE, task |-> job.task, folders |-> job.todo])
  /\ UNCHANGED <<storage, tables, folders, events>>

HandOffFails ==
  /\ job.step = "handOff" /\ Event /\ Become(Idle)
  /\ ClearStaged(job.task)
  /\ UNCHANGED <<storage, tables, queue>>

(* STAGED_HASH_TTL: what is staged now is older than an hour.  That a scan  *)
(* still waiting or running outlives it counts as an event.                 *)
HourPasses ==
  /\ \E s \in staged : ~s.old
  /\ staged' = {[s EXCEPT !.old = TRUE] : s \in staged}
  /\ IF \E s \in staged : ~s.old /\ s.task \in {job.task} \cup {queue[i].task : i \in DOMAIN queue}
     THEN Event ELSE UNCHANGED events
  /\ UNCHANGED <<storage, tables, known, stored, queue, job, lingering>>

----------------------------------------------------------------------------
(* The folder scan. *)

LockOf(fs) == CHOOSE f \in fs : \A g \in fs : f <= g

StartFolderScan ==
  /\ job.step = "idle" /\ queue # <<>> /\ ~Head(queue).full
  /\ LET q == Head(queue) IN
     /\ LockOf(q.folders) \notin lingering
     /\ Become([Idle EXCEPT !.step = "visit", !.task = q.task, !.todo = q.folders, !.prior = q.folders])
  /\ queue' = Tail(queue)
  /\ UNCHANGED <<storage, tables, folders, events>>

(* The lock is held: the folders are let go for the next poll. *)
ScanLockHeld ==
  /\ job.step = "idle" /\ queue # <<>> /\ ~Head(queue).full
  /\ LockOf(Head(queue).folders) \in lingering
  /\ queue' = Tail(queue) /\ ClearStaged(Head(queue).task)
  /\ UNCHANGED <<storage, tables, job, lingering, events>>

Scan == [rows |-> rows, seen |-> seen, failed |-> {}, entries |-> quarantine, written |-> {}]

(* Rows without a work are given one, or some are refused it. *)
Group(table, loose) ==
  \E refused \in SUBSET loose :
    /\ rows' = [p \in Paths |-> IF p \in loose \ refused
                                THEN [table[p] EXCEPT !.grouped = TRUE] ELSE table[p]]
    /\ IF refused = {} THEN UNCHANGED events ELSE Event

Loose(table, S) == {p \in S \cap Filled(table) : ~table[p].grouped}

(* One folder's visit, committed, and the grouping of its rows.  A folder   *)
(* that is there but cannot be listed is left as it was.                    *)
VisitFolder ==
  /\ job.step = "visit" /\ job.todo # {}
  /\ \E order \in Listings(Listed(LockOf(job.todo))) :
       LET f == LockOf(job.todo)
           unreadable == mounted /\ f \in dark
           s == IF unreadable THEN Scan ELSE ScanFolder(Scan, OnDisk, f, Listed(f), order)
       IN /\ Become([job EXCEPT !.todo = @ \ {f}])
          /\ Group(s.rows, Loose(s.rows, Files(f)))
          /\ seen' = s.seen
          /\ quarantine' = IF unreadable THEN quarantine ELSE (quarantine \ Files(f)) \cup s.failed
  /\ UNCHANGED <<storage, match, folders, queue>>

(* An error outside one file: nothing of this folder stands, and its task's *)
(* staged hashes go, so the next poll finds the folders changed again.      *)
ScanRaises ==
  /\ job.step \in {"visit", "plan", "apply", "finish"} /\ ~job.full
  /\ Event /\ Become(Idle) /\ ClearStaged(job.task)
  /\ UNCHANGED <<storage, tables, queue>>

(* The scan is done: its folders take the hash they were staged with. *)
CommitHashes ==
  /\ job.step = "finish" /\ ~job.full /\ Become(Idle)
  /\ stored' = [f \in Folders |->
       IF \E s \in staged : s.folder = f /\ s.task = job.task
       THEN (CHOOSE s \in staged : s.folder = f /\ s.task = job.task).hash ELSE stored[f]]
  /\ staged' = {s \in staged : s.task # job.task}
  /\ UNCHANGED <<storage, tables, known, queue, events>>

----------------------------------------------------------------------------
(* The full scan. *)

StartFullScan ==
  /\ job.step = "idle" /\ queue # <<>> /\ Head(queue).full
  /\ LET found == {p \in Paths : OnDisk[p] # None /\ FolderOf[p] \notin dark} IN
     Become([Idle EXCEPT !.step = "walk", !.full = TRUE, !.todo = found, !.walked = found,
               !.prior = Filled(rows), !.adopting = Filled(rows) # {}])
  /\ queue' = Tail(queue)
  /\ UNCHANGED <<storage, tables, folders, events>>

(* The next files of the walk, committed together. *)
ReadChunk ==
  /\ job.step = "walk" /\ job.todo # {}
  /\ LET chunk == {p \in job.todo : Cardinality({q \in job.todo : q < p}) < Chunk}
         s == ScanChunk(Scan, OnDisk, chunk, job.prior, job.adopting)
     IN /\ rows' = s.rows /\ seen' = s.seen /\ quarantine' = s.entries
        /\ Become([job EXCEPT !.todo = @ \ chunk, !.failed = @ \cup s.failed,
                     !.written = @ \cup s.written])
  /\ UNCHANGED <<storage, match, folders, queue, events>>

(* The walk is over: files it did not see are missing, unless it saw none;  *)
(* the folder rows are filled in, with their hashes on a first run.         *)
EndWalk ==
  /\ job.step = "walk" /\ job.todo = {}
  /\ Become([job EXCEPT !.step = "group"])
  /\ IF job.walked = {}
     THEN UNCHANGED <<rows, seen, quarantine>>
     ELSE LET s == MarkMissing(Scan, Paths \ job.walked) IN
          /\ rows' = s.rows /\ seen' = s.seen
          /\ quarantine' = quarantine \cap job.failed
  /\ IF mounted
     THEN /\ known' = known \cup Walked
          /\ stored' = IF known = {} THEN [f \in Folders |-> IF f \in Walked THEN Hash(f) ELSE None]
                       ELSE stored
     ELSE UNCHANGED <<known, stored>>
  /\ UNCHANGED <<storage, match, staged, queue, events>>

(* Rows the scan wrote that have no work are given one, or refused it. *)
GroupWritten ==
  /\ job.step = "group" /\ Become([job EXCEPT !.step = "plan"])
  /\ Group(rows, Loose(rows, job.written))
  /\ UNCHANGED <<storage, match, quarantine, seen, folders, queue>>

----------------------------------------------------------------------------
(* Reconciliation and purge, after either scan. *)

Plan ==
  /\ \/ job.step = "plan"
     \/ job.step = "visit" /\ job.todo = {}
  /\ Become([job EXCEPT !.step = "apply", !.plan = PlanMoves(rows)])
  /\ UNCHANGED <<storage, tables, folders, queue, events>>

AfterFolds == [job EXCEPT !.step = IF job.full THEN "purge" ELSE "finish", !.plan = {}]

(* Each move in a savepoint: stale ones are skipped, refused ones roll back *)
(* alone.                                                                   *)
ApplyMoves ==
  /\ job.step = "apply" /\ Become(AfterFolds)
  /\ \E refused \in SUBSET job.plan :
       LET moves == {m \in job.plan \ refused : Foldable(rows, m)} IN
       /\ rows' = Without(rows, {m[1] : m \in moves})
       /\ match' = Repointed(match, moves)
       /\ IF refused = {} THEN UNCHANGED events ELSE Event
  /\ UNCHANGED <<storage, quarantine, seen, folders, queue>>

(* The whole reconciliation is rolled back, and a full scan skips its purge. *)
ReconcileFails ==
  /\ job.step = "apply" /\ Event
  /\ Become(IF job.full THEN Idle ELSE AfterFolds)
  /\ UNCHANGED <<storage, tables, folders, queue>>

(* The setting may be NEVER, the walk may have seen nothing, and the purge  *)
(* may be rolled back.                                                      *)
SkipPurge ==
  /\ job.step = "purge" /\ Become(Idle)
  /\ UNCHANGED <<storage, tables, folders, queue, events>>

Purge ==
  /\ job.step = "purge" /\ job.walked # {} /\ Become(Idle)
  /\ LET ids == IdsOf(rows, SelectPurge(rows, OnDisk, IF mounted THEN dark ELSE {})) IN
     rows' = Without(rows, ids) /\ match' = Released(match, ids)
  /\ UNCHANGED <<storage, quarantine, seen, folders, queue, events>>

----------------------------------------------------------------------------
(* The fingerprint backfill. *)

Unhashed == {p \in Present(rows) : rows[p].hash = None}

(* A present row without a fingerprint whose file is still what was indexed *)
(* has its audio read.                                                      *)
StartHash ==
  /\ job.step = "idle"
  /\ \E p \in Unhashed :
       /\ OnDisk[p] = rows[p].stat
       /\ Become([Idle EXCEPT !.step = "hash", !.row = [path |-> p, id |-> rows[p].id, stat |-> rows[p].stat]])
  /\ UNCHANGED <<storage, tables, folders, queue, events>>

HashAudio ==
  /\ job.step = "hash"
  /\ Become(IF OnDisk[job.row.path] = None THEN Idle
            ELSE [job EXCEPT !.step = "pin", !.plan = {AudioOf[OnDisk[job.row.path]]}])
  /\ UNCHANGED <<storage, tables, folders, queue, events>>

HashPinned(audio) ==
  [q \in Paths |-> IF rows[q] # None /\ rows[q].id = job.row.id THEN [rows[q] EXCEPT !.hash = audio] ELSE rows[q]]

StillUnhashed ==
  \E q \in Filled(rows) : rows[q].id = job.row.id /\ rows[q].hash = None /\ rows[q].stat = job.row.stat

\* MUTANT: the file is not looked at again after it was read.
MayPinUnchecked == StillUnhashed
\* The stat is checked again, and the row must still be unhashed and as read.
MayPin == OnDisk[job.row.path] = job.row.stat /\ StillUnhashed

PinHash ==
  /\ job.step = "pin" /\ Become(Idle)
  /\ \E audio \in job.plan : rows' = IF MayPin THEN HashPinned(audio) ELSE rows
  /\ UNCHANGED <<storage, match, quarantine, seen, folders, queue, events>>

----------------------------------------------------------------------------
(* The worker dies; its task is gone from the queue.  Its database session  *)
(* may keep the scan's advisory lock for a while.                           *)
Crash ==
  /\ job.step # "idle" /\ Event
  /\ job' = Idle
  /\ lingering' = IF ~job.full /\ job.prior # {} THEN {LockOf(job.prior)} ELSE lingering
  /\ UNCHANGED <<storage, tables, folders, queue>>

SessionEnds ==
  /\ lingering # {} /\ lingering' = {}
  /\ UNCHANGED <<storage, tables, folders, queue, job, events>>

Polling == PollFirstRun \/ Poll \/ HandOff
FolderScan == StartFolderScan \/ ScanLockHeld \/ VisitFolder \/ CommitHashes
FullScan == StartFullScan \/ ReadChunk \/ EndWalk \/ GroupWritten
Reconcile == Plan \/ ApplyMoves \/ SkipPurge \/ Purge
Backfill == StartHash \/ HashAudio \/ PinHash
Worker == Polling \/ FolderScan \/ FullScan \/ Reconcile \/ Backfill
Faults == HandOffFails \/ ScanRaises \/ ReconcileFails \/ Crash
User == RequestScan \/ RemapMissing \/ DeleteMissing
Storage == WriteFile \/ RemoveFile \/ MoveFile \/ CopyFile \/ DropFolder \/ Unplug
Clock == HourPasses \/ SessionEnds \/ StorageReturns

Next == Worker \/ Faults \/ User \/ Storage \/ Clock

Spec == Init /\ [][Next]_vars

(* A worker in a task takes its next step (the fairness is weak, with the   *)
(* ENABLED written out); a free one polls, and takes the tasks it is given; *)
(* an hour passes; a dead worker's session ends.  Nothing is assumed of the *)
(* disk, the drive, the user or the faults, and no audio has to be read.    *)
FairSpec ==
  /\ Spec
  /\ []<>(job.step = "idle") \/ []<><<job.step # "idle" /\ Worker>>_vars
  /\ WF_vars(PollFirstRun \/ Poll)
  /\ SF_vars(StartFolderScan \/ ScanLockHeld \/ StartFullScan)
  /\ WF_vars(HourPasses) /\ WF_vars(SessionEnds)

----------------------------------------------------------------------------
(* Whatever relocated, folded, purged or rolled back, a path still as a     *)
(* scan last found it has the row that scan gave it: present with the       *)
(* file's size and mtime, or no present row when the file was not there.    *)
(* A path whose row was relocated and then refused is told nothing.         *)
RowAgrees(p) == IF disk[p] = None THEN p \notin Present(rows)
                ELSE p \in Present(rows) /\ rows[p].stat = disk[p]
RowsAgreeWithLastScan == \A p \in Paths : mounted /\ seen[p] = disk[p] => RowAgrees(p)

(* A fingerprint is that of the very bytes whose size and mtime the row     *)
(* holds: a write while the file was read, a rescan between the read and    *)
(* the store, and an adopted row never pin one file's audio to another.     *)
(* Only a file moved away and back while another stood in its place is not  *)
(* told from one that stayed: its stat is what it was.                      *)
Swapped(p) == <<rows[p].id, rows[p].stat>> \in swapped
HashIsOfItsFile ==
  \A p \in Filled(rows) : Swapped(p) \/ rows[p].hash \in {None, AudioOf[rows[p].stat]}

(* A scan moves a song's match only to a present row of the same track, and *)
(* releases it only when no present file holds that track: not by its tags, *)
(* nor, when the lost row was fingerprinted, by audio the backfill has not  *)
(* read yet.                                                                *)
MatchFollowsTrack ==
  [][job' # job =>
       \A s \in Songs : match'[s] # match[s] =>
         LET lost == CHOOSE p \in Filled(rows) : rows[p].id = match[s] IN
         IF match'[s] # None
         THEN \E c \in Present(rows) : rows[c].id = match'[s] /\ IsSameTrack(rows[lost], rows[c])
         ELSE \A c \in Present(rows) :
                /\ TagsOf[rows[c].stat] # TagsOf[rows[lost].stat]
                /\ rows[lost].hash # None /\ ~Swapped(c) => AudioOf[rows[c].stat] # rows[lost].hash]_vars

(* Once the disk rests, every folder that can be listed ends with the hash  *)
(* of what is in it and nothing staged, through deaths of the worker, lost  *)
(* hand-offs and locks left held; so no change a poll sees goes unvisited.  *)
HashesSettle ==
  <>[](mounted => \A f \in known \ dark : stored[f] = Hash(f) /\ f \notin InFlight)
=============================================================================
