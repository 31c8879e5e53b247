# RetroStation: a verification development

RetroStation plays the historical playlists of radio stations: a FastAPI service
streams a station's logged day to each listener through an audio engine of the
listener's own, and a background worker ingests playlists, scans the music
library and matches what was broadcast to files on disk. This directory holds
TLA+ models of the parts of `src/backend` where steps of several actors meet,
the TLC configurations that check them, and proofs checked by TLAPS.

File names below are relative to `src/backend`. `PROJECT.json` maps every
definition to the lines it stands for, and lists runs, mutants, hazards and
theorems.

## 1. The system

### Processes

| Process | Code | Concurrency |
|---|---|---|
| `api` | FastAPI, one event loop; threads for placement walks, cue and liner reads | code between two awaits is atomic on the loop; threads run beside it |
| engines | one Liquidsoap process per listener (`playout/session.liq`) | calls the api over HTTP, streams audio to it through a local harbor |
| `worker` | one Huey consumer over a SQLite queue, `-w 1` (`src/Procfile`) | one task at a time; a task taken off the queue and killed is not run again |
| `cues` | a second Huey consumer for cue analysis, `-w 1` | as above |
| PostgreSQL | the tables, and the status columns the work lists are read from | one statement or one transaction at a time per row |
| browsers | the React UI (`/ws` progress), the radio page (`web/radio`) | reconnect at any time; one event at a time in a page |

### Components, their state and what makes them correct

- **Listener sessions** (`services/streaming/service.py`, `routers/listen.py`,
  `watchdog.py`, `playout/relay.py`). State: `_sessions`, each session's engine,
  stop flag and committed position. Operations: open (admit, place beside the
  engine start, settle), the engine's calls, close, the freeze watchdog,
  close_all. Hard: an open may be cancelled at any await, its thread cannot; a
  kill may raise; four places stop an engine. Correct: the limit holds, every
  ready engine ends stopped once, a slot is always given back, bookmarks and
  pages agree with what ended.
- **Item contract** (`service.py` item/started/failed, `sessions.py`,
  `domain/liners.py`). State: `assigned`, `end_seq`, the liner rotation,
  the committed seq. Hard: the engine times out and asks again while its first
  call still reads. Correct: one item per seq for ever; songs in order; liners
  only where due; no item after the end.
- **Listener feed** (`listener_events.py`). State: per channel the streams still
  playing, the last status, a mailbox per page. Hard: streams of one channel
  overlap; titles are delayed by the listener's own buffer. Correct: the page
  shows the newest stream's state, never a stale title; readers that stop
  reading are dropped once.
- **Engine start** (`playout/liquidsoap_process.py`, `harbor.py`,
  `cpu_reservation.py`). Two attempts, each with a ready timeout; a failed one
  leaves no process. **Engine script** (`playout/session.liq`): two decks, a
  prefetch loop, its own retries.
- **Tune-in and resume** (`domain/tune_in.py`, `live_position.py`,
  `bookmarks.py`). A walk over the day's schedule; a bookmark per channel; the
  position of another live session. Hard: state read before a thread's walk and
  used after it.
- **Bounded reads** (`cue_reread.py`): a read that is late keeps its thread; at
  most a few may be in flight.
- **Liner and sign-off files** (`liners.py`, `sign_off.py`): a row and a file that
  must not part; a startup sweep of orphans.
- **Matching run** (`tasks/_matching_run.py`, `matching_recheck_tasks.py`, the two
  matching tasks, `db/repositories/matching_run.py`). State: Huey's queue and one
  progress row shared by all stages of a run. Hard: no stage knows of the
  others; writes may be dropped, the worker may die, the `/ws` reaper fails slow
  rows. Correct: the row completes with its last stage, and never clean over
  work that was not done.
- **Matching and re-check** (`matching_recheck_service.py`,
  `artist_matching_service.py`, `identity_matching_service.py`,
  `identity_resolution_service.py`). State: the status of every artist and song,
  match rows, rejections, the watermark of the last re-check. Hard: a stage reads
  its songs, compares for minutes and writes, while the curator decides and the
  library changes. Correct: the curator's word stands, a rejected file is not
  offered again, no verdict outlives the library it was reached on.
- **Scan, watcher, missing files** (`library_scan_tasks.py`,
  `library_watcher_tasks.py`, `missing_file_reconciliation_service.py`). State: a
  row per path, a hash per folder, staged folders with a time limit, a lock.
  Hard: the disk changes between every two steps; a scan dies between its
  chunks; a file that moves must keep its row, and with it its match. Correct:
  a row says what was last read of its file, a fingerprint is of the file it
  stands on, a match follows its track, folder hashes settle.
- **Works, masters, curation and enrichment** (`routers/library/works.py`,
  `work_move_service.py`, `master_selection.py`, `grouping_service.py`,
  `library_enrichment_service.py`, `tasks/mb_enrichment_tasks.py`). State: works
  with their files, recordings, master, override and the matches that name them.
  Hard: the curator merges, splits and moves while an item waits for MusicBrainz
  and the song stage holds a match uncommitted. Correct: a match names its
  file's work, a master is a file of its work, a manual pick stands.
- **Ingestion** (`routers/ingestion.py`, `tasks/ingestion_tasks.py`,
  `ingestion_service.py`, `db/ingest_transaction.py`). State: an upload's task and
  progress row, the stored playlists and the work they leave pending. Hard: the
  data are committed before the row says so and before matching is handed off;
  the commit's answer may be lost, the reaper may fail a slow row, the worker
  may die between any two steps. Correct: the row tells what became of the file,
  and a re-check finds the pending work of whatever was stored.
- **MusicBrainz clock** (`mb_clock.py`): one request cadence for every process,
  kept in a locked file.
- **Cue analysis** (`stream_cue_tasks.py`, `cue_precompute.py`, `cue_record.py`).
  State: the stored cues, the marks of the prune. Hard: an analysis takes
  minutes, the file is replaced under it; the drive may be unplugged. Correct:
  cues are those of the audio they are played with, the prune waits its two
  strikes, no file holds up the backlog.
- **Radio page** (`web/radio/playerMachine.js`, `player.js`). State: a state
  machine, its timers, one EventSource, one audio element. Hard: two
  connections to one session drop and come back apart, seven timers run beside
  them, and late answers reach a state that has moved on. Correct: timers and
  connections fit the state, a drop is over in bounded time, no stale title.
- **Progress feed** (`websocket.py`): a poll shared by clients, the reaper.
- **Playlists and exports; schema and trigger counts; web UI.**

How they interact: a page opens a listener channel (feed) and requests a stream
(session); the session starts an engine, which calls item/started/failed (item
contract) and streams through the relay; reports move the session's position,
tell the feed and run the watchdog. Uploads and scans queue worker tasks that
hand on to each other through `enqueue_or_log`; each writes a progress row that
the feed of `/ws` polls.

## 2. The modules

| Module | Models | Read with |
|---|---|---|
| `StreamSessions` | the session table, engines, feed ownership, bookmarks, watchdog, shutdown | `MCStreamSessions`, `StreamSessions_proofs` |
| `ItemContract` | one session's items, liners, end, reports | `MCItemContract`, `ItemContract_proofs` |
| `ItemLog` | abstract: what a stream promises about its items | implemented by `ItemContract` |
| `ListenerFeed` | channels, mailboxes and the pages' reads | `MCListenerFeed`, `Listening_proofs` |
| `MatchingRun` | re-checks, stages, worker, progress row, reaper | `MCMatchingRun`; proofs in `Ingestion_proofs` |
| `Ingestion` | uploads, what they store and the matching they set off, composed with `MatchingRun` | `MCIngestion`, `Ingestion_proofs` |
| `SongMatching` | what the stages of a run decide about artists and songs, beside the curator | `MCSongMatching`, `SongMatching_proofs` |
| `LibraryRows` | pure: what the scan and the reconciliation make of the rows | used by `LibraryScan` |
| `LibraryScan` | the watcher's poll, both scans, moves, purge, backfill, the disk under them | `MCLibraryScan`, `LibraryScan_proofs` |
| `CatalogRows` | pure: the catalog's tables and what requests and worker items make of them | used by `Catalog` |
| `Catalog` | the curator's requests beside grouping, enrichment and the song stage | `MCCatalog`, `Catalog_proofs` |
| `CueQueue` | the cue consumer's runs, reports, resumes and prune, the audio under them | `MCCueQueue`, `CueQueue_proofs` |
| `RadioPlayer` | the radio page's player, its timers, connections and titles | `MCRadioPlayer`, `Listening_proofs` |

### StreamSessions

An action is the code of one coroutine between two awaits. A tune-in `t` is also
the session id it would get. `phase` is where its request is (`listen`: reading the station
and the limit; `open`: admitted; relayed; over), `place` and `start` are the two
futures of `_place_while_starting`, `proc`/`closes` the engine and the number of
closes of its upstream. `table`, `kept` and `stopped` are `_sessions`,
`session.engine` and `session.stopped`. `admitted` is the insertion order of
`_sessions` and of the feed's `still_playing`. A bookmark is named by the session
that wrote it, since only equality of bookmarks matters (`forget` drops the very
one that was read). Decisions worth knowing:

- `Cancel` follows asyncio: `gather` cancels the placement coroutine, but the
  thread runs on and may still forget a bookmark (`place = "orphan"`).
- `AdmitWithoutPort` runs from admission to refusal in one step, as the code does
  when no free port is found before the first await.
- `close_all` does not await, hence `LoopFree` on every other action.
- `StopMayFail` lets a kill raise `OSError`; the exception's way out of each
  caller is modelled (the watchdog's task ends, `close` skips the bookmark).
- Time is abstract: any watched session may be frozen at any tick.
- The bookmark is read in the step that admits the stream. In the code the coroutine that
  reads it is scheduled by `gather` and runs a turn of the loop later.
- After a hand-back nothing is told, so what a page shows then is the ended stream's last
  word; `PageNotMisled` speaks of `tuning` and `ended` only.

### ItemContract and ItemLog

The waits of `StreamService.item` are the values of `call[c].wait`; each action
runs from one await to the next, including the re-check of the seq that
`_assign` makes afterwards. Several calls may wait for one seq. Cues are
`"tunedIn"` or `"fresh"`, so that two readings of one song can differ. The
shuffled order is drawn as it is played: nobody sees the next entry of a shuffle
before `next_liner` takes it, so `rotation.left` is the set of liners still to
play and any of them may be next; the swap that keeps a liner from playing
twice in a row is the one restriction on a new round (`NextLiners`). `ItemLog` is the
promise to the listener: a log that grows by the next song, or by a liner that
is due, until the sign-off; the refinement maps `assigned` (without cues and
names) to `log` and `end_seq` or the close to `over`.

### ListenerFeed

Events are numbered as they are made, so the order a page sees is an order of
numbers; a title is due once `due` has reached its number (the delay is the same
for all, so titles fall due as they were made). `opened[s]` is the number of the
`tuning` that admitted `s`: the newest stream still playing is the one of
`still_playing[-1]`. `StreamSessions` has the same feed with one page and no
mailboxes, from the session table's side; here the table is left out and streams
begin and end in any order.

A read is the state of `__anext__`: `"waiting"` is the `asyncio.wait` of
`_Mailbox.wait`, with a waker; `"cancelling"` is `_cancel_all` after it, during
which an event wakes nobody and the title slept for may be replaced. A waiting
read notes the title it sleeps for (`held`), whether its waker was set and
whether its sleep ran out; both can happen in one turn. `Tell` is `_tell` with
the drop of pages that are too far behind and the prune inside it. A refusal is
event 0: it is told at once and no order is asked of it. `Leave` is `aclose`,
whatever the read was doing.

### MatchingRun

`stage[r][p]` is a run's whole work on a playlist, from the re-check that
intends it, through two queued tasks, to its end. `worker` is the single worker's
task. `row` is the shared progress row; each write is one SQL statement, and
`Landings` lets it be dropped (`TelemetryConnection.run` gives up on a database
error). `Crash` kills the worker in a task that Huey has already removed from
its queue. `Reap` is the statement of `poll_progress`. The queue's order is left
open, which covers the FIFO order of SqliteHuey and tasks of other kinds between.

### Ingestion

`Ingestion` extends `MatchingRun` with the tasks that share its worker: an upload
(`upload`, and `shown`, its progress row), and the matching that a playlist's
upload hands off without a run (`own`). A playlist is the content of its file, so
two uploads of one file are uploads of one playlist, and the second one is a
duplicate. `pending` are the playlists that have artists or songs to match; with
it a re-check opens its run over the playlists that `playlists_with_pending_work`
would return instead of any set. `silent` is a history: the row's last write, or the answer to the
commit, was lost, after which the row cannot be right. Decisions:

- `MatchingTask` is the refinement mapping back to `MatchingRun`: to the re-checks
  the worker is free while it is on a task of an upload. So `ImplementsMatchingRun`
  carries every safety property of `MatchingRun` over to the composition.
- The first write of the row is the one that may not be lost (it raises);
  later ones may. A deadlock that is retried shows only as another tick.
- Playlists share no artist here (`SongMatching` has that). The embedding task is
  handed off before matching, and nothing reads its vectors.
- `RaisesAfterCommit` is whatever raises between the commit and the last hand-off and is
  no storage fault (`enqueue_or_log` only catches `sqlite3.Error`, a write of the row only
  transient driver errors): the task's error boundary writes FAILED over the row, and over
  COMPLETED if that was written. A comment at `ingestion_tasks.py:305` says that a fault
  writing COMPLETED must not do so, since "that would make durable data appear lost"; a test
  (`test_embedding_non_enqueue_error_now_propagates_and_flips_to_failed`) asserts FAILED for
  an error of the hand-off. `UploadShown` therefore allows FAILED over data the upload did store,
  but only after such an error, and then no matching was set off.

### SongMatching

`MatchingRun` says which stages run and when; this module says what they decide.
`artist` and `song` are the tables' status columns with their match rows, `rejected` the
files the curator refused for a song, `library` the files' rows and `tag` the artist each
names by now, which a rescan may change. `job` is the worker's task; a stage remembers what it read of its artists or songs and
writes each entry later under the guards of its SQL (still the status that was
read), into the draft of its transaction (`draftArtist`, `draftSong`), which is
merged when the stage commits and dropped when it dies. The curator's requests are single transactions
and so single steps; they may fall between any two steps of the worker. Decisions
worth knowing:

- Title scores are a choice of the model: any candidate may be the best, and it
  may reach the automatic threshold, the review threshold or neither. What the
  code makes of the class (status, match row, rejection) is modelled whole.
- `watermark` says whether a re-check has completed, and `changed` names the rows indexed or
  gone missing since it began. The next wave is what those rows name when it is read, as the
  query does: a row that is gone, or names another artist by then, tells nothing of the
  artist it had.
- Scans are tasks of the worker that runs the re-check, so nothing is indexed or goes missing while
  one is at work; the curator's requests come at any time.
- `Fold` is the curator's remap of a missing file and the reconciliation after a scan: the
  present row takes over matches and rejections of the missing one, whose row goes;
  `indexed_at` of the present row does not move. `unseen` and `late` are histories: the
  changes a verdict has not seen, and that a verdict met a rejection it did not know or was
  carried to it by a fold.
- The wave's other source, artists linked to MusicBrainz since the watermark, only widens it and is
  left out; so are the repair of rows that differ by case, which merges rows as a fold does,
  and rewrites of files that concern no artist of the playlists.
- `StalePages` lets the curator decide on a page loaded earlier.
- A lost row-lock race between a request and the worker ends in `TaskDies`.
- `AUTO_REJECTED` of an artist is never produced by the code any more and is left
  out; mapping rules are part of an artist's decision; the recalculation of
  masters and the embeddings are not modelled.

The properties hold over seven situations where the code's own result can be
disputed, and do not speak of them: (1) an artist's stage writes a song's result
computed for the artist's old target after the curator linked the artist by hand;
(2) rejecting an artist by hand leaves match rows on songs it makes
`AUTO_REJECTED`, although comments say they go; (3) re-linking an artist may leave a song with
two match rows, of which the query returns an arbitrary one; (4) a song
unmatched or a match deleted by the user after its wave has passed stays
unscored until the library changes; (5) a file retagged from artist A to B names only B in
the wave, and one that is deleted or folded into another row names nobody, so A's undecided songs
keep a verdict that counted it; (6) a fold carries a suggestion to the present file
although the song rejected that file, or another of its work; (7) the work of a file is a
constant (`WorkOf`), so a file grouped into a rejected work after the rejection is not
covered.

### LibraryRows and LibraryScan

The disk is a function from paths to versions; a version is a file's content
and its stat together (`AudioOf` and `TagsOf` say which versions share audio or
tags), and every write makes a fresh version. A row holds what was last read
(`stat`), the fingerprint, the track found for it, and whether it is missing. `LibraryRows` holds
the pure functions: what a visit of a folder makes of its rows, how the
missing rows are reconciled with found ones (`PlanMoves`), what a purge removes.
`LibraryScan` has the tasks as the code runs them: `Poll` compares folder hashes,
stages what differs and queues a scan; a folder scan and a full scan commit in
chunks; `HourPasses` is the end of `STAGED_HASH_TTL`. Decisions:

- A dark folder cannot be listed though its files can be stat'ed; an unplugged
  drive hides all. Visiting one folder is one step. All changes of the disk, the
  user's deletions and the worker's deaths share the bound `MaxEvents`.
- `HourPasses` during a live scan counts as such an event: were every scan to
  outlive the time limit, its folders would be staged for ever.
- A folder visit takes its files in the order the directory lists them, which is any
  (`Listings`); a full scan sorts them (`PathOrder`). Each file is visited on the table
  the ones before it left, so a visit is a fold over the set of files.
- `seen` is a history of what a scan last learnt of each path. It is `Unsure` of a path
  that took over a row of another path and was then refused by the database: the
  relocation stands, the tags do not, and neither path has the row its file calls for
  until the next visit.
- A rename that only changes the case of a path, on a file system that ignores case, is left
  out (`_respelled_from`, `_spelled_as_on_disk`): paths of the model differ or are the same.
- `swapped` is a history too: of files that were moved away while their audio was read,
  another one standing in their place, and moved back before the fingerprint was
  stored. The second stat then finds the size and mtime of the first, so the fingerprint may
  be that of the other file. `HashIsOfItsFile` does not speak of these rows, nor does
  `MatchFollowsTrack` of their fingerprints.

Four situations in which the code loses something are in the model and outside
the properties: (1) a visit of a folder that cannot be listed still commits the
hash of the poll; (2) the first run and a full scan store hashes without having
read the folder's files at that moment; (3) when a full scan's chunk is rolled
back its relocations are lost, and marking missing and purging later may release
a match; (4) a full scan with an unreadable folder clears the quarantine of files
it never reached.

### CueQueue

Files are numbered as the backlog's query orders them, liners before library
paths. `disk` is each file's audio and stat (the stat tells versions apart as size
and time do), `row` what the tables say of it, `cues` the stored rows by the audio
they are for; `of` is a history of the audio a row was computed from. One consumer (`-w 1`) runs one task:
a run reads a batch with its priorities and pre-checks (one step), analyses file
after file, each reading the bytes of its moment, and stores under the guard of
`cue_record.py` (the file still carries the hash that was read; post-check, store
and commit are one step). Reports come from sessions that met an uncued file; a resume has
a lower priority. `Patience` fruitless batches stand for the 240 s budget against
20 to 35 s per stalled analysis. The prune's statements each see their own
snapshot (READ COMMITTED), its uncommitted work is `draft`. The scan's worker is
abstract: a rescan writes the row's stat, a fingerprint marks twins. Left out:
library rows whose stat is unknown (older than its migration), the progress
row, the analyser's protocol lines, the internals of `CueReporter`; deleted
rows are not found again, and a day does not pass during a prune.

Known limits: audio that comes back between the prune's two statements loses
its row (it is analysed again); a drive that is away during an analysis and back
before its post-check has a fallback row stored for good; about ten stalling
files of unknown duration at the head of the order would starve the rest; a twin
of unknown duration ahead in one batch hides its twin for ever, which
`BacklogServed` exempts.

### CatalogRows and Catalog

`db` is one record of the tables `library_files`, `works`, `recordings`,
`song_masters`, `format_overrides` and the matches. Files are numbered in the
order of their score, so the best of a set is its greatest; every recording is of
one version type and every override of one format, so a work has at most one of
each, which is where the database's unique keys bite. `CatalogRows` says what each
service makes of the tables, with every call it makes (a move rehomes the
matches, picks a master on the new work and settles the old one); `Catalog` says
who may call it when. `facts` is what is true of the files and unknown to the
tables: the recording each is tagged with and its fingerprint. A
request is one transaction and one step, but for the work of a file: nothing locks it
when it is read, so a request may go by any work the file was on before (`seen`).
So does a fold: the reconciliation plans its moves for the whole library and then applies
one after the other, each with the works of the plan, and the lock on the two rows asks
for their status only; a remap reads its rows before that lock. An item of the
enrichment reads its files or its recording, asks MusicBrainz and writes later, with the
works it read (`job`). It answers for a release's files one after the other and commits
them together; until then a request sees the tables as they were before, which is again a work
of `seen`. A scan groups the rows it made as it first read them, without a work, and others as
they are by then. The song stage inserts a match before it commits, and until then holds the
locks of its foreign keys (`Unlocked`): its file and work cannot be deleted, but the
file can be moved. `due` is the recalculation that a request's thread runs after its
commit, or loses.

Left out: artists, titles and embeddings; the second phase of the enrichment for works and
artists; a merge of several sources at once (one after the other); the deletion
of emptied local artists; grouping's commits between its chunks; the lookup of
untagged files by title, which is a lookup of their tagged recording; the
deduplication scripts. An item may also end for an error before all its files were answered for,
with those before it kept rather than rolled back (`ItemEnds`), which only allows more. Work ids are never used again, and an action that needs a
new one waits for an id the bound still has. Recordings made here never run out of
ids (`IdsAssumption`): each is of a work, and a work has one recording at most.

Known limits of the code, which the properties do not speak of:

1. `apply_recording_lookup` steps around a work that already has a recording of
   the version; the enrichment of a file does not (`library_enrichment_service.py`
   upserts the recording and the database raises on `uq_recordings_work_version`).
   The item is rolled back, the file stays pending and is asked about again in every run
   (`LookupRefused`).
2. A work that enrichment empties may stay, because the local recording grouping
   made for it still references it.
3. A move, a fold, a grouping or a pick of a master goes by the work it read; if the file
   was moved meanwhile, the work it really leaves is not settled and its master stays
   on a file that is gone. So for a fold planned while both rows were on A: when the
   curator then moves the present one to B, nothing is settled, and A's master is a file of B;
   `repick_stranded_masters` passes it by, since the file is present. The recalculation
   by recordings can do the same. `strayed` names these works until their master is picked
   anew, and `MasterOnItsWork` speaks of all others.
4. Split and reassign of a work's last file fail when a file of another work uses one
   of its recordings.
5. Split and reassign leave a format override of the moved file with the old work.
6. A match drafted while its file moves is committed with the work the file had; a comment in
   `works.py` accepts this. A resolve that read the file before the move, and a fold by
   its plan's works, leave such a match too. `raced` names these songs until their match is
   written again, and `MatchFollowsFile` speaks of all others.
7. A merge drops the manual master of its source, even if the target has none.
8. Grouping gives the row a scan made the work it chose, although the curator may have given it
   one since the scan read it; the curator's choice is lost.

### RadioPlayer

The page's reducer and the controller that performs its effects, as one step per
browser event with all its effects, since the browser queues events and calls no
handler inside another. `player` is the machine's phase with its counters, `timers` the
remaining seconds of each timer, `source` and `audio` the two browser objects. The times are the
page's own (10 s to open the events, 15 s to tune, 2 s of grace, 10 s of stall,
30 s for a tap, 60 s in all, retries from 1 to 30 s); `Second` is one, and a
timer that is due goes off in its second. `LastAttempt` is where the delay
saturates, so counting on would change nothing. Titles are known as told before
or since the page's own stream was admitted. A stream is admitted (`tuning` is told) before any of its audio is sent, and a
play() is refused only in a try of the page's own, never after a tap: the machine takes a refusal
in two more places (while a loss is pending, and after a tap), which this environment
never reaches. The `tuning` of an admitted stream reaches the page in the step that admits it,
unless the events are down.

Left out: throttled timers of hidden tabs; refusals of an older play() and audio
events still queued for a closed element, which the code tells apart by a tag;
the reason shown, rendering, the lock screen, the saved key. Two situations are
outside `NoStaleTitle`: when the events are down at the very moment the stream is
admitted, an older title stays until the next one; and with two tabs, the title of
an older stream that takes the channel back clears a remembered `ended`, so that
the page reconnects instead of ending.

## 3. Runs

| Run | Checks | Bounds |
|---|---|---|
| `stream_sessions` | engines, feed, pages, bookmarks | three tune-ins on one channel, limit changing between 2 and 3, kills may raise |
| `stream_sessions_live` | the limit holds; every open settles; a dead engine frees its slot | one keyed and one keyless tune-in, one slot, no kill raises |
| `item_contract` | one item per seq, rotation, end, refinement of `ItemLog`, every call answered | two calls, three songs, a liner after each, two liners |
| `listener_feed` | subscriptions counted and pruned, unread bounded (`FeedAccounted`); titles in order and never early (`ToldOnTime`); no wake-up is lost (`WaitsEnd`) | two streams of one channel, one page, three titles, `PENDING_LIMIT` 2 |
| `matching_run` | completed only after the last stage; clean only if all matched; an opened row completes; an upload's row tells what was stored; a re-check picks up what is pending; refinement of `MatchingRun` | two uploads, a re-check, two playlists, drops and crashes |
| `matching_run_close` | **violated**, see Findings | one run, two playlists |
| `song_matching` | decisions stand and agree, no change of an artist's files escapes a re-check, pending songs are decided | one artist, two songs, two files of one work (one missing, one of another artist), one playlist, three events, the first two of which may be decisions or library changes |
| `song_matching_rejection` | **violated**, see Findings | two artists, a song and a file each, two events |
| `library_scan` | rows, fingerprints and matches follow their files; hashes settle | three paths in two folders, five versions (one tagged, one broken, one refused), two tasks, chunks of two, three events |
| `cue_queue` | cues of their audio, prune, backlog | four files (a liner, one of unknown duration, two twins of which one is scheduled), batches of two, patience two, two events |
| `catalog` | matches and masters follow their files, manual picks stand | two files, three works, three recordings MusicBrainz knows and three local ones, a song, two events (one for the files with one audio) |
| `radio_player` | timers and connections fit the state, drops settle in time, no stale title | none but the page's own times |

Why these bounds are enough. Three streams playing at once on one channel are the
least in which the newest ends and hands the channel back over two older ones, of
which one has ended before; two hide an error there (see Proofs). A limit of 2
makes the third tune-in meet a full table, and the change from 3 to 2 makes the
table exceed the setting. Tune-ins
of different channels meet only in the limit and in close_all, which the shared
channel also exercises; keyless ones are in the live run, where two compete for one
slot, and `SlotsBounded` says for every limit that it holds. A kill that raises is in the first
run only: it ends the watchdog's task for good, after which nothing but the relay frees a slot, so
`SlotsComeBack` speaks of kills that do not raise. Three songs with a
liner after each give three liners from a rotation of two, which empties and is
shuffled again before the end; two calls are what a timed-out call and its retry are. Two
uploads are a file and its duplicate, or two playlists, of which one is stored
while the other's re-check is under way; a re-check of two playlists lets one
stage be refused or lost and the other one matched. What two re-checks do to each other is in
the theorems of `MatchingRun` and `Ingestion`, which hold for any set of them. In the feed, two streams are
the least that overlap and hand the channel back; with `PENDING_LIMIT` 2 a page
falls behind by two statuses and a waiting title. One page is enough to check
that it is told and woken; what several pages do to each other is in the
theorems `FeedAccounts` and `TellsOnTime`, which hold for any set of them. Channels of the feed share nothing but the count
of subscriptions, so one channel is enough. For the songs, two files of one work
let a rejection of a work reach both. One is missing at first and the other names an artist
nobody plays: a scan that finds or retags one lets the library change under a draft, and
a fold brings a match or a rejection from one to the other. Three events are a decision, a change and a death. For the scan, three
paths are a file, its copy or new place and a neighbour in its folder; three
events let a file move, be replaced and the worker die within one chunk. The
cues need a batch that is full, a twin inside and outside the batch and a file
that stalls; two events are a rewrite that lands during an analysis and one that
follows it. In the catalog, two files
either share a work, a recording or an audio, or none of these (the three `MCFacts`);
three works let one be left, one be joined and one be made; two events are a
curator's move during an item and one before it, or between a plan and its fold (folds
count as none). Files with one audio are grouped together and share their works without an event, so
one is enough for them. The player is not bounded at all: its times are finite.

`stream_sessions` uses symmetry (all tune-ins share the channel and nothing else
tells them apart) and a VIEW: the fingerprint drops `admissions` (the admission
order stays visible as `admitted`), the bookmark read by a finished placement,
and the marks of a request that is over, none of which a later step or a checked
property reads. Every type
invariant is a theorem; those of `Catalog` and `LibraryScan`, which say the most (ids
apart, references that hold), are also listed by a run. Deadlock is checked for the library scan
(the hour always passes) and the player (time does); elsewhere it is not, since
the systems really may stop (a listener who never returns, an empty queue).

Fairness. `StreamSessions`: placement threads and engine starts end (database
timeouts, two ready timeouts), the loop runs what is due, the relay of a dead
engine reads the end of its upstream; nothing makes a listener come, leave or
hear, and the watchdog is not assumed to catch anything. `ItemContract`: every
await ends, because reads are bounded and threads finish. `ListenerFeed`: a
sleep ends at its time and the loop resumes what is done; nothing makes a page
ask for its next event, a stream begin or a title come. `MatchingRun`,
`Ingestion` and `SongMatching`: weak
fairness of the task at work, strong fairness of taking each queued task, since
the queue is first in, first out while the model lets any task be taken; it is
spelt out (`WorkerGoesOn`, `PipelineGoesOn`) where a fault may stand in for a step, so that a
worker that dies again and again is not assumed to finish. `Reap` and `Tick` are
never assumed. `LibraryScan`: the worker goes on within a task, the periodic
poll and the hour come, queued scans are taken (strong: other tasks come
between); nothing makes the disk change or stop changing. `CueQueue`: the
consumer goes on, reports of playing sessions end, a resume is taken. `Catalog` states none, so it does not say
that a pending file is ever enriched: the enabling conditions of its actions
range over whole tables and make a liveness run too costly. `RadioPlayer`
states none either: time passes by itself, and `SettlesInTime` bounds every drop by it.

## 4. Findings

- `matching_run_close`. `artist_matching_task` calls `stage.hand_on()` inside the
  block of its log connection, with the comment that "an error closing the log
  connection must not end a stage whose identity stage is already queued".
  `matching_stage` nevertheless finishes a stage that raised, handed on or not
  (`if raised or not stage.handed_on`). If closing that connection raises, the
  stage is taken off the row's count and counted failed, the row of a one-playlist
  run completes while its identity stage is still queued, and that stage's own
  finish is then ignored. The other runs of `MatchingRun` exclude this fault
  (`CloseMayFail = FALSE`) so that they speak about everything else.
- `song_matching_rejection`. A song stage reads its songs, and what was rejected
  for each, once at its start; the guard of its write asks only whether the song
  is still pending. The curator rejects the song's suggestion and then links its
  artist, which makes the song pending again: the guard passes and the file that
  was rejected is offered anew. `identity_matching_service.py` calls the list it
  read "the one candidate gate: same artist, and not a rejected file or work", and
  `identity_resolution_service.py` says of a rejected song that it is re-checked
  "without these files". `NeverReproposed`, which `song_matching` checks, is what
  does hold: a stage that reads after the rejection never offers the file.

## 5. Proofs

TLAPS checks these for every value of the constants.

- `StreamSessions_proofs`: `TypeCorrect`, `FeedFollowsTable`, `SlotsBounded`,
  `NoEngineLeaks`, `PageFollowsStreams` and the action property `BookmarksKept`. The inductive invariant joins `TypeOK`, the feed's mirror of
  the table, `WithinLimit` (the table is a finite set of at most `MaxLimit`) and
  `EnginesOwned`, which relates every phase to what its engine may be: before an
  engine is ready there is no process to lose, a kept session has exactly one,
  and a session off the table has been stopped or its kill raised. It is needed
  because `EngineAccounted` alone says nothing of engines that are still starting.
  `PageFollowsStreams` says that a page on `tuning` waits for the newest stream, still open, and
  that no bookmark outlives `ended`; what a page shows after a hand-back it does not say.
  It needs to know what ending a stream makes of the channel's status. The first attempt to prove it failed, and the prover was right: what the
  action forgot when a stream ended (`EndedForgets`) was wrong for three streams of one
  channel at once, which the run's limit of two had never let happen. It was restated
  from the code, and the run now reaches three.
- `ItemContract_proofs`: `TypeCorrect`, `SameItem`, `FinishedLate`,
  `RotationFollowsLog` and `ImplementsLog`, the refinement of `ItemLog`. The invariant says that the assigned seqs are a log
  without gaps whose slots are a song or a due liner (`LogInv`), that a call past
  an await asks for a seq that is assigned or the next one (`CallInv`), that the
  answers given are entries of the log and that reports speak of assigned seqs.
  Every action that touches the log keeps it, appends one entry or ends it
  (`StepOfLog`), and each of the three is a step or a stutter of `ItemLog`. The
  rotation moves exactly when a liner is appended, and then to that liner
  (`StepOfRotation`), which is what a call that lost the race for its seq must not do.
- `Listening_proofs`, the feed: `TypeCorrect`, `FeedAccounts` (its parts are
  `PagesCounted`, `ChannelsPruned` and `MailBounded`) and the action property
  `TellsOnTime` (`InOrderTold` and `NoneEarly`). The
  invariant says of each mailbox that its unread events are in the order they
  were made, between the last one told and the last one made, that titles among
  them are due and that the waiting title comes after them all (`InOrder`); and of
  each read that a sleep that ran out was for a title that is due. Without the
  first, a read that slept could append its title behind a later one; without the
  second, before its delay. The operators of a mailbox have a lemma each, `Tell`
  one for all its callers (`TellStep`), and reads one for what they take
  (`TakesOrWaits`). The open subscriptions are counted as a finite set that loses
  the dropped pages at once, or gains or loses one. `Readers` is assumed finite and
  `PendingLimit` at least 1 (it is 16), since a new mailbox holds a title.
- `Ingestion_proofs`, the runs alone: `TypeCorrect`; `RowOutlivesStages` (assuming
  `~CloseMayFail`) from the invariant that while a row is open its `left` is at
  least the number of outstanding stages; `CleanRunsTrusted` from the count of
  opened stages: `left` plus matched plus failed accounts for all of them, so a
  row closed with no failure has matched every playlist. Dropped writes and
  crashes only leave `left` larger. `Playlists` is assumed finite.
- `Ingestion_proofs`, beside uploads: `IngestionTypeCorrect`; `UploadsShown`, from the invariant
  `Follows`, which says for every step of an upload what its row and the stored
  playlist may be by then, the reaper having passed or not, and from `Handed`: only the
  upload that stored a playlist sets its matching off, at its last step, so that one that raised
  after its commit has set off none (`OnlyHandedOff`, `HandedHolds`); `ImplementsMatchings`, the
  refinement of `MatchingRun`, from the invariant `Held`: the worker is held by the
  task that is at work, and by no other. `RowsOutliveStages` and
  `CleanRunsTrustedBeside` say of the runs beside uploads what `RowOutlivesStages` and
  `CleanRunsTrusted` say of the runs alone: the argument about rows and stages never
  speaks of the worker, so a step of an upload keeps it (`StepBeside`).
- `CueQueue_proofs`: `TypeCorrect`, `CuesKept`, `PruneWaits`. What a row says of
  a file is safe while its stored stat still tells the file's audio (`Tells`), or
  once a rewrite has made that stat one the file will never show again (`Ruined`). The invariant carries this knowledge
  along every copy of a stat: in the rows, in the batch and in what the run
  found (`KnowsAudio`), and in the prune's draft, which may only shrink what
  it read (`DraftKeeps`, `DraftCues`). Without the batch's part, a guard that compares
  two stats would say nothing of the audio.
- `Listening_proofs`, the page's player: `PlayerTypeCorrect`, `PhaseHeld`, `Settles`,
  `TitlesFresh`, for any times. The inductive invariant adds `Fits` (what a phase says of
  the other fields) and `Timely` (how long a drop has lasted, against what its timers still
  allow): a drop could outlive its deadline only if a retry or a stall started a
  timer past it.
- `SongMatching_proofs`: `TypeCorrect`, `DecisionsHold`, `RejectedStaysAway`,
  `EveryChangeNoticed` and the action property `CuratorDecides`, for any catalog, any
  library and any number of events. What the tables promise (`TablesInv`) is broken, if
  at all, by a merge of drafts that were written long before, so the invariant makes
  every draft keep the promise in advance (`DraftInv`): a drafted row was undecided
  when it was read, nobody else can write it meanwhile, and it already agrees with
  its artist, drafted or not, and with what was rejected. `JobInv` says what a
  stage remembers is still true of the rows it may yet write, or that its guard will
  find out; `UnseenInv` that what an undecided song's verdict has not seen are rows its artist
  still has and `changed` still names; and `WaveInv` that a re-check under way has the artist of
  every such song in its wave until the rewind is committed, and then leaves no such song, so that
  `changed` may be forgotten when it completes. Without both, `NothingEscapes` is not inductive. Scans, folds and deletions have a lemma each for what
  they make of a row (`ScanKeeps`, `RowLosesFile`, `SongForgets`, `SongCarried`, `FoldKeeps`).
  `RowsAssumption` only says that a missing row (`None`) is not a row.
- `Catalog_proofs`: `TypeCorrect`, `MatchesFollow`, `MastersOnTheirWork` and the action
  property `PicksStand`, for any files, works, recordings and songs. `Sound` is what
  the tables keep by themselves: every row names works and recordings that exist, a
  deleted row names none, a work has one recording, a MusicBrainz work is named once,
  and a match names a file that was found once. Each operation of `CatalogRows` has a
  lemma (`...Keeps`) that it keeps `Sound`, puts no match astray (`After`), keeps manual
  picks (`Kept`), and which work it may leave with a master off it: a move or a fold only the
  work the file was really on, and only if it was read on another (`MovedKeeps`,
  `FoldedKeeps`); a recalculation, and a pick that counted a file that has left, only their own
  (`RecalculatedKeeps`). The actions are put together from
  these, and `Good` says that what a write puts astray or off is what it tells the
  histories `raced` and `strayed`. `JobInv` is what an item may still count on after the
  curator's requests: an id for a work, and that a drafted file was once found. The
  lookup moves the files of a recording one after the other, a fold over a set: that
  its function exists is shown for any finite set by the least size for which it would
  not (`FollowExists`), and that the promises hold all along by the least set for which
  they would not (`FollowersLed`). Assumed is that a missing row is no row
  (`RowAssumption`), that ids of one kind are not of another (`KindsAssumption`), that
  `Works`, `Files` and `LocalRecs` are finite and that local ids suffice
  (`IdsAssumption`).

- `LibraryScan_proofs`: `TypeCorrect`, `RowsAgree`, `HashesFollowFiles` and the action
  property `MatchesFollowTracks`, for any paths, folders, versions, songs and row ids.
  `Sound` is what the table keeps by itself: no two rows share an id, a row says what
  was last learnt of its file (`Told`), and a fingerprint is that of the bytes its stat
  stands for (`HashesTrue`). A file of a visit or of a chunk keeps it (`VisitKeeps`,
  `ChunkFileKeeps`), and so do a fold and a purge. `Going` says it of a scan on its
  way, and that no id is lost by it; `Chunked` adds for a chunk what a roll-back to its
  beginning needs. That the fold over a folder's or chunk's files exists is shown by the
  least number of files for which it would not (`FoldExists`), and what it keeps by the least
  set of files for which it would not, in whatever order they are visited (`LastOf`).
  `JobInv` is what a task may still count on: a planned move is of one track while both of
  its rows are there (`PlanHolds`), since whatever changes a row's version meanwhile is the
  scan itself; and audio that was read is that of the stat read before, or the file
  no longer has that stat, or it was swapped (`ReadingHolds`). A poll's hashes and
  the queue only have types to keep. Two properties had to be stated anew because the
  attempt to prove them failed and a run then showed why: a row that was relocated
  and refused (`Unsure`), and a file that is moved away and back while its audio is read
  (`swapped`); the run's versions and files now make both happen. Assumed is that `Paths`
  are finitely many numbers, `Folders` numbers, that there is an id for each path, and that a
  missing row is no row.

Assumptions: those named `...Assumption` in the modules, all about constants. Every
safety property the runs check is a theorem. Liveness and fairness are outside the
prover's reach and are model-checked only: `SlotsComeBack`, `CallsAnswered`, `WaitsEnd`,
`RunCompletes`, `RecheckPicksUp`, `HashesSettle`, `PendingDecided`, `BacklogServed`.

## 6. Not modelled

Signal processing in the engine scripts; text processing (normalisation and
title scores); HTTP request shapes; the curation of artists and mapping rules;
migrations; the React UI; the offline tools of `src/scripts`, which share no
state with the running system. Each is listed with its reason under
"components". Five hazards have no property, each with its note: the recording a database
refuses again in every run (`library_enrichment_service.py`, which the model shows but no
property asks about), and, not modelled yet, the thread
of a late read (`cue_reread.py`), the orphan a failed unlink leaves
(`liners.py`), the position of a session that moves on (`live_position.py`)
and the commit gap of folder hashes (`library_folders.py`).

## 7. Plan

1. `BoundedReads`: the threads in flight of `cue_reread.py`; `LinerFiles`: row and
   file, upload, delete, sweep; `MbClock`.
2. `LiquidsoapSession`: the decks and the prefetch loop of `session.liq`,
   composed with `ItemContract`.
3. `TuneIn`: walk, resume, live position, bookmarks over the day's clock.
4. `SongMatching` composed with `MatchingRun`, so that the row's warning speaks
   of songs; `LibraryScan` with `CueQueue`, whose rescans it makes; `Catalog` with `SongMatching`, which share
   the matches.
5. The enrichment of works and artists; the trigger-kept play counts.
