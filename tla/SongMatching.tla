---------------------------- MODULE SongMatching ----------------------------
(***************************************************************************)
(* The matching of broadcast artists and songs to the library: the         *)
(* re-check that rewinds undecided items, the artist and song stages that  *)
(* decide them, the curator's decisions in the web requests, and the       *)
(* library changes in between.                                             *)
(*                                                                         *)
(* The worker runs one task at a time (src/Procfile, -w 1).  A stage is    *)
(* one READ COMMITTED transaction: what it wrote so far is a draft, which  *)
(* locks its rows, is merged when the stage commits and is dropped when    *)
(* the stage dies.  A request of the curator is one transaction too, and   *)
(* waits for the locks of the rows it writes.                              *)
(***************************************************************************)
EXTENDS Naturals, FiniteSets, Sequences

CONSTANTS
  Artists, Songs, Files, Playlists,
  None,
  ArtistOf,   \* the artist of each song
  Tag0,       \* the artist the tags of each file name at the start, None for one nobody plays
  WorkOf,     \* the work of each library file
  Plays,      \* the songs each playlist played
  Library0,   \* the library at the start
  StalePages, \* whether a page may show a suggestion that has been replaced
  MaxEvents,  \* decisions, library changes, faults and refused enqueues
  MaxChanges  \* how many of them come before the last decision or library change

ASSUME NoneAssumption == None \notin Artists \cup Songs \cup Files \cup Playlists
ASSUME DataAssumption ==
  /\ ArtistOf \in [Songs -> Artists] /\ Tag0 \in [Files -> Artists \cup {None}]
  /\ DOMAIN WorkOf = Files /\ Plays \in [Playlists -> SUBSET Songs]
  /\ Library0 \in [Files -> {"none", "missing", "there"}] /\ StalePages \in BOOLEAN /\ MaxEvents \in Nat /\ MaxChanges \in Nat

VARIABLES
  artist,   \* broadcast_artists, and whether matches holds a row of the artist
  song,     \* track_identities with their row in matches
  library,  \* library_files: not indexed yet, there, missing, deleted or folded into another
  tag,      \* the artist each row names (normalized_artist_name)
  watermark,  \* whether a re-check has COMPLETED
  changed,  \* rows indexed or gone missing since it started (indexed_at, missing_since)
  queue,    \* tasks waiting for the worker
  job,      \* the task the worker is in
  draftArtist, draftSong,  \* what its transaction has written
  events    \* how many of MaxEvents have happened

tables == <<artist, song>>
draft == <<draftArtist, draftSong>>
rows == <<library, tag>>
since == <<watermark, changed>>
vars == <<tables, rows, since, queue, job, draft, events>>

(* match_status with the reasons the code asks for *)
Matched == {"auto_matched", "manual_matched"}
ArtistUndecided == {"needs_review", "deferred_retry"}
SongUndecided == {"needs_review", "deferred_retry", "mb_unavailable", "auto_rejected", "manual_rejected"}
ArtistStatus == ArtistUndecided \cup Matched \cup {"pending", "manual_rejected"}
SongStatus == SongUndecided \cup Matched \cup {"pending"}

(* A song as the tables hold it; unseen and late are history: the files of its *)
(* artist that came, changed or went missing after its verdict was scored; and *)
(* that the verdict met a rejection it did not know, or was carried to it by a *)
(* fold.                                                                       *)
SongRow == [status : SongStatus, file : Files \cup {None}, rejected : SUBSET Files,
            unseen : SUBSET Files, late : BOOLEAN]
ArtistRow == [status : ArtistStatus, linked : BOOLEAN]
Recheck(s) == [task : {"recheck"}, scope : s]
ASSUME RowsAssumption == None \notin ArtistRow \cup SongRow
Task == Recheck({"all", "changed"}) \cup [task : {"artists", "songs"}, playlist : Playlists]

SongsOf(a) == {s \in Songs : ArtistOf[s] = a}
PlaylistsOf(a) == {p \in Playlists : Plays[p] \cap SongsOf(a) # {}}
ArtistsIn(p) == {ArtistOf[s] : s \in Plays[p]}
Stored(f) == library[f] \in {"there", "missing"}
FilesOf(a) == {f \in Files : tag[f] = a /\ Stored(f)}

Idle == [step |-> "idle", playlist |-> None, todo |-> {}, wave |-> {}, deferred |-> {},
         statuses |-> <<>>, heard |-> <<>>, memo |-> None]
Memos == [artist : Artists, linked : BOOLEAN, files : SUBSET Files]
Jobs ==
  [step : {"idle", "rewind", "rewound", "complete", "fan_out", "artists", "hand_on", "songs"},
   playlist : Playlists \cup {None}, todo : SUBSET (Artists \cup Songs \cup Playlists),
   wave : SUBSET Artists, deferred : SUBSET Artists,
   statuses : UNION {[ss -> ArtistStatus] : ss \in SUBSET Songs},
   heard : UNION {[ss -> SUBSET Files] : ss \in SUBSET Songs}, memo : Memos \cup {None}]
NoArtists == [a \in Artists |-> None]
NoSongs == [s \in Songs |-> None]

(* What the worker's transaction sees, and whether a row is free of its locks. *)
SeenArtist(a) == IF draftArtist[a] = None THEN artist[a] ELSE draftArtist[a]
SeenSong(s) == IF draftSong[s] = None THEN song[s] ELSE draftSong[s]
ArtistFree(a) == draftArtist[a] = None
SongsFree(ss) == \A s \in ss : draftSong[s] = None
FileFree(f) == \A s \in Songs : draftSong[s] # None => draftSong[s].file # f

(* What a decision or a rewind makes of a song: match rows go, or stay. *)
Verdict(r, status, file) == [r EXCEPT !.status = status, !.file = file, !.unseen = {}, !.late = FALSE]
Rewound(r) == [r EXCEPT !.status = "pending", !.unseen = {}]

(* record_song_rejection *)
Parked(r, fs) == [Verdict(r, "manual_rejected", None) EXCEPT !.rejected = r.rejected \cup fs]

(* The candidate gate: not a rejected file, not the work of one still stored. *)
Allowed(f, rejected) ==
  /\ f \notin rejected
  /\ \A g \in rejected : Stored(g) => WorkOf[g] # WorkOf[f]

-----------------------------------------------------------------------------
TypeOK ==
  /\ artist \in [Artists -> ArtistRow]
  /\ song \in [Songs -> SongRow]
  /\ library \in [Files -> {"none", "there", "missing", "deleted"}]
  /\ tag \in [Files -> Artists \cup {None}]
  /\ watermark \in BOOLEAN /\ changed \subseteq Files
  /\ queue \in Seq(Task)
  /\ draftArtist \in [Artists -> ArtistRow \cup {None}]
  /\ draftSong \in [Songs -> SongRow \cup {None}]
  /\ job \in Jobs
  /\ job.step \in {"idle", "complete", "fan_out", "hand_on"} => draftArtist = NoArtists /\ draftSong = NoSongs

(* An upload has just been ingested: its artist stage waits in the queue. *)
Init ==
  /\ artist = [a \in Artists |-> [status |-> "pending", linked |-> FALSE]]
  /\ song = [s \in Songs |-> [status |-> "pending", file |-> None, rejected |-> {},
                              unseen |-> {}, late |-> FALSE]]
  /\ library = Library0 /\ tag = Tag0
  /\ watermark = FALSE /\ changed = Files
  /\ queue \in {<<[task |-> "artists", playlist |-> p]>> : p \in Playlists}
  /\ job = Idle /\ draftArtist = NoArtists /\ draftSong = NoSongs
  /\ events = 0

Fault == events < MaxEvents /\ events' = events + 1
Change == events < MaxChanges /\ events' = events + 1

-----------------------------------------------------------------------------
(* The worker *)

Begin(kind) == job.step = "idle" /\ queue # <<>> /\ Head(queue).task = kind /\ queue' = Tail(queue)

(* The enrichment chain's hand-off, or the Re-run Matching button; one waits at a time (a bound). *)
RequestRecheck(scope) ==
  /\ queue = <<>>
  /\ queue' = <<[task |-> "recheck", scope |-> scope]>>
  /\ UNCHANGED <<tables, rows, since, job, draft, events>>

(* recheck_names: everyone without a watermark, else the artists that the rows changed *)
(* since name now.                                                                     *)
Wave == IF watermark THEN {tag[f] : f \in changed} \ {None} ELSE Artists

StartRecheck ==
  /\ Begin("recheck")
  /\ job' = [Idle EXCEPT !.step = "rewind", !.wave = IF Head(queue).scope = "all" THEN Artists ELSE Wave]
  /\ UNCHANGED <<tables, rows, since, draft, events>>

RewindArtists ==
  /\ job.step = "rewind"
  /\ draftArtist' = [a \in Artists |->
       IF a \in job.wave /\ artist[a].status \in ArtistUndecided
       THEN [artist[a] EXCEPT !.status = "pending"] ELSE None]
  /\ job' = [job EXCEPT !.step = "rewound"]
  /\ UNCHANGED <<tables, rows, since, queue, draftSong, events>>

Rewindable(s) ==
  \/ ArtistOf[s] \in job.wave /\ song[s].status \in SongUndecided
  \/ song[s].status = "mb_unavailable"

(* rewind_undecided and rewind_mb_unavailable of the songs, then the commit. *)
RewindSongs ==
  /\ job.step = "rewound"
  /\ artist' = [a \in Artists |-> SeenArtist(a)]
  /\ song' = [s \in Songs |-> IF Rewindable(s) THEN Rewound(song[s]) ELSE song[s]]
  /\ draftArtist' = NoArtists
  /\ job' = [Idle EXCEPT !.step = "complete"]
  /\ UNCHANGED <<rows, since, queue, draftSong, events>>

\* MUTANT: only a pending artist makes a playlist worth a stage.
PlaylistsPendingByArtist ==
  {p \in Playlists : \E s \in Plays[p] : artist[ArtistOf[s]].status = "pending"}
PlaylistsPending ==
  {p \in Playlists : \E s \in Plays[p] :
     song[s].status = "pending" \/ artist[ArtistOf[s]].status = "pending"}

FanningOut(ps) == IF ps = {} THEN Idle ELSE [Idle EXCEPT !.step = "fan_out", !.todo = ps]

(* Its COMPLETED row makes started_at the next watermark.  Scans are tasks of this *)
(* worker, so that no row was indexed or went missing since.                       *)
CompleteRecheck ==
  /\ job.step = "complete"
  /\ watermark' = TRUE /\ changed' = {}
  /\ job' = FanningOut(PlaylistsPending)
  /\ UNCHANGED <<tables, rows, queue, draft, events>>

FanOut(p) ==
  /\ job.step = "fan_out" /\ p \in job.todo
  /\ \/ queue' = Append(queue, [task |-> "artists", playlist |-> p]) /\ UNCHANGED events
     \/ Fault /\ UNCHANGED queue
  /\ job' = FanningOut(job.todo \ {p})
  /\ UNCHANGED <<tables, rows, since, draft>>

(* reset_deferred_by_ids and reset_deferred_by_artist_ids, then the pending read *)
StartArtists ==
  /\ Begin("artists")
  /\ LET p == Head(queue).playlist
         again == {a \in ArtistsIn(p) : artist[a].status = "deferred_retry"}
     IN /\ draftArtist' = [a \in Artists |->
             IF a \in again THEN [artist[a] EXCEPT !.status = "pending"] ELSE None]
        /\ draftSong' = [s \in Songs |->
             IF ArtistOf[s] \in again /\ song[s].status = "deferred_retry"
             THEN Rewound(song[s]) ELSE None]
        /\ job' = [Idle EXCEPT !.step = "artists", !.playlist = p,
             !.todo = again \cup {a \in ArtistsIn(p) : artist[a].status = "pending"}]
  /\ UNCHANGED <<tables, rows, since, events>>

(* _persist_artist_result: the guarded write, and the match row that follows it. *)
DecideArtist(a, result) ==
  /\ job.step = "artists" /\ a \in job.todo
  /\ IF SeenArtist(a).status = "pending"
     THEN /\ draftArtist' = [draftArtist EXCEPT ![a] =
               [status |-> result, linked |-> SeenArtist(a).linked \/ result = "auto_matched"]]
          /\ job' = [job EXCEPT !.todo = @ \ {a},
                     !.deferred = IF result = "deferred_retry" THEN @ \cup {a} ELSE @]
     ELSE job' = [job EXCEPT !.todo = @ \ {a}] /\ UNCHANGED draftArtist
  /\ UNCHANGED <<tables, rows, since, queue, draftSong, events>>

\* MUTANT: the cascade takes every artist of the playlist that is left undecided.
DeferredWithUndecided == {a \in ArtistsIn(job.playlist) : SeenArtist(a).status \in ArtistUndecided}
Deferred == job.deferred

(* bulk_defer_by_artist for the artists the stage wrote, then the commit. *)
CommitArtists ==
  /\ job.step = "artists" /\ job.todo = {}
  /\ artist' = [a \in Artists |-> SeenArtist(a)]
  /\ song' = [s \in Songs |->
       IF ArtistOf[s] \in Deferred /\ SeenSong(s).status = "pending"
       THEN Verdict(SeenSong(s), "deferred_retry", None) ELSE SeenSong(s)]
  /\ draftArtist' = NoArtists /\ draftSong' = NoSongs
  /\ job' = [Idle EXCEPT !.step = "hand_on", !.playlist = job.playlist]
  /\ UNCHANGED <<rows, since, queue, events>>

HandOn ==
  /\ job.step = "hand_on"
  /\ \/ queue' = Append(queue, [task |-> "songs", playlist |-> job.playlist]) /\ UNCHANGED events
     \/ Fault /\ UNCHANGED queue
  /\ job' = Idle
  /\ UNCHANGED <<tables, rows, since, draft>>

(* The pending songs, their artists and their rejections are read once. *)
StartSongs ==
  /\ Begin("songs")
  /\ LET todo == {s \in Plays[Head(queue).playlist] : song[s].status = "pending"}
     IN job' = IF todo = {} THEN Idle
               ELSE [Idle EXCEPT !.step = "songs", !.todo = todo,
                       !.statuses = [s \in todo |-> artist[ArtistOf[s]].status],
                       !.heard = [s \in todo |-> song[s].rejected]]
  /\ UNCHANGED <<tables, rows, since, draft, events>>

(* _ArtistMemo: one read of an artist's link and files serves all its songs. *)
Memo(s) ==
  IF job.memo # None /\ job.memo.artist = ArtistOf[s] THEN job.memo
  ELSE [artist |-> ArtistOf[s], linked |-> artist[ArtistOf[s]].linked,
        files |-> FilesOf(ArtistOf[s])]
InTurn(s) == job.memo # None /\ job.memo.artist # ArtistOf[s]
               => \A t \in job.todo : ArtistOf[t] # job.memo.artist

(* Resolved, but the artist's link was gone when the stage looked for it. *)
LinkLost(s, memo) == job.statuses[s] \in Matched /\ ~memo.linked

\* MUTANT: the rejected files are left out, not the others of their work.
CandidatesByFile(s, memo) == memo.files \ job.heard[s]
Candidates(s, memo) == {f \in memo.files : Allowed(f, job.heard[s])}

(* The title scores decide between a match, a suggestion and too low for either. *)
Scored(files) ==
  {[status |-> "auto_rejected", file |-> None]} \cup [status : {"auto_matched", "needs_review"}, file : files]
(* MusicBrainz is only searched for a song whose artist is resolved. *)
Deferrals(s) == {r \in {[status |-> "mb_unavailable", file |-> None]} : job.statuses[s] \in Matched}
(* What the strategies can make of the song: a status, and the file of its row. *)
Results(s, memo) ==
  IF LinkLost(s, memo) THEN {[status |-> "needs_review", file |-> None]}
  ELSE Scored(Candidates(s, memo)) \cup Deferrals(s)

\* MUTANT: the status is written whatever it is by then.
StillPendingUnchecked(s) == TRUE
(* update_match_status_if_pending *)
StillPending(s) == song[s].status = "pending"

(* The song's row is replaced; a file deleted or folded meanwhile fails the insert. *)
(* No scan runs beside a stage: what its memo read is still all there is.           *)
ScoreSong(s) ==
  /\ job.step = "songs" /\ s \in job.todo /\ InTurn(s)
  /\ LET memo == Memo(s)
         next == [job EXCEPT !.todo = @ \ {s}, !.memo = memo]
     IN \E r \in Results(s, memo) :
          IF ~StillPending(s) THEN job' = next /\ UNCHANGED draftSong
          ELSE IF r.file # None /\ ~Stored(r.file)
          THEN job' = Idle /\ draftSong' = NoSongs
          ELSE /\ job' = next
               /\ draftSong' = [draftSong EXCEPT ![s] =
                    [Verdict(song[s], r.status, r.file) EXCEPT
                       !.late = r.file # None /\ job.heard[s] # song[s].rejected]]
  /\ UNCHANGED <<tables, rows, since, queue, draftArtist, events>>

CommitSongs ==
  /\ job.step = "songs" /\ job.todo = {}
  /\ song' = [s \in Songs |-> SeenSong(s)]
  /\ draftSong' = NoSongs /\ job' = Idle
  /\ UNCHANGED <<artist, rows, since, queue, draftArtist, events>>

\* MUTANT: the newest re-check's start is the watermark, whatever became of it.
SinceNewest == IF job.step \in {"rewind", "rewound", "complete"} THEN {} ELSE changed
(* last_completed_started_at: a re-check that failed is no watermark. *)
SinceCompleted == changed

(* The task raises, or the worker dies and Huey has already taken the task. *)
TaskDies ==
  /\ job.step # "idle" /\ Fault
  /\ changed' = SinceCompleted
  /\ job' = Idle /\ draftArtist' = NoArtists /\ draftSong' = NoSongs
  /\ UNCHANGED <<tables, rows, watermark, queue>>

-----------------------------------------------------------------------------
(* The library *)

(* A row's indexed_at or missing_since moves; it names artist a by now. *)
RowChanges(f, a) ==
  /\ Change
  /\ changed' = changed \cup {f}
  /\ song' = [s \in Songs |->
       IF song[s].status \notin SongUndecided THEN song[s]
       ELSE [song[s] EXCEPT !.unseen = IF ArtistOf[s] = a THEN @ \cup {f} ELSE @ \ {f}]]
  /\ UNCHANGED <<artist, watermark, queue, job, draft>>

(* A scan, another task of the same worker, finds a new file, one that is back, or one *)
(* that was rewritten: its tags name the artist they name by now.  A rewrite that      *)
(* concerns no artist before or after is left out.                                     *)
ScanFinds(f, a) ==
  /\ job.step = "idle" /\ library[f] # "deleted"
  /\ library[f] = "there" => a # None \/ tag[f] # None
  /\ library' = [library EXCEPT ![f] = "there"] /\ tag' = [tag EXCEPT ![f] = a]
  /\ RowChanges(f, a)
ScanMisses(f) ==
  /\ job.step = "idle" /\ library[f] = "there"
  /\ library' = [library EXCEPT ![f] = "missing"] /\ UNCHANGED tag
  /\ RowChanges(f, tag[f])

(* The row is gone, and with it what it told of a change. *)
RowGoes(f) ==
  /\ Change
  /\ library' = [library EXCEPT ![f] = "deleted"] /\ tag' = [tag EXCEPT ![f] = None]
  /\ changed' = changed \ {f}
  /\ UNCHANGED <<artist, watermark, queue, job, draft>>

(* What merge_into makes of a song's match and rejections; a suggestion may become one *)
(* of a file that was rejected.                                                        *)
Carried(r, f, g) ==
  LET file == IF r.file = f THEN g ELSE r.file
      rejected == IF f \in r.rejected THEN (r.rejected \ {f}) \cup {g} ELSE r.rejected
  IN [r EXCEPT !.file = file, !.rejected = rejected, !.unseen = @ \ {f},
        !.late = @ \/ (file # None /\ ~Allowed(file, rejected))]

(* A missing row is folded into a present one, by the curator's remap at any time or by *)
(* the reconciliation after a scan; the present row's indexed_at does not move.         *)
Fold(f, g) ==
  LET touched == {s \in Songs : song[s].file = f \/ f \in song[s].rejected} IN
  /\ library[f] = "missing" /\ library[g] = "there"
  /\ FileFree(f) /\ FileFree(g) /\ SongsFree(touched)
  /\ RowGoes(f)
  /\ song' = [s \in Songs |->
       IF s \in touched THEN Carried(song[s], f, g) ELSE [song[s] EXCEPT !.unseen = @ \ {f}]]

(* delete_missing_files: the songs whose match goes with the file are put in review. *)
DeleteMissing(f) ==
  LET losing == {s \in Songs : song[s].file = f} IN
  /\ library[f] = "missing" /\ FileFree(f) /\ SongsFree(losing)
  /\ RowGoes(f)
  /\ song' = [s \in Songs |->
       IF s \in losing THEN Verdict(song[s], "needs_review", None)
       ELSE [song[s] EXCEPT !.unseen = @ \ {f}]]

-----------------------------------------------------------------------------
(* The curator *)

(* resolve_artist, MANUAL_MATCHED; the enqueues follow the commit and may fail. *)
LinkArtist(a) ==
  LET again == {s \in SongsOf(a) : song[s].status \in SongUndecided \cup {"pending"}} IN
  /\ ArtistFree(a) /\ SongsFree(again) /\ Change
  /\ artist' = [artist EXCEPT ![a] = [status |-> "manual_matched", linked |-> TRUE]]
  /\ song' = [s \in Songs |-> IF s \in again THEN Verdict(song[s], "pending", None) ELSE song[s]]
  /\ \/ \E p \in PlaylistsOf(a) : queue' = Append(queue, [task |-> "songs", playlist |-> p])
     \/ UNCHANGED queue
  /\ UNCHANGED <<rows, since, job, draft>>

(* resolve_artist, MANUAL_REJECTED: the match rows stay. *)
RejectArtist(a) ==
  LET hidden == {s \in SongsOf(a) : song[s].status \notin {"manual_matched", "manual_rejected"}} IN
  /\ ArtistFree(a) /\ SongsFree(hidden) /\ Change
  /\ artist' = [artist EXCEPT ![a].status = "manual_rejected"]
  /\ song' = [s \in Songs |-> IF s \in hidden THEN [song[s] EXCEPT !.status = "auto_rejected", !.unseen = {}] ELSE song[s]]
  /\ UNCHANGED <<rows, since, queue, job, draft>>

(* unmatch_artist: the whole tree starts over, in review. *)
UnmatchArtist(a) ==
  /\ artist[a].status \in Matched \cup {"manual_rejected"}
  /\ ArtistFree(a) /\ SongsFree(SongsOf(a)) /\ Change
  /\ artist' = [artist EXCEPT ![a] = [status |-> "needs_review", linked |-> FALSE]]
  /\ song' = [s \in Songs |-> IF s \in SongsOf(a) THEN Verdict(song[s], "needs_review", None) ELSE song[s]]
  /\ UNCHANGED <<rows, since, queue, job, draft>>

(* resolve_identity, MANUAL_MATCHED, and persist_manual_match *)
MatchSong(s, f) ==
  /\ Stored(f) /\ SongsFree({s}) /\ Change
  /\ song' = [song EXCEPT ![s] = Verdict(@, "manual_matched", f)]
  /\ UNCHANGED <<artist, rows, since, queue, job, draft>>

(* reject_song_suggestion: the matched file, or in review the suggestion the page showed. *)
RejectSong(s, shown) ==
  /\ SongsFree({s}) /\ Change
  /\ \/ song[s].status \in Matched /\ shown = song[s].file
     \/ /\ song[s].status \in {"pending", "needs_review", "deferred_retry", "mb_unavailable"}
        /\ shown = song[s].file \/ (StalePages /\ library[shown] # "none")
  /\ song' = [song EXCEPT ![s] = Parked(@, {shown})]
  /\ UNCHANGED <<artist, rows, since, queue, job, draft>>

-----------------------------------------------------------------------------
Worker ==
  \/ StartRecheck \/ RewindArtists \/ RewindSongs \/ CompleteRecheck
  \/ \E p \in Playlists : FanOut(p)
  \/ StartArtists \/ CommitArtists \/ HandOn
  \/ \E a \in Artists, r \in {"auto_matched", "needs_review", "deferred_retry"} : DecideArtist(a, r)
  \/ StartSongs \/ CommitSongs \/ \E s \in Songs : ScoreSong(s)
Library ==
  \E f \in Files :
    \/ \E a \in Artists \cup {None} : ScanFinds(f, a)
    \/ ScanMisses(f) \/ DeleteMissing(f)
    \/ \E g \in Files : Fold(f, g)
Curator ==
  \/ \E a \in Artists : LinkArtist(a) \/ RejectArtist(a) \/ UnmatchArtist(a)
  \/ \E s \in Songs, f \in Files : MatchSong(s, f) \/ RejectSong(s, f)
Next == Worker \/ Library \/ Curator \/ TaskDies \/ \E scope \in {"all", "changed"} : RequestRecheck(scope)

Spec == Init /\ [][Next]_vars
(* The worker goes on: weak fairness of Worker, with what enables it and *)
(* what it changes spelt out (each step ends or starts one of job, queue).  *)
WorkerGoesOn ==
  \/ []<>(job.step = "idle" /\ queue = <<>>)
  \/ []<><<job' # job \/ Len(queue') < Len(queue)>>_vars
FairSpec == Spec /\ WorkerGoesOn

-----------------------------------------------------------------------------
(* A song's status, its match row and its artist never contradict each     *)
(* other, although stages, requests and deletions write them in turns: a   *)
(* matched song has a row of a stored file, a parked or deferred one none, *)
(* a hidden one only under an artist the curator rejected, and a deferred  *)
(* song waits with its artist, whose retry is the only one to reset it     *)
(* (matches rows, bulk_defer_by_artist, reset_deferred_by_artist_ids).     *)
SongHasItsRow ==
  \A s \in Songs :
    /\ song[s].file # None => Stored(song[s].file)
    /\ song[s].status \in Matched => song[s].file # None
    /\ song[s].status \in {"deferred_retry", "mb_unavailable", "manual_rejected"} => song[s].file = None
    /\ song[s].status = "auto_rejected" /\ song[s].file # None
         => artist[ArtistOf[s]].status = "manual_rejected"
ArtistHasItsLink ==
  \A a \in Artists :
    /\ artist[a].status \in Matched => artist[a].linked
    /\ artist[a].status \in ArtistUndecided \cup {"pending"} => ~artist[a].linked
DeferredWithItsArtist ==
  \A s \in Songs : song[s].status = "deferred_retry" => artist[ArtistOf[s]].status = "deferred_retry"
DecisionsAgree == SongHasItsRow /\ ArtistHasItsLink /\ DeferredWithItsArtist

(* What the curator decided stays: no step of the worker, whatever it read *)
(* before the decision, changes a song or an artist that is matched, or an *)
(* artist that is rejected; a rejected song may only be rewound, with its  *)
(* rejections (update_match_status_if_pending, rewind_undecided).          *)
CuratorWins ==
  [][job' # job =>
       /\ \A s \in Songs :
            /\ song[s].status \in Matched => song'[s] = song[s]
            /\ song[s].status = "manual_rejected" => song'[s].status \in {"manual_rejected", "pending"}
            /\ song'[s].rejected = song[s].rejected
       /\ \A a \in Artists :
            artist[a].status \in Matched \cup {"manual_rejected"} => artist'[a] = artist[a]]_vars

(* A song is never offered, nor matched by the worker to, a file it was    *)
(* rejected with, nor another of the same work (_eligible): except by a    *)
(* verdict that was in hand while the song was rejected and its artist     *)
(* linked again, or by a fold that carried a suggestion and a rejection    *)
(* to one file or work (late).                                             *)
NeverReproposed ==
  \A s \in Songs :
    song[s].file # None /\ song[s].status # "manual_matched" /\ ~song[s].late
      => Allowed(song[s].file, song[s].rejected)

(* The code's own words know no such exception: "not a rejected file or    *)
(* work" (_eligible), "their decision wins" (match_identities_for_playlist) *)
RejectionHolds ==
  \A s \in Songs :
    song[s].file # None /\ song[s].status # "manual_matched"
      => Allowed(song[s].file, song[s].rejected)

(* No verdict outlives the library it was scored on unnoticed: an undecided *)
(* song is in the next wave when a file that its artist has came, was       *)
(* rewritten, came back or went missing since, across failed re-checks and  *)
(* retags that bring the file from another artist (recheck_names).  What a  *)
(* retag takes from the artist, and what is deleted or folded into another  *)
(* row, is no file of the artist any more: the wave reads the rows there    *)
(* are, and nothing in it tells the artist of that loss.                    *)
NothingEscapes ==
  \A s \in Songs :
    song[s].status \in SongUndecided /\ song[s].unseen # {} => ArtistOf[s] \in Wave

(* A pending song is decided, whatever tasks died or enqueues were refused, *)
(* as long as re-checks keep completing (playlists_with_pending_work).     *)
PendingDecided ==
  []<>(job.step = "complete")
    => \A s \in Songs : song[s].status = "pending" ~> song[s].status # "pending"
=============================================================================
