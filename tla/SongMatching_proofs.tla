------------------------ MODULE SongMatching_proofs ------------------------
(***************************************************************************)
(* What the matching of songs promises for any artists, songs, files and   *)
(* playlists.  A transaction's draft is the heart of it: a drafted row was *)
(* undecided when it was read, nobody else can write it until the stage    *)
(* ends, and it already keeps the promises it will have to keep when it is *)
(* merged.                                                                 *)
(***************************************************************************)
EXTENDS SongMatching, TLAPS

\* What a row of a song keeps by itself, in the tables or in a draft.
RowKeeps(r) ==
  /\ r.file # None => Stored(r.file)
  /\ r.status \in Matched => r.file # None
  /\ r.status \in {"deferred_retry", "mb_unavailable", "manual_rejected"} => r.file = None
  /\ r.file # None /\ r.status # "manual_matched" /\ ~r.late => Allowed(r.file, r.rejected)
  /\ \A f \in r.rejected : library[f] # "none"
  /\ r.unseen # {} => r.status \in SongUndecided

LinkAgrees(r) ==
  /\ r.status \in Matched => r.linked
  /\ r.status \in ArtistUndecided \cup {"pending"} => ~r.linked

\* Where the worker is says what its task holds and has drafted.
JobInv ==
  /\ job.step \in {"artists", "hand_on"} => job.playlist \in Playlists
  /\ job.step = "artists" => job.todo \subseteq Artists
  /\ job.step = "songs" => job.todo \subseteq Songs
  /\ job.step = "fan_out" => job.todo \subseteq Playlists
  /\ job.step \notin {"artists", "rewound"} => draftArtist = NoArtists
  /\ job.step \notin {"artists", "songs"} => draftSong = NoSongs
  /\ job.step # "songs" => job.memo = None

RowsInv == \A s \in Songs : RowKeeps(song[s])

\* A drafted song was waiting to be decided, and still is in the tables.
DraftSongInv ==
  \A s \in Songs : draftSong[s] # None =>
    /\ song[s].status \in {"pending", "deferred_retry"}
    /\ draftSong[s].rejected = song[s].rejected
    /\ RowKeeps(draftSong[s])
    /\ draftSong[s].status \notin {"deferred_retry", "manual_matched", "manual_rejected"}
    /\ draftSong[s].status = "auto_rejected" => draftSong[s].file = None
    /\ job.step = "artists" => draftSong[s].status = "pending"
    /\ draftSong[s].unseen = {}

DraftArtistInv ==
  \A a \in Artists : draftArtist[a] # None =>
    /\ artist[a].status \in ArtistUndecided \cup {"pending"}
    /\ LinkAgrees(draftArtist[a])
    /\ job.step = "rewound" => a \in job.wave

\* An artist the stage deferred is drafted so, and not decided twice.
DeferredInv ==
  job.step = "artists" =>
    \A a \in job.deferred : a \notin job.todo /\ SeenArtist(a).status = "deferred_retry"
                              /\ draftArtist[a] # None

\* Its songs that wait are only those the cascade will have put there.
WaitingInv ==
  job.step = "artists" =>
    \A s \in Songs : draftArtist[ArtistOf[s]] # None => SeenSong(s).status # "deferred_retry"

HiddenWithItsArtist ==
  \A s \in Songs :
    song[s].status = "auto_rejected" /\ song[s].file # None
      => artist[ArtistOf[s]].status = "manual_rejected"

\* What a verdict has not seen has changed since the last re-check that completed,
\* and names the song's artist: the wave reads it.
UnseenInv ==
  \A s \in Songs : \A f \in song[s].unseen : f \in changed /\ tag[f] = ArtistOf[s]

\* The wave of the running re-check covers every verdict that is out of date, and
\* leaves none behind.
WaveInv ==
  /\ job.step \in {"rewind", "rewound"} =>
       \A s \in Songs : song[s].unseen # {} => ArtistOf[s] \in job.wave
  /\ job.step = "complete" => \A s \in Songs : song[s].unseen = {}

\* Tables, watermark, drafts, queue and job keep their types.
TablesTyped ==
  /\ artist \in [Artists -> ArtistRow] /\ song \in [Songs -> SongRow]
  /\ library \in [Files -> {"none", "there", "missing", "deleted"}]
  /\ tag \in [Files -> Artists \cup {None}]
SinceTyped == watermark \in BOOLEAN /\ changed \subseteq Files
DraftTyped ==
  /\ draftArtist \in [Artists -> ArtistRow \cup {None}]
  /\ draftSong \in [Songs -> SongRow \cup {None}]
Types == TablesTyped /\ SinceTyped /\ DraftTyped /\ queue \in Seq(Task) /\ job \in Jobs

TablesInv == RowsInv /\ ArtistHasItsLink /\ HiddenWithItsArtist /\ DeferredWithItsArtist
DraftInv == DraftSongInv /\ DraftArtistInv /\ DeferredInv /\ WaitingInv

Inv ==
  /\ Types /\ JobInv
  /\ TablesInv /\ DraftInv
  /\ UnseenInv /\ WaveInv

-----------------------------------------------------------------------------
(* The rows and the jobs. *)

LEMMA VerdictRow ==
  ASSUME NEW r \in SongRow, NEW status \in SongStatus, NEW file \in Files \cup {None}
  PROVE  /\ Verdict(r, status, file) \in SongRow
         /\ Verdict(r, status, file).status = status /\ Verdict(r, status, file).file = file
         /\ Verdict(r, status, file).rejected = r.rejected
         /\ Verdict(r, status, file).unseen = {} /\ ~Verdict(r, status, file).late
  BY DEF Verdict, SongRow

LEMMA RewoundRow ==
  ASSUME NEW r \in SongRow
  PROVE  /\ Rewound(r) \in SongRow
         /\ Rewound(r).status = "pending" /\ Rewound(r).file = r.file
         /\ Rewound(r).rejected = r.rejected /\ Rewound(r).late = r.late /\ Rewound(r).unseen = {}
<1>1. "pending" \in SongStatus
  BY DEF SongStatus
<1> QED
  BY <1>1 DEF Rewound, SongRow

LEMMA ParkedRow ==
  ASSUME NEW r \in SongRow, NEW f \in Files
  PROVE  /\ Parked(r, {f}) \in SongRow
         /\ Parked(r, {f}).status = "manual_rejected" /\ Parked(r, {f}).file = None
         /\ Parked(r, {f}).rejected = r.rejected \cup {f} /\ Parked(r, {f}).unseen = {}
<1> DEFINE v == Verdict(r, "manual_rejected", None)
<1>1. "manual_rejected" \in SongStatus
  BY DEF SongStatus, SongUndecided
<1>2. v \in SongRow /\ v.status = "manual_rejected" /\ v.file = None /\ v.unseen = {}
  BY <1>1, VerdictRow
<1> HIDE DEF v
<1>3. Parked(r, {f}) = [v EXCEPT !.rejected = r.rejected \cup {f}]
  BY DEF Parked, v
<1> QED
  BY <1>2, <1>3 DEF SongRow

\* What the worker's transaction sees of a row is a row.
LEMMA SeenRows ==
  ASSUME Types
  PROVE  /\ \A a \in Artists : SeenArtist(a) \in ArtistRow
         /\ \A s \in Songs : SeenSong(s) \in SongRow
  BY DEF Types, TablesTyped, DraftTyped, SeenArtist, SeenSong

LEMMA IdleJob ==
  Idle \in Jobs /\ Idle.step = "idle" /\ Idle.memo = None
<1>1. <<>> \in [{} -> ArtistStatus] /\ <<>> \in [{} -> SUBSET Files]
  OBVIOUS
<1>2. Idle.statuses \in UNION {[ss -> ArtistStatus] : ss \in SUBSET Songs}
  BY <1>1 DEF Idle
<1>3. Idle.heard \in UNION {[ss -> SUBSET Files] : ss \in SUBSET Songs}
  BY <1>1 DEF Idle
<1> QED
  BY <1>2, <1>3 DEF Idle, Jobs

\* The task the worker takes from the queue, and what is left of the queue.
LEMMA Begun ==
  ASSUME Types, NEW kind, Begin(kind)
  PROVE  /\ Head(queue) \in Task /\ queue' \in Seq(Task) /\ job.step = "idle"
         /\ kind \in {"artists", "songs"} => Head(queue).playlist \in Playlists
<1>1. Head(queue) \in Task /\ queue' \in Seq(Task)
  BY DEF Types, Begin
<1>2. Head(queue).task = kind /\ job.step = "idle"
  BY DEF Begin
<1>3. kind \in {"artists", "songs"} => Head(queue).playlist \in Playlists
  BY <1>1, <1>2 DEF Task, Recheck
<1> QED
  BY <1>1, <1>2, <1>3

LEMMA Queued ==
  ASSUME Types, NEW p \in Playlists
  PROVE  /\ Append(queue, [task |-> "artists", playlist |-> p]) \in Seq(Task)
         /\ Append(queue, [task |-> "songs", playlist |-> p]) \in Seq(Task)
<1>1. /\ [task |-> "artists", playlist |-> p] \in Task /\ [task |-> "songs", playlist |-> p] \in Task
  BY DEF Task
<1>2. queue \in Seq(Task)
  BY DEF Types
<1> HIDE DEF Task
<1> QED
  BY <1>1, <1>2

LEMMA TypesSound == Types /\ JobInv => TypeOK
  BY DEF Types, TypeOK, TablesTyped, SinceTyped, DraftTyped, JobInv

LEMMA NoDraftsTyped ==
  /\ NoArtists \in [Artists -> ArtistRow \cup {None}]
  /\ NoSongs \in [Songs -> SongRow \cup {None}]
  /\ \A a \in Artists : NoArtists[a] = None
  /\ \A s \in Songs : NoSongs[s] = None
  BY DEF NoArtists, NoSongs

\* What ends a transaction, or leaves the worker outside one.
JobIs(step) == job'.step = step /\ job'.memo = None

LEMMA OutsideJob ==
  ASSUME NEW step \in {"idle", "rewind", "complete", "fan_out", "hand_on"},
         JobIs(step), draftArtist' = NoArtists, draftSong' = NoSongs,
         step = "fan_out" => job'.todo \subseteq Playlists,
         step = "hand_on" => job'.playlist \in Playlists
  PROVE  JobInv' /\ DraftTyped'
  BY NoDraftsTyped DEF JobInv, DraftTyped, JobIs

\* The same job, and drafts of the same kind.
LEMMA JobStays ==
  ASSUME JobInv, UNCHANGED <<job, draft>>
  PROVE  JobInv'
  BY DEF JobInv, draft

-----------------------------------------------------------------------------
(* What a step disturbs. *)

LEMMA TablesStay ==
  ASSUME TablesTyped, TablesInv, UNCHANGED <<artist, song, library, tag>>
  PROVE  TablesTyped' /\ TablesInv'
  BY DEF TablesTyped, TablesInv, RowsInv, RowKeeps, Allowed, Stored, ArtistHasItsLink, HiddenWithItsArtist,
     DeferredWithItsArtist

\* Outside a re-check there is no wave to cover anything.
LEMMA NoWave ==
  ASSUME job'.step \notin {"rewind", "rewound", "complete"}
  PROVE  WaveInv'
  BY DEF WaveInv

\* Outside the stages and the rewind there are no drafts.
LEMMA NoDrafts ==
  ASSUME JobInv, job.step \notin {"artists", "songs", "rewound"}
  PROVE  draftArtist = NoArtists /\ draftSong = NoSongs
  BY DEF JobInv

\* The wave names the artist of every verdict that has not seen a file.
LEMMA UnseenNamed ==
  ASSUME UnseenInv, NEW s \in Songs, song[s].unseen # {}
  PROVE  ArtistOf[s] \in Artists /\ ArtistOf[s] \in Wave
<1>1. ArtistOf[s] \in Artists /\ ArtistOf[s] # None
  BY DataAssumption, NoneAssumption
<1>2. PICK f \in song[s].unseen : f \in changed /\ tag[f] = ArtistOf[s]
  BY DEF UnseenInv
<1> QED
  BY <1>1, <1>2 DEF Wave

\* Without drafts there is nothing they must keep.
LEMMA DraftsGone ==
  ASSUME draftArtist' = NoArtists, draftSong' = NoSongs, job'.step # "artists"
  PROVE  DraftInv'
  BY NoDraftsTyped DEF DraftInv, DraftSongInv, DraftArtistInv, DeferredInv, WaitingInv

\* A step that writes no drafted row keeps what the drafts keep.
LEMMA DraftsStay ==
  ASSUME Types, DraftInv, UNCHANGED <<library, draft>>, job' = job,
         \A a \in Artists : draftArtist[a] # None => artist'[a] = artist[a],
         \A s \in Songs : draftSong[s] # None => song'[s] = song[s],
         \A s \in Songs : song'[s] = song[s] \/ song'[s].status # "deferred_retry"
  PROVE  DraftInv'
<1>1. DraftSongInv'
  <2> SUFFICES ASSUME NEW s \in Songs, draftSong[s] # None
               PROVE  /\ song'[s].status \in {"pending", "deferred_retry"}
                      /\ draftSong[s].rejected = song'[s].rejected
                      /\ RowKeeps(draftSong[s])'
                      /\ draftSong[s].status \notin {"deferred_retry", "manual_matched", "manual_rejected"}
                      /\ draftSong[s].status = "auto_rejected" => draftSong[s].file = None
                      /\ job'.step = "artists" => draftSong[s].status = "pending"
                      /\ draftSong[s].unseen = {}
    BY DEF DraftSongInv, draft, RowKeeps, Allowed, Stored
  <2>1. RowKeeps(draftSong[s])'
    BY DEF DraftInv, DraftSongInv, RowKeeps, Allowed, Stored, draft
  <2> QED
    BY <2>1 DEF DraftInv, DraftSongInv
<1>2. DraftArtistInv'
  BY DEF DraftInv, DraftArtistInv, draft, LinkAgrees
<1>3. DeferredInv'
  BY DataAssumption DEF DraftInv, DeferredInv, SeenArtist, draft, Types
<1>4. WaitingInv'
  BY DEF DraftInv, WaitingInv, SeenSong, draft
<1> QED
  BY <1>1, <1>2, <1>3, <1>4 DEF DraftInv

\* A step after which no verdict is out of date that was not before.
LEMMA WaveStays ==
  ASSUME UnseenInv, WaveInv, UNCHANGED <<tag, changed, job>>,
         \A s \in Songs : song'[s].unseen \subseteq song[s].unseen
  PROVE  UnseenInv' /\ WaveInv'
  BY DEF UnseenInv, WaveInv

-----------------------------------------------------------------------------
(* The curator: only rows that no transaction has drafted are written. *)

LEMMA CuratorKeeps ==
  ASSUME Inv, UNCHANGED <<library, tag, watermark, changed, job, draft>>, queue' \in Seq(Task), TablesTyped',
         \A a \in Artists :
           artist'[a] = artist[a] \/ (draftArtist[a] = None /\ LinkAgrees(artist'[a])),
         \A s \in Songs :
           song'[s] = song[s] \/ /\ draftSong[s] = None /\ RowKeeps(song'[s])
                                 /\ song'[s].status # "deferred_retry" /\ song'[s].unseen = {},
         HiddenWithItsArtist', DeferredWithItsArtist'
  PROVE  Inv'
<1>1. Types' /\ JobInv'
  BY JobStays DEF Inv, Types, draft, rows, since, SinceTyped, DraftTyped
<1>2. TablesInv'
  <2>1. RowsInv'
    <3> SUFFICES ASSUME NEW s \in Songs PROVE RowKeeps(song[s])'
      BY DEF RowsInv
    <3>1. RowKeeps(song'[s])
      BY DEF Inv, TablesInv, RowsInv
    <3> QED
      BY <3>1 DEF RowKeeps, Allowed, Stored
  <2>2. ArtistHasItsLink'
    BY DEF Inv, TablesInv, ArtistHasItsLink, LinkAgrees
  <2> QED
    BY <2>1, <2>2 DEF TablesInv
<1>3. DraftInv'
  <2>1. /\ \A a \in Artists : draftArtist[a] # None => artist'[a] = artist[a]
        /\ \A s \in Songs : draftSong[s] # None => song'[s] = song[s]
        /\ \A s \in Songs : song'[s] = song[s] \/ song'[s].status # "deferred_retry"
    OBVIOUS
  <2> QED
    BY <2>1, DraftsStay DEF Inv
<1>4. UnseenInv' /\ WaveInv'
  BY WaveStays DEF Inv
<1> QED
  BY <1>1, <1>2, <1>3, <1>4 DEF Inv

\* A verdict that leaves the song without a row of a file.
LEMMA NoFile ==
  ASSUME NEW s \in Songs, Inv, NEW status \in SongStatus \ Matched
  PROVE  LET v == Verdict(song[s], status, None)
         IN v \in SongRow /\ RowKeeps(v) /\ v.status = status /\ v.file = None /\ v.unseen = {}
<1>1. song[s] \in SongRow /\ RowKeeps(song[s])
  BY DEF Inv, Types, TablesTyped, TablesInv, RowsInv
<1> QED
  BY <1>1, VerdictRow DEF RowKeeps

LEMMA LinkKeeps == ASSUME Inv, NEW a \in Artists, LinkArtist(a) PROVE Inv'
<1> DEFINE again == {s \in SongsOf(a) : song[s].status \in SongUndecided \cup {"pending"}}
           linked == [status |-> "manual_matched", linked |-> TRUE]
<1>1. /\ ArtistFree(a) /\ SongsFree(again) /\ UNCHANGED <<library, tag, watermark, changed, job, draft>>
      /\ artist' = [artist EXCEPT ![a] = linked]
      /\ song' = [s \in Songs |-> IF s \in again THEN Verdict(song[s], "pending", None) ELSE song[s]]
  BY DEF LinkArtist, rows, since
<1>2. linked \in ArtistRow /\ LinkAgrees(linked)
  BY DEF ArtistRow, ArtistStatus, Matched, LinkAgrees, ArtistUndecided
<1>3. "pending" \in SongStatus \ Matched /\ "pending" \notin SongUndecided
  BY DEF SongStatus, Matched, SongUndecided
<1>4. queue' \in Seq(Task)
  BY Queued DEF LinkArtist, PlaylistsOf, Inv, Types
<1>5. \A s \in Songs : s \in again =>
        LET v == Verdict(song[s], "pending", None)
        IN v \in SongRow /\ RowKeeps(v) /\ v.status = "pending" /\ v.file = None /\ v.unseen = {}
  BY <1>3, NoFile
<1>6. TablesTyped'
  BY <1>1, <1>2, <1>5 DEF TablesTyped, Inv, Types
<1>7. \A b \in Artists : artist'[b] = artist[b] \/ (draftArtist[b] = None /\ LinkAgrees(artist'[b]))
  BY <1>1, <1>2 DEF Inv, Types, TablesTyped, ArtistFree
<1>8. \A s \in Songs :
         song'[s] = song[s] \/ /\ draftSong[s] = None /\ RowKeeps(song'[s])
                               /\ song'[s].status # "deferred_retry" /\ song'[s].unseen = {}
  BY <1>1, <1>3, <1>5 DEF SongsFree
<1>9. \A s \in Songs : song'[s] # song[s] => song'[s].status = "pending"
  BY <1>1, <1>5
<1>10. \A s \in Songs : ArtistOf[s] = a => song'[s].status \notin SongUndecided
  BY <1>1, <1>3, <1>5 DEF SongsOf
<1>11. \A b \in Artists : b # a => artist'[b] = artist[b]
  BY <1>1 DEF Inv, Types, TablesTyped
<1>12. HiddenWithItsArtist' /\ DeferredWithItsArtist'
  BY <1>9, <1>10, <1>11, DataAssumption
     DEF Inv, TablesInv, HiddenWithItsArtist, DeferredWithItsArtist, SongUndecided
<1> QED
  BY <1>1, <1>4, <1>6, <1>7, <1>8, <1>12, CuratorKeeps

LEMMA RejectArtistKeeps == ASSUME Inv, NEW a \in Artists, RejectArtist(a) PROVE Inv'
<1> DEFINE hidden == {s \in SongsOf(a) : song[s].status \notin {"manual_matched", "manual_rejected"}}
           Hide(r) == [r EXCEPT !.status = "auto_rejected", !.unseen = {}]
           rejected == [artist[a] EXCEPT !.status = "manual_rejected"]
<1>1. /\ ArtistFree(a) /\ SongsFree(hidden) /\ UNCHANGED <<library, tag, watermark, changed, job, draft, queue>>
      /\ artist' = [artist EXCEPT ![a] = rejected]
      /\ song' = [s \in Songs |-> IF s \in hidden THEN Hide(song[s]) ELSE song[s]]
  BY DEF RejectArtist, rows, since, Inv, Types, TablesTyped
<1>2. rejected \in ArtistRow /\ rejected.status = "manual_rejected" /\ LinkAgrees(rejected)
  <2>1. artist[a] \in ArtistRow
    BY DEF Inv, Types, TablesTyped
  <2> QED
    BY <2>1 DEF ArtistRow, ArtistStatus, Matched, LinkAgrees, ArtistUndecided
<1>3. \A s \in Songs : /\ Hide(song[s]) \in SongRow /\ Hide(song[s]).status = "auto_rejected"
                       /\ Hide(song[s]).file = song[s].file /\ Hide(song[s]).rejected = song[s].rejected
                       /\ Hide(song[s]).late = song[s].late /\ Hide(song[s]).unseen = {}
  <2> TAKE s \in Songs
  <2>1. song[s] \in SongRow
    BY DEF Inv, Types, TablesTyped
  <2>2. "auto_rejected" \in SongStatus
    BY DEF SongStatus, SongUndecided
  <2> QED
    BY <2>1, <2>2 DEF SongRow
<1> HIDE DEF Hide
<1>4. \A s \in hidden : RowKeeps(Hide(song[s]))
  <2> TAKE s \in hidden
  <2>1. s \in Songs /\ RowKeeps(song[s]) /\ song[s].status # "manual_matched"
    BY DEF SongsOf, Inv, TablesInv, RowsInv
  <2> QED
    BY <1>3, <2>1 DEF RowKeeps, Matched
<1>5. TablesTyped'
  BY <1>1, <1>2, <1>3 DEF TablesTyped, Inv, Types
<1>6. \A b \in Artists : artist'[b] = artist[b] \/ (draftArtist[b] = None /\ LinkAgrees(artist'[b]))
  BY <1>1, <1>2 DEF Inv, Types, TablesTyped, ArtistFree
<1>7. \A s \in Songs :
         song'[s] = song[s] \/ /\ draftSong[s] = None /\ RowKeeps(song'[s])
                               /\ song'[s].status # "deferred_retry" /\ song'[s].unseen = {}
  BY <1>1, <1>3, <1>4 DEF SongsFree
<1>8. \A s \in Songs : ArtistOf[s] = a => song'[s].status \in {"auto_rejected", "manual_matched", "manual_rejected"}
  BY <1>1, <1>3 DEF SongsOf
<1>9. \A s \in Songs : ArtistOf[s] # a => song'[s] = song[s]
  BY <1>1 DEF SongsOf
<1>10. \A b \in Artists : artist'[b] = IF b = a THEN rejected ELSE artist[b]
  BY <1>1 DEF Inv, Types, TablesTyped
<1>11. HiddenWithItsArtist' /\ DeferredWithItsArtist'
  <2> HIDE DEF rejected
  <2>1. \A s \in Songs : ArtistOf[s] \in Artists
    BY DataAssumption
  <2> QED
    BY <1>2, <1>8, <1>9, <1>10, <2>1 DEF Inv, TablesInv, HiddenWithItsArtist, DeferredWithItsArtist
<1>12. queue' \in Seq(Task)
  BY <1>1 DEF Inv, Types
<1> QED
  BY <1>1, <1>5, <1>6, <1>7, <1>11, <1>12, CuratorKeeps

LEMMA UnmatchKeeps == ASSUME Inv, NEW a \in Artists, UnmatchArtist(a) PROVE Inv'
<1> DEFINE cleared == [status |-> "needs_review", linked |-> FALSE]
<1>1. /\ ArtistFree(a) /\ SongsFree(SongsOf(a)) /\ UNCHANGED <<library, tag, watermark, changed, job, draft, queue>>
      /\ artist' = [artist EXCEPT ![a] = cleared]
      /\ song' = [s \in Songs |-> IF s \in SongsOf(a) THEN Verdict(song[s], "needs_review", None) ELSE song[s]]
  BY DEF UnmatchArtist, rows, since
<1>2. cleared \in ArtistRow /\ LinkAgrees(cleared)
  BY DEF ArtistRow, ArtistStatus, Matched, LinkAgrees, ArtistUndecided
<1>3. "needs_review" \in SongStatus \ Matched
  BY DEF SongStatus, Matched, SongUndecided
<1>4. \A s \in Songs : LET v == Verdict(song[s], "needs_review", None)
        IN v \in SongRow /\ RowKeeps(v) /\ v.status = "needs_review" /\ v.file = None /\ v.unseen = {}
  BY <1>3, NoFile
<1>5. TablesTyped'
  BY <1>1, <1>2, <1>4 DEF TablesTyped, Inv, Types
<1>6. \A b \in Artists : artist'[b] = artist[b] \/ (draftArtist[b] = None /\ LinkAgrees(artist'[b]))
  BY <1>1, <1>2 DEF Inv, Types, TablesTyped, ArtistFree
<1>7. \A s \in Songs :
         song'[s] = song[s] \/ /\ draftSong[s] = None /\ RowKeeps(song'[s])
                               /\ song'[s].status # "deferred_retry" /\ song'[s].unseen = {}
  BY <1>1, <1>4 DEF SongsFree
<1>8. \A s \in Songs : IF ArtistOf[s] = a THEN song'[s].status = "needs_review" ELSE song'[s] = song[s]
  BY <1>1, <1>4 DEF SongsOf
<1>9. \A b \in Artists : b # a => artist'[b] = artist[b]
  BY <1>1 DEF Inv, Types, TablesTyped
<1>10. HiddenWithItsArtist' /\ DeferredWithItsArtist'
  BY <1>8, <1>9, DataAssumption DEF Inv, TablesInv, HiddenWithItsArtist, DeferredWithItsArtist
<1>11. queue' \in Seq(Task)
  BY <1>1 DEF Inv, Types
<1> QED
  BY <1>1, <1>5, <1>6, <1>7, <1>10, <1>11, CuratorKeeps

\* A request about one song, to a row the curator decided.
LEMMA DecisionKeeps ==
  ASSUME Inv, NEW s \in Songs, NEW r \in SongRow, RowKeeps(r), draftSong[s] = None,
         r.status \in {"manual_matched", "manual_rejected"}, r.unseen = {},
         song' = [song EXCEPT ![s] = r], UNCHANGED <<artist, library, tag, watermark, changed, queue, job, draft>>
  PROVE  Inv'
<1>1. \A t \in Songs : song'[t] = IF t = s THEN r ELSE song[t]
  BY DEF Inv, Types, TablesTyped
<1>2. TablesTyped'
  BY DEF Inv, Types, TablesTyped
<1>3. HiddenWithItsArtist' /\ DeferredWithItsArtist'
  BY <1>1, DataAssumption DEF Inv, TablesInv, HiddenWithItsArtist, DeferredWithItsArtist
<1>4. \A t \in Songs :
         song'[t] = song[t] \/ /\ draftSong[t] = None /\ RowKeeps(song'[t])
                               /\ song'[t].status # "deferred_retry" /\ song'[t].unseen = {}
  BY <1>1
<1>5. \A a \in Artists : artist'[a] = artist[a] \/ (draftArtist[a] = None /\ LinkAgrees(artist'[a]))
  OBVIOUS
<1>6. queue' \in Seq(Task)
  BY DEF Inv, Types
<1> QED
  BY <1>2, <1>3, <1>4, <1>5, <1>6, CuratorKeeps

LEMMA MatchSongKeeps == ASSUME Inv, NEW s \in Songs, NEW f \in Files, MatchSong(s, f) PROVE Inv'
<1>1. song[s] \in SongRow /\ RowKeeps(song[s])
  BY DEF Inv, Types, TablesTyped, TablesInv, RowsInv
<1>2. "manual_matched" \in SongStatus
  BY DEF SongStatus, Matched
<1>3. PICK r \in SongRow : r = Verdict(song[s], "manual_matched", f)
  BY <1>1, <1>2, VerdictRow
<1>4. r.status = "manual_matched" /\ r.file = f /\ r.rejected = song[s].rejected /\ r.unseen = {}
  BY <1>1, <1>2, <1>3, VerdictRow
<1>5. RowKeeps(r)
  BY <1>1, <1>4, NoneAssumption DEF MatchSong, RowKeeps
<1>6. song' = [song EXCEPT ![s] = r]
  BY <1>3 DEF MatchSong
<1> QED
  BY <1>4, <1>5, <1>6, DecisionKeeps DEF MatchSong, SongsFree, rows, since

LEMMA RejectSongKeeps == ASSUME Inv, NEW s \in Songs, NEW f \in Files, RejectSong(s, f) PROVE Inv'
<1>1. song[s] \in SongRow /\ RowKeeps(song[s])
  BY DEF Inv, Types, TablesTyped, TablesInv, RowsInv
<1>2. PICK r \in SongRow : r = Parked(song[s], {f})
  BY <1>1, ParkedRow
<1>3. r.status = "manual_rejected" /\ r.file = None /\ r.rejected = song[s].rejected \cup {f} /\ r.unseen = {}
  BY <1>1, <1>2, ParkedRow
\* The page showed a file that has been indexed.
<1>4. library[f] # "none"
  <2>1. f = song[s].file \/ library[f] # "none"
    BY DEF RejectSong
  <2>2. f = song[s].file => Stored(f)
    BY <1>1, NoneAssumption DEF RowKeeps
  <2> QED
    BY <2>1, <2>2 DEF Stored
<1>5. RowKeeps(r)
  BY <1>1, <1>3, <1>4 DEF RowKeeps, Matched
<1>6. song' = [song EXCEPT ![s] = r]
  BY <1>2 DEF RejectSong
<1> QED
  BY <1>3, <1>5, <1>6, DecisionKeeps DEF RejectSong, SongsFree, rows, since

-----------------------------------------------------------------------------
(* The library: rows age with their artist's files, and keep a stored file. *)

LEMMA RowOutlivesFile ==
  ASSUME Types, NEW f \in Files, library[f] \in {"none", "there", "missing"},
         NEW to \in {"there", "missing"}, library' = [library EXCEPT ![f] = to],
         NEW r \in SongRow, RowKeeps(r)
  PROVE  RowKeeps(r)'
<1>1. \A g \in Files : library'[g] = IF g = f THEN to ELSE library[g]
  BY DEF Types, TablesTyped
<1>2. r.rejected \subseteq Files /\ r.file \in Files \cup {None}
  BY DEF SongRow
<1>3. \A g \in Files : /\ Stored(g) => Stored(g)'
                       /\ library[g] # "none" => library'[g] # "none" /\ (Stored(g)' => Stored(g))
  BY <1>1 DEF Stored
<1>4. r.file # None /\ Allowed(r.file, r.rejected) /\ (\A g \in r.rejected : library[g] # "none")
        => Allowed(r.file, r.rejected)'
  BY <1>2, <1>3 DEF Allowed
<1> QED
  BY <1>2, <1>3, <1>4 DEF RowKeeps

\* A row whose verdict has aged, or has less left to see, keeps what it kept.
LEMMA AgedRow ==
  ASSUME NEW r \in SongRow, RowKeeps(r)', NEW u \in SUBSET Files, u # {} => r.status \in SongUndecided
  PROVE  LET o == [r EXCEPT !.unseen = u]
         IN /\ o \in SongRow /\ o.unseen = u /\ RowKeeps(o)'
            /\ o.status = r.status /\ o.file = r.file /\ o.rejected = r.rejected /\ o.late = r.late
<1> DEFINE o == [r EXCEPT !.unseen = u]
<1>1. /\ o \in SongRow /\ o.unseen = u
      /\ o.status = r.status /\ o.file = r.file /\ o.rejected = r.rejected /\ o.late = r.late
  BY DEF SongRow
<1> HIDE DEF o
<1>2. PICK q \in SongRow : q = o
  BY <1>1
<1>3. RowKeeps(q)'
  BY <1>1, <1>2 DEF RowKeeps
<1>4. RowKeeps(o)'
  BY <1>2, <1>3 DEF RowKeeps, o
<1> QED
  BY <1>1, <1>4 DEF o

\* A scan finds a file or misses one: no transaction is open.
LEMMA ScanKeeps ==
  ASSUME Inv, job.step = "idle", NEW f \in Files, library[f] \in {"none", "there", "missing"},
         NEW to \in {"there", "missing"}, library' = [library EXCEPT ![f] = to],
         NEW a \in Artists \cup {None}, tag' = [tag EXCEPT ![f] = a], RowChanges(f, a)
  PROVE  Inv'
<1> DEFINE aged(s) == IF ArtistOf[s] = a THEN song[s].unseen \cup {f} ELSE song[s].unseen \ {f}
<1>1. /\ changed' = changed \cup {f} /\ UNCHANGED <<artist, watermark, queue, job, draftArtist, draftSong>>
      /\ song' = [s \in Songs |-> IF song[s].status \notin SongUndecided THEN song[s]
                                  ELSE [song[s] EXCEPT !.unseen = aged(s)]]
  BY DEF RowChanges, draft
<1>2. \A s \in Songs :
        /\ song'[s] \in SongRow /\ RowKeeps(song[s])'
        /\ song'[s].status = song[s].status /\ song'[s].file = song[s].file
        /\ song'[s].rejected = song[s].rejected
        /\ song'[s].unseen = IF song[s].status \in SongUndecided THEN aged(s) ELSE {}
  <2> TAKE s \in Songs
  <2>1. PICK r \in SongRow : r = song[s]
    BY DEF Inv, Types, TablesTyped
  <2>2. RowKeeps(r) /\ RowKeeps(r)'
    BY <2>1, RowOutlivesFile DEF Inv, TablesInv, RowsInv, RowKeeps
  <2>3. CASE song[s].status \in SongUndecided
    <3>1. PICK u \in SUBSET Files : u = aged(s)
      BY <2>1 DEF SongRow
    <3>2. PICK o \in SongRow : o = [r EXCEPT !.unseen = u]
      BY <2>1, <2>2, <2>3, AgedRow
    <3>3. /\ o.unseen = u /\ RowKeeps(o)'
          /\ o.status = r.status /\ o.file = r.file /\ o.rejected = r.rejected
      BY <2>1, <2>2, <2>3, <3>2, AgedRow DEF RowKeeps
    <3>4. song'[s] = o
      BY <1>1, <2>1, <2>3, <3>1, <3>2
    <3> QED
      BY <2>1, <2>3, <3>1, <3>3, <3>4 DEF RowKeeps
  <2>4. CASE song[s].status \notin SongUndecided
    <3>1. song'[s] = r
      BY <1>1, <2>1, <2>4
    <3> QED
      BY <2>1, <2>2, <2>4, <3>1 DEF RowKeeps
  <2> QED
    BY <2>3, <2>4
<1>3. Types'
  <2>1. song' \in [Songs -> SongRow]
    BY <1>1, <1>2
  <2> QED
    BY <1>1, <2>1 DEF Inv, Types, TablesTyped, SinceTyped, DraftTyped
<1>4. JobInv'
  BY <1>1, JobStays DEF Inv, draft
<1>5. TablesInv'
  <2>1. \A s \in Songs : ArtistOf[s] \in Artists
    BY DataAssumption
  <2>2. RowsInv'
    BY <1>2 DEF RowsInv
  <2>3. ArtistHasItsLink' /\ HiddenWithItsArtist' /\ DeferredWithItsArtist'
    BY <1>1, <1>2, <2>1 DEF Inv, TablesInv, ArtistHasItsLink, HiddenWithItsArtist, DeferredWithItsArtist
  <2> QED
    BY <2>2, <2>3 DEF TablesInv
<1>6. DraftInv'
  <2>1. draftArtist = NoArtists /\ draftSong = NoSongs
    BY NoDrafts DEF Inv
  <2> QED
    BY <1>1, <2>1, DraftsGone
<1>7. UnseenInv'
  <2> SUFFICES ASSUME NEW s \in Songs, NEW g \in song'[s].unseen
               PROVE  g \in changed' /\ tag'[g] = ArtistOf[s]
    BY DEF UnseenInv
  <2>1. g \in aged(s) /\ song'[s].unseen \subseteq Files
    BY <1>2 DEF SongRow
  <2>2. CASE g = f
    BY <1>1, <2>1, <2>2 DEF Inv, Types, TablesTyped
  <2>3. CASE g # f
    BY <1>1, <2>1, <2>3 DEF Inv, Types, TablesTyped, UnseenInv
  <2> QED
    BY <2>2, <2>3
<1>8. WaveInv'
  BY <1>1, NoWave
<1> QED
  BY <1>3, <1>4, <1>5, <1>6, <1>7, <1>8 DEF Inv

\* A row of another file keeps it, and fewer stored files bar fewer candidates.
LEMMA RowLosesFile ==
  ASSUME Types, NEW f \in Files, library[f] = "missing", library' = [library EXCEPT ![f] = "deleted"],
         NEW r \in SongRow, RowKeeps(r), r.file # f
  PROVE  RowKeeps(r)'
<1>1. \A g \in Files : library'[g] = IF g = f THEN "deleted" ELSE library[g]
  BY DEF Types, TablesTyped
<1>2. r.rejected \subseteq Files /\ r.file \in Files \cup {None}
  BY DEF SongRow
<1>3. \A g \in Files : /\ Stored(g)' => Stored(g) /\ g # f
                       /\ Stored(g) /\ g # f => Stored(g)'
                       /\ library[g] # "none" => library'[g] # "none"
  BY <1>1 DEF Stored
<1>4. r.file # None /\ Allowed(r.file, r.rejected) => Allowed(r.file, r.rejected)'
  BY <1>2, <1>3 DEF Allowed
<1> QED
  BY <1>2, <1>3, <1>4 DEF RowKeeps

\* What a deletion or a fold may do to a song; a drafted one only forgets the row.
SongLoses(s, f) ==
  /\ song'[s] \in SongRow /\ RowKeeps(song[s])'
  /\ song'[s].unseen \subseteq song[s].unseen \ {f}
  /\ song'[s].status = song[s].status \/ song'[s].status = "needs_review"
  /\ song'[s].status = "auto_rejected" /\ song'[s].file # None => song[s].file # None
  /\ draftSong[s] # None => song'[s].status = song[s].status /\ song'[s].rejected = song[s].rejected

LEMMA RowGoesKeeps ==
  ASSUME Inv, NEW f \in Files, library[f] = "missing", FileFree(f), RowGoes(f),
         song' \in [Songs -> SongRow], \A s \in Songs : SongLoses(s, f)
  PROVE  Inv'
<1>1. /\ library' = [library EXCEPT ![f] = "deleted"] /\ tag' = [tag EXCEPT ![f] = None]
      /\ changed' = changed \ {f} /\ UNCHANGED <<artist, watermark, queue, job, draftArtist, draftSong>>
  BY DEF RowGoes, draft
<1>2. Types' /\ JobInv'
  <2>1. JobInv'
    BY <1>1, JobStays DEF Inv, draft
  <2> QED
    BY <1>1, <2>1 DEF Inv, Types, TablesTyped, SinceTyped, DraftTyped
<1>3. TablesInv'
  <2>1. \A s \in Songs : ArtistOf[s] \in Artists
    BY DataAssumption
  <2>2. RowsInv'
    BY DEF SongLoses, RowsInv
  <2>3. ArtistHasItsLink' /\ HiddenWithItsArtist' /\ DeferredWithItsArtist'
    BY <1>1, <2>1 DEF SongLoses, Inv, TablesInv, ArtistHasItsLink, HiddenWithItsArtist, DeferredWithItsArtist
  <2> QED
    BY <2>2, <2>3 DEF TablesInv
<1>4. DraftInv'
  <2>1. DraftSongInv'
    <3> SUFFICES ASSUME NEW s \in Songs, draftSong[s] # None
        PROVE  /\ song'[s].status \in {"pending", "deferred_retry"}
               /\ draftSong[s].rejected = song'[s].rejected
               /\ RowKeeps(draftSong[s])'
               /\ draftSong[s].status \notin {"deferred_retry", "manual_matched", "manual_rejected"}
               /\ draftSong[s].status = "auto_rejected" => draftSong[s].file = None
               /\ job'.step = "artists" => draftSong[s].status = "pending"
               /\ draftSong[s].unseen = {}
      BY <1>1 DEF DraftSongInv, RowKeeps, Allowed, Stored
    <3>1. draftSong[s] \in SongRow /\ draftSong[s].file # f
      BY DEF FileFree, Inv, Types, DraftTyped
    <3>2. PICK r \in SongRow : r = draftSong[s]
      BY <3>1
    <3>3. RowKeeps(r)'
      BY <1>1, <3>1, <3>2, RowLosesFile DEF Inv, DraftInv, DraftSongInv
    <3>4. RowKeeps(draftSong[s])'
      BY <1>1, <3>2, <3>3 DEF RowKeeps
    <3> QED
      BY <1>1, <3>4 DEF Inv, DraftInv, DraftSongInv, SongLoses
  <2>2. DraftArtistInv' /\ DeferredInv'
    BY <1>1 DEF Inv, DraftInv, DraftArtistInv, DeferredInv, LinkAgrees, SeenArtist
  <2>3. WaitingInv'
    BY <1>1 DEF Inv, DraftInv, WaitingInv, SeenSong, SongLoses
  <2> QED
    BY <2>1, <2>2, <2>3 DEF DraftInv
<1>5. UnseenInv'
  <2>1. \A s \in Songs : song[s].unseen \subseteq Files
    BY DEF Inv, Types, TablesTyped, SongRow
  <2> QED
    BY <1>1, <2>1 DEF SongLoses, Inv, UnseenInv, Types, TablesTyped
<1>6. WaveInv'
  BY <1>1 DEF SongLoses, Inv, WaveInv
<1> QED
  BY <1>2, <1>3, <1>4, <1>5, <1>6 DEF Inv

\* A song of another file forgets what it had not seen of the row that went.
LEMMA SongForgets ==
  ASSUME Inv, NEW f \in Files, library[f] = "missing", RowGoes(f),
         NEW s \in Songs, song[s].file # f, song'[s] = [song[s] EXCEPT !.unseen = @ \ {f}]
  PROVE  SongLoses(s, f)
<1>1. PICK r \in SongRow : r = song[s]
  BY DEF Inv, Types, TablesTyped
<1>2. RowKeeps(r) /\ r.file # f
  BY <1>1 DEF Inv, TablesInv, RowsInv
<1>3. RowKeeps(r)'
  BY <1>2, RowLosesFile DEF Inv, RowGoes
<1>4. r.unseen \ {f} \in SUBSET Files /\ (r.unseen \ {f} # {} => r.status \in SongUndecided)
  BY <1>2 DEF SongRow, RowKeeps
<1>5. PICK o \in SongRow : o = [r EXCEPT !.unseen = r.unseen \ {f}]
  BY <1>3, <1>4, AgedRow
<1>6. /\ o.unseen = r.unseen \ {f} /\ RowKeeps(o)'
      /\ o.status = r.status /\ o.file = r.file /\ o.rejected = r.rejected
  BY <1>3, <1>4, <1>5, AgedRow DEF RowKeeps
<1>7. song'[s] = o
  BY <1>1, <1>5
<1> QED
  BY <1>1, <1>6, <1>7 DEF SongLoses, RowKeeps

LEMMA DeleteKeeps == ASSUME Inv, NEW f \in Files, DeleteMissing(f) PROVE Inv'
<1> DEFINE losing == {s \in Songs : song[s].file = f}
<1>1. /\ library[f] = "missing" /\ FileFree(f) /\ SongsFree(losing) /\ RowGoes(f)
      /\ song' = [s \in Songs |-> IF s \in losing THEN Verdict(song[s], "needs_review", None)
                                  ELSE [song[s] EXCEPT !.unseen = @ \ {f}]]
  BY DEF DeleteMissing
<1>2. "needs_review" \in SongStatus \ Matched
  BY DEF SongStatus, Matched, SongUndecided
<1>3. ASSUME NEW s \in Songs PROVE SongLoses(s, f)
  <2>1. CASE s \in losing
    <3>1. PICK v \in SongRow : v = Verdict(song[s], "needs_review", None)
      BY <1>2, NoFile
    <3>2. RowKeeps(v) /\ v.status = "needs_review" /\ v.file = None /\ v.unseen = {}
      BY <1>2, <3>1, NoFile
    <3>3. RowKeeps(v)'
      BY <1>1, <3>2, NoneAssumption, RowLosesFile DEF Inv, RowGoes
    <3>4. song'[s] = v /\ draftSong[s] = None
      BY <1>1, <2>1, <3>1 DEF SongsFree
    <3> QED
      BY <3>2, <3>3, <3>4 DEF SongLoses, RowKeeps
  <2>2. CASE s \notin losing
    BY <1>1, <2>2, SongForgets
  <2> QED
    BY <2>1, <2>2
<1>4. song' \in [Songs -> SongRow]
  BY <1>1, <1>3 DEF SongLoses
<1> QED
  BY <1>1, <1>3, <1>4, RowGoesKeeps

\* A row carried to the present file: it has a stored file, and is excused when that one is barred.
LEMMA SongCarried ==
  ASSUME Inv, NEW f \in Files, NEW g \in Files, library[f] = "missing", library[g] = "there", RowGoes(f),
         NEW s \in Songs, song'[s] = Carried(song[s], f, g), draftSong[s] = None
  PROVE  SongLoses(s, f)
<1>1. PICK r \in SongRow : r = song[s]
  BY DEF Inv, Types, TablesTyped
<1>2. PICK c : c = Carried(r, f, g)
  OBVIOUS
<1>3. RowKeeps(r) /\ song'[s] = c
  BY <1>1, <1>2 DEF Inv, TablesInv, RowsInv
<1>4. \A h \in Files : library'[h] = IF h = f THEN "deleted" ELSE library[h]
  BY DEF RowGoes, Inv, Types, TablesTyped
<1>5. PICK file \in Files \cup {None} : file = IF r.file = f THEN g ELSE r.file
  BY DEF SongRow
<1>6. PICK rejected \in SUBSET Files :
        rejected = IF f \in r.rejected THEN (r.rejected \ {f}) \cup {g} ELSE r.rejected
  BY DEF SongRow
<1>7. PICK late \in BOOLEAN : late = (r.late \/ (file # None /\ ~Allowed(file, rejected)))
  BY DEF SongRow
<1>8. /\ c \in SongRow /\ c.status = r.status /\ c.file = file /\ c.rejected = rejected
      /\ c.unseen = r.unseen \ {f} /\ c.late = late
  <2>1. c = [r EXCEPT !.file = file, !.rejected = rejected, !.unseen = r.unseen \ {f}, !.late = late]
    BY <1>2, <1>5, <1>6, <1>7 DEF Carried
  <2> QED
    BY <2>1 DEF SongRow
<1>9. /\ file # None => Stored(file)'
      /\ \A h \in rejected : library'[h] # "none"
      /\ file = None <=> r.file = None
  BY <1>3, <1>4, <1>5, <1>6, NoneAssumption DEF RowKeeps, Stored, SongRow
\* What the present file is barred by now, it was barred by before.
<1>10. file # None /\ Allowed(file, rejected) => Allowed(file, rejected)'
  BY <1>4, <1>5, <1>6 DEF Allowed, Stored
<1>11. ~late => file = None \/ Allowed(file, rejected)
  BY <1>7
<1>12. RowKeeps(c)'
  <2>1. c.file # None /\ ~c.late => Allowed(c.file, c.rejected)'
    BY <1>8, <1>10, <1>11 DEF Allowed, Stored
  <2> QED
    BY <1>3, <1>8, <1>9, <2>1 DEF RowKeeps, Stored
<1> QED
  BY <1>1, <1>3, <1>8, <1>9, <1>12 DEF SongLoses, RowKeeps

LEMMA FoldKeeps == ASSUME Inv, NEW f \in Files, NEW g \in Files, Fold(f, g) PROVE Inv'
<1> DEFINE touched == {s \in Songs : song[s].file = f \/ f \in song[s].rejected}
<1>1. /\ library[f] = "missing" /\ library[g] = "there" /\ FileFree(f) /\ SongsFree(touched) /\ RowGoes(f)
      /\ song' = [s \in Songs |-> IF s \in touched THEN Carried(song[s], f, g)
                                  ELSE [song[s] EXCEPT !.unseen = @ \ {f}]]
  BY DEF Fold
<1>2. ASSUME NEW s \in Songs PROVE SongLoses(s, f)
  <2>1. CASE s \in touched
    <3>1. song'[s] = Carried(song[s], f, g) /\ draftSong[s] = None
      BY <1>1, <2>1 DEF SongsFree
    <3> QED
      BY <1>1, <3>1, SongCarried
  <2>2. CASE s \notin touched
    BY <1>1, <2>2, SongForgets
  <2> QED
    BY <2>1, <2>2
<1>3. song' \in [Songs -> SongRow]
  BY <1>1, <1>2 DEF SongLoses
<1> QED
  BY <1>1, <1>2, <1>3, RowGoesKeeps

LEMMA LibraryKeeps == ASSUME Inv, Library PROVE Inv'
<1>1. ASSUME NEW f \in Files, NEW a \in Artists \cup {None}, ScanFinds(f, a) PROVE Inv'
  <2>1. library[f] \in {"none", "there", "missing"}
    BY <1>1 DEF ScanFinds, Inv, Types, TablesTyped
  <2> QED
    BY <1>1, <2>1, ScanKeeps DEF ScanFinds
<1>2. ASSUME NEW f \in Files, ScanMisses(f) PROVE Inv'
  <2>1. tag' = [tag EXCEPT ![f] = tag[f]] /\ tag[f] \in Artists \cup {None}
    BY <1>2 DEF ScanMisses, Inv, Types, TablesTyped
  <2> QED
    BY <1>2, <2>1, ScanKeeps DEF ScanMisses
<1> QED
  BY <1>1, <1>2, DeleteKeeps, FoldKeeps DEF Library

-----------------------------------------------------------------------------
(* The worker: drafts that keep the promises, and the commits that merge them. *)

\* A step that writes no table: what they agree on stays, and what the wave reads is told anew.
LEMMA TablesUntouched ==
  ASSUME Inv, UNCHANGED <<artist, song, library, tag>>, queue' \in Seq(Task), job' \in Jobs,
         SinceTyped', DraftTyped', JobInv', DraftInv', UnseenInv', WaveInv'
  PROVE  Inv'
  BY TablesStay DEF Inv, Types

LEMMA UnseenStays ==
  ASSUME UnseenInv, UNCHANGED <<song, tag, changed>>
  PROVE  UnseenInv'
  BY DEF UnseenInv

\* The worker drops what it holds, or goes on outside a transaction.
LEMMA OutsideKeeps ==
  ASSUME Inv, UNCHANGED <<tables, library, tag, watermark, changed>>, queue' \in Seq(Task), job' \in Jobs,
         NEW step \in {"idle", "fan_out", "hand_on"}, JobIs(step),
         draftArtist' = NoArtists, draftSong' = NoSongs,
         step = "fan_out" => job'.todo \subseteq Playlists,
         step = "hand_on" => job'.playlist \in Playlists
  PROVE  Inv'
<1>1. JobInv' /\ DraftTyped'
  BY OutsideJob
<1>2. DraftInv'
  BY DraftsGone DEF JobIs
<1>3. UnseenInv' /\ WaveInv'
  BY UnseenStays, NoWave DEF Inv, JobIs, tables, rows, since
<1> QED
  BY <1>1, <1>2, <1>3, TablesUntouched DEF tables, rows, since, Inv, Types, SinceTyped

LEMMA RequestKeeps == ASSUME Inv, NEW scope \in {"all", "changed"}, RequestRecheck(scope) PROVE Inv'
<1>1. queue' \in Seq(Task)
  <2>1. [task |-> "recheck", scope |-> scope] \in Task
    BY DEF Task, Recheck
  <2> QED
    BY <2>1 DEF RequestRecheck
<1>2. JobInv' /\ UnseenInv' /\ WaveInv'
  BY JobStays, WaveStays DEF Inv, RequestRecheck, tables, rows, since
<1>3. DraftInv'
  BY DraftsStay DEF RequestRecheck, tables, rows, since, Inv
<1> QED
  BY <1>1, <1>2, <1>3, TablesUntouched
     DEF RequestRecheck, tables, rows, since, draft, Inv, Types, SinceTyped, DraftTyped

LEMMA StartRecheckKeeps == ASSUME Inv, StartRecheck PROVE Inv'
<1> DEFINE scope == IF Head(queue).scope = "all" THEN Artists ELSE Wave
<1>1. /\ UNCHANGED <<artist, song, library, tag, watermark, changed, draft>>
      /\ job' = [Idle EXCEPT !.step = "rewind", !.wave = scope] /\ Begin("recheck")
  BY DEF StartRecheck, tables, rows, since
<1>2. scope \subseteq Artists /\ \A s \in Songs : song[s].unseen # {} => ArtistOf[s] \in scope
  <2>1. scope \subseteq Artists
    BY DEF Wave, Inv, Types, TablesTyped, SinceTyped
  <2>2. ASSUME NEW s \in Songs, song[s].unseen # {} PROVE ArtistOf[s] \in scope
    <3>1. ArtistOf[s] \in Artists /\ ArtistOf[s] \in Wave
      BY <2>2, UnseenNamed DEF Inv
    <3> QED
      BY <3>1
  <2> QED
    BY <2>1, <2>2
<1> HIDE DEF scope
<1>3. job' \in Jobs /\ JobIs("rewind") /\ job'.wave = scope
  BY <1>1, <1>2, IdleJob DEF Jobs, JobIs
<1>4. queue' \in Seq(Task) /\ job.step = "idle"
  BY <1>1, Begun DEF Inv
<1>5. draftArtist' = NoArtists /\ draftSong' = NoSongs
  BY <1>1, <1>4, NoDrafts DEF Inv, draft
<1>6. JobInv' /\ DraftTyped'
  BY <1>3, <1>5, OutsideJob
<1>7. DraftInv'
  BY <1>3, <1>5, DraftsGone DEF JobIs
<1>8. UnseenInv' /\ WaveInv'
  BY <1>1, <1>2, <1>3, UnseenStays DEF Inv, WaveInv, JobIs
<1> QED
  BY <1>1, <1>3, <1>4, <1>6, <1>7, <1>8, TablesUntouched DEF Inv, Types, SinceTyped

LEMMA RewindArtistsKeeps == ASSUME Inv, RewindArtists PROVE Inv'
<1> DEFINE Again(a) == [artist[a] EXCEPT !.status = "pending"]
           taken(a) == a \in job.wave /\ artist[a].status \in ArtistUndecided
<1>1. /\ UNCHANGED <<artist, song, library, tag, watermark, changed, queue, draftSong>> /\ job.step = "rewind"
      /\ draftArtist' = [a \in Artists |-> IF taken(a) THEN Again(a) ELSE None]
      /\ job' = [job EXCEPT !.step = "rewound"]
  BY DEF RewindArtists, tables, rows, since
<1>2. \A a \in Artists : /\ Again(a) \in ArtistRow /\ Again(a).status = "pending"
                         /\ Again(a).linked = artist[a].linked
  BY DEF Inv, Types, TablesTyped, ArtistRow, ArtistStatus
<1>3. job' \in Jobs /\ job'.step = "rewound" /\ job'.memo = job.memo /\ job'.wave = job.wave
  BY <1>1 DEF Inv, Types, Jobs
<1> HIDE DEF Again
<1>4. DraftTyped'
  BY <1>1, <1>2 DEF Inv, Types, DraftTyped
<1>5. draftSong' = NoSongs /\ job'.memo = None
  BY <1>1, <1>3 DEF Inv, JobInv
<1>6. JobInv'
  BY <1>3, <1>5 DEF JobInv
<1>7. DraftInv'
  <2>1. \A a \in Artists : taken(a) => LinkAgrees(Again(a))
    BY <1>2 DEF Inv, TablesInv, ArtistHasItsLink, LinkAgrees, Matched, ArtistUndecided
  <2>2. \A a \in Artists : draftArtist'[a] # None => taken(a) /\ draftArtist'[a] = Again(a)
    BY <1>1
  <2>3. DraftArtistInv'
    BY <1>1, <1>3, <2>1, <2>2 DEF DraftArtistInv, LinkAgrees
  <2>4. DraftSongInv' /\ DeferredInv' /\ WaitingInv'
    BY <1>3, <1>5, NoDraftsTyped DEF DraftSongInv, DeferredInv, WaitingInv
  <2> QED
    BY <2>3, <2>4 DEF DraftInv
<1>8. UnseenInv' /\ WaveInv'
  BY <1>1, <1>3, UnseenStays DEF Inv, WaveInv
<1> QED
  BY <1>1, <1>3, <1>4, <1>6, <1>7, <1>8, TablesUntouched DEF Inv, Types, SinceTyped

LEMMA RewindSongsKeeps == ASSUME Inv, RewindSongs PROVE Inv'
<1>1. /\ UNCHANGED <<library, tag, watermark, changed, queue, draftSong>> /\ job.step = "rewound"
      /\ artist' = [a \in Artists |-> SeenArtist(a)]
      /\ song' = [s \in Songs |-> IF Rewindable(s) THEN Rewound(song[s]) ELSE song[s]]
      /\ draftArtist' = NoArtists
      /\ job' = [Idle EXCEPT !.step = "complete"]
  BY DEF RewindSongs, rows, since
<1>2. job' \in Jobs /\ JobIs("complete")
  BY <1>1, IdleJob DEF Jobs, JobIs
<1>3. draftSong' = NoSongs
  BY <1>1 DEF Inv, JobInv
<1>4. \A s \in Songs :
        /\ song[s] \in SongRow /\ song'[s] \in SongRow
        /\ song'[s].file = song[s].file /\ song'[s].rejected = song[s].rejected
        /\ song'[s].late = song[s].late
        /\ IF Rewindable(s) THEN song'[s].status = "pending" /\ song'[s].unseen = {}
                            ELSE song'[s] = song[s]
  BY <1>1, RewoundRow DEF Inv, Types, TablesTyped
<1>5. \A a \in Artists :
        \/ artist'[a] = artist[a]
        \/ /\ artist'[a] = draftArtist[a] /\ artist[a].status \in ArtistUndecided \cup {"pending"}
           /\ LinkAgrees(artist'[a]) /\ a \in job.wave
  BY <1>1 DEF SeenArtist, Inv, DraftInv, DraftArtistInv
<1>6. TablesTyped'
  <2>1. artist' \in [Artists -> ArtistRow]
    BY <1>1, SeenRows DEF Inv
  <2>2. song' \in [Songs -> SongRow]
    BY <1>1, <1>4
  <2> QED
    BY <1>1, <2>1, <2>2 DEF Inv, Types, TablesTyped
<1>7. TablesInv'
  <2>0. \A s \in Songs : ArtistOf[s] \in Artists
    BY DataAssumption
  <2>1. RowsInv'
    <3> SUFFICES ASSUME NEW s \in Songs PROVE RowKeeps(song[s])'
      BY DEF RowsInv
    <3>1. RowKeeps(song[s]) /\ (Rewindable(s) => song[s].status \in SongUndecided)
      BY DEF Inv, TablesInv, RowsInv, Rewindable, SongUndecided
    <3>2. song'[s].status = song[s].status \/ song'[s].status = "pending"
      BY <1>4
    <3>3. song'[s].status = "pending" => song[s].status # "manual_matched"
      BY <1>4, <3>1 DEF SongUndecided
    <3> QED
      BY <1>1, <1>4, <3>1, <3>2, <3>3 DEF RowKeeps, Allowed, Stored, Matched
  <2>2. ArtistHasItsLink'
    BY <1>5 DEF Inv, TablesInv, ArtistHasItsLink, LinkAgrees
  <2>3. HiddenWithItsArtist'
    BY <1>4, <1>5, <2>0 DEF Inv, TablesInv, HiddenWithItsArtist, ArtistUndecided
  <2>4. DeferredWithItsArtist'
    BY <1>4, <1>5, <2>0 DEF Inv, TablesInv, DeferredWithItsArtist, Rewindable, SongUndecided
  <2> QED
    BY <2>1, <2>2, <2>3, <2>4 DEF TablesInv
<1>8. JobInv' /\ DraftTyped'
  BY <1>1, <1>2, <1>3, OutsideJob
<1>9. DraftInv'
  BY <1>1, <1>2, <1>3, DraftsGone DEF JobIs
<1>10. UnseenInv' /\ WaveInv'
  <2>1. \A s \in Songs : song'[s].unseen = {}
    BY <1>1, <1>4 DEF Inv, TablesInv, RowsInv, RowKeeps, WaveInv, Rewindable
  <2> QED
    BY <1>2, <2>1 DEF UnseenInv, WaveInv, JobIs
<1> QED
  BY <1>1, <1>2, <1>6, <1>7, <1>8, <1>9, <1>10 DEF Inv, Types, SinceTyped

LEMMA FanningOutJob ==
  ASSUME NEW ps \in SUBSET Playlists, job' = FanningOut(ps)
  PROVE  /\ job' \in Jobs
         /\ JobIs("idle") \/ (JobIs("fan_out") /\ job'.todo \subseteq Playlists)
<1>1. CASE ps = {}
  BY <1>1, IdleJob DEF FanningOut, JobIs
<1>2. CASE ps # {}
  BY <1>2, IdleJob DEF FanningOut, JobIs, Jobs
<1> QED
  BY <1>1, <1>2

LEMMA CompleteKeeps == ASSUME Inv, CompleteRecheck PROVE Inv'
<1>1. /\ UNCHANGED <<artist, song, library, tag, queue, draftArtist, draftSong>> /\ job.step = "complete"
      /\ watermark' = TRUE /\ changed' = {} /\ job' = FanningOut(PlaylistsPending)
  BY DEF CompleteRecheck, tables, rows, draft
<1>2. PICK step \in {"idle", "fan_out"} :
        /\ job' \in Jobs /\ JobIs(step) /\ (step = "fan_out" => job'.todo \subseteq Playlists)
  BY <1>1, FanningOutJob DEF PlaylistsPending
<1>3. draftArtist' = NoArtists /\ draftSong' = NoSongs
  BY <1>1, NoDrafts DEF Inv
<1>4. JobInv' /\ DraftTyped' /\ DraftInv'
  BY <1>2, <1>3, OutsideJob, DraftsGone DEF JobIs
<1>5. UnseenInv' /\ WaveInv'
  BY <1>1, <1>2, NoWave DEF Inv, WaveInv, UnseenInv, JobIs
<1> QED
  BY <1>1, <1>2, <1>4, <1>5, TablesUntouched DEF Inv, Types, SinceTyped

LEMMA FanOutKeeps == ASSUME Inv, NEW p \in Playlists, FanOut(p) PROVE Inv'
<1>1. /\ UNCHANGED <<tables, library, tag, watermark, changed, draft>> /\ job.step = "fan_out"
      /\ job' = FanningOut(job.todo \ {p}) /\ job.todo \subseteq Playlists
  BY DEF FanOut, rows, since, Inv, JobInv
<1>2. PICK step \in {"idle", "fan_out"} :
        /\ job' \in Jobs /\ JobIs(step) /\ (step = "fan_out" => job'.todo \subseteq Playlists)
  BY <1>1, FanningOutJob
<1>3. draftArtist' = NoArtists /\ draftSong' = NoSongs
  BY <1>1, NoDrafts DEF Inv, draft
<1>4. queue' \in Seq(Task)
  BY Queued DEF FanOut, Inv, Types
<1> QED
  BY <1>1, <1>2, <1>3, <1>4, OutsideKeeps

LEMMA HandOnKeeps == ASSUME Inv, HandOn PROVE Inv'
<1>1. UNCHANGED <<tables, library, tag, watermark, changed, draft>> /\ job.step = "hand_on" /\ job' = Idle
  BY DEF HandOn, rows, since
<1>2. queue' \in Seq(Task)
  BY Queued DEF HandOn, Inv, Types, JobInv
<1>3. draftArtist' = NoArtists /\ draftSong' = NoSongs
  BY <1>1, NoDrafts DEF Inv, draft
<1>4. JobIs("idle") /\ job' \in Jobs
  BY <1>1, IdleJob DEF JobIs
<1> QED
  BY <1>1, <1>2, <1>3, <1>4, OutsideKeeps

LEMMA DiesKeeps == ASSUME Inv, TaskDies PROVE Inv'
<1>1. JobIs("idle") /\ job' \in Jobs
  BY IdleJob DEF JobIs, TaskDies
<1>2. queue' \in Seq(Task)
  BY DEF TaskDies, Inv, Types
<1> QED
  BY <1>1, <1>2, OutsideKeeps DEF TaskDies, SinceCompleted, tables, rows

LEMMA StartArtistsKeeps == ASSUME Inv, StartArtists PROVE Inv'
<1> DEFINE p == Head(queue).playlist
           again == {a \in ArtistsIn(p) : artist[a].status = "deferred_retry"}
           todo == again \cup {a \in ArtistsIn(p) : artist[a].status = "pending"}
           Again(a) == [artist[a] EXCEPT !.status = "pending"]
           taken(s) == ArtistOf[s] \in again /\ song[s].status = "deferred_retry"
<1>1. /\ UNCHANGED <<artist, song, library, tag, watermark, changed>> /\ Begin("artists")
      /\ draftArtist' = [a \in Artists |-> IF a \in again THEN Again(a) ELSE None]
      /\ draftSong' = [s \in Songs |-> IF taken(s) THEN Rewound(song[s]) ELSE None]
      /\ job' = [Idle EXCEPT !.step = "artists", !.playlist = p, !.todo = todo]
  BY DEF StartArtists, tables, rows, since
<1>2. queue' \in Seq(Task) /\ p \in Playlists
  BY <1>1, Begun DEF Inv
<1>3. again \subseteq Artists /\ todo \subseteq Artists
  BY <1>2, DataAssumption DEF ArtistsIn
<1>4. \A a \in Artists : /\ Again(a) \in ArtistRow /\ Again(a).status = "pending"
                         /\ Again(a).linked = artist[a].linked
  BY DEF Inv, Types, TablesTyped, ArtistRow, ArtistStatus
<1>5. \A s \in Songs :
        /\ song[s] \in SongRow /\ Rewound(song[s]) \in SongRow
        /\ Rewound(song[s]).status = "pending" /\ Rewound(song[s]).file = song[s].file
        /\ Rewound(song[s]).rejected = song[s].rejected /\ Rewound(song[s]).unseen = {}
  BY RewoundRow DEF Inv, Types, TablesTyped
<1>6. \A s \in Songs : taken(s) => song[s].file = None
  BY DEF Inv, TablesInv, RowsInv, RowKeeps
<1> HIDE DEF Again, p, todo
<1>7. /\ job' \in Jobs /\ job'.step = "artists" /\ job'.playlist = p /\ job'.todo = todo
      /\ job'.deferred = {} /\ job'.memo = None
  BY <1>1, <1>2, <1>3, IdleJob DEF Jobs, Idle
<1>8. DraftTyped'
  BY <1>1, <1>4, <1>5 DEF DraftTyped
<1>9. JobInv'
  BY <1>2, <1>3, <1>7 DEF JobInv
<1>10. \A a \in Artists : draftArtist'[a] # None => a \in again /\ draftArtist'[a] = Again(a)
  BY <1>1
<1>11. \A s \in Songs : draftSong'[s] # None => taken(s) /\ draftSong'[s] = Rewound(song[s])
  BY <1>1
<1>12. DraftSongInv'
  <2> SUFFICES ASSUME NEW s \in Songs, draftSong'[s] # None
      PROVE  /\ song'[s].status \in {"pending", "deferred_retry"}
             /\ draftSong'[s].rejected = song'[s].rejected
             /\ RowKeeps(draftSong[s])'
             /\ draftSong'[s].status = "pending" /\ draftSong'[s].unseen = {}
    BY DEF DraftSongInv
  <2>1. taken(s) /\ draftSong'[s] = Rewound(song[s])
    BY <1>11
  <2>2. RowKeeps(song[s]) /\ song[s].file = None
    BY <1>6, <2>1 DEF Inv, TablesInv, RowsInv
  <2>3. RowKeeps(draftSong[s])'
    BY <1>1, <1>5, <2>1, <2>2 DEF RowKeeps, Matched
  <2> QED
    BY <1>1, <1>5, <2>1, <2>3
<1>13. DraftArtistInv'
  <2>1. \A a \in Artists : a \in again => LinkAgrees(Again(a)) /\ artist[a].status = "deferred_retry"
    BY <1>4 DEF Inv, TablesInv, ArtistHasItsLink, LinkAgrees, Matched, ArtistUndecided
  <2> QED
    BY <1>1, <1>7, <1>10, <2>1 DEF DraftArtistInv, LinkAgrees, ArtistUndecided
<1>14. DeferredInv' /\ WaitingInv'
  <2>1. \A s \in Songs : draftArtist'[ArtistOf[s]] # None => SeenSong(s)'.status # "deferred_retry"
    <3> TAKE s \in Songs
    <3>1. ArtistOf[s] \in Artists
      BY DataAssumption
    <3> QED
      BY <1>1, <1>5, <1>10, <3>1, RowsAssumption DEF SeenSong
  <2> QED
    BY <1>7, <2>1 DEF DeferredInv, WaitingInv
<1>15. UnseenInv' /\ WaveInv'
  BY <1>1, <1>7, UnseenStays, NoWave DEF Inv
<1> QED
  BY <1>1, <1>2, <1>7, <1>8, <1>9, <1>12, <1>13, <1>14, <1>15, TablesUntouched
     DEF DraftInv, Inv, Types, SinceTyped

LEMMA DecideArtistKeeps ==
  ASSUME Inv, NEW a \in Artists, NEW result \in {"auto_matched", "needs_review", "deferred_retry"},
         DecideArtist(a, result)
  PROVE  Inv'
<1> DEFINE written == SeenArtist(a).status = "pending"
           decided == [status |-> result, linked |-> SeenArtist(a).linked \/ result = "auto_matched"]
           deferred == IF written /\ result = "deferred_retry" THEN job.deferred \cup {a} ELSE job.deferred
<1>1. /\ UNCHANGED <<artist, song, library, tag, watermark, changed, queue, draftSong>>
      /\ job.step = "artists" /\ a \in job.todo
      /\ draftArtist' = IF written THEN [draftArtist EXCEPT ![a] = decided] ELSE draftArtist
  BY DEF DecideArtist, tables, rows, since
<1>2. /\ job' \in Jobs /\ job'.step = "artists" /\ job'.playlist = job.playlist
      /\ job'.todo = job.todo \ {a} /\ job'.deferred = deferred /\ job'.memo = job.memo
  <2>1. job' = IF written THEN [job EXCEPT !.todo = job.todo \ {a}, !.deferred = deferred]
               ELSE [job EXCEPT !.todo = job.todo \ {a}]
    BY <1>1 DEF DecideArtist
  <2>2. /\ job \in Jobs /\ deferred \in SUBSET Artists
        /\ job.todo \ {a} \in SUBSET (Artists \cup Songs \cup Playlists)
    BY DEF Inv, Types, Jobs
  <2>3. ~written => deferred = job.deferred
    OBVIOUS
  <2> HIDE DEF written, deferred
  <2> QED
    BY <1>1, <2>1, <2>2, <2>3 DEF Jobs
<1>3. SeenArtist(a) \in ArtistRow
  BY SeenRows DEF Inv
<1>4. decided \in ArtistRow /\ decided.status = result
  BY <1>3 DEF ArtistRow, ArtistStatus, ArtistUndecided, Matched
<1>5. written => LinkAgrees(decided)
  <2>1. LinkAgrees(SeenArtist(a))
    BY DEF SeenArtist, Inv, TablesInv, ArtistHasItsLink, DraftInv, DraftArtistInv, LinkAgrees
  <2> QED
    BY <1>3, <2>1 DEF LinkAgrees, Matched, ArtistUndecided, ArtistRow
<1>6. \A b \in Artists : draftArtist'[b] = IF b = a /\ written THEN decided ELSE draftArtist[b]
  BY <1>1 DEF Inv, Types, DraftTyped
<1>7. decided # None
  BY <1>4, RowsAssumption
<1> HIDE DEF decided
<1>8. DraftTyped' /\ JobInv'
  <2>1. DraftTyped'
    BY <1>1, <1>4 DEF Inv, Types, DraftTyped
  <2> QED
    BY <1>1, <1>2, <2>1 DEF Inv, JobInv
<1>9. DraftSongInv'
  BY <1>1, <1>2 DEF Inv, DraftInv, DraftSongInv, RowKeeps, Allowed, Stored
<1>10. DraftArtistInv'
  <2>1. written => artist[a].status \in ArtistUndecided \cup {"pending"}
    BY DEF SeenArtist, Inv, DraftInv, DraftArtistInv
  <2> QED
    BY <1>1, <1>2, <1>5, <1>6, <2>1 DEF Inv, DraftInv, DraftArtistInv, LinkAgrees
<1>11. DeferredInv'
  <2> SUFFICES ASSUME NEW b \in deferred
               PROVE  /\ b \notin job'.todo /\ draftArtist'[b] # None
                      /\ SeenArtist(b)'.status = "deferred_retry"
    BY <1>2 DEF DeferredInv
  <2>1. b \in Artists
    BY <1>2 DEF Jobs
  <2>2. CASE b = a /\ written
    <3>1. result = "deferred_retry"
      BY <1>1, <2>2 DEF Inv, DraftInv, DeferredInv
    <3> QED
      BY <1>2, <1>4, <1>6, <1>7, <2>1, <2>2, <3>1 DEF SeenArtist
  <2>3. CASE ~(b = a /\ written)
    <3>1. b \in job.deferred
      BY <2>3
    <3>2. b \notin job.todo /\ draftArtist[b] # None /\ SeenArtist(b).status = "deferred_retry"
      BY <1>1, <3>1 DEF Inv, DraftInv, DeferredInv
    <3> QED
      BY <1>1, <1>2, <1>6, <2>1, <2>3, <3>2 DEF SeenArtist
  <2> QED
    BY <2>2, <2>3
<1>12. WaitingInv'
  <2>1. \A s \in Songs : SeenSong(s)' = SeenSong(s)
    BY <1>1 DEF SeenSong
  <2>2. \A s \in Songs : ArtistOf[s] = a /\ written => SeenSong(s).status # "deferred_retry"
    <3> SUFFICES ASSUME NEW s \in Songs, ArtistOf[s] = a, written, draftSong[s] = None, draftArtist[a] = None
                 PROVE  song[s].status # "deferred_retry"
      BY <1>1 DEF SeenSong, Inv, DraftInv, DraftSongInv, WaitingInv
    <3> QED
      BY DEF SeenArtist, Inv, TablesInv, DeferredWithItsArtist
  <2>3. \A s \in Songs : ArtistOf[s] \in Artists
    BY DataAssumption
  <2> QED
    BY <1>1, <1>6, <2>1, <2>2, <2>3 DEF Inv, DraftInv, WaitingInv
<1>13. UnseenInv' /\ WaveInv'
  BY <1>1, <1>2, UnseenStays, NoWave DEF Inv
<1> QED
  BY <1>1, <1>2, <1>8, <1>9, <1>10, <1>11, <1>12, <1>13, TablesUntouched
     DEF DraftInv, Inv, Types, SinceTyped

LEMMA CommitArtistsKeeps == ASSUME Inv, CommitArtists PROVE Inv'
<1> DEFINE parked(s) == ArtistOf[s] \in job.deferred /\ SeenSong(s).status = "pending"
<1>0. \A s \in Songs : ArtistOf[s] \in Artists
  BY DataAssumption
<1>1. /\ UNCHANGED <<library, tag, watermark, changed, queue>> /\ job.step = "artists"
      /\ artist' = [a \in Artists |-> SeenArtist(a)]
      /\ song' = [s \in Songs |->
           IF parked(s) THEN Verdict(SeenSong(s), "deferred_retry", None) ELSE SeenSong(s)]
      /\ draftArtist' = NoArtists /\ draftSong' = NoSongs
      /\ job' = [Idle EXCEPT !.step = "hand_on", !.playlist = job.playlist]
  BY DEF CommitArtists, Deferred, rows, since
<1>2. job' \in Jobs /\ JobIs("hand_on") /\ job'.playlist \in Playlists
  BY <1>1, IdleJob DEF Inv, JobInv, Jobs, JobIs
<1>3. \A s \in Songs : /\ SeenSong(s) \in SongRow /\ RowKeeps(SeenSong(s))
                       /\ SeenSong(s).unseen \subseteq song[s].unseen
  BY SeenRows DEF SeenSong, Inv, TablesInv, RowsInv, DraftInv, DraftSongInv
<1>4. "deferred_retry" \in SongStatus
  BY DEF SongStatus, SongUndecided
<1>5. \A s \in Songs :
        IF parked(s)
          THEN /\ song'[s] \in SongRow /\ song'[s].status = "deferred_retry" /\ song'[s].file = None
               /\ song'[s].rejected = SeenSong(s).rejected /\ song'[s].unseen = {}
          ELSE song'[s] = SeenSong(s)
  BY <1>1, <1>3, <1>4, VerdictRow
<1>6. TablesTyped'
  <2>1. artist' \in [Artists -> ArtistRow]
    BY <1>1, SeenRows DEF Inv
  <2>2. song' \in [Songs -> SongRow]
    BY <1>1, <1>3, <1>5
  <2> QED
    BY <1>1, <2>1, <2>2 DEF Inv, Types, TablesTyped
<1>7. TablesInv'
  <2>1. RowsInv'
    <3> SUFFICES ASSUME NEW s \in Songs PROVE RowKeeps(song[s])'
      BY DEF RowsInv
    <3>1. CASE parked(s)
      BY <1>1, <1>3, <1>5, <3>1 DEF RowKeeps, Matched
    <3>2. CASE ~parked(s)
      BY <1>1, <1>3, <1>5, <3>2 DEF RowKeeps, Allowed, Stored
    <3> QED
      BY <3>1, <3>2
  <2>2. ArtistHasItsLink'
    BY <1>1 DEF SeenArtist, Inv, TablesInv, ArtistHasItsLink, DraftInv, DraftArtistInv, LinkAgrees
  <2>3. HiddenWithItsArtist'
    <3> SUFFICES ASSUME NEW s \in Songs, song'[s].status = "auto_rejected", song'[s].file # None
                 PROVE  artist'[ArtistOf[s]].status = "manual_rejected"
      BY DEF HiddenWithItsArtist
    <3>1. SeenSong(s) = song[s] /\ song'[s] = song[s]
      BY <1>5 DEF SeenSong, Inv, DraftInv, DraftSongInv
    <3>2. artist[ArtistOf[s]].status = "manual_rejected"
      BY <3>1 DEF Inv, TablesInv, HiddenWithItsArtist
    <3>3. draftArtist[ArtistOf[s]] = None
      BY <1>0, <3>2 DEF Inv, DraftInv, DraftArtistInv, ArtistUndecided
    <3> QED
      BY <1>0, <1>1, <3>2, <3>3 DEF SeenArtist
  <2>4. DeferredWithItsArtist'
    <3> SUFFICES ASSUME NEW s \in Songs, song'[s].status = "deferred_retry"
                 PROVE  artist'[ArtistOf[s]].status = "deferred_retry"
      BY DEF DeferredWithItsArtist
    <3>1. CASE ArtistOf[s] \in job.deferred
      BY <1>0, <1>1, <3>1 DEF Inv, DraftInv, DeferredInv
    <3>2. CASE ArtistOf[s] \notin job.deferred
      <4>1. SeenSong(s).status = "deferred_retry"
        BY <1>5, <3>2
      <4>2. draftArtist[ArtistOf[s]] = None
        BY <1>1, <4>1 DEF Inv, DraftInv, WaitingInv
      <4>3. song[s].status = "deferred_retry"
        BY <4>1 DEF SeenSong, Inv, DraftInv, DraftSongInv
      <4> QED
        BY <1>0, <1>1, <4>2, <4>3 DEF SeenArtist, Inv, TablesInv, DeferredWithItsArtist
    <3> QED
      BY <3>1, <3>2
  <2> QED
    BY <2>1, <2>2, <2>3, <2>4 DEF TablesInv
<1>8. JobInv' /\ DraftTyped' /\ DraftInv'
  BY <1>1, <1>2, OutsideJob, DraftsGone DEF JobIs
<1>9. UnseenInv' /\ WaveInv'
  <2>1. \A s \in Songs : song'[s].unseen \subseteq song[s].unseen
    BY <1>3, <1>5
  <2> QED
    BY <1>1, <1>2, <2>1, NoWave DEF Inv, UnseenInv, JobIs
<1> QED
  BY <1>1, <1>2, <1>6, <1>7, <1>8, <1>9 DEF Inv, Types, SinceTyped

LEMMA StartSongsKeeps == ASSUME Inv, StartSongs PROVE Inv'
<1> DEFINE todo == {s \in Plays[Head(queue).playlist] : song[s].status = "pending"}
           statuses == [s \in todo |-> artist[ArtistOf[s]].status]
           heard == [s \in todo |-> song[s].rejected]
<1>1. /\ UNCHANGED <<artist, song, library, tag, watermark, changed, draftArtist, draftSong>> /\ Begin("songs")
      /\ job' = IF todo = {} THEN Idle
                ELSE [Idle EXCEPT !.step = "songs", !.todo = todo, !.statuses = statuses, !.heard = heard]
  BY DEF StartSongs, tables, rows, since, draft
<1>2. queue' \in Seq(Task) /\ Head(queue).playlist \in Playlists /\ job.step = "idle"
  BY <1>1, Begun DEF Inv
<1>3. todo \in SUBSET Songs
  BY <1>2, DataAssumption
<1>4. /\ statuses \in UNION {[ss -> ArtistStatus] : ss \in SUBSET Songs}
      /\ heard \in UNION {[ss -> SUBSET Files] : ss \in SUBSET Songs}
  <2>1. \A s \in todo : artist[ArtistOf[s]].status \in ArtistStatus /\ song[s].rejected \in SUBSET Files
    BY <1>3, DataAssumption DEF Inv, Types, TablesTyped, ArtistRow, SongRow
  <2> HIDE DEF todo
  <2>2. statuses \in [todo -> ArtistStatus] /\ heard \in [todo -> SUBSET Files]
    BY <2>1
  <2> HIDE DEF statuses, heard
  <2> QED
    BY <1>3, <2>2
<1> HIDE DEF todo, statuses, heard
<1>5. job' \in Jobs /\ job'.memo = None /\ (job'.step = "idle" \/ (job'.step = "songs" /\ job'.todo \subseteq Songs))
  <2>1. CASE todo = {}
    BY <1>1, <2>1, IdleJob
  <2>2. CASE todo # {}
    BY <1>1, <1>3, <1>4, <2>2, IdleJob DEF Jobs
  <2> QED
    BY <2>1, <2>2
<1>6. draftArtist' = NoArtists /\ draftSong' = NoSongs
  BY <1>1, <1>2, NoDrafts DEF Inv
<1>7. JobInv' /\ DraftTyped' /\ DraftInv'
  BY <1>5, <1>6, NoDraftsTyped, DraftsGone DEF JobInv, DraftTyped
<1>8. UnseenInv' /\ WaveInv'
  BY <1>1, <1>5, UnseenStays, NoWave DEF Inv
<1> QED
  BY <1>1, <1>2, <1>5, <1>7, <1>8, TablesUntouched DEF Inv, Types, SinceTyped

\* A memo names files.
LEMMA MemoRead ==
  ASSUME Inv, NEW s \in Songs
  PROVE  Memo(s) \in Memos
<1>1. ArtistOf[s] \in Artists
  BY DataAssumption
<1>2. artist[ArtistOf[s]].linked \in BOOLEAN
  BY <1>1 DEF Inv, Types, TablesTyped, ArtistRow
<1>3. FilesOf(ArtistOf[s]) \subseteq Files
  BY DEF FilesOf
<1>4. CASE job.memo # None /\ job.memo.artist = ArtistOf[s]
  BY <1>4 DEF Memo, Inv, Types, Jobs
<1>5. CASE ~(job.memo # None /\ job.memo.artist = ArtistOf[s])
  BY <1>1, <1>2, <1>3, <1>5 DEF Memo, Memos
<1> QED
  BY <1>4, <1>5

\* What may come of a song: one of the code's results, with a candidate or no file.
LEMMA ResultKinds ==
  ASSUME Inv, NEW s \in Songs, NEW r \in Results(s, Memo(s))
  PROVE  /\ r.file \in Files \cup {None}
         /\ r.status \in {"auto_matched", "needs_review", "auto_rejected", "mb_unavailable"}
         /\ r.file # None => Allowed(r.file, job.heard[s])
         /\ r.status = "auto_matched" => r.file # None
         /\ r.status \in {"auto_rejected", "mb_unavailable"} => r.file = None
<1>1. \A f \in Candidates(s, Memo(s)) : f \in Files /\ f # None /\ Allowed(f, job.heard[s])
  BY MemoRead, NoneAssumption DEF Candidates, Memos
<1> HIDE DEF Candidates
<1>2. CASE LinkLost(s, Memo(s))
  BY <1>2 DEF Results
<1>3. CASE ~LinkLost(s, Memo(s))
  <2>1. r \in Scored(Candidates(s, Memo(s))) \/ r \in Deferrals(s)
    BY <1>3 DEF Results
  <2> QED
    BY <1>1, <2>1 DEF Scored, Deferrals
<1> QED
  BY <1>2, <1>3

\* The stage moves on to its next song, with the memo it read.
LEMMA ScoringGoesOn ==
  ASSUME Inv, NEW s \in Songs, job.step = "songs", UNCHANGED <<artist, song, library, tag, watermark, changed, queue, draftArtist>>,
         job' = [job EXCEPT !.todo = job.todo \ {s}, !.memo = Memo(s)],
         draftSong' \in [Songs -> SongRow \cup {None}], DraftSongInv'
  PROVE  Inv'
<1>1. /\ job' \in Jobs /\ job'.step = "songs" /\ job'.todo = job.todo \ {s}
      /\ job'.memo = Memo(s)
  <2>1. Memo(s) \in Memos \cup {None} /\ job \in Jobs
    BY MemoRead DEF Inv, Types
  <2>2. job.todo \ {s} \in SUBSET (Artists \cup Songs \cup Playlists)
    BY <2>1 DEF Jobs
  <2> HIDE DEF Memo
  <2> QED
    BY <2>1, <2>2 DEF Jobs
<1>2. draftArtist = NoArtists /\ job.todo \subseteq Songs
  BY DEF Inv, JobInv
<1>3. JobInv' /\ DraftTyped' /\ DraftInv'
  BY <1>1, <1>2, NoDraftsTyped
     DEF JobInv, DraftTyped, DraftInv, DraftArtistInv, DeferredInv, WaitingInv
<1>4. UnseenInv' /\ WaveInv'
  BY <1>1, UnseenStays, NoWave DEF Inv
<1> QED
  BY <1>1, <1>3, <1>4, TablesUntouched DEF Inv, Types, SinceTyped

LEMMA ScoreSongKeeps == ASSUME Inv, NEW s \in Songs, ScoreSong(s) PROVE Inv'
<1> DEFINE next == [job EXCEPT !.todo = job.todo \ {s}, !.memo = Memo(s)]
<1>1. /\ UNCHANGED <<artist, song, library, tag, watermark, changed, queue, draftArtist>> /\ job.step = "songs"
  BY DEF ScoreSong, tables, rows, since
<1>2. PICK r \in Results(s, Memo(s)) :
        \/ ~StillPending(s) /\ job' = next /\ draftSong' = draftSong
        \/ job' = Idle /\ draftSong' = NoSongs
        \/ /\ StillPending(s) /\ (r.file # None => Stored(r.file)) /\ job' = next
           /\ draftSong' = [draftSong EXCEPT ![s] =
                [Verdict(song[s], r.status, r.file) EXCEPT
                   !.late = r.file # None /\ job.heard[s] # song[s].rejected]]
  BY DEF ScoreSong
<1>3. CASE ~StillPending(s) /\ job' = next /\ draftSong' = draftSong
  <2>1. DraftSongInv'
    BY <1>1, <1>3 DEF Inv, DraftInv, DraftSongInv, RowKeeps, Allowed, Stored
  <2> QED
    BY <1>1, <1>3, <2>1, ScoringGoesOn DEF Inv, Types, DraftTyped
<1>4. CASE job' = Idle /\ draftSong' = NoSongs
  <2>1. draftArtist' = NoArtists
    BY <1>1 DEF Inv, JobInv
  <2>2. JobIs("idle") /\ job' \in Jobs /\ queue' \in Seq(Task)
    BY <1>1, <1>4, IdleJob DEF JobIs, Inv, Types
  <2> QED
    BY <1>1, <1>4, <2>1, <2>2, OutsideKeeps DEF tables
<1>5. CASE /\ StillPending(s) /\ (r.file # None => Stored(r.file)) /\ job' = next
           /\ draftSong' = [draftSong EXCEPT ![s] =
                [Verdict(song[s], r.status, r.file) EXCEPT
                   !.late = r.file # None /\ job.heard[s] # song[s].rejected]]
  <2>3. song[s] \in SongRow /\ RowKeeps(song[s]) /\ song[s].status = "pending"
    BY <1>5 DEF StillPending, Inv, Types, TablesTyped, TablesInv, RowsInv
  <2>4. r.status \in SongStatus /\ r.file \in Files \cup {None}
    BY ResultKinds DEF SongStatus, SongUndecided, Matched
  <2>5. PICK v \in SongRow : v = Verdict(song[s], r.status, r.file)
    BY <2>3, <2>4, VerdictRow
  <2>6. v.status = r.status /\ v.file = r.file /\ v.rejected = song[s].rejected /\ v.unseen = {}
    BY <2>3, <2>4, <2>5, VerdictRow
  <2> DEFINE made == [v EXCEPT !.late = r.file # None /\ job.heard[s] # song[s].rejected]
  <2>7. /\ made \in SongRow /\ made.status = v.status /\ made.file = v.file
        /\ made.rejected = v.rejected
        /\ made.unseen = {}
        /\ ~made.late => r.file = None \/ job.heard[s] = song[s].rejected
    BY <2>6 DEF SongRow
  <2>9. draftSong' = [draftSong EXCEPT ![s] = made]
    BY <1>5, <2>5
  <2> HIDE DEF made
  <2>1. PICK row \in SongRow : row = made
    BY <2>7
  <2>8. /\ row.status = r.status /\ row.file = r.file /\ row.rejected = song[s].rejected
        /\ row.unseen = {}
        /\ ~row.late => r.file = None \/ job.heard[s] = song[s].rejected
    BY <2>1, <2>6, <2>7
  <2>10. RowKeeps(row)
    BY <1>5, <2>3, <2>8, ResultKinds DEF RowKeeps, Matched
  <2>12. draftSong' \in [Songs -> SongRow \cup {None}]
         /\ \A t \in Songs : draftSong'[t] = IF t = s THEN row ELSE draftSong[t]
    BY <2>1, <2>9 DEF Inv, Types, DraftTyped
  <2>13. DraftSongInv'
    <3> SUFFICES ASSUME NEW t \in Songs, draftSong'[t] # None
        PROVE  /\ song[t].status \in {"pending", "deferred_retry"}
               /\ draftSong'[t].rejected = song[t].rejected
               /\ RowKeeps(draftSong[t])'
               /\ draftSong'[t].status \notin {"deferred_retry", "manual_matched", "manual_rejected"}
               /\ draftSong'[t].status = "auto_rejected" => draftSong'[t].file = None
               /\ job'.step # "artists"
               /\ draftSong'[t].unseen = {}
      BY <1>1 DEF DraftSongInv
    <3>1. job'.step # "artists"
      BY <1>1, <1>5 DEF Inv, Types, Jobs
    <3>2. CASE t = s
      <4>1. RowKeeps(draftSong[t])'
        BY <1>1, <2>10, <2>12, <3>2 DEF RowKeeps, Allowed, Stored
      <4> QED
        BY <2>3, <2>8, <2>12, <3>1, <3>2, <4>1, ResultKinds
    <3>3. CASE t # s
      <4>1. draftSong'[t] = draftSong[t] /\ draftSong[t] # None
        BY <2>12, <3>3
      <4>2. RowKeeps(draftSong[t])'
        BY <1>1, <4>1 DEF Inv, DraftInv, DraftSongInv, RowKeeps, Allowed, Stored
      <4> QED
        BY <3>1, <4>1, <4>2 DEF Inv, DraftInv, DraftSongInv
    <3> QED
      BY <3>2, <3>3
  <2> QED
    BY <1>1, <1>5, <2>12, <2>13, ScoringGoesOn
<1> QED
  BY <1>2, <1>3, <1>4, <1>5

LEMMA CommitSongsKeeps == ASSUME Inv, CommitSongs PROVE Inv'
<1>0. \A s \in Songs : ArtistOf[s] \in Artists
  BY DataAssumption
<1>1. /\ UNCHANGED <<artist, library, tag, watermark, changed, queue, draftArtist>> /\ job.step = "songs"
      /\ song' = [s \in Songs |-> SeenSong(s)]
      /\ draftSong' = NoSongs /\ job' = Idle
  BY DEF CommitSongs, rows, since
<1>2. JobIs("idle") /\ job' \in Jobs
  BY <1>1, IdleJob DEF JobIs
<1>3. draftArtist' = NoArtists
  BY <1>1 DEF Inv, JobInv
<1>4. TablesTyped'
  BY <1>1, SeenRows DEF Inv, Types, TablesTyped
<1>5. \A s \in Songs :
        /\ song'[s] = SeenSong(s) /\ RowKeeps(SeenSong(s))
        /\ SeenSong(s).unseen \subseteq song[s].unseen
        /\ SeenSong(s) = song[s] \/ /\ SeenSong(s).status # "deferred_retry"
                                    /\ SeenSong(s).status = "auto_rejected" => SeenSong(s).file = None
  BY <1>1 DEF SeenSong, Inv, TablesInv, RowsInv, DraftInv, DraftSongInv
<1>6. TablesInv'
  <2>1. RowsInv'
    BY <1>1, <1>5 DEF RowsInv, RowKeeps, Allowed, Stored
  <2>2. ArtistHasItsLink' /\ HiddenWithItsArtist' /\ DeferredWithItsArtist'
    BY <1>0, <1>1, <1>5 DEF Inv, TablesInv, ArtistHasItsLink, HiddenWithItsArtist, DeferredWithItsArtist
  <2> QED
    BY <2>1, <2>2 DEF TablesInv
<1>7. JobInv' /\ DraftTyped' /\ DraftInv'
  BY <1>1, <1>2, <1>3, OutsideJob, DraftsGone DEF JobIs
<1>8. UnseenInv' /\ WaveInv'
  BY <1>1, <1>2, <1>5, NoWave DEF Inv, UnseenInv, JobIs
<1> QED
  BY <1>1, <1>2, <1>4, <1>6, <1>7, <1>8 DEF Inv, Types, SinceTyped

-----------------------------------------------------------------------------
(* The invariant. *)

LEMMA InitInv == Init => Inv
<1> SUFFICES ASSUME Init PROVE Inv
  OBVIOUS
<1>1. Types
  <2>1. TablesTyped
    <3>1. \A s \in Songs : [status |-> "pending", file |-> None, rejected |-> {}, unseen |-> {}, late |-> FALSE]
                             \in SongRow
      BY DEF SongRow, SongStatus
    <3>2. [status |-> "pending", linked |-> FALSE] \in ArtistRow
      BY DEF ArtistRow, ArtistStatus
    <3> QED
      BY <3>1, <3>2, DataAssumption DEF Init, TablesTyped
  <2>2. queue \in Seq(Task)
    <3>1. PICK p \in Playlists : queue = <<[task |-> "artists", playlist |-> p]>>
      BY DEF Init
    <3>2. [task |-> "artists", playlist |-> p] \in Task
      BY DEF Task
    <3> HIDE DEF Task
    <3> QED
      BY <3>1, <3>2
  <2> QED
    BY <2>1, <2>2, IdleJob, NoDraftsTyped DEF Init, Types, SinceTyped, DraftTyped
<1>2. JobInv
  BY IdleJob DEF Init, JobInv
<1>3. TablesInv
  BY DEF Init, TablesInv, RowsInv, RowKeeps, ArtistHasItsLink, HiddenWithItsArtist, DeferredWithItsArtist,
     Matched, ArtistUndecided
<1>4. DraftInv
  BY IdleJob, NoDraftsTyped DEF Init, DraftInv, DraftSongInv, DraftArtistInv, DeferredInv, WaitingInv
<1>5. UnseenInv /\ WaveInv
  BY IdleJob DEF Init, UnseenInv, WaveInv
<1> QED
  BY <1>1, <1>2, <1>3, <1>4, <1>5 DEF Inv

LEMMA InvKept == Inv /\ [Next]_vars => Inv'
<1> SUFFICES ASSUME Inv, [Next]_vars PROVE Inv'
  OBVIOUS
<1>1. CASE Worker
  BY <1>1, StartRecheckKeeps, RewindArtistsKeeps, RewindSongsKeeps, CompleteKeeps, FanOutKeeps,
     StartArtistsKeeps, CommitArtistsKeeps, HandOnKeeps, DecideArtistKeeps, StartSongsKeeps,
     CommitSongsKeeps, ScoreSongKeeps DEF Worker
<1>2. CASE Library
  BY <1>2, LibraryKeeps
<1>3. CASE Curator
  BY <1>3, LinkKeeps, RejectArtistKeeps, UnmatchKeeps, MatchSongKeeps, RejectSongKeeps DEF Curator
<1>4. CASE TaskDies \/ \E scope \in {"all", "changed"} : RequestRecheck(scope)
  BY <1>4, DiesKeeps, RequestKeeps
<1>5. CASE UNCHANGED vars
  <2>1. UNCHANGED <<tables, library, tag, watermark, changed, queue, job, draft>>
    BY <1>5 DEF vars, rows, since
  <2>2. JobInv' /\ UnseenInv' /\ WaveInv'
    BY <2>1, JobStays, WaveStays DEF Inv, tables
  <2>3. DraftInv'
    BY <2>1, DraftsStay DEF Inv, tables
  <2> QED
    BY <2>1, <2>2, <2>3, TablesUntouched DEF Inv, Types, SinceTyped, DraftTyped, tables, draft
<1> QED
  BY <1>1, <1>2, <1>3, <1>4, <1>5 DEF Next

LEMMA InvAlways == Spec => []Inv
  BY InitInv, InvKept, PTL DEF Spec

-----------------------------------------------------------------------------
(* The promises. *)

(* The tables, the drafts, the queue and the worker's task keep their types,    *)
(* and between transactions nothing is drafted.                                 *)
THEOREM TypeCorrect == Spec => []TypeOK
<1>1. Inv => TypeOK
  BY TypesSound DEF Inv
<1> QED
  BY <1>1, InvAlways, PTL

(* A song's status, its match row and its artist never contradict each other,   *)
(* however stages, deletions and the curator's requests interleave: a merge     *)
(* only brings in rows that already agreed with what nobody else could write    *)
(* meanwhile (bulk_defer_by_artist, reset_deferred_by_artist_ids, matches).     *)
THEOREM DecisionsHold == Spec => []DecisionsAgree
<1>1. Inv => DecisionsAgree
  BY DEF Inv, TablesInv, RowsInv, RowKeeps, HiddenWithItsArtist, DecisionsAgree, SongHasItsRow
<1> QED
  BY <1>1, InvAlways, PTL

(* No song is offered, nor matched by the worker to, a file it was rejected     *)
(* with or another of its work, except by a verdict scored before the rejection *)
(* or by a fold that brought the two together: the candidates are gated, and    *)
(* scans, purges and folds only take works away from what bars them             *)
(* (_eligible, record_song_rejection, merge_into).                              *)
THEOREM RejectedStaysAway == Spec => []NeverReproposed
<1>1. Inv => NeverReproposed
  BY DEF Inv, TablesInv, RowsInv, RowKeeps, NeverReproposed
<1> QED
  BY <1>1, InvAlways, PTL

(* A verdict scored before a file that its artist has came, was rewritten, came *)
(* back or went missing is in the next wave, whatever re-checks die, retags     *)
(* move to another artist or folds remove in between: what the verdict has not  *)
(* seen is a row that changed since the newest COMPLETED re-check started and   *)
(* names the artist now (recheck_names, normalized_artist_names_changed_since). *)
THEOREM EveryChangeNoticed == Spec => []NothingEscapes
<1>1. Inv => NothingEscapes
  BY UnseenNamed DEF Inv, NothingEscapes
<1> QED
  BY <1>1, InvAlways, PTL

\* What a step that moves the worker may do to a song and to an artist.
SongLeft(s) ==
  /\ song[s].status \in Matched => song'[s] = song[s]
  /\ song[s].status = "manual_rejected" => song'[s].status \in {"manual_rejected", "pending"}
  /\ song'[s].rejected = song[s].rejected
ArtistLeft(a) ==
  artist[a].status \in Matched \cup {"manual_rejected"} => artist'[a] = artist[a]

\* A draft is of an undecided row, so a merge leaves every decided one.
LEMMA MergeLeavesSong ==
  ASSUME Inv, NEW s \in Songs, song'[s] = SeenSong(s)
  PROVE  SongLeft(s)
  BY DEF SeenSong, SongLeft, Inv, DraftInv, DraftSongInv, Matched

LEMMA MergeLeavesArtist ==
  ASSUME Inv, NEW a \in Artists, artist'[a] = SeenArtist(a)
  PROVE  ArtistLeft(a)
  BY DEF SeenArtist, ArtistLeft, Inv, DraftInv, DraftArtistInv, Matched, ArtistUndecided

LEMMA WorkerLeavesDecided ==
  ASSUME Inv, [Next]_vars, job' # job
  PROVE  (\A s \in Songs : SongLeft(s)) /\ (\A a \in Artists : ArtistLeft(a))
<1>1. CASE UNCHANGED <<artist, song>>
  BY <1>1 DEF SongLeft, ArtistLeft
<1>2. CASE RewindSongs
  <2>1. \A a \in Artists : artist'[a] = SeenArtist(a)
    BY <1>2 DEF RewindSongs
  <2>2. ASSUME NEW s \in Songs PROVE SongLeft(s)
    <3>1. song[s] \in SongRow /\ song'[s] = IF Rewindable(s) THEN Rewound(song[s]) ELSE song[s]
      BY <1>2 DEF RewindSongs, Inv, Types, TablesTyped
    <3>2. CASE Rewindable(s)
      <4>1. song'[s].status = "pending" /\ song'[s].rejected = song[s].rejected
        BY <3>1, <3>2, RewoundRow
      <4>2. song[s].status \notin Matched
        BY <3>2 DEF Rewindable, SongUndecided, Matched
      <4> QED
        BY <4>1, <4>2 DEF SongLeft
    <3>3. CASE ~Rewindable(s)
      BY <3>1, <3>3 DEF SongLeft
    <3> QED
      BY <3>2, <3>3
  <2> QED
    BY <2>1, <2>2, MergeLeavesArtist
<1>3. CASE CommitArtists
  <2>1. \A a \in Artists : artist'[a] = SeenArtist(a)
    BY <1>3 DEF CommitArtists
  <2>2. ASSUME NEW s \in Songs PROVE SongLeft(s)
    <3>1. song'[s] = IF ArtistOf[s] \in job.deferred /\ SeenSong(s).status = "pending"
                     THEN Verdict(SeenSong(s), "deferred_retry", None) ELSE SeenSong(s)
      BY <1>3 DEF CommitArtists, Deferred
    <3>2. CASE ArtistOf[s] \in job.deferred /\ SeenSong(s).status = "pending"
      <4>1. song'[s].rejected = SeenSong(s).rejected
        BY <3>1, <3>2, SeenRows, VerdictRow DEF Inv, SongStatus, SongUndecided
      <4>2. /\ song[s].status \in {"pending", "deferred_retry"}
            /\ SeenSong(s).rejected = song[s].rejected
        BY <3>2 DEF SeenSong, Inv, DraftInv, DraftSongInv
      <4> QED
        BY <4>1, <4>2 DEF SongLeft, Matched
    <3>3. CASE ~(ArtistOf[s] \in job.deferred /\ SeenSong(s).status = "pending")
      BY <3>1, <3>3, MergeLeavesSong
    <3> QED
      BY <3>2, <3>3
  <2> QED
    BY <2>1, <2>2, MergeLeavesArtist
<1>4. CASE CommitSongs
  BY <1>4, MergeLeavesSong DEF CommitSongs, ArtistLeft
<1>5. CASE Worker
  <2>1. \/ UNCHANGED tables
        \/ RewindSongs \/ CommitArtists \/ CommitSongs
    BY <1>5 DEF Worker, StartRecheck, RewindArtists, CompleteRecheck, FanOut, StartArtists,
       DecideArtist, HandOn, StartSongs, ScoreSong
  <2> QED
    BY <1>1, <1>2, <1>3, <1>4, <2>1 DEF tables
<1>6. CASE TaskDies
  BY <1>1, <1>6 DEF TaskDies, tables
<1>7. CASE Library \/ Curator \/ (\E scope \in {"all", "changed"} : RequestRecheck(scope)) \/ UNCHANGED vars
  BY <1>7 DEF Library, Curator, ScanFinds, ScanMisses, RowChanges, RowGoes, Fold, DeleteMissing, LinkArtist,
     RejectArtist, UnmatchArtist, MatchSong, RejectSong, RequestRecheck, vars
<1> QED
  BY <1>5, <1>6, <1>7 DEF Next

(* What the curator decided stays: whatever the worker read before a decision,  *)
(* none of its steps changes a matched song, a matched or rejected artist, or   *)
(* what a song was rejected with; a request waits for the rows of a running     *)
(* transaction, so a merge can only bring in rows that are still undecided      *)
(* (update_match_status_if_pending, rewind_undecided).                          *)
THEOREM CuratorDecides == Spec => CuratorWins
<1>1. Inv /\ [Next]_vars =>
        [job' # job =>
           /\ \A s \in Songs :
                /\ song[s].status \in Matched => song'[s] = song[s]
                /\ song[s].status = "manual_rejected" => song'[s].status \in {"manual_rejected", "pending"}
                /\ song'[s].rejected = song[s].rejected
           /\ \A a \in Artists :
                artist[a].status \in Matched \cup {"manual_rejected"} => artist'[a] = artist[a]]_vars
  BY WorkerLeavesDecided DEF SongLeft, ArtistLeft
<1> QED
  BY <1>1, InvAlways, PTL DEF Spec, CuratorWins
=============================================================================
