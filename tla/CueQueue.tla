------------------------------ MODULE CueQueue ------------------------------
(***************************************************************************)
(* The cue consumer: bounded runs over the audio that needs analysis,      *)
(* reports from the player and the daily prune, while the library's files  *)
(* and rows change under them.                                             *)
(*                                                                         *)
(* The consumer runs one task at a time (-w 1).  A batch is read and       *)
(* stat-checked, analysed outside any transaction, stat-checked again and  *)
(* stored for the files that still carry the hash read before.  A station  *)
(* liner is a file with a row of its own table, whose stat is not stored.  *)
(***************************************************************************)
EXTENDS Naturals, FiniteSets

CONSTANTS
  Files,      \* library files and liners, numbered in the order of their paths, liners first
  Liners,     \* the station liners among them
  Scheduled,  \* the library files that play today or tomorrow
  NoDuration, \* the files whose duration is unknown
  Audios,     \* audio fingerprints
  Stats,      \* sizes and times of a file
  None,
  Audio0,     \* what each file holds at the start
  BatchSize,
  Patience,   \* fruitless batches that a run's time budget always covers
  MaxEvents   \* changes of the disk and rows, reports, faults

ASSUME FilesAssumption ==
  /\ Files \subseteq Nat \ {0} /\ Liners \subseteq Files
  /\ \A l \in Liners, f \in Files \ Liners : l < f
  /\ Scheduled \subseteq Files \ Liners /\ NoDuration \subseteq Files
ASSUME DataAssumption == Audio0 \in [Files -> Audios] /\ Stats \subseteq Nat /\ 0 \in Stats
ASSUME BoundsAssumption ==
  BatchSize \in Nat \ {0} /\ Patience \in Nat \ {0} /\ MaxEvents \in Nat

VARIABLES
  disk,     \* what is at each path: audio and stat, None when there is no file
  mounted,  \* whether the library's drive is there
  row,      \* library_files and station_liners
  cues,     \* stream_cues, one row per audio
  job,      \* the task the consumer is in
  requests, \* reported files in the consumer's queue
  events    \* how many of MaxEvents have happened

library == <<disk, mounted, row>>
vars == <<library, cues, job, requests, events>>

Bytes == [audio : Audios, stat : Stats]
Row == [audio : Audios, stat : Stats \cup {None}, hashed : BOOLEAN, present : BOOLEAN]
\* of is history: the audio the analysis has read, None when it read none.
Cues == [kind : {"cues", "fallback"}, of : Audios \cup {None}, current : BOOLEAN,
         mark : {None, "young", "old"}]
Candidate == [file : Files, audio : Audios, stat : Stats \cup {None}]
Finding == [c : Candidate, verdict : {"cues", "fallback"}, of : Audios \cup {None}]
\* A run is at a batch of what it read; a prune has a draft.  out is history.
Job == [step : {"idle", "taking", "analysing", "analysed", "cleared", "deleted"}, once : BOOLEAN,
        priority : SUBSET Candidate, after : Nat, listed : BOOLEAN,
        tried : SUBSET Files, recorded : SUBSET Audios, fruitless : Nat,
        ready : SUBSET Candidate, found : SUBSET Finding, last : Nat,
        draft : [Audios -> Cues \cup {None}] \cup {None}, out : SUBSET Audios]

ASSUME NoneAssumption ==
  None \notin Audios \cup Stats \cup Bytes \cup Row \cup Cues \cup {"young", "old"}

Idle == [step |-> "idle", once |-> FALSE, priority |-> {}, after |-> 0, listed |-> FALSE,
         tried |-> {}, recorded |-> {}, fruitless |-> 0, ready |-> {}, found |-> {}, last |-> 0,
         draft |-> None, out |-> {}]

OnDisk(f) == IF mounted \/ f \in Liners THEN disk[f] ELSE None
Carries(f, a) == row[f] # None /\ row[f].hashed /\ row[f].audio = a
InLibrary(a) == \E f \in Files : Carries(f, a)

(* NEEDS_ANALYSIS *)
NeedsIn(table, f) == row[f] # None /\ row[f].present /\ row[f].hashed /\ table[row[f].audio] = None
Needs(f) == NeedsIn(cues, f)
CandidateOf(f) == [file |-> f, audio |-> row[f].audio, stat |-> row[f].stat]
Candidates(table, fs) == {CandidateOf(f) : f \in {g \in fs : NeedsIn(table, g)}}
Paths(cs) == {c.file : c \in cs}
FirstOf(cs) == {c \in cs : Cardinality({d \in cs : d.file < c.file}) < BatchSize}

TypeOK ==
  /\ disk \in [Files -> Bytes \cup {None}] /\ mounted \in BOOLEAN
  /\ row \in [Files -> Row \cup {None}]
  /\ cues \in [Audios -> Cues \cup {None}]
  /\ requests \subseteq Files \ Liners
  /\ job \in Job
  /\ job.step = "idle" => job = Idle

(* Rows of an earlier analyser version, of audio long gone too, may be there. *)
Init ==
  /\ disk = [f \in Files |-> [audio |-> Audio0[f], stat |-> 0]] /\ mounted = TRUE
  /\ row = [f \in Files |-> [audio |-> Audio0[f], stat |-> IF f \in Liners THEN None ELSE 0,
                             hashed |-> TRUE, present |-> TRUE]]
  /\ cues \in [Audios -> {None}]
       \cup {[a \in Audios |-> [kind |-> "cues", of |-> a, current |-> FALSE, mark |-> None]]}
  /\ job = Idle /\ requests = {} /\ events = 0

Event == events < MaxEvents /\ events' = events + 1

-----------------------------------------------------------------------------
(* The library meanwhile *)

\* A write always shows: in a stat that nothing remembers of the file.
Remembered(f) ==
  {r.stat : r \in {disk[f], row[f]} \ {None}}
    \cup {c.stat : c \in {d \in job.ready \cup job.priority : d.file = f}}
NewStat(f) == CHOOSE s \in Stats : s \notin Remembered(f)

WriteFile(f) ==
  /\ f \notin Liners /\ mounted /\ Event /\ Stats \ Remembered(f) # {}
  /\ \E a \in Audios : disk' = [disk EXCEPT ![f] = [audio |-> a, stat |-> NewStat(f)]]
  /\ UNCHANGED <<mounted, row, cues, job, requests>>

RemoveFile(f) ==
  /\ f \notin Liners /\ mounted /\ disk[f] # None /\ Event
  /\ disk' = [disk EXCEPT ![f] = None]
  /\ UNCHANGED <<mounted, row, cues, job, requests>>

Unplug ==
  /\ mounted /\ Event /\ mounted' = FALSE
  /\ UNCHANGED <<disk, row, cues, job, requests>>

Replug ==
  /\ ~mounted /\ mounted' = TRUE
  /\ UNCHANGED <<disk, row, cues, job, requests, events>>

\* A scan stores what it reads, and the fingerprint only later.
Rescan(f) ==
  /\ f \notin Liners /\ mounted /\ row[f] # None
  /\ row' = [row EXCEPT ![f] =
       IF disk[f] = None THEN [@ EXCEPT !.present = FALSE]
       ELSE IF disk[f].stat = @.stat THEN [@ EXCEPT !.present = TRUE]
       ELSE [audio |-> disk[f].audio, stat |-> disk[f].stat, hashed |-> FALSE, present |-> TRUE]]
  /\ UNCHANGED <<disk, mounted, cues, job, requests, events>>

Fingerprint(f) ==
  /\ row[f] # None /\ row[f].present /\ ~row[f].hashed
  /\ OnDisk(f) # None /\ OnDisk(f).stat = row[f].stat
  /\ row' = [row EXCEPT ![f].hashed = TRUE]
  /\ UNCHANGED <<disk, mounted, cues, job, requests, events>>

\* The user deletes a missing file's row for good, or a liner: its row, then its file.
DeleteRow(f) ==
  /\ row[f] # None /\ (f \in Liners \/ ~row[f].present) /\ Event
  /\ row' = [row EXCEPT ![f] = None]
  /\ disk' = IF f \in Liners THEN [disk EXCEPT ![f] = None] ELSE disk
  /\ UNCHANGED <<mounted, cues, job, requests>>

-----------------------------------------------------------------------------
(* A run: run_cue_analysis, or analyse_reported with one file *)

\* Rows of other versions go, then the priority set is read once.
Purged == [a \in Audios |-> IF cues[a] # None /\ ~cues[a].current THEN None ELSE cues[a]]

StartRun ==
  /\ job.step = "idle" /\ requests = {}
  /\ cues' = Purged
  /\ job' = [Idle EXCEPT !.step = "taking",
       !.priority = Candidates(Purged, Liners \cup Scheduled)]
  /\ UNCHANGED <<library, requests, events>>

Report(f) ==
  /\ f \notin Liners \cup requests /\ Event
  /\ requests' = requests \cup {f}
  /\ UNCHANGED <<library, cues, job>>

\* Expired in the queue.
ForgetReport(f) ==
  /\ f \in requests
  /\ requests' = requests \ {f}
  /\ UNCHANGED <<library, cues, job, events>>

StartReport(f) ==
  /\ job.step = "idle" /\ f \in requests
  /\ requests' = requests \ {f}
  /\ job' = IF Needs(f)
              THEN [Idle EXCEPT !.step = "taking", !.once = TRUE, !.priority = {CandidateOf(f)}]
              ELSE Idle
  /\ UNCHANGED <<library, cues, events>>

\* Why the file on disk may not be the one that was hashed; an unknown stat is trusted.
StatProblem(c) ==
  \/ OnDisk(c.file) = None
  \/ c.stat # None /\ OnDisk(c.file).stat # c.stat

\* Twins share one row: the first of them is analysed.
DedupeAudio(cs) == {c \in cs : \A d \in cs : d.audio = c.audio => c.file <= d.file}

LibraryBatch(after) == FirstOf(Candidates(cues, {f \in Files \ Liners : f > after}))

\* Without the files this run has tried and the audio it has stored.
Unseen(batch) == {c \in batch : c.file \notin job.tried /\ c.audio \notin job.recorded}

TakeBatch ==
  LET listed == job.priority = {}
      batch == IF listed THEN LibraryBatch(job.after) ELSE FirstOf(job.priority)
      unseen == Unseen(batch)
  IN /\ job.step = "taking"
     /\ \E final \in Paths(batch) :
          /\ \A f \in Paths(batch) : f <= final
          /\ job' = [job EXCEPT
               !.step = "analysing", !.listed = listed,
               !.priority = @ \ batch,
               !.after = IF listed THEN final ELSE @,
               !.tried = @ \cup Paths(unseen),
               !.ready = DedupeAudio({c \in unseen : ~StatProblem(c)})]
     /\ UNCHANGED <<library, cues, requests, events>>

BacklogDone ==
  /\ job.step = "taking" /\ job.priority = {} /\ LibraryBatch(job.after) = {}
  /\ job' = Idle
  /\ UNCHANGED <<library, cues, requests, events>>

NothingReady ==
  /\ job.step = "analysing" /\ job.ready = {}
  /\ job' = [job EXCEPT !.step = "analysed"]
  /\ UNCHANGED <<library, cues, requests, events>>

\* What the analyser may make of a file, as it is on the disk now.
Findings(c, verdict) ==
  LET bytes == OnDisk(c.file)
  IN  [c |-> c, verdict |-> IF bytes = None THEN "fallback" ELSE verdict,
       of |-> IF bytes = None THEN None ELSE bytes.audio]

\* The analyser settles the files in order, up to one it stalls or dies on.
Analyse ==
  /\ job.step = "analysing"
  /\ \E final \in job.ready :
       LET settled == {c \in job.ready : c.file <= final.file}
       IN  \E verdicts \in [settled -> {"cues", "fallback"}] :
             /\ settled # job.ready => verdicts[final] = "fallback"
             /\ job' = [job EXCEPT !.step = "analysed", !.last = final.file,
                         !.found = {Findings(c, verdicts[c]) : c \in settled}]
  /\ UNCHANGED <<library, cues, requests, events>>

\* AnalyserError: the process did not start, began no file or broke the protocol.
AnalyserFails ==
  /\ job.step = "analysing" /\ job.ready # {} /\ Event
  /\ job' = Idle
  /\ UNCHANGED <<library, cues, requests>>

\* Only while the file still carries the hash read before analysing.
StoreIfCurrent(c) == Carries(c.file, c.audio)

\* fallback_points: nothing to fall back on without a duration.
HasFallback(f) == f \notin NoDuration

\* MUTANT: nothing is checked again after the analysis.
StoredUnchecked ==
  {x \in job.found : (x.verdict = "fallback" => HasFallback(x.c.file)) /\ StoreIfCurrent(x.c)}

\* What record_analysis stores of the settled files.
Stored ==
  {x \in job.found :
     /\ ~StatProblem(x.c)
     /\ x.verdict = "fallback" => HasFallback(x.c.file)
     /\ StoreIfCurrent(x.c)}
StoredAudio == {x.c.audio : x \in Stored}

\* MUTANT: the files after a stall count as tried.
PutBackNothing == job

\* The files after a stall: tried again, from the library behind the one that stalled.
Untried == {c \in job.ready : c.file > job.last}
PutBack ==
  IF Untried = {} THEN job
  ELSE [job EXCEPT !.after = IF job.listed THEN job.last ELSE @,
                   !.priority = IF job.listed THEN @ ELSE @ \cup Untried,
                   !.tried = @ \ Paths(Untried)]

\* The budget may be spent once a run has stored something, or after enough in vain.
MaySpendBudget(run) == run.recorded # {} \/ run.fruitless >= Patience

CueRow(a) ==
  LET x == CHOOSE y \in Stored : y.c.audio = a
  IN  [kind |-> x.verdict, of |-> x.of, current |-> TRUE, mark |-> None]

RecordBatch ==
  LET vain == Stored # job.found /\ job.fruitless < Patience
      run == [PutBack EXCEPT !.step = "taking", !.ready = {}, !.found = {}, !.last = 0, !.listed = FALSE,
                !.recorded = @ \cup StoredAudio,
                !.fruitless = IF vain THEN @ + 1 ELSE @]
  IN /\ job.step = "analysed"
     /\ cues' = [a \in Audios |-> IF a \in StoredAudio THEN CueRow(a) ELSE cues[a]]
     /\ \/ ~job.once /\ job' = run
        \/ (job.once \/ MaySpendBudget(run)) /\ job' = Idle
     /\ UNCHANGED <<library, requests, events>>

-----------------------------------------------------------------------------
(* The daily prune: three statements, each on what is committed when it starts *)

\* MUTANT: the marks of returned audio stay.
KeepMarks ==
  /\ job.step = "idle"
  /\ job' = [Idle EXCEPT !.step = "cleared", !.out = {a \in Audios : ~InLibrary(a)}, !.draft = cues]
  /\ UNCHANGED <<library, cues, requests, events>>

ClearReturned ==
  /\ job.step = "idle"
  /\ job' = [Idle EXCEPT !.step = "cleared", !.out = {a \in Audios : ~InLibrary(a)},
       !.draft = [a \in Audios |->
         IF cues[a] # None /\ InLibrary(a) THEN [cues[a] EXCEPT !.mark = None] ELSE cues[a]]]
  /\ UNCHANGED <<library, cues, requests, events>>

DeleteExpired ==
  /\ job.step = "cleared"
  /\ job' = [job EXCEPT !.step = "deleted", !.draft = [a \in Audios |->
       IF @[a] # None /\ @[a].mark = "old" THEN None ELSE @[a]]]
  /\ UNCHANGED <<library, cues, requests, events>>

MarkOrphans ==
  /\ job.step = "deleted"
  /\ cues' = [a \in Audios |->
       IF job.draft[a] # None /\ job.draft[a].mark = None /\ ~InLibrary(a)
         THEN [job.draft[a] EXCEPT !.mark = "young"] ELSE job.draft[a]]
  /\ job' = Idle
  /\ UNCHANGED <<library, requests, events>>

\* A prune is shorter than a day.
DayPasses ==
  /\ job.step \notin {"cleared", "deleted"}
  /\ \E a \in Audios : cues[a] # None /\ cues[a].mark = "young"
  /\ cues' = [a \in Audios |->
       IF cues[a] # None /\ cues[a].mark = "young" THEN [cues[a] EXCEPT !.mark = "old"] ELSE cues[a]]
  /\ UNCHANGED <<library, job, requests, events>>

-----------------------------------------------------------------------------
\* The consumer dies: what it had not committed is gone, and so is its task.
Crash ==
  /\ job.step # "idle" /\ Event
  /\ job' = Idle
  /\ UNCHANGED <<library, cues, requests>>

RunGoesOn == TakeBatch \/ BacklogDone \/ NothingReady \/ Analyse \/ RecordBatch
Prune == ClearReturned \/ DeleteExpired \/ MarkOrphans

Next ==
  \/ \E f \in Files :
       \/ WriteFile(f) \/ RemoveFile(f) \/ Rescan(f) \/ Fingerprint(f) \/ DeleteRow(f)
       \/ Report(f) \/ ForgetReport(f) \/ StartReport(f)
  \/ Unplug \/ Replug
  \/ StartRun \/ RunGoesOn \/ AnalyserFails
  \/ Prune \/ DayPasses
  \/ Crash

Spec == Init /\ [][Next]_vars

\* Weak fairness of the consumer inside a task, and of its queue for reports.
GoesOn == []<>(job.step = "idle") \/ []<><<TRUE>>_job
ReportsEnd == []<>(requests = {}) \/ []<><<TRUE>>_requests
\* Strong fairness of StartRun: the resume comes every five minutes.
Resumes ==
  \/ <>[](job.step # "idle" \/ requests # {})
  \/ []<><<job.step = "idle" /\ job'.step = "taking" /\ ~job'.once>>_job

FairSpec == Spec /\ GoesOn /\ ReportsEnd /\ Resumes

-----------------------------------------------------------------------------
(* Properties. *)

\* Cues are those of their own audio: the checks before and after the analysis
\* and the guard of the write leave no order of edits, rescans and deletions
\* in which what was measured on one recording is stored under another.  A
\* fallback row may come from a file that could not be read meanwhile.
CuesOfTheirAudio ==
  \A a \in Audios : cues[a] # None =>
    cues[a].of = a \/ (cues[a].kind = "fallback" /\ cues[a].of = None)

\* The prune takes a row only if its audio was out of the library when the prune
\* began and when an earlier prune, a day before or more, marked it.
KeptWhileUsed ==
  [][\A a \in Audios : cues[a] # None /\ cues'[a] = None =>
       ~cues[a].current \/ (a \in job.out /\ cues[a].mark = "old")]_vars

\* A file in need that can be analysed: unchanged since it was hashed, and with
\* no twin of unknown duration before it.
Servable(f) ==
  /\ Needs(f) /\ ~StatProblem(CandidateOf(f))
  /\ \A g \in NoDuration : ~Carries(g, row[f].audio)

\* Every file in need gets its row, or changes: files that stall the analyser, that
\* fail without a duration, that are unreadable or changed never hold up those
\* behind them for ever.
BacklogServed == \A f \in Files : Servable(f) ~> ~Servable(f)

=============================================================================
