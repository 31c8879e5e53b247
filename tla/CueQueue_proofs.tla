--------------------------- MODULE CueQueue_proofs ---------------------------
(***************************************************************************)
(* What CueQueue promises for any files, audio, batch size and bounds.     *)
(***************************************************************************)
EXTENDS CueQueue, TLAPS

-----------------------------------------------------------------------------
(* Type correctness. *)

\* A prune at its second or third statement has a draft of the table.
DraftIsFunction ==
  job.step \in {"cleared", "deleted"} => job.draft \in [Audios -> Cues \cup {None}]

LEMMA IdleType == Idle \in Job
  BY DEF Idle, Job

LEMMA CandidateOfType ==
  ASSUME TypeOK, NEW f \in Files, row[f] # None
  PROVE  CandidateOf(f) \in Candidate
  BY DEF TypeOK, CandidateOf, Candidate, Row

LEMMA CandidatesType ==
  ASSUME TypeOK, NEW table, NEW fs \in SUBSET Files
  PROVE  Candidates(table, fs) \subseteq Candidate
  BY CandidateOfType DEF Candidates, NeedsIn

LEMMA BatchType ==
  ASSUME TypeOK, NEW after
  PROVE  LibraryBatch(after) \subseteq Candidate
  BY CandidatesType DEF LibraryBatch, FirstOf

LEMMA PathsType ==
  ASSUME NEW cs \in SUBSET Candidate
  PROVE  Paths(cs) \subseteq Files
  BY DEF Paths, Candidate

LEMMA OnDiskType ==
  ASSUME TypeOK, NEW f \in Files
  PROVE  OnDisk(f) \in Bytes \cup {None}
  BY DEF TypeOK, OnDisk

LEMMA FindingsType ==
  ASSUME TypeOK, NEW c \in Candidate, NEW v \in {"cues", "fallback"}
  PROVE  Findings(c, v) \in Finding
<1>1. OnDisk(c.file) \in Bytes \cup {None}
  BY OnDiskType DEF Candidate
<1> QED
  BY <1>1 DEF Findings, Finding, Bytes

LEMMA StoredType ==
  ASSUME TypeOK
  PROVE  /\ Stored \subseteq Finding /\ StoredAudio \subseteq Audios
         /\ \A a \in StoredAudio : CueRow(a) \in Cues
<1>1. Stored \subseteq Finding
  BY DEF TypeOK, Job, Stored
<1>2. StoredAudio \subseteq Audios
  BY <1>1 DEF StoredAudio, Finding, Candidate
<1>3. ASSUME NEW a \in StoredAudio PROVE CueRow(a) \in Cues
  <2>1. PICK y \in Stored : y.c.audio = a
    BY <1>3 DEF StoredAudio
  <2> DEFINE x == CHOOSE z \in Stored : z.c.audio = a
  <2>2. x \in Finding
    BY <1>1, <2>1
  <2> QED
    BY <2>2 DEF CueRow, Cues, Finding
<1> QED
  BY <1>1, <1>2, <1>3

LEMMA PutBackType ==
  ASSUME TypeOK, Files \subseteq Nat
  PROVE  PutBack \in Job
<1>1. Untried \subseteq Candidate /\ Paths(Untried) \subseteq Files
  BY PathsType DEF TypeOK, Job, Untried
<1> QED
  BY <1>1 DEF TypeOK, Job, PutBack

LEMMA LibraryActionType ==
  ASSUME TypeOK, NEW f \in Files,
         \/ WriteFile(f) \/ RemoveFile(f) \/ Rescan(f) \/ Fingerprint(f) \/ DeleteRow(f)
         \/ Unplug \/ Replug
  PROVE  TypeOK'
<1>1. ASSUME WriteFile(f) PROVE TypeOK'
  <2>1. NewStat(f) \in Stats
    BY <1>1 DEF WriteFile, NewStat
  <2> QED
    BY <1>1, <2>1 DEF TypeOK, WriteFile, Bytes
<1>2. ASSUME RemoveFile(f) PROVE TypeOK'
  BY <1>2 DEF TypeOK, RemoveFile
<1>3. ASSUME Rescan(f) PROVE TypeOK'
  <2>1. disk[f] # None => disk[f] \in Bytes
    BY DEF TypeOK
  <2>2. row[f] \in Row
    BY <1>3 DEF TypeOK, Rescan
  <2>3. row' \in [Files -> Row \cup {None}]
    BY <1>3, <2>1, <2>2 DEF TypeOK, Rescan, Bytes, Row
  <2> QED
    BY <1>3, <2>3 DEF TypeOK, Rescan
<1>4. ASSUME Fingerprint(f) PROVE TypeOK'
  <2>1. row[f] \in Row
    BY <1>4 DEF TypeOK, Fingerprint
  <2>2. [row[f] EXCEPT !.hashed = TRUE] \in Row
    BY <2>1 DEF Row
  <2> QED
    BY <1>4, <2>2 DEF TypeOK, Fingerprint
<1>5. ASSUME DeleteRow(f) PROVE TypeOK'
  BY <1>5 DEF TypeOK, DeleteRow
<1>6. ASSUME Unplug \/ Replug PROVE TypeOK'
  BY <1>6 DEF TypeOK, Unplug, Replug
<1> QED
  BY <1>1, <1>2, <1>3, <1>4, <1>5, <1>6

LEMMA StartType ==
  ASSUME TypeOK, StartRun \/ (\E f \in Files : Report(f) \/ ForgetReport(f) \/ StartReport(f))
  PROVE  TypeOK'
<1>1. ASSUME StartRun PROVE TypeOK'
  <2>1. Candidates(Purged, Liners \cup Scheduled) \subseteq Candidate
    BY CandidatesType, FilesAssumption
  <2>2. cues' \in [Audios -> Cues \cup {None}]
    BY <1>1 DEF TypeOK, StartRun, Purged
  <2>3. job' \in Job /\ job'.step = "taking"
    BY <1>1, <2>1, IdleType DEF StartRun, Job, Idle
  <2> QED
    BY <1>1, <2>2, <2>3 DEF TypeOK, StartRun, library
<1>2. ASSUME NEW f \in Files, Report(f) \/ ForgetReport(f) PROVE TypeOK'
  BY <1>2 DEF TypeOK, Report, ForgetReport, library
<1>3. ASSUME NEW f \in Files, StartReport(f) PROVE TypeOK'
  <2>1. Needs(f) => CandidateOf(f) \in Candidate
    BY CandidateOfType DEF Needs, NeedsIn
  <2>2. job' \in Job /\ (job'.step = "idle" => job' = Idle)
    BY <1>3, <2>1, IdleType DEF StartReport, Job, Idle
  <2> QED
    BY <1>3, <2>2 DEF TypeOK, StartReport, library
<1> QED
  BY <1>1, <1>2, <1>3

LEMMA TakeBatchType ==
  ASSUME TypeOK, TakeBatch
  PROVE  TypeOK'
<1> DEFINE listed == job.priority = {}
           batch == IF listed THEN LibraryBatch(job.after) ELSE FirstOf(job.priority)
           unseen == Unseen(batch)
           ready == DedupeAudio({c \in unseen : ~StatProblem(c)})
<1>1. batch \subseteq Candidate
  BY BatchType DEF TypeOK, Job, FirstOf
<1>2. unseen \subseteq Candidate /\ ready \subseteq Candidate
  BY <1>1 DEF Unseen, DedupeAudio
<1>3. PICK final \in Paths(batch) :
        job' = [job EXCEPT
               !.step = "analysing", !.listed = listed,
               !.priority = @ \ batch,
               !.after = IF listed THEN final ELSE @,
               !.tried = @ \cup Paths(unseen),
               !.ready = ready]
  BY DEF TakeBatch
<1>4. final \in Nat /\ Paths(unseen) \subseteq Files
  BY <1>1, <1>2, PathsType, FilesAssumption
<1> HIDE DEF listed, batch, unseen, ready
<1>5. job' \in Job /\ job'.step = "analysing"
  <2>1. job.priority \ batch \subseteq Candidate /\ job.tried \cup Paths(unseen) \subseteq Files
    BY <1>4 DEF TypeOK, Job
  <2>2. listed \in BOOLEAN
    BY DEF listed
  <2> QED
    BY <1>2, <1>3, <1>4, <2>1, <2>2 DEF TypeOK, Job
<1> QED
  BY <1>5 DEF TypeOK, TakeBatch, library

LEMMA RecordBatchType ==
  ASSUME TypeOK, RecordBatch
  PROVE  TypeOK' /\ job'.step \in {"taking", "idle"}
<1> DEFINE recorded == PutBack.recorded \cup StoredAudio
           fruitless == IF Stored # job.found /\ job.fruitless < Patience
                          THEN PutBack.fruitless + 1 ELSE PutBack.fruitless
           run == [PutBack EXCEPT !.step = "taking", !.ready = {}, !.found = {}, !.last = 0, !.listed = FALSE,
                                  !.recorded = recorded, !.fruitless = fruitless]
<1>1. cues' \in [Audios -> Cues \cup {None}]
  BY StoredType DEF TypeOK, RecordBatch
<1>2. PutBack \in Job
  BY PutBackType, FilesAssumption
<1>3. run \in Job /\ run.step = "taking"
  <2>1. recorded \in SUBSET Audios
    BY <1>2, StoredType DEF Job
  <2>2. fruitless \in Nat
    BY <1>2 DEF Job
  <2> HIDE DEF recorded, fruitless
  <2> QED
    BY <1>2, <2>1, <2>2 DEF Job
<1>4. job' = run \/ job' = Idle
  BY DEF RecordBatch
<1>5. job' \in Job /\ (job'.step = "idle" => job' = Idle) /\ job'.step \in {"taking", "idle"}
  <2> HIDE DEF run
  <2>1. Idle.step = "idle"
    BY DEF Idle
  <2>2. CASE job' = run
    BY <1>3, <2>2
  <2>3. CASE job' = Idle
    BY <2>1, <2>3, IdleType
  <2> QED
    BY <1>4, <2>2, <2>3
<1> QED
  BY <1>1, <1>5 DEF TypeOK, RecordBatch, library

LEMMA RunType ==
  ASSUME TypeOK, BacklogDone \/ NothingReady \/ Analyse \/ AnalyserFails \/ Crash
  PROVE  TypeOK'
<1>1. ASSUME BacklogDone \/ AnalyserFails \/ Crash PROVE TypeOK'
  BY <1>1, IdleType DEF TypeOK, BacklogDone, AnalyserFails, Crash, library
<1>2. ASSUME NothingReady PROVE TypeOK'
  BY <1>2 DEF TypeOK, NothingReady, Job, library
<1>3. ASSUME Analyse PROVE TypeOK'
  <2>1. PICK final \in job.ready :
          \E verdicts \in [{c \in job.ready : c.file <= final.file} -> {"cues", "fallback"}] :
            job' = [job EXCEPT !.step = "analysed", !.last = final.file,
                      !.found = {Findings(c, verdicts[c]) : c \in {d \in job.ready : d.file <= final.file}}]
    BY <1>3 DEF Analyse
  <2> DEFINE settled == {c \in job.ready : c.file <= final.file}
  <2>2. PICK verdicts \in [settled -> {"cues", "fallback"}] :
          job' = [job EXCEPT !.step = "analysed", !.last = final.file,
                    !.found = {Findings(c, verdicts[c]) : c \in settled}]
    BY <2>1
  <2>3. settled \subseteq Candidate /\ final.file \in Nat
    BY FilesAssumption DEF TypeOK, Job, Candidate
  <2> HIDE DEF settled
  <2> DEFINE found == {Findings(c, verdicts[c]) : c \in settled}
  <2>4. found \subseteq Finding
    BY <2>3, FindingsType
  <2> HIDE DEF found
  <2>5. job' = [job EXCEPT !.step = "analysed", !.last = final.file, !.found = found]
    BY <2>2 DEF found
  <2>6. job' \in Job /\ job'.step = "analysed"
    BY <2>3, <2>4, <2>5 DEF TypeOK, Job
  <2> QED
    BY <1>3, <2>6 DEF TypeOK, Analyse, library
<1> QED
  BY <1>1, <1>2, <1>3

LEMMA PruneType ==
  ASSUME TypeOK, DraftIsFunction, Prune \/ DayPasses
  PROVE  TypeOK'
<1>1. ASSUME NEW a \in Audios, NEW m \in {None, "young", "old"}, NEW x \in Cues
      PROVE [x EXCEPT !.mark = m] \in Cues
  BY DEF Cues
<1>2. ASSUME ClearReturned PROVE TypeOK'
  <2> DEFINE draft == [a \in Audios |->
         IF cues[a] # None /\ InLibrary(a) THEN [cues[a] EXCEPT !.mark = None] ELSE cues[a]]
             gone == {a \in Audios : ~InLibrary(a)}
  <2>1. draft \in [Audios -> Cues \cup {None}]
    BY <1>1 DEF TypeOK
  <2>2. job' = [Idle EXCEPT !.step = "cleared", !.out = gone, !.draft = draft]
    BY <1>2 DEF ClearReturned
  <2>3. gone \subseteq Audios
    OBVIOUS
  <2> HIDE DEF draft, gone
  <2>4. job' \in Job /\ job'.step = "cleared"
    BY <2>1, <2>2, <2>3, IdleType DEF Job
  <2> QED
    BY <1>2, <2>4 DEF TypeOK, ClearReturned, library
<1>3. ASSUME DeleteExpired PROVE TypeOK'
  <2> DEFINE draft == [a \in Audios |->
       IF job.draft[a] # None /\ job.draft[a].mark = "old" THEN None ELSE job.draft[a]]
  <2>1. draft \in [Audios -> Cues \cup {None}]
    BY <1>3 DEF DraftIsFunction, DeleteExpired
  <2>2. job' = [job EXCEPT !.step = "deleted", !.draft = draft]
    BY <1>3 DEF DeleteExpired
  <2> HIDE DEF draft
  <2>3. job' \in Job /\ job'.step = "deleted"
    BY <2>1, <2>2 DEF TypeOK, Job
  <2> QED
    BY <1>3, <2>3 DEF TypeOK, DeleteExpired, library
<1>4. ASSUME MarkOrphans PROVE TypeOK'
  <2>1. cues' \in [Audios -> Cues \cup {None}]
    BY <1>1, <1>4 DEF DraftIsFunction, MarkOrphans
  <2> QED
    BY <1>4, <2>1, IdleType DEF TypeOK, MarkOrphans, library
<1>5. ASSUME DayPasses PROVE TypeOK'
  <2>1. cues' \in [Audios -> Cues \cup {None}]
    BY <1>1, <1>5 DEF TypeOK, DayPasses
  <2> QED
    BY <1>5, <2>1 DEF TypeOK, DayPasses, library
<1> QED
  BY <1>2, <1>3, <1>4, <1>5 DEF Prune

LEMMA TypeInductive ==
  ASSUME TypeOK, DraftIsFunction, [Next]_vars
  PROVE  TypeOK' /\ DraftIsFunction'
<1>1. ASSUME NEW f \in Files,
             WriteFile(f) \/ RemoveFile(f) \/ Rescan(f) \/ Fingerprint(f) \/ DeleteRow(f)
      PROVE  TypeOK' /\ DraftIsFunction'
  <2>1. job' = job
    BY <1>1 DEF WriteFile, RemoveFile, Rescan, Fingerprint, DeleteRow
  <2> QED
    BY <1>1, <2>1, LibraryActionType DEF DraftIsFunction
<1>2. CASE Unplug \/ Replug
  BY <1>2 DEF TypeOK, DraftIsFunction, Unplug, Replug
<1>3. CASE StartRun \/ (\E f \in Files : Report(f) \/ ForgetReport(f) \/ StartReport(f))
  <2>1. CASE StartRun
    BY <1>3, <2>1, StartType DEF StartRun, Idle, DraftIsFunction
  <2>2. ASSUME NEW f \in Files, Report(f) \/ ForgetReport(f) PROVE TypeOK' /\ DraftIsFunction'
    BY <1>3, <2>2, StartType DEF Report, ForgetReport, DraftIsFunction
  <2>3. ASSUME NEW f \in Files, StartReport(f) PROVE TypeOK' /\ DraftIsFunction'
    BY <1>3, <2>3, StartType DEF StartReport, Idle, DraftIsFunction
  <2> QED
    BY <1>3, <2>1, <2>2, <2>3
<1>4. CASE RunGoesOn \/ AnalyserFails \/ Crash
  <2>1. TypeOK'
    BY <1>4, TakeBatchType, RunType, RecordBatchType DEF RunGoesOn
  <2>2. CASE TakeBatch \/ NothingReady \/ Analyse
    <3>1. job'.step \in {"analysing", "analysed"}
      <4>1. CASE TakeBatch
        BY <4>1 DEF TypeOK, Job, TakeBatch
      <4>2. CASE NothingReady
        BY <4>2 DEF TypeOK, Job, NothingReady
      <4>3. CASE Analyse
        BY <4>3 DEF TypeOK, Job, Analyse
      <4> QED
        BY <2>2, <4>1, <4>2, <4>3
    <3> QED
      BY <2>1, <3>1 DEF DraftIsFunction
  <2>3. CASE RecordBatch
    BY <2>1, <2>3, RecordBatchType DEF DraftIsFunction
  <2>4. CASE BacklogDone \/ AnalyserFails \/ Crash
    BY <2>1, <2>4 DEF BacklogDone, AnalyserFails, Crash, DraftIsFunction, Idle
  <2> QED
    BY <1>4, <2>1, <2>2, <2>3, <2>4 DEF RunGoesOn
<1>5. CASE Prune \/ DayPasses
  <2>1. TypeOK'
    BY <1>5, PruneType
  <2>2. CASE ClearReturned
    <3> DEFINE draft == [a \in Audios |->
         IF cues[a] # None /\ InLibrary(a) THEN [cues[a] EXCEPT !.mark = None] ELSE cues[a]]
    <3>1. draft \in [Audios -> Cues \cup {None}]
      BY DEF TypeOK, Cues
    <3>2. job'.draft = draft
      BY <2>2 DEF ClearReturned, Idle
    <3> QED
      BY <2>1, <3>1, <3>2 DEF DraftIsFunction
  <2>3. CASE DeleteExpired
    <3>1. job'.draft = [a \in Audios |->
             IF job.draft[a] # None /\ job.draft[a].mark = "old" THEN None ELSE job.draft[a]]
      BY <2>3 DEF DeleteExpired, TypeOK, Job
    <3> QED
      BY <2>1, <2>3, <3>1 DEF DeleteExpired, DraftIsFunction
  <2>4. CASE MarkOrphans \/ DayPasses
    BY <2>1, <2>4 DEF MarkOrphans, DayPasses, DraftIsFunction, Idle
  <2> QED
    BY <1>5, <2>1, <2>2, <2>3, <2>4 DEF Prune
<1>6. CASE UNCHANGED vars
  BY <1>6 DEF vars, library, TypeOK, DraftIsFunction
<1> QED
  BY <1>1, <1>2, <1>3, <1>4, <1>5, <1>6 DEF Next

LEMMA TypeInitially == Init => TypeOK /\ DraftIsFunction
<1> SUFFICES ASSUME Init PROVE TypeOK /\ DraftIsFunction
  OBVIOUS
<1>1. row \in [Files -> Row \cup {None}] /\ disk \in [Files -> Bytes \cup {None}]
  BY DataAssumption DEF Init, Row, Bytes
<1>2. cues \in [Audios -> Cues \cup {None}]
  <2>1. \A a \in Audios : [kind |-> "cues", of |-> a, current |-> FALSE, mark |-> None] \in Cues
    BY DEF Cues
  <2> QED
    BY <2>1 DEF Init
<1> QED
  BY <1>1, <1>2, IdleType DEF Init, TypeOK, DraftIsFunction, Idle

(* Whatever the library does meanwhile, a run and a prune keep their state well formed. *)
THEOREM TypeCorrect == Spec => []TypeOK
  BY TypeInitially, TypeInductive, PTL DEF Spec

-----------------------------------------------------------------------------
(* The inductive invariant. *)

\* The stat stored with an audio hash still tells the audio, while it is the file's.
Tells(c) ==
  disk[c.file] # None /\ (c.stat = None \/ disk[c.file].stat = c.stat)
    => disk[c.file].audio = c.audio

\* The check after the analysis refuses c whatever happens to its file: bytes once replaced
\* never have the stat c remembers again.
Ruined(c) ==
  \/ disk[c.file] = None
  \/ c.stat # None /\ disk[c.file].stat # c.stat

RowsTell == \A f \in Files : row[f] # None =>
  Tells(CandidateOf(f)) /\ (row[f].stat = None => f \in Liners)

BatchTells == \A c \in job.ready \cup job.priority :
  Tells(c) /\ (c.stat = None => c.file \in Liners)

\* What is found of a file is of the audio it was read with, or nothing, or will be refused.
FoundTells ==
  /\ \A x \in job.found :
       /\ x.c \in job.ready
       /\ \/ x.of = x.c.audio
          \/ x.of = None /\ x.verdict = "fallback"
          \/ Ruined(x.c)
  /\ job.step \in {"taking", "analysing"} => job.found = {}

\* What the prune's draft has lost or may lose.
DraftKeeps ==
  /\ DraftIsFunction
  /\ job.step = "cleared" => \A a \in Audios :
       /\ job.draft[a] = None <=> cues[a] = None
       /\ job.draft[a] # None /\ job.draft[a].mark = "old" => a \in job.out /\ cues[a].mark = "old"
  /\ job.step = "deleted" => \A a \in Audios :
       job.draft[a] = None /\ cues[a] # None => a \in job.out /\ cues[a].mark = "old"

\* What the draft still has is what the table has.
DraftCues ==
  job.step \in {"cleared", "deleted"} => \A a \in Audios : job.draft[a] # None =>
    cues[a] # None /\ job.draft[a].of = cues[a].of /\ job.draft[a].kind = cues[a].kind

KnowsAudio ==
  RowsTell /\ BatchTells /\ FoundTells

-----------------------------------------------------------------------------
(* What the library does to what is known of a file. *)

\* A file keeps its bytes, goes, or gets bytes whose stat nothing remembers.
DiskStep ==
  \A f \in Files :
    \/ disk'[f] = disk[f]
    \/ disk'[f] = None
    \/ f \notin Liners /\ disk'[f] # None /\ disk'[f].stat \notin Remembered(f)

LEMMA LibraryDiskStep ==
  ASSUME TypeOK, NEW g \in Files,
         WriteFile(g) \/ RemoveFile(g) \/ Rescan(g) \/ Fingerprint(g) \/ DeleteRow(g)
  PROVE  DiskStep
<1>1. CASE WriteFile(g)
  <2>1. NewStat(g) \notin Remembered(g)
    BY <1>1 DEF WriteFile, NewStat
  <2>2. PICK a \in Audios : disk' = [disk EXCEPT ![g] = [audio |-> a, stat |-> NewStat(g)]]
    BY <1>1 DEF WriteFile
  <2>3. disk'[g].stat = NewStat(g) /\ disk'[g] \in Bytes
    <3>1. NewStat(g) \in Stats
      BY <1>1 DEF WriteFile, NewStat
    <3> QED
      BY <2>2, <3>1 DEF TypeOK, Bytes
  <2>4. disk'[g] # None
    BY <2>3, NoneAssumption
  <2> QED
    BY <1>1, <2>1, <2>2, <2>3, <2>4 DEF TypeOK, WriteFile, DiskStep
<1>2. CASE RemoveFile(g) \/ DeleteRow(g)
  BY <1>2 DEF TypeOK, RemoveFile, DeleteRow, DiskStep
<1>3. CASE Rescan(g) \/ Fingerprint(g)
  BY <1>3 DEF Rescan, Fingerprint, DiskStep
<1> QED
  BY <1>1, <1>2, <1>3

LEMMA RememberedOf ==
  ASSUME TypeOK, NEW c \in Candidate,
         \/ c \in job.ready \cup job.priority
         \/ row[c.file] # None /\ c.stat = row[c.file].stat
  PROVE  c.stat \in Remembered(c.file)
  BY DEF Remembered

\* A hash and stat that told the audio still do, and what is ruined stays so.
LEMMA TellsKept ==
  ASSUME TypeOK, DiskStep, NEW c \in Candidate, Tells(c), c.stat = None => c.file \in Liners,
         c.stat \in Remembered(c.file)
  PROVE  Tells(c)'
<1>1. c.file \in Files
  BY DEF Candidate
<1>2. CASE disk'[c.file] = disk[c.file] \/ disk'[c.file] = None
  BY <1>2 DEF Tells
<1>3. CASE /\ c.file \notin Liners /\ disk'[c.file] # None
           /\ disk'[c.file].stat \notin Remembered(c.file)
  BY <1>3 DEF Tells
<1> QED
  BY <1>1, <1>2, <1>3 DEF DiskStep

LEMMA RuinedKept ==
  ASSUME TypeOK, DiskStep, NEW c \in Candidate, Ruined(c), c.stat = None => c.file \in Liners,
         c.stat \in Remembered(c.file)
  PROVE  Ruined(c)'
<1>1. c.file \in Files
  BY DEF Candidate
<1>2. CASE disk'[c.file] = disk[c.file] \/ disk'[c.file] = None
  BY <1>2 DEF Ruined
<1>3. CASE /\ c.file \notin Liners /\ disk'[c.file] # None
           /\ disk'[c.file].stat \notin Remembered(c.file)
  BY <1>3 DEF Ruined
<1> QED
  BY <1>1, <1>2, <1>3 DEF DiskStep

LEMMA BatchesKept ==
  ASSUME TypeOK, DiskStep, BatchTells, FoundTells, job' = job
  PROVE  BatchTells' /\ FoundTells'
<1>1. BatchTells'
  <2> SUFFICES ASSUME NEW c \in job.ready \cup job.priority
               PROVE  Tells(c)' /\ (c.stat = None => c.file \in Liners)
    BY DEF BatchTells
  <2>1. c \in Candidate /\ c.stat \in Remembered(c.file)
    BY RememberedOf DEF TypeOK, Job
  <2> QED
    BY <2>1, TellsKept DEF BatchTells
<1>2. FoundTells'
  <2>1. ASSUME NEW x \in job.found, Ruined(x.c), x.c \in job.ready PROVE Ruined(x.c)'
    <3> DEFINE c == x.c
    <3>1. c \in Candidate /\ c.stat \in Remembered(c.file) /\ (c.stat = None => c.file \in Liners)
      BY <2>1, RememberedOf DEF TypeOK, Job, BatchTells
    <3> HIDE DEF c
    <3>2. Ruined(c)
      BY <2>1 DEF c
    <3>3. Ruined(c)'
      BY <3>1, <3>2, RuinedKept
    <3> QED
      BY <3>3 DEF c
  <2> QED
    BY <2>1 DEF FoundTells
<1> QED
  BY <1>1, <1>2

LEMMA RowKept ==
  ASSUME TypeOK, RowsTell, DiskStep, NEW f \in Files, row[f] # None, row'[f] # None,
         row'[f].audio = row[f].audio, row'[f].stat = row[f].stat
  PROVE  Tells(CandidateOf(f))' /\ (row'[f].stat = None => f \in Liners)
<1> DEFINE c == CandidateOf(f)
<1>1. c \in Candidate /\ c.file = f /\ c.stat = row[f].stat
  BY CandidateOfType DEF CandidateOf
<1>2. Tells(c) /\ (c.stat = None => c.file \in Liners)
  BY <1>1 DEF RowsTell
<1>3. c.stat \in Remembered(c.file)
  BY <1>1, RememberedOf
<1>4. c.audio = row[f].audio
  BY DEF CandidateOf
<1> HIDE DEF c
<1>5. PICK k \in Candidate : k = c
  BY <1>1
<1>6. Tells(k)'
  BY <1>1, <1>2, <1>3, <1>5, TellsKept
<1>7. Tells(CandidateOf(f))'
  BY <1>1, <1>4, <1>5, <1>6 DEF Tells, CandidateOf
<1> QED
  BY <1>1, <1>2, <1>7

LEMMA LibraryKeeps ==
  ASSUME TypeOK, KnowsAudio, NEW g \in Files,
         WriteFile(g) \/ RemoveFile(g) \/ Rescan(g) \/ Fingerprint(g) \/ DeleteRow(g)
  PROVE  KnowsAudio'
<1>1. DiskStep /\ job' = job
  BY LibraryDiskStep DEF WriteFile, RemoveFile, Rescan, Fingerprint, DeleteRow
<1>2. BatchTells' /\ FoundTells'
  BY <1>1, BatchesKept DEF KnowsAudio
<1>3. ASSUME NEW f \in Files, row'[f] # None
      PROVE  Tells(CandidateOf(f))' /\ (row'[f].stat = None => f \in Liners)
  <2>1. CASE /\ row[f] # None
             /\ row'[f].audio = row[f].audio /\ row'[f].stat = row[f].stat
    BY <1>1, <1>3, <2>1, RowKept DEF KnowsAudio
  <2>2. CASE Rescan(g) /\ f = g /\ disk[g] # None /\ disk[g].stat # row[g].stat
    <3>1. row'[f].audio = disk[f].audio /\ row'[f].stat = disk[f].stat /\ disk' = disk
      BY <2>2 DEF Rescan, TypeOK
    <3>2. row'[f].stat # None
      BY <2>2, <3>1, NoneAssumption DEF TypeOK, Bytes
    <3> QED
      BY <3>1, <3>2 DEF Tells, CandidateOf
  <2>3. \/ row[f] # None /\ row'[f].audio = row[f].audio /\ row'[f].stat = row[f].stat
        \/ Rescan(g) /\ f = g /\ disk[g] # None /\ disk[g].stat # row[g].stat
    <3>1. CASE WriteFile(g) \/ RemoveFile(g)
      BY <1>3, <3>1 DEF WriteFile, RemoveFile
    <3>2. CASE Rescan(g)
      <4>1. row[g] \in Row
        BY <3>2 DEF TypeOK, Rescan
      <4> QED
        BY <1>3, <3>2, <4>1 DEF TypeOK, Rescan, Row
    <3>3. CASE Fingerprint(g)
      <4>1. row[g] \in Row
        BY <3>3 DEF TypeOK, Fingerprint
      <4> QED
        BY <1>3, <3>3, <4>1 DEF TypeOK, Fingerprint, Row
    <3>4. CASE DeleteRow(g)
      BY <1>3, <3>4 DEF TypeOK, DeleteRow
    <3> QED
      BY <3>1, <3>2, <3>3, <3>4
  <2> QED
    BY <2>1, <2>2, <2>3
<1> QED
  BY <1>2, <1>3 DEF KnowsAudio, RowsTell

-----------------------------------------------------------------------------
(* What a run makes of it. *)

LEMMA CandidatesTell ==
  ASSUME TypeOK, RowsTell, NEW table, NEW fs \in SUBSET Files, NEW c \in Candidates(table, fs)
  PROVE  Tells(c) /\ (c.stat = None => c.file \in Liners)
<1>1. PICK f \in fs : c = CandidateOf(f) /\ NeedsIn(table, f)
  BY DEF Candidates
<1>2. c.file = f /\ c.stat = row[f].stat /\ row[f] # None
  BY <1>1 DEF CandidateOf, NeedsIn
<1> QED
  BY <1>1, <1>2 DEF RowsTell

LEMMA SameLibrary ==
  ASSUME UNCHANGED library
  PROVE  /\ RowsTell => RowsTell'
         /\ \A c : (Tells(c) => Tells(c)') /\ (Ruined(c) => Ruined(c)')
  BY DEF library, RowsTell, Tells, Ruined, CandidateOf

LEMMA StartKeeps ==
  ASSUME TypeOK, KnowsAudio,
         StartRun \/ (\E f \in Files : Report(f) \/ ForgetReport(f) \/ StartReport(f))
  PROVE  KnowsAudio'
<1>1. ASSUME StartRun PROVE KnowsAudio'
  <2>1. \A c \in Candidates(Purged, Liners \cup Scheduled) :
          Tells(c) /\ (c.stat = None => c.file \in Liners)
    BY CandidatesTell, FilesAssumption DEF KnowsAudio
  <2>2. /\ job'.priority = Candidates(Purged, Liners \cup Scheduled)
        /\ job'.ready = {} /\ job'.found = {}
    BY <1>1 DEF StartRun, Idle
  <2>3. RowsTell' /\ \A c : Tells(c) => Tells(c)'
    BY <1>1, SameLibrary DEF StartRun, KnowsAudio
  <2> QED
    BY <2>1, <2>2, <2>3 DEF KnowsAudio, BatchTells, FoundTells
<1>2. ASSUME NEW f \in Files, Report(f) \/ ForgetReport(f) PROVE KnowsAudio'
  <2>1. UNCHANGED library /\ job' = job
    BY <1>2 DEF Report, ForgetReport
  <2> QED
    BY <2>1, SameLibrary DEF KnowsAudio, BatchTells, FoundTells
<1>3. ASSUME NEW f \in Files, StartReport(f) PROVE KnowsAudio'
  <2>1. CASE Needs(f)
    <3>1. CandidateOf(f) \in Candidates(cues, Files)
      BY <2>1 DEF Candidates, Needs
    <3>2. Tells(CandidateOf(f)) /\ (CandidateOf(f).stat = None => CandidateOf(f).file \in Liners)
      BY <3>1, CandidatesTell DEF KnowsAudio
    <3>3. job'.priority = {CandidateOf(f)} /\ job'.ready = {} /\ job'.found = {}
      BY <1>3, <2>1 DEF StartReport, Idle
    <3>4. RowsTell' /\ \A c : Tells(c) => Tells(c)'
      BY <1>3, SameLibrary DEF StartReport, KnowsAudio
    <3> QED
      BY <3>2, <3>3, <3>4 DEF KnowsAudio, BatchTells, FoundTells
  <2>2. CASE ~Needs(f)
    BY <1>3, <2>2, SameLibrary DEF StartReport, Idle, KnowsAudio, BatchTells, FoundTells
  <2> QED
    BY <2>1, <2>2
<1> QED
  BY <1>1, <1>2, <1>3

LEMMA TakeBatchKeeps ==
  ASSUME TypeOK, KnowsAudio, TakeBatch
  PROVE  KnowsAudio'
<1> DEFINE listed == job.priority = {}
           batch == IF listed THEN LibraryBatch(job.after) ELSE FirstOf(job.priority)
           unseen == Unseen(batch)
           ready == DedupeAudio({c \in unseen : ~StatProblem(c)})
<1>1. \A c \in batch : Tells(c) /\ (c.stat = None => c.file \in Liners)
  <2>1. CASE listed
    BY <2>1, CandidatesTell DEF LibraryBatch, FirstOf, KnowsAudio
  <2>2. CASE ~listed
    BY <2>2 DEF FirstOf, KnowsAudio, BatchTells
  <2> QED
    BY <2>1, <2>2
<1>2. ready \subseteq batch
  BY DEF Unseen, DedupeAudio
<1>3. /\ job'.ready = ready /\ job'.priority = job.priority \ batch
      /\ job'.found = job.found /\ job.found = {}
  BY DEF TypeOK, Job, TakeBatch, KnowsAudio, FoundTells
<1>4. RowsTell' /\ \A c : Tells(c) => Tells(c)'
  BY SameLibrary DEF TakeBatch, KnowsAudio
<1> HIDE DEF listed, batch, unseen, ready
<1> QED
  BY <1>1, <1>2, <1>3, <1>4 DEF KnowsAudio, BatchTells, FoundTells

LEMMA FindingTells ==
  ASSUME TypeOK, NEW c \in Candidate, NEW v \in {"cues", "fallback"}, Tells(c)
  PROVE  LET x == Findings(c, v)
         IN  /\ x.c = c
             /\ \/ x.of = c.audio
                \/ x.of = None /\ x.verdict = "fallback"
                \/ Ruined(c)
<1>1. CASE OnDisk(c.file) = None
  BY <1>1 DEF Findings
<1>2. CASE OnDisk(c.file) # None
  BY <1>2 DEF Findings, OnDisk, Tells, Ruined
<1> QED
  BY <1>1, <1>2

LEMMA AnalyseKeeps ==
  ASSUME TypeOK, KnowsAudio, Analyse
  PROVE  KnowsAudio'
<1>1. PICK final \in job.ready :
        \E verdicts \in [{c \in job.ready : c.file <= final.file} -> {"cues", "fallback"}] :
          job' = [job EXCEPT !.step = "analysed", !.last = final.file,
                    !.found = {Findings(c, verdicts[c]) : c \in {d \in job.ready : d.file <= final.file}}]
  BY DEF Analyse
<1> DEFINE settled == {c \in job.ready : c.file <= final.file}
<1>2. PICK verdicts \in [settled -> {"cues", "fallback"}] :
        job' = [job EXCEPT !.step = "analysed", !.last = final.file,
                  !.found = {Findings(c, verdicts[c]) : c \in settled}]
  BY <1>1
<1>3. settled \subseteq job.ready
  OBVIOUS
<1> HIDE DEF settled
<1>4. /\ job'.found = {Findings(c, verdicts[c]) : c \in settled} /\ job'.step = "analysed"
      /\ job'.ready = job.ready /\ job'.priority = job.priority
  BY <1>2 DEF TypeOK, Job
<1>5. RowsTell' /\ \A c : (Tells(c) => Tells(c)') /\ (Ruined(c) => Ruined(c)')
  BY SameLibrary DEF Analyse, KnowsAudio
<1>6. ASSUME NEW x \in job'.found
      PROVE  /\ x.c \in job'.ready
             /\ \/ x.of = x.c.audio
                \/ x.of = None /\ x.verdict = "fallback"
                \/ Ruined(x.c)'
  <2>1. PICK c \in settled : x = Findings(c, verdicts[c])
    BY <1>4
  <2>2. c \in Candidate /\ Tells(c) /\ verdicts[c] \in {"cues", "fallback"}
    BY <1>2, <1>3 DEF TypeOK, Job, KnowsAudio, BatchTells
  <2>3. /\ x.c = c
        /\ \/ x.of = c.audio
           \/ x.of = None /\ x.verdict = "fallback"
           \/ Ruined(c)
    BY <2>1, <2>2, FindingTells
  <2> QED
    BY <1>3, <1>4, <1>5, <2>3
<1> QED
  BY <1>4, <1>5, <1>6 DEF KnowsAudio, BatchTells, FoundTells

LEMMA RecordBatchKeeps ==
  ASSUME TypeOK, KnowsAudio, RecordBatch
  PROVE  KnowsAudio'
<1>1. PutBack \in Job /\ PutBack.priority \subseteq job.priority \cup job.ready
  <2>1. Untried \subseteq job.ready
    BY DEF Untried
  <2> QED
    BY <2>1, PutBackType, FilesAssumption DEF TypeOK, Job, PutBack
<1>2. /\ job'.ready = {} /\ job'.found = {}
      /\ job'.priority \subseteq job.priority \cup job.ready
  <2> DEFINE recorded == PutBack.recorded \cup StoredAudio
             fruitless == IF Stored # job.found /\ job.fruitless < Patience
                            THEN PutBack.fruitless + 1 ELSE PutBack.fruitless
             run == [PutBack EXCEPT !.step = "taking", !.ready = {}, !.found = {}, !.last = 0, !.listed = FALSE,
                                    !.recorded = recorded, !.fruitless = fruitless]
  <2>1. job' = run \/ job' = Idle
    BY DEF RecordBatch
  <2> HIDE DEF recorded, fruitless
  <2>2. run.ready = {} /\ run.found = {} /\ run.priority = PutBack.priority
    BY <1>1 DEF Job
  <2> HIDE DEF run
  <2>3. Idle.ready = {} /\ Idle.found = {} /\ Idle.priority = {}
    BY DEF Idle
  <2>4. CASE job' = run
    BY <1>1, <2>2, <2>4
  <2>5. CASE job' = Idle
    BY <2>3, <2>5
  <2> QED
    BY <2>1, <2>4, <2>5
<1>3. RowsTell' /\ \A c : Tells(c) => Tells(c)'
  BY SameLibrary DEF RecordBatch, KnowsAudio
<1> QED
  BY <1>2, <1>3 DEF KnowsAudio, BatchTells, FoundTells

\* What is stored passed the check after the analysis, so nothing was ruined.
LEMMA StoredTells ==
  ASSUME TypeOK, KnowsAudio, NEW a \in StoredAudio
  PROVE  /\ CueRow(a).of = a \/ (CueRow(a).kind = "fallback" /\ CueRow(a).of = None)
         /\ CueRow(a) # None
<1>1. PICK y \in Stored : y.c.audio = a
  BY DEF StoredAudio
<1> DEFINE x == CHOOSE z \in Stored : z.c.audio = a
<1>2. x \in Stored /\ x.c.audio = a
  BY <1>1
<1>3. CueRow(a).of = x.of /\ CueRow(a).kind = x.verdict
  BY DEF CueRow
<1> HIDE DEF x
<1>4. x \in job.found /\ ~StatProblem(x.c)
  BY <1>2 DEF Stored
<1>5. ~Ruined(x.c)
  BY <1>4 DEF StatProblem, OnDisk, Ruined
<1>6. CueRow(a) \in Cues
  BY StoredType
<1> QED
  BY <1>2, <1>3, <1>4, <1>5, <1>6, NoneAssumption DEF KnowsAudio, FoundTells

LEMMA StopKeeps ==
  ASSUME TypeOK, KnowsAudio, BacklogDone \/ NothingReady \/ AnalyserFails \/ Crash \/ Unplug \/ Replug
  PROVE  KnowsAudio'
<1>1. CASE BacklogDone \/ AnalyserFails \/ Crash
  <2>1. UNCHANGED library /\ job' = Idle
    BY <1>1 DEF BacklogDone, AnalyserFails, Crash
  <2> QED
    BY <2>1, SameLibrary DEF Idle, KnowsAudio, BatchTells, FoundTells
<1>2. CASE NothingReady
  <2>1. /\ job'.ready = job.ready /\ job'.priority = job.priority
        /\ job'.found = job.found /\ job'.step = "analysed"
    BY <1>2 DEF TypeOK, Job, NothingReady
  <2> QED
    BY <1>2, <2>1, SameLibrary DEF NothingReady, KnowsAudio, BatchTells, FoundTells
<1>3. CASE Unplug \/ Replug
  BY <1>3 DEF Unplug, Replug, KnowsAudio, RowsTell, BatchTells, FoundTells, Tells, Ruined, CandidateOf
<1> QED
  BY <1>1, <1>2, <1>3

LEMMA PruneKeeps ==
  ASSUME TypeOK, KnowsAudio, Prune \/ DayPasses
  PROVE  KnowsAudio'
<1>1. RowsTell' /\ \A c : (Tells(c) => Tells(c)') /\ (Ruined(c) => Ruined(c)')
  BY SameLibrary DEF Prune, ClearReturned, DeleteExpired, MarkOrphans, DayPasses, KnowsAudio
<1>2. CASE ClearReturned \/ MarkOrphans
  <2>1. job'.ready = {} /\ job'.priority = {} /\ job'.found = {}
    <3>1. CASE ClearReturned
      <4>1. PICK out, draft : job' = [Idle EXCEPT !.step = "cleared", !.out = out, !.draft = draft]
        BY <3>1 DEF ClearReturned
      <4> QED
        BY <4>1 DEF Idle
    <3>2. CASE MarkOrphans
      BY <3>2 DEF MarkOrphans, Idle
    <3> QED
      BY <1>2, <3>1, <3>2
  <2> QED
    BY <1>1, <2>1 DEF KnowsAudio, BatchTells, FoundTells
<1>3. CASE DeleteExpired
  <2>1. /\ job'.ready = job.ready /\ job'.priority = job.priority
        /\ job'.found = job.found /\ job'.step = "deleted"
    BY <1>3 DEF TypeOK, Job, DeleteExpired
  <2> QED
    BY <1>1, <2>1 DEF KnowsAudio, BatchTells, FoundTells
<1>4. CASE DayPasses
  BY <1>1, <1>4 DEF DayPasses, KnowsAudio, BatchTells, FoundTells
<1> QED
  BY <1>2, <1>3, <1>4 DEF Prune

LEMMA KnowsInductive ==
  ASSUME TypeOK, KnowsAudio, [Next]_vars
  PROVE  KnowsAudio'
<1>1. CASE UNCHANGED vars
  <2>1. UNCHANGED library /\ job' = job
    BY <1>1 DEF vars
  <2> QED
    BY <2>1, SameLibrary DEF KnowsAudio, BatchTells, FoundTells
<1> QED
  BY <1>1, LibraryKeeps, StartKeeps, TakeBatchKeeps, AnalyseKeeps, RecordBatchKeeps, StopKeeps, PruneKeeps
     DEF Next, RunGoesOn

-----------------------------------------------------------------------------
(* What the table of cues holds. *)

\* Everything but a run's end, a run's start and a prune leaves the table and the draft.
LEMMA Elsewhere ==
  ASSUME TypeOK, [Next]_vars
  PROVE  \/ cues' = cues /\ (job' = job \/ job'.step \notin {"cleared", "deleted"})
         \/ StartRun \/ RecordBatch \/ Prune \/ DayPasses
<1>1. ASSUME NEW f \in Files,
             \/ WriteFile(f) \/ RemoveFile(f) \/ Rescan(f) \/ Fingerprint(f) \/ DeleteRow(f)
             \/ Report(f) \/ ForgetReport(f)
      PROVE  cues' = cues /\ job' = job
  BY <1>1 DEF WriteFile, RemoveFile, Rescan, Fingerprint, DeleteRow, Report, ForgetReport
<1>2. ASSUME NEW f \in Files, StartReport(f)
      PROVE  cues' = cues /\ job'.step \notin {"cleared", "deleted"}
  BY <1>2 DEF StartReport, Idle
<1>3. ASSUME BacklogDone \/ AnalyserFails \/ Crash
      PROVE  cues' = cues /\ job'.step \notin {"cleared", "deleted"}
  BY <1>3 DEF BacklogDone, AnalyserFails, Crash, Idle
<1>4. ASSUME TakeBatch PROVE cues' = cues /\ job'.step \notin {"cleared", "deleted"}
  BY <1>4 DEF TypeOK, Job, TakeBatch
<1>5. ASSUME NothingReady PROVE cues' = cues /\ job'.step \notin {"cleared", "deleted"}
  BY <1>5 DEF TypeOK, Job, NothingReady
<1>6. ASSUME Analyse PROVE cues' = cues /\ job'.step \notin {"cleared", "deleted"}
  BY <1>6 DEF TypeOK, Job, Analyse
<1>7. ASSUME Unplug \/ Replug \/ UNCHANGED vars PROVE cues' = cues /\ job' = job
  BY <1>7 DEF Unplug, Replug, vars
<1> QED
  BY <1>1, <1>2, <1>3, <1>4, <1>5, <1>6, <1>7 DEF Next, RunGoesOn

LEMMA ClearReturnedJob ==
  ASSUME ClearReturned
  PROVE  /\ job'.step = "cleared" /\ job'.out = {a \in Audios : ~InLibrary(a)}
         /\ job'.draft = [a \in Audios |->
              IF cues[a] # None /\ InLibrary(a) THEN [cues[a] EXCEPT !.mark = None] ELSE cues[a]]
<1>1. PICK out, draft :
        /\ job' = [Idle EXCEPT !.step = "cleared", !.out = out, !.draft = draft]
        /\ out = {a \in Audios : ~InLibrary(a)}
        /\ draft = [a \in Audios |->
             IF cues[a] # None /\ InLibrary(a) THEN [cues[a] EXCEPT !.mark = None] ELSE cues[a]]
  BY DEF ClearReturned
<1> QED
  BY <1>1 DEF Idle

LEMMA DeleteExpiredJob ==
  ASSUME TypeOK, DeleteExpired
  PROVE  /\ job'.step = "deleted" /\ job'.out = job.out
         /\ job'.draft = [a \in Audios |->
              IF job.draft[a] # None /\ job.draft[a].mark = "old" THEN None ELSE job.draft[a]]
<1>1. PICK draft :
        /\ job' = [job EXCEPT !.step = "deleted", !.draft = draft]
        /\ draft = [a \in Audios |->
             IF job.draft[a] # None /\ job.draft[a].mark = "old" THEN None ELSE job.draft[a]]
  BY DEF DeleteExpired
<1> QED
  BY <1>1 DEF TypeOK, Job

LEMMA MarkIsTheLast ==
  ASSUME NEW x \in Cues, NEW m \in {None, "young", "old"}
  PROVE  LET y == [x EXCEPT !.mark = m]
         IN  /\ y \in Cues /\ y # None
             /\ y.of = x.of /\ y.kind = x.kind /\ y.current = x.current /\ y.mark = m
  BY NoneAssumption DEF Cues

LEMMA DraftInductive ==
  ASSUME TypeOK, DraftKeeps, DraftCues, [Next]_vars
  PROVE  DraftKeeps' /\ DraftCues'
<1>1. DraftIsFunction'
  BY TypeInductive DEF DraftKeeps
<1>2. CASE cues' = cues /\ (job' = job \/ job'.step \notin {"cleared", "deleted"})
  BY <1>1, <1>2 DEF DraftKeeps, DraftCues
<1>3. CASE StartRun \/ RecordBatch \/ MarkOrphans
  <2>1. job'.step \notin {"cleared", "deleted"}
    <3>1. CASE StartRun
      <4>1. PICK priority : job' = [Idle EXCEPT !.step = "taking", !.priority = priority]
        BY <3>1 DEF StartRun
      <4> QED
        BY <4>1 DEF Idle
    <3>2. CASE RecordBatch
      BY <3>2, RecordBatchType
    <3>3. CASE MarkOrphans
      BY <3>3 DEF MarkOrphans, Idle
    <3> QED
      BY <1>3, <3>1, <3>2, <3>3
  <2> QED
    BY <1>1, <2>1 DEF DraftKeeps, DraftCues
<1>4. CASE DayPasses
  BY <1>1, <1>4 DEF DayPasses, DraftKeeps, DraftCues
<1>5. CASE ClearReturned
  <2>1. ASSUME NEW a \in Audios, cues[a] # None
        PROVE  /\ job'.draft[a] # None
               /\ job'.draft[a].of = cues[a].of /\ job'.draft[a].kind = cues[a].kind
               /\ job'.draft[a].mark = "old" => ~InLibrary(a) /\ cues[a].mark = "old"
    <3>1. cues[a] \in Cues
      BY <2>1 DEF TypeOK
    <3>2. CASE InLibrary(a)
      <4>1. job'.draft[a] = [cues[a] EXCEPT !.mark = None]
        BY <1>5, <2>1, <3>2, ClearReturnedJob
      <4>2. None # "old"
        BY NoneAssumption
      <4> DEFINE y == [cues[a] EXCEPT !.mark = None]
      <4>3. y # None /\ y.of = cues[a].of /\ y.kind = cues[a].kind /\ y.mark = None
        BY <3>1, MarkIsTheLast
      <4> HIDE DEF y
      <4>4. job'.draft[a] = y
        BY <4>1 DEF y
      <4> QED
        BY <4>2, <4>3, <4>4
    <3>3. CASE ~InLibrary(a)
      BY <1>5, <2>1, <3>3, ClearReturnedJob
    <3> QED
      BY <3>2, <3>3
  <2>2. ASSUME NEW a \in Audios, cues[a] = None PROVE job'.draft[a] = None
    BY <1>5, <2>2, ClearReturnedJob
  <2>3. cues' = cues /\ job'.step = "cleared" /\ \A a \in Audios : ~InLibrary(a) => a \in job'.out
    BY <1>5, ClearReturnedJob DEF ClearReturned
  <2> QED
    BY <1>1, <2>1, <2>2, <2>3 DEF DraftKeeps, DraftCues
<1>6. CASE DeleteExpired
  <2>1. cues' = cues /\ job.step = "cleared"
    BY <1>6 DEF DeleteExpired
  <2> QED
    BY <1>1, <1>6, <2>1, DeleteExpiredJob DEF DraftKeeps, DraftCues
<1> QED
  BY <1>2, <1>3, <1>4, <1>5, <1>6, Elsewhere DEF Prune

LEMMA CuesInductive ==
  ASSUME TypeOK, KnowsAudio, DraftKeeps, DraftCues, CuesOfTheirAudio, [Next]_vars
  PROVE  CuesOfTheirAudio'
<1>1. CASE cues' = cues
  BY <1>1 DEF CuesOfTheirAudio
<1>2. CASE StartRun
  BY <1>2 DEF StartRun, Purged, CuesOfTheirAudio
<1>3. CASE RecordBatch
  BY <1>3, StoredTells DEF RecordBatch, CuesOfTheirAudio
<1>4. CASE MarkOrphans
  <2>1. ASSUME NEW a \in Audios, cues'[a] # None
        PROVE  cues'[a].of = a \/ (cues'[a].kind = "fallback" /\ cues'[a].of = None)
    <3>1. job.draft[a] \in Cues \cup {None}
      BY <1>4 DEF MarkOrphans, DraftKeeps, DraftIsFunction
    <3>2. CASE job.draft[a] = None
      BY <1>4, <2>1, <3>2 DEF MarkOrphans
    <3>3. CASE job.draft[a] # None
      <4>1. cues'[a].of = job.draft[a].of /\ cues'[a].kind = job.draft[a].kind
        BY <1>4, <3>1, <3>3, MarkIsTheLast DEF MarkOrphans
      <4> QED
        BY <1>4, <3>3, <4>1 DEF MarkOrphans, DraftCues, CuesOfTheirAudio
    <3> QED
      BY <3>2, <3>3
  <2> QED
    BY <2>1 DEF CuesOfTheirAudio
<1>5. CASE DayPasses
  <2>1. ASSUME NEW a \in Audios, cues'[a] # None
        PROVE  cues[a] # None /\ cues'[a].of = cues[a].of /\ cues'[a].kind = cues[a].kind
    BY <1>5, <2>1, MarkIsTheLast DEF TypeOK, DayPasses
  <2> QED
    BY <2>1 DEF CuesOfTheirAudio
<1>6. CASE ClearReturned \/ DeleteExpired
  BY <1>1, <1>6 DEF ClearReturned, DeleteExpired
<1> QED
  BY <1>1, <1>2, <1>3, <1>4, <1>5, <1>6, Elsewhere DEF Prune

LEMMA CueInitially == Init => KnowsAudio /\ DraftKeeps /\ DraftCues /\ CuesOfTheirAudio
<1> SUFFICES ASSUME Init PROVE KnowsAudio /\ DraftKeeps /\ DraftCues /\ CuesOfTheirAudio
  OBVIOUS
<1>1. RowsTell
  BY NoneAssumption, DataAssumption DEF Init, RowsTell, Tells, CandidateOf
<1>2. CuesOfTheirAudio
  BY DEF Init, CuesOfTheirAudio
<1> QED
  BY <1>1, <1>2 DEF Init, Idle, KnowsAudio, BatchTells, FoundTells, DraftKeeps, DraftIsFunction, DraftCues

(* For any files, however they change: no order of edits, rescans, deletions and faults   *)
(* stores under one audio the cues measured on another.                                    *)
THEOREM CuesKept == Spec => []CuesOfTheirAudio
<1>1. TypeOK /\ DraftKeeps => DraftIsFunction
  BY DEF DraftKeeps
<1> QED
  BY <1>1, TypeInitially, TypeInductive, CueInitially, KnowsInductive, DraftInductive, CuesInductive, PTL
     DEF Spec

(* For any files: the prune deletes no row that an earlier prune had not marked, or whose  *)
(* audio was in the library when it began.                                                 *)
THEOREM PruneWaits == Spec => KeptWhileUsed
<1> DEFINE Waits == \A a \in Audios : cues[a] # None /\ cues'[a] = None =>
                      ~cues[a].current \/ (a \in job.out /\ cues[a].mark = "old")
<1>1. ASSUME TypeOK, DraftKeeps, [Next]_vars PROVE Waits
  <2> SUFFICES ASSUME NEW a \in Audios, cues[a] # None, cues'[a] = None
               PROVE  ~cues[a].current \/ (a \in job.out /\ cues[a].mark = "old")
    OBVIOUS
  <2>1. CASE cues' = cues \/ ClearReturned \/ DeleteExpired
    BY <2>1 DEF ClearReturned, DeleteExpired
  <2>2. CASE StartRun
    BY <2>2 DEF StartRun, Purged
  <2>3. CASE RecordBatch
    BY <1>1, <2>3, StoredType, NoneAssumption DEF RecordBatch
  <2>4. CASE MarkOrphans
    <3>1. job.draft[a] \in Cues \cup {None}
      BY <1>1, <2>4 DEF MarkOrphans, DraftKeeps, DraftIsFunction
    <3>2. job.draft[a] = None
      BY <2>4, <3>1, MarkIsTheLast DEF MarkOrphans
    <3> QED
      BY <1>1, <2>4, <3>2 DEF MarkOrphans, DraftKeeps
  <2>5. CASE DayPasses
    <3>1. cues[a] \in Cues
      BY <1>1 DEF TypeOK
    <3>2. [cues[a] EXCEPT !.mark = "old"] # None
      BY <3>1, MarkIsTheLast
    <3>3. cues'[a] = cues[a] \/ cues'[a] = [cues[a] EXCEPT !.mark = "old"]
      BY <2>5 DEF DayPasses
    <3> QED
      BY <3>2, <3>3
  <2> QED
    BY <1>1, <2>1, <2>2, <2>3, <2>4, <2>5, Elsewhere DEF Prune
<1>2. TypeOK /\ DraftKeeps => DraftIsFunction
  BY DEF DraftKeeps
<1>3. UNCHANGED vars => Waits
  BY DEF vars
<1>4. ASSUME TypeOK, DraftKeeps, [Next]_vars PROVE [Waits]_vars
  BY <1>1, <1>4
<1> QED
  BY <1>2, <1>4, TypeInitially, TypeInductive, CueInitially, DraftInductive, PTL
     DEF Spec, KeptWhileUsed

=============================================================================
