----------------------------- MODULE MatchingRun -----------------------------
(***************************************************************************)
(* Matching runs and the progress row each of them shares with its stages:  *)
(* a re-check opens the row and queues an artist stage per playlist, every  *)
(* artist stage hands on to an identity stage, and each stage that ends     *)
(* takes one off the row's count until the last one closes it               *)
(* (tasks/_matching_run.py, tasks/matching_recheck_tasks.py and the two     *)
(* matching tasks, db/repositories/matching_run.py).                        *)
(*                                                                         *)
(* One worker runs the queue; which queued task it takes next is left open. *)
(* The counts of pending items in the row are left out.                     *)
(***************************************************************************)
EXTENDS Integers, FiniteSets

CONSTANTS
  Runs,           \* the re-checks
  Playlists,
  WritesMayDrop,  \* whether a write of a row may be dropped by a lost database
  WorkerMayCrash, \* whether the worker may die in the middle of a task
  CloseMayFail    \* whether closing the log connection may raise after a hand-off

ASSUME PlaylistsAssumption == IsFiniteSet(Playlists)
ASSUME FaultsAssumption == {WritesMayDrop, WorkerMayCrash, CloseMayFail} \subseteq BOOLEAN

VARIABLES
  recheck,  \* where each run's re-check is
  stage,    \* where each playlist's stage of each run is
  worker,   \* the task the worker is on
  row,      \* the progress row of each run
  matched   \* the playlists each run's identity stages have matched (history)

vars == <<recheck, stage, worker, row, matched>>

\* "fanning": the row is open and the stages are being queued; "failing": the
\* re-check has raised and ends the stages it has not queued.
Rechecks == {"idle", "queued", "reading", "fanning", "failing", "over"}

\* A stage is its run's whole work on a playlist, the artist task and then the
\* identity task.  "lost": its task died with the worker.
Stages == {"none", "unqueued", "artistQueued", "artist", "identityQueued", "identity",
           "ended", "lost"}

\* "handedOn": in an artist task whose identity task is queued already.
Tasks == {"recheck", "artist", "handedOn", "identity"}
Busy == [task : Tasks, run : Runs]
Free == [task |-> "none"]

TypeOK ==
  /\ recheck \in [Runs -> Rechecks]
  /\ stage \in [Runs -> [Playlists -> Stages]]
  /\ worker \in Busy \cup {Free}
  /\ row \in [Runs -> [status : {"none", "running", "failed", "completed"},
                       left : Nat, failed : Nat, dropped : BOOLEAN]]
  /\ matched \in [Runs -> SUBSET Playlists]

Init ==
  /\ recheck = [r \in Runs |-> "idle"]
  /\ stage = [r \in Runs |-> [p \in Playlists |-> "none"]]
  /\ worker = Free
  /\ row = [r \in Runs |-> [status |-> "none", left |-> 0, failed |-> 0, dropped |-> FALSE]]
  /\ matched = [r \in Runs |-> {}]

On(task, r) == worker = [task |-> task, run |-> r]
Take(task, r) == worker = Free /\ worker' = [task |-> task, run |-> r]
Become(r, p, s) == stage' = [stage EXCEPT ![r][p] = s]

Opened(r) == {p \in Playlists : stage[r][p] # "none"}
\* The stages that are still to end.
Outstanding(r) ==
  {p \in Playlists :
    stage[r][p] \in {"unqueued", "artistQueued", "artist", "identityQueued", "identity"}}

-----------------------------------------------------------------------------
(* The row's writes: one statement each; a dropped one is not tried again. *)

Landings == IF WritesMayDrop THEN BOOLEAN ELSE {TRUE}

\* MUTANT: a row the reaper has failed is not written to any more.
WritableRunning(r) == row[r].status = "running"
Writable(r) == row[r].status \in {"running", "failed"}

StagesOf(playlists) == Cardinality(playlists)

OpenRow(r, playlists) ==
  \E lands \in Landings :
    row' = IF lands
             THEN [row EXCEPT ![r] = [status |-> "running", left |-> StagesOf(playlists),
                                      failed |-> 0, dropped |-> FALSE]]
             ELSE row

\* A refresh of the counts brings back a row that the reaper failed.
RefreshRow(r) ==
  \E lands \in Landings :
    row' = IF lands /\ Writable(r) THEN [row EXCEPT ![r].status = "running"] ELSE row

\* MUTANT: a failed stage is not counted.
FinishUncounted(r, fails) ==
  \E lands \in Landings :
    row' = IF lands /\ Writable(r)
             THEN [row EXCEPT ![r].status = IF row[r].left <= 1 THEN "completed" ELSE "running",
                              ![r].left = @ - 1]
             ELSE row

\* finish_stage: one stage fewer; the row completes when none is left.  That a
\* finish was dropped is history.
FinishStage(r, fails) ==
  \E lands \in Landings :
    row' = IF ~Writable(r) THEN row
           ELSE IF lands
             THEN [row EXCEPT ![r].status = IF row[r].left <= 1 THEN "completed" ELSE "running",
                              ![r].left = @ - 1,
                              ![r].failed = IF fails THEN @ + 1 ELSE @]
             ELSE [row EXCEPT ![r].dropped = TRUE]

\* The /ws reaper: a row nothing has written to for ten minutes.  A stage may
\* wait or work for longer than that.
Reap(r) ==
  /\ row[r].status = "running"
  /\ row' = [row EXCEPT ![r].status = "failed"]
  /\ UNCHANGED <<recheck, stage, worker, matched>>

-----------------------------------------------------------------------------
(* The re-check: rematch_undecided_task in its run_fan_out. *)

Request(r) ==
  /\ recheck[r] = "idle"
  /\ recheck' = [recheck EXCEPT ![r] = "queued"]
  /\ UNCHANGED <<stage, worker, row, matched>>

StartRecheck(r) ==
  /\ recheck[r] = "queued"
  /\ Take("recheck", r)
  /\ recheck' = [recheck EXCEPT ![r] = "reading"]
  /\ UNCHANGED <<stage, row, matched>>

\* It raised before the row was opened, or no playlist has pending work.
NoRun(r) ==
  /\ recheck[r] = "reading"
  /\ recheck' = [recheck EXCEPT ![r] = "over"]
  /\ worker' = Free
  /\ UNCHANGED <<stage, row, matched>>

OpenRun(r) ==
  /\ recheck[r] = "reading"
  /\ \E playlists \in (SUBSET Playlists) \ {{}} :
       /\ stage' = [stage EXCEPT ![r] =
            [p \in Playlists |-> IF p \in playlists THEN "unqueued" ELSE "none"]]
       /\ OpenRow(r, playlists)
  /\ recheck' = [recheck EXCEPT ![r] = "fanning"]
  /\ UNCHANGED <<worker, matched>>

QueueStage(r, p) ==
  /\ recheck[r] = "fanning"
  /\ stage[r][p] = "unqueued"
  /\ Become(r, p, "artistQueued")
  /\ UNCHANGED <<recheck, worker, row, matched>>

\* The queue's store refused the task (while fanning out), or the re-check
\* never got to it (once failing): the stage ends now, failed.
EndUnqueued(r, p) ==
  /\ recheck[r] \in {"fanning", "failing"}
  /\ stage[r][p] = "unqueued"
  /\ Become(r, p, "ended")
  /\ FinishStage(r, TRUE)
  /\ UNCHANGED <<recheck, worker, matched>>

\* Its own row could not be completed, no connection for the refusals, or an
\* enqueue raised something else than a refusal.
RecheckRaises(r) ==
  /\ recheck[r] = "fanning"
  /\ recheck' = [recheck EXCEPT ![r] = "failing"]
  /\ UNCHANGED <<stage, worker, row, matched>>

RecheckEnds(r) ==
  /\ recheck[r] \in {"fanning", "failing"}
  /\ \A p \in Playlists : stage[r][p] # "unqueued"
  /\ recheck' = [recheck EXCEPT ![r] = "over"]
  /\ worker' = Free
  /\ UNCHANGED <<stage, row, matched>>

-----------------------------------------------------------------------------
(* The stages: artist_matching_task, identity_matching_task in matching_stage. *)

StartArtist(r, p) ==
  /\ stage[r][p] = "artistQueued"
  /\ Take("artist", r)
  /\ Become(r, p, "artist")
  /\ RefreshRow(r)
  /\ UNCHANGED <<recheck, matched>>

\* A tick of the matching service, at most one write per two seconds.
Tick(r) ==
  /\ On("artist", r) \/ On("identity", r)
  /\ RefreshRow(r)
  /\ UNCHANGED <<recheck, stage, worker, matched>>

\* The matching or the hand-off raised, or the hand-off was refused.
ArtistFails(r, p) ==
  /\ stage[r][p] = "artist"
  /\ Become(r, p, "ended")
  /\ FinishStage(r, TRUE)
  /\ worker' = Free
  /\ UNCHANGED <<recheck, matched>>

HandOn(r, p) ==
  /\ stage[r][p] = "artist"
  /\ Become(r, p, "identityQueued")
  /\ worker' = [task |-> "handedOn", run |-> r]
  /\ UNCHANGED <<recheck, row, matched>>

\* MUTANT: the stage is finished on the way out whether it handed on or not.
RaisesAlways == {TRUE}
RaisesAfterHandOn == IF CloseMayFail THEN BOOLEAN ELSE {FALSE}

\* On the way out a stage is finished if it raised, handed on or not.
LeaveHandedOn(r) ==
  /\ On("handedOn", r)
  /\ \E raises \in RaisesAfterHandOn :
       IF raises THEN FinishStage(r, TRUE) ELSE UNCHANGED row
  /\ worker' = Free
  /\ UNCHANGED <<recheck, stage, matched>>

StartIdentity(r, p) ==
  /\ stage[r][p] = "identityQueued"
  /\ Take("identity", r)
  /\ Become(r, p, "identity")
  /\ RefreshRow(r)
  /\ UNCHANGED <<recheck, matched>>

IdentityEnds(r, p, fails) ==
  /\ stage[r][p] = "identity"
  /\ Become(r, p, "ended")
  /\ matched' = IF fails THEN matched ELSE [matched EXCEPT ![r] = @ \cup {p}]
  /\ FinishStage(r, fails)
  /\ worker' = Free
  /\ UNCHANGED recheck

\* The worker dies: its task was taken off the queue and is not run again; what
\* the task had not queued yet never will be.
Crash ==
  /\ WorkerMayCrash
  /\ worker # Free
  /\ worker' = Free
  /\ recheck' = [r \in Runs |->
       IF recheck[r] \in {"reading", "fanning", "failing"} THEN "over" ELSE recheck[r]]
  /\ stage' = [r \in Runs |-> [p \in Playlists |->
       IF stage[r][p] \in {"unqueued", "artist", "identity"} THEN "lost" ELSE stage[r][p]]]
  /\ UNCHANGED <<row, matched>>

StageStep(r, p) ==
  \/ QueueStage(r, p) \/ EndUnqueued(r, p)
  \/ StartArtist(r, p) \/ ArtistFails(r, p) \/ HandOn(r, p)
  \/ StartIdentity(r, p) \/ \E fails \in BOOLEAN : IdentityEnds(r, p, fails)

RunStep(r) ==
  \/ StartRecheck(r) \/ NoRun(r) \/ OpenRun(r) \/ RecheckEnds(r) \/ LeaveHandedOn(r)

Next ==
  \/ \E r \in Runs :
       \/ Request(r) \/ RunStep(r) \/ RecheckRaises(r) \/ Tick(r) \/ Reap(r)
       \/ \E p \in Playlists : StageStep(r, p)
  \/ Crash

Spec == Init /\ [][Next]_vars

\* The worker goes on with its task, and takes every task of its queue in turn.
WorkerGoesOn == []<>(worker = Free) \/ []<><<TRUE>>_<<recheck, stage, worker>>
QueueServed ==
  \A r \in Runs :
    /\ []<>(recheck[r] # "queued")
    /\ \A p \in Playlists : []<>(stage[r][p] \notin {"artistQueued", "identityQueued"})

FairSpec == Spec /\ WorkerGoesOn /\ QueueServed

-----------------------------------------------------------------------------
(* Properties. *)

\* "The last stage closes the row": a run is never shown as completed while one
\* of its stages is still to be queued, waits in the queue or is at work -
\* whichever of them raise, are refused or lose their writes.
LastStageCloses ==
  \A r \in Runs : row[r].status = "completed" => Outstanding(r) = {}

\* A run completed without the warning has matched every playlist it opened:
\* no failed, refused, lost or unreported stage is ever passed over.
CleanRunMatchedAll ==
  \A r \in Runs :
    row[r].status = "completed" /\ row[r].failed = 0 => matched[r] = Opened(r)

\* A run that opened its row completes it, even one the reaper failed in the
\* meantime, unless it lost the write of a stage's end or the worker in a stage.
RunCompletes ==
  \A r \in Runs : row[r].status # "none" ~>
    \/ row[r].status = "completed"
    \/ row[r].dropped \/ \E p \in Playlists : stage[r][p] = "lost"

=============================================================================
