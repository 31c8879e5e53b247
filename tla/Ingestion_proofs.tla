-------------------------- MODULE Ingestion_proofs --------------------------
(***************************************************************************)
(* What MatchingRun's rows say, for any runs and any finite set of          *)
(* playlists; what Ingestion shows of its uploads; and that beside the      *)
(* uploads the re-checks behave as MatchingRun says.                        *)
(*                                                                         *)
(* Two counts carry the argument about the rows: the row's `left` covers    *)
(* the stages that are still to end, and `left + failed` covers the opened  *)
(* playlists that no identity stage has matched.                            *)
(***************************************************************************)
EXTENDS Ingestion, FiniteSetTheorems, TLAPS

Rows == [status : {"none", "running", "failed", "completed"}, left : Nat, failed : Nat,
         dropped : BOOLEAN]

\* Before its re-check opens it a run has no row and no stages.
Fresh ==
  \A r \in Runs : recheck[r] \in {"idle", "queued", "reading"} =>
    row[r].status = "none" /\ \A p \in Playlists : stage[r][p] = "none"

LeftPositive == \A r \in Runs : Writable(r) => row[r].left >= 1
CompletedAtZero == \A r \in Runs : row[r].status = "completed" => row[r].left = 0
MatchedEnded == \A r \in Runs : \A p \in matched[r] : stage[r][p] = "ended"

RunsTyped ==
  /\ recheck \in [Runs -> Rechecks]
  /\ stage \in [Runs -> [Playlists -> Stages]]
  /\ row \in [Runs -> Rows]
  /\ matched \in [Runs -> SUBSET Playlists]

Runs_ == <<recheck, stage, row, matched>>

Base == RunsTyped /\ Fresh /\ LeftPositive /\ CompletedAtZero /\ MatchedEnded

-----------------------------------------------------------------------------
(* The row's writes. *)

LEMMA OpenCount ==
  ASSUME NEW playlists \in SUBSET Playlists, playlists # {}
  PROVE  /\ IsFiniteSet(playlists)
         /\ StagesOf(playlists) \in Nat /\ StagesOf(playlists) >= 1
         /\ StagesOf(playlists) = Cardinality(playlists)
<1>1. IsFiniteSet(playlists)
  BY PlaylistsAssumption, FS_Subset
<1>2. Cardinality(playlists) \in Nat /\ Cardinality(playlists) # 0
  BY <1>1, FS_CardinalityType, FS_EmptySet
<1> QED
  BY <1>1, <1>2 DEF StagesOf

LEMMA OpenResult ==
  ASSUME RunsTyped, NEW r \in Runs, NEW playlists \in SUBSET Playlists, playlists # {},
         OpenRow(r, playlists)
  PROVE  \/ row' = row
         \/ /\ row' \in [Runs -> Rows]
            /\ row'[r].status = "running" /\ row'[r].left = StagesOf(playlists)
            /\ \A q \in Runs \ {r} : row'[q] = row[q]
<1> DEFINE new == [status |-> "running", left |-> StagesOf(playlists), failed |-> 0,
                   dropped |-> FALSE]
<1>1. new \in Rows
  BY OpenCount DEF Rows
<1>2. row' = row \/ row' = [row EXCEPT ![r] = new]
  BY DEF OpenRow
<1>3. row \in [Runs -> Rows]
  BY DEF RunsTyped, Rows
<1>4. new.status = "running" /\ new.left = StagesOf(playlists)
  OBVIOUS
<1> HIDE DEF new
<1> QED
  BY <1>1, <1>2, <1>3, <1>4

LEMMA RefreshResult ==
  ASSUME RunsTyped, NEW r \in Runs, RefreshRow(r)
  PROVE  \/ row' = row
         \/ /\ Writable(r)
            /\ row' \in [Runs -> Rows]
            /\ row'[r].status = "running"
            /\ row'[r].left = row[r].left /\ row'[r].failed = row[r].failed
            /\ \A q \in Runs \ {r} : row'[q] = row[q]
  BY DEF RefreshRow, RunsTyped, Rows

LEMMA FinishResult ==
  ASSUME RunsTyped, LeftPositive, NEW r \in Runs, NEW fails \in BOOLEAN, FinishStage(r, fails)
  PROVE  \/ row' = row
         \/ /\ row' \in [Runs -> Rows]
            /\ row'[r].status = row[r].status
            /\ row'[r].left = row[r].left /\ row'[r].failed = row[r].failed
            /\ \A q \in Runs \ {r} : row'[q] = row[q]
         \/ /\ Writable(r)
            /\ row' \in [Runs -> Rows]
            /\ row'[r].status = IF row[r].left <= 1 THEN "completed" ELSE "running"
            /\ row'[r].left = row[r].left - 1
            /\ row'[r].failed = IF fails THEN row[r].failed + 1 ELSE row[r].failed
            /\ \A q \in Runs \ {r} : row'[q] = row[q]
<1> DEFINE new == [status |-> IF row[r].left <= 1 THEN "completed" ELSE "running",
                   left |-> row[r].left - 1,
                   failed |-> IF fails THEN row[r].failed + 1 ELSE row[r].failed,
                   dropped |-> row[r].dropped]
<1>1. row \in [Runs -> Rows] /\ row[r] \in Rows /\ row[r].left \in Nat /\ row[r].failed \in Nat
  BY DEF RunsTyped, Rows
<1>2. \/ row' = row
      \/ row' = [row EXCEPT ![r] = [row[r] EXCEPT !.dropped = TRUE]]
      \/ Writable(r) /\ row' = [row EXCEPT ![r] = new]
  BY <1>1 DEF FinishStage, Rows
<1>3. Writable(r) => new \in Rows
  BY <1>1 DEF LeftPositive, Rows
<1>4. CASE row' = [row EXCEPT ![r] = [row[r] EXCEPT !.dropped = TRUE]]
  BY <1>1, <1>4 DEF Rows
<1>5. CASE Writable(r) /\ row' = [row EXCEPT ![r] = new]
  BY <1>1, <1>3, <1>5
<1> QED
  BY <1>2, <1>4, <1>5

\* What every write leaves of the rows, whichever it was.
LEMMA RowsKept ==
  ASSUME Base, NEW r \in Runs,
         \/ row' = row
         \/ RefreshRow(r)
         \/ \E fails \in BOOLEAN : FinishStage(r, fails)
  PROVE  /\ row' \in [Runs -> Rows]
         /\ \A q \in Runs : row'[q].status = "none" <=> row[q].status = "none"
         /\ LeftPositive' /\ CompletedAtZero'
<1> USE DEF Base, LeftPositive, CompletedAtZero, Writable
<1>0. row \in [Runs -> Rows] /\ \A q \in Runs : row[q].left \in Nat
  BY DEF RunsTyped, Rows
<1>1. CASE row' = row
  BY <1>0, <1>1
<1>2. CASE RefreshRow(r)
  BY <1>0, <1>2, RefreshResult
<1>3. ASSUME NEW fails \in BOOLEAN, FinishStage(r, fails)
      PROVE  /\ row' \in [Runs -> Rows]
             /\ \A q \in Runs : row'[q].status = "none" <=> row[q].status = "none"
             /\ LeftPositive' /\ CompletedAtZero'
  BY <1>0, <1>3, FinishResult
<1> QED
  BY <1>1, <1>2, <1>3

-----------------------------------------------------------------------------
(* Types, and what a run, its row and its history have in common.  Nothing of  *)
(* it depends on the worker, so it holds whatever else the worker does.         *)

LEMMA BaseInductive == Base /\ [Next]_Runs_ => Base'
<1> SUFFICES ASSUME Base, [Next]_Runs_ PROVE Base'
  OBVIOUS
<1>0. /\ recheck \in [Runs -> Rechecks] /\ stage \in [Runs -> [Playlists -> Stages]]
      /\ row \in [Runs -> Rows]
      /\ matched \in [Runs -> SUBSET Playlists]
  BY DEF Base, RunsTyped, Rows
<1> USE DEF Base, Fresh, MatchedEnded
<1>1. ASSUME NEW r \in Runs, Request(r) PROVE Base'
  BY <1>0, <1>1 DEF Request, RunsTyped, Rechecks, Rows, LeftPositive, CompletedAtZero, Writable
<1>2. ASSUME NEW r \in Runs, StartRecheck(r) PROVE Base'
  BY <1>0, <1>2 DEF StartRecheck, RunsTyped, Rechecks, Rows, LeftPositive,
     CompletedAtZero, Writable
<1>3. ASSUME NEW r \in Runs, NoRun(r) PROVE Base'
  BY <1>0, <1>3 DEF NoRun, RunsTyped, Rechecks, Rows, LeftPositive, CompletedAtZero, Writable
<1>4. ASSUME NEW r \in Runs, OpenRun(r) PROVE Base'
  <2>1. PICK playlists \in (SUBSET Playlists) \ {{}} :
          /\ stage' = [stage EXCEPT ![r] =
               [p \in Playlists |-> IF p \in playlists THEN "unqueued" ELSE "none"]]
          /\ OpenRow(r, playlists)
    BY <1>4 DEF OpenRun
  <2>2. /\ recheck[r] = "reading" /\ recheck' = [recheck EXCEPT ![r] = "fanning"]
        /\ UNCHANGED matched
    BY <1>4 DEF OpenRun
  <2>3. stage' \in [Runs -> [Playlists -> Stages]]
    BY <1>0, <2>1 DEF Stages
  <2>4. matched[r] = {}
    <3>1. \A p \in matched[r] : FALSE
      BY <1>0, <2>2
    <3> QED
      BY <3>1
  <2>5. MatchedEnded'
    BY <1>0, <2>1, <2>2, <2>4
  <2>6. CASE row' = row
    BY <1>0, <2>1, <2>2, <2>3, <2>5, <2>6
       DEF RunsTyped, Rechecks, Rows, LeftPositive, CompletedAtZero, Writable
  <2>7. CASE /\ row' \in [Runs -> Rows]
             /\ row'[r].status = "running" /\ row'[r].left = StagesOf(playlists)
             /\ \A q \in Runs \ {r} : row'[q] = row[q]
    <3>1. StagesOf(playlists) >= 1
      BY OpenCount
    <3>2. LeftPositive' /\ CompletedAtZero'
      BY <2>7, <3>1 DEF LeftPositive, CompletedAtZero, Writable
    <3>3. Fresh'
      BY <1>0, <2>1, <2>2, <2>7
    <3>4. RunsTyped'
      BY <1>0, <2>2, <2>3, <2>7 DEF RunsTyped, Rechecks, Rows
    <3> QED
      BY <2>5, <3>2, <3>3, <3>4
  <2>8. playlists \in SUBSET Playlists /\ playlists # {} /\ RunsTyped
    OBVIOUS
  <2>9. \/ row' = row
        \/ /\ row' \in [Runs -> Rows]
           /\ row'[r].status = "running" /\ row'[r].left = StagesOf(playlists)
           /\ \A q \in Runs \ {r} : row'[q] = row[q]
    BY <2>1, <2>8, OpenResult
  <2> QED
    BY <2>6, <2>7, <2>9
<1>5. ASSUME NEW r \in Runs, RecheckRaises(r) \/ RecheckEnds(r) PROVE Base'
  <2>1. /\ UNCHANGED <<stage, row, matched>>
        /\ recheck[r] \in {"fanning", "failing"}
        /\ \E s \in {"failing", "over"} : recheck' = [recheck EXCEPT ![r] = s]
    BY <1>0, <1>5 DEF RecheckRaises, RecheckEnds
  <2>2. recheck' \in [Runs -> Rechecks]
    BY <1>0, <2>1 DEF Rechecks
  <2>3. Fresh' /\ MatchedEnded'
    BY <1>0, <2>1
  <2> QED
    BY <1>0, <2>1, <2>2, <2>3 DEF RunsTyped, Rows, LeftPositive, CompletedAtZero, Writable
<1>6. ASSUME NEW r \in Runs, Tick(r) \/ LeaveHandedOn(r) PROVE Base'
  <2>1. /\ UNCHANGED <<recheck, stage, matched>>
        /\ row' = row \/ RefreshRow(r) \/ \E fails \in BOOLEAN : FinishStage(r, fails)
    BY <1>0, <1>6 DEF Tick, LeaveHandedOn, RaisesAfterHandOn
  <2> QED
    BY <1>0, <2>1, RowsKept DEF RunsTyped, Rows
<1>7. ASSUME NEW r \in Runs, Reap(r) PROVE Base'
  <2>1. /\ UNCHANGED <<recheck, stage, matched>>
        /\ row[r].status = "running"
        /\ row' = [row EXCEPT ![r].status = "failed"]
    BY <1>7 DEF Reap
  <2>2. /\ row' \in [Runs -> Rows]
        /\ row'[r].status = "failed" /\ row'[r].left = row[r].left
        /\ \A q \in Runs \ {r} : row'[q] = row[q]
    <3> DEFINE new == [row[r] EXCEPT !.status = "failed"]
    <3>1. new \in Rows /\ new.status = "failed" /\ new.left = row[r].left
      BY <1>0 DEF Rows
    <3>2. row' = [row EXCEPT ![r] = new]
      BY <1>0, <2>1
    <3> HIDE DEF new
    <3> QED
      BY <1>0, <3>1, <3>2
  <2>3. Fresh' /\ MatchedEnded'
    BY <1>0, <2>1, <2>2
  <2>4. LeftPositive' /\ CompletedAtZero'
    BY <1>0, <2>1, <2>2 DEF LeftPositive, CompletedAtZero, Writable
  <2>5. RunsTyped'
    BY <1>0, <2>1, <2>2 DEF RunsTyped, Rows
  <2> QED
    BY <2>3, <2>4, <2>5
<1>8. ASSUME NEW r \in Runs, NEW p \in Playlists, StageStep(r, p) PROVE Base'
  <2> USE DEF StageStep, QueueStage, EndUnqueued, StartArtist, ArtistFails, HandOn,
        StartIdentity, IdentityEnds
  <2>1. stage[r][p] \notin {"none", "ended"} /\ recheck' = recheck
    BY <1>8
  <2>3. \E s \in Stages \ {"none"} : stage' = [stage EXCEPT ![r][p] = s]
    BY <1>8 DEF Become, Stages
  <2>4. row' = row \/ RefreshRow(r) \/ \E fails \in BOOLEAN : FinishStage(r, fails)
    BY <1>8
  <2>5. \/ matched' = matched
        \/ /\ stage' = [stage EXCEPT ![r][p] = "ended"]
           /\ matched' = [matched EXCEPT ![r] = @ \cup {p}]
    BY <1>8 DEF Become
  <2>6. stage' \in [Runs -> [Playlists -> Stages]] /\ matched' \in [Runs -> SUBSET Playlists]
    BY <1>0, <2>3, <2>5
  <2>7. p \notin matched[r]
    BY <2>1
  <2>8. MatchedEnded'
    BY <1>0, <2>3, <2>5, <2>7
  <2>9. recheck[r] \notin {"idle", "queued", "reading"}
    BY <2>1
  <2> QED
    BY <1>0, <2>1, <2>3, <2>4, <2>6, <2>8, <2>9, RowsKept DEF RunsTyped, Rows
<1>9. CASE Crash
  BY <1>0, <1>9 DEF Crash, RunsTyped, Rechecks, Stages, Rows, LeftPositive, CompletedAtZero, Writable
<1>10. CASE UNCHANGED Runs_
  BY <1>10 DEF Runs_, RunsTyped, LeftPositive, CompletedAtZero, Writable
<1> QED
  BY <1>1, <1>2, <1>3, <1>4, <1>5, <1>6, <1>7, <1>8, <1>9, <1>10 DEF Next, RunStep

LEMMA RunsStep == [Next]_vars => [Next]_Runs_
  BY DEF vars, Runs_

LEMMA BaseStarts == Init => Base
  BY DEF Init, Base, RunsTyped, Rows, Rechecks, Stages, Fresh, LeftPositive, CompletedAtZero, MatchedEnded,
     Writable

LEMMA BaseHolds == Spec => []Base
  BY BaseStarts, RunsStep, BaseInductive, PTL DEF Spec

(* The runs, their stages and their rows keep their types: no count of a row *)
(* ever goes below zero, whatever writes are dropped and however tasks end.  *)
THEOREM TypeCorrect == Spec => []TypeOK
<1>1. Init => worker \in Busy \cup {Free}
  BY DEF Init
<1>2. worker \in Busy \cup {Free} /\ [Next]_vars => (worker \in Busy \cup {Free})'
  <2> SUFFICES ASSUME worker \in Busy \cup {Free}, [Next]_vars PROVE worker' \in Busy \cup {Free}
    OBVIOUS
  <2>1. \/ worker' = worker \/ worker' = Free
        \/ \E r \in Runs, task \in Tasks : worker' = [task |-> task, run |-> r]
    BY DEF Next, RunStep, StageStep, Request, StartRecheck, NoRun, OpenRun, RecheckEnds, RecheckRaises,
       LeaveHandedOn, Tick, Reap, QueueStage, EndUnqueued, StartArtist, ArtistFails, HandOn,
       StartIdentity, IdentityEnds, Crash, Take, Tasks, vars
  <2> QED
    BY <2>1 DEF Busy
<1>3. Base /\ worker \in Busy \cup {Free} => TypeOK
  BY DEF Base, RunsTyped, Rows, TypeOK
<1> QED
  BY <1>1, <1>2, <1>3, BaseHolds, PTL DEF Spec

-----------------------------------------------------------------------------
(* Counting playlists. *)

LEMMA Fewer ==
  ASSUME NEW S \in SUBSET Playlists, NEW T \in SUBSET S
  PROVE  /\ Cardinality(S) \in Nat /\ Cardinality(T) \in Nat
         /\ Cardinality(T) <= Cardinality(S)
<1>1. IsFiniteSet(S) /\ IsFiniteSet(T)
  BY PlaylistsAssumption, FS_Subset
<1> QED
  BY <1>1, FS_Subset, FS_CardinalityType

LEMMA OneFewer ==
  ASSUME NEW S \in SUBSET Playlists, NEW p \in S, NEW T \in SUBSET (S \ {p})
  PROVE  /\ Cardinality(S) \in Nat /\ Cardinality(T) \in Nat
         /\ Cardinality(T) <= Cardinality(S) - 1
<1>1. IsFiniteSet(S)
  BY PlaylistsAssumption, FS_Subset
<1>2. Cardinality(S \ {p}) = Cardinality(S) - 1
  BY <1>1, FS_RemoveElement
<1>3. S \ {p} \in SUBSET Playlists
  OBVIOUS
<1> QED
  BY <1>2, <1>3, Fewer

LEMMA EmptyCount ==
  ASSUME NEW S \in SUBSET Playlists, Cardinality(S) <= 0
  PROVE  S = {}
<1>1. IsFiniteSet(S)
  BY PlaylistsAssumption, FS_Subset
<1> QED
  BY <1>1, FS_EmptySet, FS_CardinalityType

\* The playlists of a run that no identity stage has matched.
Unmatched(r) == Opened(r) \ matched[r]

\* A stage step either moves its stage on, or ends it and finishes it on the row.
Moves(r) ==
  /\ \A q \in Runs : Outstanding(q)' = Outstanding(q) /\ Unmatched(q)' = Unmatched(q)
  /\ row' = row \/ RefreshRow(r)
Ends(r, p, fails) ==
  /\ p \in Outstanding(r) /\ p \in Unmatched(r)
  /\ Outstanding(r)' = Outstanding(r) \ {p}
  /\ Unmatched(r)' = IF fails THEN Unmatched(r) ELSE Unmatched(r) \ {p}
  /\ \A q \in Runs \ {r} : Outstanding(q)' = Outstanding(q) /\ Unmatched(q)' = Unmatched(q)
  /\ FinishStage(r, fails)

LEMMA StageMovesOrEnds ==
  ASSUME Base, NEW r \in Runs, NEW p \in Playlists, StageStep(r, p)
  PROVE  Moves(r) \/ \E fails \in BOOLEAN : Ends(r, p, fails)
<1>0. /\ stage \in [Runs -> [Playlists -> Stages]] /\ matched \in [Runs -> SUBSET Playlists]
      /\ \A q \in Runs : \A o \in matched[q] : stage[q][o] = "ended"
  BY DEF Base, RunsTyped, MatchedEnded
<1> USE <1>0 DEF Outstanding, Unmatched, Opened, Become
<1>1. CASE QueueStage(r, p)
  BY <1>1 DEF QueueStage, Moves
<1>2. CASE EndUnqueued(r, p)
  <2>1. Ends(r, p, TRUE)
    BY <1>2 DEF EndUnqueued, Ends
  <2> QED
    BY <2>1
<1>3. CASE StartArtist(r, p)
  BY <1>3 DEF StartArtist, Moves
<1>4. CASE ArtistFails(r, p)
  <2>1. Ends(r, p, TRUE)
    BY <1>4 DEF ArtistFails, Ends
  <2> QED
    BY <2>1
<1>5. CASE HandOn(r, p)
  BY <1>5 DEF HandOn, Moves
<1>6. CASE StartIdentity(r, p)
  BY <1>6 DEF StartIdentity, Moves
<1>7. ASSUME NEW fails \in BOOLEAN, IdentityEnds(r, p, fails) PROVE Ends(r, p, fails)
  BY <1>7 DEF IdentityEnds, Ends
<1> QED
  BY <1>1, <1>2, <1>3, <1>4, <1>5, <1>6, <1>7 DEF StageStep

\* The steps that are no stage's: who opens a row, and what the others leave alone.
LEMMA OtherSteps ==
  ASSUME Base, NEW r \in Runs,
         \/ Request(r) \/ StartRecheck(r) \/ NoRun(r) \/ RecheckEnds(r) \/ RecheckRaises(r)
         \/ Tick(r)
  PROVE  Moves(r)
  BY DEF Request, StartRecheck, NoRun, RecheckEnds, RecheckRaises, Tick, Moves, Outstanding,
     Unmatched, Opened

LEMMA CrashLoses ==
  ASSUME Base, Crash
  PROVE  /\ \A q \in Runs : Outstanding(q)' \subseteq Outstanding(q)
         /\ \A q \in Runs : Unmatched(q)' = Unmatched(q)
         /\ row' = row
<1>0. stage \in [Runs -> [Playlists -> Stages]]
  BY DEF Base, RunsTyped
<1> QED
  BY <1>0 DEF Crash, Outstanding, Unmatched, Opened

LEMMA OpenedSets ==
  ASSUME Base, NEW r \in Runs, OpenRun(r)
  PROVE  \E playlists \in (SUBSET Playlists) \ {{}} :
           /\ OpenRow(r, playlists)
           /\ Outstanding(r)' = playlists
           /\ Unmatched(r)' \subseteq playlists
           /\ \A q \in Runs \ {r} : /\ Outstanding(q)' = Outstanding(q)
                                     /\ Unmatched(q)' = Unmatched(q)
<1>0. stage \in [Runs -> [Playlists -> Stages]]
  BY DEF Base, RunsTyped
<1>1. PICK playlists \in (SUBSET Playlists) \ {{}} :
        /\ stage' = [stage EXCEPT ![r] =
             [p \in Playlists |-> IF p \in playlists THEN "unqueued" ELSE "none"]]
        /\ OpenRow(r, playlists)
  BY DEF OpenRun
<1>2. matched' = matched
  BY DEF OpenRun
<1>3. Outstanding(r)' = playlists /\ Unmatched(r)' \subseteq playlists
  BY <1>0, <1>1 DEF Outstanding, Unmatched, Opened
<1>4. \A q \in Runs \ {r} : Outstanding(q)' = Outstanding(q) /\ Unmatched(q)' = Unmatched(q)
  BY <1>0, <1>1, <1>2 DEF Outstanding, Unmatched, Opened
<1> QED
  BY <1>1, <1>3, <1>4

-----------------------------------------------------------------------------
(* The two counts. *)

Covers(r) == row[r].status # "none" => Cardinality(Outstanding(r)) <= row[r].left
Accounts(r) ==
  row[r].status # "none" => Cardinality(Unmatched(r)) <= row[r].left + row[r].failed

LEMMA MovesKeepCounts ==
  ASSUME Base, NEW r \in Runs, Moves(r), NEW q \in Runs
  PROVE  (Covers(q) => Covers(q)') /\ (Accounts(q) => Accounts(q)')
<1>1. Outstanding(q)' = Outstanding(q) /\ Unmatched(q)' = Unmatched(q)
  BY DEF Moves
<1>2. row'[q].left = row[q].left /\ row'[q].failed = row[q].failed
      /\ (row'[q].status = "none" <=> row[q].status = "none")
  BY RefreshResult DEF Moves, Base, Writable
<1> QED
  BY <1>1, <1>2 DEF Covers, Accounts

LEMMA EndsKeepCounts ==
  ASSUME Base, NEW r \in Runs, NEW p \in Playlists, NEW fails \in BOOLEAN, Ends(r, p, fails),
         NEW q \in Runs
  PROVE  (Covers(q) => Covers(q)') /\ (Accounts(q) => Accounts(q)')
<1>0. Outstanding(r) \in SUBSET Playlists /\ Unmatched(r) \in SUBSET Playlists
  BY DEF Outstanding, Unmatched, Opened
<1>1. /\ Cardinality(Outstanding(r)) \in Nat /\ Cardinality(Outstanding(r)') \in Nat
      /\ Cardinality(Outstanding(r)') <= Cardinality(Outstanding(r)) - 1
  BY <1>0, OneFewer DEF Ends
<1>2. /\ Cardinality(Unmatched(r)) \in Nat /\ Cardinality(Unmatched(r)') \in Nat
      /\ Cardinality(Unmatched(r)') <= Cardinality(Unmatched(r))
      /\ ~fails => Cardinality(Unmatched(r)') <= Cardinality(Unmatched(r)) - 1
  BY <1>0, OneFewer, Fewer DEF Ends
<1>3. row \in [Runs -> Rows] /\ row[r].left \in Nat /\ row[r].failed \in Nat
  BY DEF Base, RunsTyped, Rows
<1>4. CASE q # r
  <2>1. Outstanding(q)' = Outstanding(q) /\ Unmatched(q)' = Unmatched(q)
    BY <1>4 DEF Ends
  <2>2. row'[q] = row[q]
    BY <1>4, FinishResult DEF Ends, Base
  <2> QED
    BY <2>1, <2>2 DEF Covers, Accounts
<1>5. CASE q = r /\ row' = row
  BY <1>1, <1>2, <1>3, <1>5 DEF Covers, Accounts
<1>6. CASE /\ q = r /\ Writable(r)
           /\ row'[r].left = row[r].left - 1
           /\ row'[r].failed = IF fails THEN row[r].failed + 1 ELSE row[r].failed
  BY <1>1, <1>2, <1>3, <1>6 DEF Covers, Accounts, Writable
<1>7. CASE q = r /\ row'[r].status = row[r].status /\ row'[r].left = row[r].left
           /\ row'[r].failed = row[r].failed
  BY <1>1, <1>2, <1>3, <1>7 DEF Covers, Accounts
<1> QED
  BY <1>4, <1>5, <1>6, <1>7, FinishResult DEF Ends, Base

LEMMA OpenKeepsCounts ==
  ASSUME Base, NEW r \in Runs, OpenRun(r), NEW q \in Runs
  PROVE  (Covers(q) => Covers(q)') /\ (Accounts(q) => Accounts(q)')
<1>1. PICK playlists \in (SUBSET Playlists) \ {{}} :
        /\ OpenRow(r, playlists)
        /\ Outstanding(r)' = playlists
        /\ Unmatched(r)' \subseteq playlists
        /\ \A o \in Runs \ {r} : Outstanding(o)' = Outstanding(o) /\ Unmatched(o)' = Unmatched(o)
  BY OpenedSets
<1>2. playlists \in SUBSET Playlists /\ playlists # {} /\ RunsTyped
  BY DEF Base
<1>3. row[r].status = "none"
  BY DEF Base, Fresh, OpenRun
<1>4. \/ row' = row
      \/ /\ row' \in [Runs -> Rows]
         /\ row'[r].status = "running" /\ row'[r].left = StagesOf(playlists)
         /\ \A o \in Runs \ {r} : row'[o] = row[o]
  BY <1>1, <1>2, OpenResult
<1>5. /\ StagesOf(playlists) = Cardinality(playlists)
      /\ Cardinality(playlists) \in Nat
      /\ Cardinality(Unmatched(r)') <= Cardinality(playlists)
      /\ Cardinality(Unmatched(r)') \in Nat
      /\ row' \in [Runs -> Rows] => row'[r].failed \in Nat
  BY <1>1, <1>2, OpenCount, Fewer DEF Rows
<1>6. CASE q # r
  BY <1>1, <1>4, <1>6 DEF Covers, Accounts
<1>7. CASE q = r
  BY <1>1, <1>3, <1>4, <1>5, <1>7 DEF Covers, Accounts
<1> QED
  BY <1>6, <1>7

LEMMA CrashKeepsCounts ==
  ASSUME Base, Crash, NEW q \in Runs
  PROVE  (Covers(q) => Covers(q)') /\ (Accounts(q) => Accounts(q)')
<1>1. /\ Outstanding(q) \in SUBSET Playlists /\ Outstanding(q)' \subseteq Outstanding(q)
      /\ Unmatched(q)' = Unmatched(q) /\ row' = row
  BY CrashLoses DEF Outstanding
<1>2. /\ Cardinality(Outstanding(q)) \in Nat /\ Cardinality(Outstanding(q)') \in Nat
      /\ Cardinality(Outstanding(q)') <= Cardinality(Outstanding(q))
  BY <1>1, Fewer
<1>3. row[q].left \in Nat
  BY DEF Base, RunsTyped, Rows
<1> QED
  BY <1>1, <1>2, <1>3 DEF Covers, Accounts

LEMMA ReapKeepsCounts ==
  ASSUME Base, NEW r \in Runs, Reap(r), NEW q \in Runs
  PROVE  (Covers(q) => Covers(q)') /\ (Accounts(q) => Accounts(q)')
<1>1. Outstanding(q)' = Outstanding(q) /\ Unmatched(q)' = Unmatched(q)
  BY DEF Reap, Outstanding, Unmatched, Opened
<1>2. row'[q].left = row[q].left /\ row'[q].failed = row[q].failed
      /\ (row'[q].status = "none" <=> row[q].status = "none")
  BY DEF Reap, Base, RunsTyped
<1> QED
  BY <1>1, <1>2 DEF Covers, Accounts

\* Every step but the one out of a stage that handed on.
LEMMA StepKeepsCounts ==
  ASSUME Base, [Next]_Runs_, NEW q \in Runs, \A r \in Runs : ~LeaveHandedOn(r)
  PROVE  (Covers(q) => Covers(q)') /\ (Accounts(q) => Accounts(q)')
<1>1. ASSUME NEW r \in Runs, NEW p \in Playlists, StageStep(r, p)
      PROVE  (Covers(q) => Covers(q)') /\ (Accounts(q) => Accounts(q)')
  BY <1>1, StageMovesOrEnds, MovesKeepCounts, EndsKeepCounts
<1>2. ASSUME NEW r \in Runs,
             \/ Request(r) \/ StartRecheck(r) \/ NoRun(r) \/ RecheckEnds(r)
             \/ RecheckRaises(r) \/ Tick(r)
      PROVE  (Covers(q) => Covers(q)') /\ (Accounts(q) => Accounts(q)')
  BY <1>2, OtherSteps, MovesKeepCounts
<1>3. CASE UNCHANGED Runs_
  BY <1>3 DEF Runs_, Covers, Accounts, Outstanding, Unmatched, Opened
<1> QED
  BY <1>1, <1>2, <1>3, OpenKeepsCounts, CrashKeepsCounts, ReapKeepsCounts DEF Next, RunStep

\* A stage that handed on and raised is finished although it goes on: the count of
\* the stages still to end is lost, the count of the unmatched ones is kept.
LEMMA LeaveKeepsCounts ==
  ASSUME Base, NEW r \in Runs, LeaveHandedOn(r), NEW q \in Runs
  PROVE  (~CloseMayFail /\ Covers(q) => Covers(q)') /\ (Accounts(q) => Accounts(q)')
<1>1. Outstanding(q)' = Outstanding(q) /\ Unmatched(q)' = Unmatched(q)
  BY DEF LeaveHandedOn, Outstanding, Unmatched, Opened
<1>2. /\ row' = row \/ FinishStage(r, TRUE)
      /\ ~CloseMayFail => row' = row
  BY DEF LeaveHandedOn, RaisesAfterHandOn
<1>3. row[q].left \in Nat /\ row[q].failed \in Nat
  BY DEF Base, RunsTyped, Rows
<1>4. CASE row' = row
  BY <1>1, <1>4 DEF Covers, Accounts
<1>5. CASE FinishStage(r, TRUE)
  <2>1. \/ /\ row'[q].status = row[q].status
           /\ row'[q].left = row[q].left /\ row'[q].failed = row[q].failed
        \/ /\ q = r /\ Writable(r)
           /\ row'[q].left = row[q].left - 1
           /\ row'[q].failed = row[q].failed + 1
    BY <1>5, FinishResult DEF Base
  <2>2. Accounts(q) => Accounts(q)'
    BY <1>1, <1>3, <2>1 DEF Accounts, Writable
  <2> QED
    BY <1>1, <1>2, <2>2 DEF Covers
<1> QED
  BY <1>2, <1>4, <1>5

Covered == \A r \in Runs : Covers(r)
Accounted == \A r \in Runs : Accounts(r)

LEMMA CountsInductive ==
  Base /\ [Next]_Runs_ =>
    (~CloseMayFail /\ Covered => Covered') /\ (Accounted => Accounted')
<1> SUFFICES ASSUME Base, [Next]_Runs_, NEW q \in Runs
             PROVE  (~CloseMayFail /\ Covers(q) => Covers(q)') /\ (Accounts(q) => Accounts(q)')
  BY DEF Covered, Accounted
<1> QED
  BY StepKeepsCounts, LeaveKeepsCounts

LEMMA CoveredCloses == Base /\ Covered => LastStageCloses
<1> SUFFICES ASSUME Base, Covered, NEW r \in Runs, row[r].status = "completed"
             PROVE  Outstanding(r) = {}
  BY DEF LastStageCloses
<1>1. Cardinality(Outstanding(r)) <= 0
  BY DEF Covered, Covers, Base, CompletedAtZero
<1>2. Outstanding(r) \in SUBSET Playlists
  BY DEF Outstanding
<1> QED
  BY <1>1, <1>2, EmptyCount

LEMMA AccountedMatches == Base /\ Accounted => CleanRunMatchedAll
<1> SUFFICES ASSUME Base, Accounted, NEW r \in Runs,
                    row[r].status = "completed", row[r].failed = 0
             PROVE  matched[r] = Opened(r)
  BY DEF CleanRunMatchedAll
<1>1. Cardinality(Unmatched(r)) <= 0
  BY DEF Accounted, Accounts, Base, CompletedAtZero
<1>2. Unmatched(r) \in SUBSET Playlists
  BY DEF Unmatched, Opened
<1>3. Opened(r) \ matched[r] = {}
  BY <1>1, <1>2, EmptyCount DEF Unmatched
<1>4. matched[r] \subseteq Opened(r)
  BY DEF Base, RunsTyped, MatchedEnded, Opened
<1> QED
  BY <1>3, <1>4

LEMMA CountsStart == Init => Covered /\ Accounted
  BY DEF Init, Covered, Covers, Accounted, Accounts

(* While nothing raises after a hand-off, a row completes with its last stage:  *)
(* for any number of runs and playlists, any crash and any dropped write.       *)
THEOREM RowOutlivesStages == ASSUME ~CloseMayFail PROVE Spec => []LastStageCloses
<1>1. Base /\ Covered /\ [Next]_Runs_ => Covered'
  BY CountsInductive
<1> QED
  BY <1>1, CountsStart, CoveredCloses, RunsStep, BaseHolds, PTL DEF Spec

(* A run that completed without a failed stage has matched every playlist it    *)
(* opened, in every build: dropped writes, crashes and errors after a hand-off  *)
(* leave the count too high or the warning set, never the other way round.      *)
THEOREM CleanRunsTrusted == Spec => []CleanRunMatchedAll
<1>1. Base /\ Accounted /\ [Next]_Runs_ => Accounted'
  BY CountsInductive
<1> QED
  BY <1>1, CountsStart, AccountedMatches, RunsStep, BaseHolds, PTL DEF Spec

-----------------------------------------------------------------------------
(* Beside uploads, every step is one of MatchingRun's or leaves the runs alone. *)

LEMMA StepBeside == [NextIngestion]_pipeline => [Next]_Runs_
<1> SUFFICES ASSUME [NextIngestion]_pipeline PROVE Next \/ UNCHANGED Runs_
  OBVIOUS
<1>1. ASSUME NEW u \in Uploads, IngestionStep(u) PROVE UNCHANGED Runs_
  BY <1>1 DEF IngestionStep, Upload, StartIngestion, NoConnection, OpenUpload, TickUpload, IngestFails,
     Commit, CommitUnanswered, ShowCompleted, HandOff, RaisesAfterCommit, ReapUpload, LeaveTask, vars, Runs_
<1>2. ASSUME NEW p \in Playlists, StartOwn(p) \/ EndOwnArtist(p) \/ EndOwnIdentity(p)
      PROVE  UNCHANGED Runs_
  BY <1>2 DEF StartOwn, EndOwnArtist, EndOwnIdentity, LeaveTask, Runs_
<1>3. ASSUME NEW r \in Runs, RunStepAlone(r) \/ OpenRunForPending(r) \/ NoRunOpened(r) PROVE Next
  BY <1>3 DEF RunStepAlone, OpenRunForPending, NoRunOpened, Next, RunStep
<1>4. ASSUME NEW r \in Runs, NEW p \in Playlists, StageWithItsWork(r, p) PROVE Next
  BY <1>4 DEF StageWithItsWork, Next, StageStep
<1>5. CASE WorkerDies
  BY <1>5 DEF WorkerDies, Next
<1>6. CASE UNCHANGED pipeline
  BY <1>6 DEF pipeline, vars, Runs_
<1> QED
  BY <1>1, <1>2, <1>3, <1>4, <1>5, <1>6 DEF NextIngestion

LEMMA BaseBeside == IngestionSpec => []Base
<1>1. InitIngestion => Base
  BY BaseStarts DEF InitIngestion
<1> QED
  BY <1>1, StepBeside, BaseInductive, PTL DEF IngestionSpec

(* "The last stage closes the row", with uploads and their matching on the    *)
(* same worker, as long as closing a log connection does not raise.          *)
THEOREM RowsOutliveStages == ASSUME ~CloseMayFail PROVE IngestionSpec => []LastStageCloses
<1>1. Base /\ Covered /\ [Next]_Runs_ => Covered'
  BY CountsInductive
<1>2. InitIngestion => Covered
  BY CountsStart DEF InitIngestion
<1> QED
  BY <1>1, <1>2, CoveredCloses, StepBeside, BaseBeside, PTL DEF IngestionSpec

(* A run completed without its warning has matched every playlist it opened,  *)
(* whatever uploads run between its stages and whichever task dies.           *)
THEOREM CleanRunsTrustedBeside == IngestionSpec => []CleanRunMatchedAll
<1>1. Base /\ Accounted /\ [Next]_Runs_ => Accounted'
  BY CountsInductive
<1>2. InitIngestion => Accounted
  BY CountsStart DEF InitIngestion
<1> QED
  BY <1>1, <1>2, AccountedMatches, StepBeside, BaseBeside, PTL DEF IngestionSpec

-----------------------------------------------------------------------------
AtWork == {"counting", "storing", "stored", "handing"}
InStage == {"artist", "identity"}

(* What an upload's row shows at every step of its task. *)
Mine(u) == stored[upload[u].of] = u
Follows(u) ==
  /\ upload[u].at \in {"none", "queued", "counting"} => ~Mine(u) /\ shown[u] = "none"
  /\ upload[u].at = "storing" => ~Mine(u) /\ shown[u] \in {"running", "failed"}
  /\ upload[u].at = "stored" => Mine(u) /\ shown[u] \in {"running", "failed"}
  /\ upload[u].at \in {"handing", "over"} /\ ~upload[u].silent
       => shown[u] = IF Mine(u) THEN "completed" ELSE "failed"
  /\ upload[u].at \in {"handing", "raised"} => Mine(u)
  /\ upload[u].at = "raised" /\ ~upload[u].silent => shown[u] = "failed"
  /\ shown[u] = "completed" => Mine(u)

Shown == IngestionTypeOK /\ \A u \in Uploads : Follows(u)

-----------------------------------------------------------------------------
(* A step that leaves an upload's own record, row and stored playlist alone. *)
LEMMA Untouched ==
  ASSUME NEW v \in Uploads, Follows(v), upload'[v] = upload[v], shown'[v] = shown[v],
         stored'[upload[v].of] = v <=> stored[upload[v].of] = v
  PROVE  Follows(v)'
  BY DEF Follows, Mine

(* Storing takes nothing that another upload stored. *)
LEMMA StoreIsMine ==
  ASSUME IngestionTypeOK, NEW u \in Uploads, Store(u)
  PROVE  /\ stored'[upload[u].of] = u
         /\ \A v \in Uploads \ {u} : \A p \in Playlists : stored'[p] = v <=> stored[p] = v
         /\ stored' \in [Playlists -> Uploads \cup {NoUpload}]
         /\ pending' \subseteq Playlists
<1>1. upload[u].of \in Playlists /\ stored \in [Playlists -> Uploads \cup {NoUpload}]
  BY DEF IngestionTypeOK
<1>2. stored' = [stored EXCEPT ![upload[u].of] = u] /\ stored[upload[u].of] = NoUpload
  BY DEF Store, NotDuplicate
<1>3. pending \subseteq Playlists
  BY DEF IngestionTypeOK
<1>4. pending' \subseteq pending \cup {upload[u].of}
  BY DEF Store
<1> QED
  BY <1>1, <1>2, <1>3, <1>4, NoUploadAssumption

(* The record of the upload a step is about, and nobody else's. *)
LEMMA MovedAlone ==
  ASSUME IngestionTypeOK, NEW u \in Uploads, NEW step \in Steps, NEW silent \in BOOLEAN,
         upload' = [upload EXCEPT ![u].at = step, ![u].silent = silent]
  PROVE  /\ upload' \in [Uploads -> [at : Steps, of : Playlists, silent : BOOLEAN]]
         /\ upload'[u].at = step /\ upload'[u].silent = silent /\ upload'[u].of = upload[u].of
         /\ \A v \in Uploads \ {u} : upload'[v] = upload[v]
<1> DEFINE Records == [at : Steps, of : Playlists, silent : BOOLEAN]
           new == [upload[u] EXCEPT !.at = step, !.silent = silent]
<1>1. upload \in [Uploads -> Records] /\ upload[u] \in Records
  BY DEF IngestionTypeOK
<1>2. new \in Records /\ new.at = step /\ new.silent = silent /\ new.of = upload[u].of
  BY <1>1
<1>3. upload' = [upload EXCEPT ![u] = new]
  BY <1>1
<1> HIDE DEF new, Records
<1>4. upload' \in [Uploads -> Records] /\ upload'[u] = new
      /\ \A v \in Uploads \ {u} : upload'[v] = upload[v]
  BY <1>1, <1>2, <1>3
<1> QED
  BY <1>2, <1>4 DEF Records

LEMMA MoveToMoves ==
  ASSUME IngestionTypeOK, NEW u \in Uploads, NEW step \in Steps, MoveTo(u, step)
  PROVE  upload' = [upload EXCEPT ![u].at = step, ![u].silent = upload[u].silent]
<1>1. upload[u] \in [at : Steps, of : Playlists, silent : BOOLEAN]
      /\ upload \in [Uploads -> [at : Steps, of : Playlists, silent : BOOLEAN]]
  BY DEF IngestionTypeOK
<1> QED
  BY <1>1 DEF MoveTo

LEMMA ShowResult ==
  ASSUME IngestionTypeOK, NEW u \in Uploads,
         NEW status \in {"running", "completed", "failed"}, Show(u, status)
  PROVE  /\ shown' \in [Uploads -> {"none", "running", "completed", "failed"}]
         /\ shown'[u] \in {shown[u], status}
         /\ \A v \in Uploads \ {u} : shown'[v] = shown[v]
  BY DEF Show, Written, IngestionTypeOK

LEMMA ShowLastResult ==
  ASSUME IngestionTypeOK, NEW u \in Uploads,
         NEW status \in {"completed", "failed"}, NEW step \in Steps, ShowLast(u, status, step)
  PROVE  \E silent \in BOOLEAN :
           /\ upload' = [upload EXCEPT ![u].at = step, ![u].silent = silent]
           /\ shown' \in [Uploads -> {"none", "running", "completed", "failed"}]
           /\ shown'[u] \in {shown[u], status}
           /\ ~silent => shown'[u] = status
           /\ \A v \in Uploads \ {u} : shown'[v] = shown[v]
<1>1. PICK lands \in Landings :
        /\ shown' = IF lands THEN Written(u, status) ELSE shown
        /\ upload' = [upload EXCEPT ![u].at = step, ![u].silent = @ \/ ~lands]
  BY DEF ShowLast
<1>2. lands \in BOOLEAN
  BY DEF Landings
<1>3. upload \in [Uploads -> [at : Steps, of : Playlists, silent : BOOLEAN]]
      /\ upload[u].silent \in BOOLEAN
  BY DEF IngestionTypeOK
<1> DEFINE silent == upload[u].silent \/ ~lands
<1>4. silent \in BOOLEAN
  BY <1>2, <1>3
<1>5. upload' = [upload EXCEPT ![u].at = step, ![u].silent = silent]
  BY <1>1, <1>3
<1>6. /\ shown' \in [Uploads -> {"none", "running", "completed", "failed"}]
      /\ shown'[u] \in {shown[u], status}
      /\ lands => shown'[u] = status
      /\ \A v \in Uploads \ {u} : shown'[v] = shown[v]
  BY <1>1, <1>2 DEF Written, IngestionTypeOK
<1> QED
  BY <1>2, <1>3, <1>4, <1>5, <1>6

LEMMA OneUpload ==
  ASSUME Shown, NEW u \in Uploads, IngestionTypeOK', Follows(u)',
         \A v \in Uploads \ {u} :
           /\ upload'[v] = upload[v] /\ shown'[v] = shown[v]
           /\ \A p \in Playlists : stored'[p] = v <=> stored[p] = v
  PROVE  Shown'
<1>1. ASSUME NEW v \in Uploads \ {u} PROVE Follows(v)'
  <2>1. upload[v].of \in Playlists
    BY DEF Shown, IngestionTypeOK
  <2> QED
    BY <2>1, Untouched DEF Shown
<1> QED
  BY <1>1 DEF Shown

-----------------------------------------------------------------------------
(* Every step of an upload's task keeps its row true. *)

LEMMA StepKeepsShown ==
  ASSUME Shown, NEW u \in Uploads, IngestionStep(u)
  PROVE  Shown'
<1> USE DEF Shown
<1>0. /\ IngestionTypeOK /\ Follows(u) /\ upload[u].of \in Playlists
      /\ upload[u].at \in Steps /\ upload[u].silent \in BOOLEAN
      /\ shown \in [Uploads -> {"none", "running", "completed", "failed"}]
  BY DEF IngestionTypeOK
<1> DEFINE Moved(step, silent) ==
      upload' = [upload EXCEPT ![u].at = step, ![u].silent = silent]
<1>1. ASSUME NEW step \in Steps, MoveTo(u, step), UNCHANGED <<shown, stored, pending>>,
             own' \in [Playlists -> Stages \ {"unqueued"}],
             \/ upload[u].at = "none" /\ step = "queued"
             \/ upload[u].at = "queued" /\ step = "counting"
             \/ upload[u].at = "handing" /\ step = "over"
      PROVE  Shown'
  <2>1. Moved(step, upload[u].silent)
    BY <1>0, <1>1, MoveToMoves
  <2>2. /\ upload' \in [Uploads -> [at : Steps, of : Playlists, silent : BOOLEAN]]
        /\ upload'[u].at = step /\ upload'[u].silent = upload[u].silent
        /\ upload'[u].of = upload[u].of
        /\ \A v \in Uploads \ {u} : upload'[v] = upload[v]
    BY <1>0, <2>1, MovedAlone
  <2>3. IngestionTypeOK'
    BY <1>0, <1>1, <2>2 DEF IngestionTypeOK
  <2>4. Follows(u)'
    BY <1>0, <1>1, <2>2 DEF Follows, Mine
  <2> QED
    BY <1>1, <2>2, <2>3, <2>4, OneUpload
<1>2. ASSUME Upload(u) \/ StartIngestion(u) \/ HandOff(u) PROVE Shown'
  <2>1. own' \in [Playlists -> Stages \ {"unqueued"}]
    BY <1>0, <1>2 DEF Upload, StartIngestion, HandOff, IngestionTypeOK, Stages
  <2> QED
    BY <1>1, <1>2, <2>1 DEF Upload, StartIngestion, HandOff, At, Steps
<1>3. ASSUME OpenUpload(u) PROVE Shown'
  <2>1. /\ upload[u].at = "counting" /\ MoveTo(u, "storing") /\ "storing" \in Steps
        /\ shown' = [shown EXCEPT ![u] = "running"] /\ UNCHANGED <<stored, pending, own>>
    BY <1>3 DEF OpenUpload, At, Steps
  <2>2. /\ upload' \in [Uploads -> [at : Steps, of : Playlists, silent : BOOLEAN]]
        /\ upload'[u].at = "storing" /\ upload'[u].of = upload[u].of
        /\ \A v \in Uploads \ {u} : upload'[v] = upload[v]
    <3>1. Moved("storing", upload[u].silent)
      BY <1>0, <2>1, MoveToMoves
    <3> QED
      BY <1>0, <2>1, <3>1, MovedAlone
  <2>3. IngestionTypeOK'
    BY <1>0, <2>1, <2>2 DEF IngestionTypeOK
  <2>4. Follows(u)'
    BY <1>0, <2>1, <2>2 DEF Follows, Mine
  <2> QED
    BY <1>0, <2>1, <2>2, <2>3, <2>4, OneUpload
<1>4. ASSUME TickUpload(u) PROVE Shown'
  <2>1. /\ upload[u].at = "storing" /\ UNCHANGED <<upload, stored, pending, own>>
        /\ shown' \in [Uploads -> {"none", "running", "completed", "failed"}]
        /\ shown'[u] \in {shown[u], "running"}
        /\ \A v \in Uploads \ {u} : shown'[v] = shown[v]
    BY <1>0, <1>4, ShowResult DEF TickUpload, At
  <2>2. IngestionTypeOK'
    BY <1>0, <2>1 DEF IngestionTypeOK
  <2>3. Follows(u)'
    BY <1>0, <2>1 DEF Follows, Mine
  <2> QED
    BY <2>1, <2>2, <2>3, OneUpload
<1>5. ASSUME ReapUpload(u) PROVE Shown'
  <2>1. /\ shown[u] = "running" /\ shown' = [shown EXCEPT ![u] = "failed"]
        /\ UNCHANGED <<upload, stored, pending, own>>
    BY <1>5 DEF ReapUpload
  <2>2. IngestionTypeOK'
    BY <1>0, <2>1 DEF IngestionTypeOK
  <2>3. Follows(u)'
    BY <1>0, <2>1 DEF Follows, Mine
  <2> QED
    BY <1>0, <2>1, <2>2, <2>3, OneUpload
<1>6. ASSUME NoConnection(u) PROVE Shown'
  <2>1. /\ upload[u].at = "counting" /\ Moved("over", TRUE) /\ "over" \in Steps
        /\ UNCHANGED <<shown, stored, pending, own>>
    BY <1>6 DEF NoConnection, At, Steps
  <2>2. /\ upload' \in [Uploads -> [at : Steps, of : Playlists, silent : BOOLEAN]]
        /\ upload'[u].at = "over" /\ upload'[u].silent = TRUE /\ upload'[u].of = upload[u].of
        /\ \A v \in Uploads \ {u} : upload'[v] = upload[v]
    BY <1>0, <2>1, MovedAlone
  <2>3. IngestionTypeOK'
    BY <1>0, <2>1, <2>2 DEF IngestionTypeOK
  <2>4. Follows(u)'
    BY <1>0, <2>1, <2>2 DEF Follows, Mine
  <2> QED
    BY <2>1, <2>2, <2>3, <2>4, OneUpload
<1>7. ASSUME NEW status \in {"completed", "failed"}, NEW step \in Steps,
             ShowLast(u, status, step), UNCHANGED <<stored, pending, own>>,
             \/ /\ upload[u].at \in {"counting", "storing"}
                /\ status = "failed" /\ step = "over"
             \/ upload[u].at = "stored" /\ status = "completed" /\ step = "handing"
             \/ /\ upload[u].at \in {"stored", "handing"}
                /\ status = "failed" /\ step = "raised"
      PROVE  Shown'
  <2>1. PICK silent \in BOOLEAN :
          /\ Moved(step, silent)
          /\ shown' \in [Uploads -> {"none", "running", "completed", "failed"}]
          /\ shown'[u] \in {shown[u], status}
          /\ ~silent => shown'[u] = status
          /\ \A v \in Uploads \ {u} : shown'[v] = shown[v]
    BY <1>0, <1>7, ShowLastResult
  <2>2. /\ upload' \in [Uploads -> [at : Steps, of : Playlists, silent : BOOLEAN]]
        /\ upload'[u].at = step /\ upload'[u].silent = silent /\ upload'[u].of = upload[u].of
        /\ \A v \in Uploads \ {u} : upload'[v] = upload[v]
    BY <1>0, <2>1, MovedAlone
  <2>3. IngestionTypeOK'
    BY <1>0, <1>7, <2>1, <2>2 DEF IngestionTypeOK
  <2>4. Follows(u)'
    BY <1>0, <1>7, <2>1, <2>2 DEF Follows, Mine
  <2> QED
    BY <1>7, <2>1, <2>2, <2>3, <2>4, OneUpload
<1>8. ASSUME IngestFails(u) \/ ShowCompleted(u) \/ RaisesAfterCommit(u) PROVE Shown'
  BY <1>7, <1>8 DEF IngestFails, ShowCompleted, RaisesAfterCommit, At, Steps
<1>9. ASSUME Commit(u) \/ CommitUnanswered(u) PROVE Shown'
  <2>1. /\ Store(u) /\ upload[u].at = "storing" /\ own' = own
        /\ shown' \in [Uploads -> {"none", "running", "completed", "failed"}]
        /\ shown'[u] \in {"running", "failed"}
        /\ \A v \in Uploads \ {u} : shown'[v] = shown[v]
    BY <1>0, <1>9, ShowResult DEF Commit, CommitUnanswered, Store, At, Follows
  <2>2. \E step \in {"stored", "over"}, silent \in BOOLEAN :
          Moved(step, silent) /\ (step = "over" => silent)
    BY <1>0, <1>9, MoveToMoves DEF Commit, CommitUnanswered, Steps
  <2>3. PICK step \in {"stored", "over"}, silent \in BOOLEAN :
          /\ upload' \in [Uploads -> [at : Steps, of : Playlists, silent : BOOLEAN]]
          /\ upload'[u].at = step /\ upload'[u].silent = silent /\ upload'[u].of = upload[u].of
          /\ \A v \in Uploads \ {u} : upload'[v] = upload[v]
          /\ step = "over" => silent
    BY <1>0, <2>2, MovedAlone DEF Steps
  <2>4. /\ stored'[upload[u].of] = u
        /\ \A v \in Uploads \ {u} : \A p \in Playlists : stored'[p] = v <=> stored[p] = v
        /\ stored' \in [Playlists -> Uploads \cup {NoUpload}]
        /\ pending' \subseteq Playlists
    BY <1>0, <2>1, StoreIsMine
  <2>5. IngestionTypeOK'
    BY <1>0, <2>1, <2>3, <2>4 DEF IngestionTypeOK
  <2>6. Follows(u)'
    BY <1>0, <2>1, <2>3, <2>4 DEF Follows, Mine
  <2> QED
    BY <2>1, <2>3, <2>4, <2>5, <2>6, OneUpload
<1> QED
  BY <1>2, <1>3, <1>4, <1>5, <1>6, <1>8, <1>9 DEF IngestionStep

(* Matching touches pending and own; a death leaves rows and storage as they are. *)
LEMMA OwnKeepsShown ==
  ASSUME Shown, NEW p \in Playlists, StartOwn(p) \/ EndOwnArtist(p) \/ EndOwnIdentity(p)
  PROVE  Shown'
<1>1. pending \subseteq Playlists /\ own \in [Playlists -> Stages \ {"unqueued"}]
  BY DEF Shown, IngestionTypeOK
<1>2. UNCHANGED <<upload, shown, stored>>
  BY DEF StartOwn, EndOwnArtist, EndOwnIdentity
<1>3. own' \in [Playlists -> Stages \ {"unqueued"}]
  BY <1>1 DEF StartOwn, EndOwnArtist, EndOwnIdentity, OwnStep, Stages
<1>4. pending' \subseteq Playlists
  BY <1>1 DEF StartOwn, EndOwnArtist, EndOwnIdentity, ArtistsDone, SongsDone
<1> QED
  BY <1>2, <1>3, <1>4 DEF Shown, IngestionTypeOK, Follows, Mine

RecheckStep(r) ==
  \/ RunStepAlone(r) \/ OpenRunForPending(r) \/ NoRunOpened(r)
  \/ \E p \in Playlists : StageWithItsWork(r, p)

LEMMA RecheckKeepsShown ==
  ASSUME Shown, NEW r \in Runs, RecheckStep(r)
  PROVE  Shown'
<1>1. pending \subseteq Playlists
  BY DEF Shown, IngestionTypeOK
<1>2. UNCHANGED <<upload, shown, stored, own>>
  BY DEF RecheckStep, RunStepAlone, OpenRunForPending, NoRunOpened, StageWithItsWork, ours
<1>3. pending' \subseteq Playlists
  BY <1>1 DEF RecheckStep, RunStepAlone, OpenRunForPending, NoRunOpened, StageWithItsWork, ours,
     Stored, ArtistsDone, SongsDone
<1> QED
  BY <1>2, <1>3 DEF Shown, IngestionTypeOK, Follows, Mine

LEMMA DeathKeepsShown == Shown /\ WorkerDies => Shown'
<1> SUFFICES ASSUME Shown, WorkerDies PROVE Shown'
  OBVIOUS
<1>1. /\ upload \in [Uploads -> [at : Steps, of : Playlists, silent : BOOLEAN]]
      /\ own \in [Playlists -> Stages \ {"unqueued"}]
  BY DEF Shown, IngestionTypeOK
<1>2. /\ UNCHANGED <<shown, stored, pending>>
      /\ upload' = [u \in Uploads |->
           IF upload[u].at \in AtWork THEN [upload[u] EXCEPT !.at = "lost"] ELSE upload[u]]
      /\ own' \in [Playlists -> Stages \ {"unqueued"}]
  BY <1>1 DEF WorkerDies, AtWork, Stages
<1>3. ASSUME NEW u \in Uploads
      PROVE  /\ upload'[u] \in [at : Steps, of : Playlists, silent : BOOLEAN]
             /\ upload'[u].of = upload[u].of
             /\ upload'[u].at = "lost" \/ upload'[u] = upload[u]
  BY <1>1, <1>2 DEF Steps
<1>4. upload' \in [Uploads -> [at : Steps, of : Playlists, silent : BOOLEAN]]
  BY <1>2, <1>3
<1>5. ASSUME NEW u \in Uploads PROVE Follows(u)'
  BY <1>2, <1>3 DEF Shown, Follows, Mine
<1> QED
  BY <1>2, <1>4, <1>5 DEF Shown, IngestionTypeOK

LEMMA ShownInductive == Shown /\ [NextIngestion]_pipeline => Shown'
<1> SUFFICES ASSUME Shown, [NextIngestion]_pipeline PROVE Shown'
  OBVIOUS
<1>1. CASE UNCHANGED pipeline
  BY <1>1 DEF pipeline, ours, Shown, IngestionTypeOK, Follows, Mine
<1> QED
  BY <1>1, StepKeepsShown, OwnKeepsShown, RecheckKeepsShown, DeathKeepsShown
     DEF NextIngestion, RecheckStep

LEMMA ShownHolds == IngestionSpec => []Shown
<1>1. InitIngestion => Shown
  <2> SUFFICES ASSUME InitIngestion PROVE Shown
    OBVIOUS
  <2>1. /\ upload \in [Uploads -> [at : {"none"}, of : Playlists, silent : {FALSE}]]
        /\ shown = [u \in Uploads |-> "none"]
        /\ stored = [p \in Playlists |-> NoUpload]
        /\ pending = {} /\ own = [p \in Playlists |-> "none"]
    BY DEF InitIngestion
  <2>2. IngestionTypeOK
    BY <2>1 DEF IngestionTypeOK, Steps, Stages
  <2>3. ASSUME NEW u \in Uploads PROVE Follows(u)
    <3>1. upload[u].at = "none" /\ upload[u].of \in Playlists
      BY <2>1
    <3> QED
      BY <2>1, <3>1, NoUploadAssumption DEF Follows, Mine
  <2> QED
    BY <2>2, <2>3 DEF Shown
<1> QED
  BY <1>1, ShownInductive, PTL DEF IngestionSpec

(* The uploads, their rows and what they stored keep their types.           *)
THEOREM IngestionTypeCorrect == IngestionSpec => []IngestionTypeOK
<1>1. Shown => IngestionTypeOK
  BY DEF Shown
<1> QED
  BY <1>1, ShownHolds, PTL

-----------------------------------------------------------------------------
(* A playlist's own matching is only ever set off by the upload that stored it, *)
(* and that upload is then over.                                              *)

Handed ==
  \A p \in Playlists :
    own[p] = "none" \/ \E u \in Uploads : stored[p] = u /\ upload[u].at = "over"

(* What is over stays over, and what is stored stays stored by the same upload. *)
LEMMA OverStays ==
  ASSUME Shown, [NextIngestion]_pipeline, NEW u \in Uploads
  PROVE  /\ upload[u].at = "over" => upload'[u].at = "over"
         /\ \A p \in Playlists : stored[p] = u => stored'[p] = u
<1> USE DEF Shown
<1>1. ASSUME NEW v \in Uploads, IngestionStep(v), v # u
      PROVE  upload'[u].at = upload[u].at
  <2>1. upload \in [Uploads -> [at : Steps, of : Playlists, silent : BOOLEAN]]
    BY DEF IngestionTypeOK
  <2>2. CASE \E step \in Steps : MoveTo(v, step)
    BY <1>1, <2>1, <2>2 DEF MoveTo
  <2>3. CASE \E status \in {"completed", "failed"}, step \in Steps : ShowLast(v, status, step)
    BY <1>1, <2>1, <2>3 DEF ShowLast
  <2>4. CASE upload' = [upload EXCEPT ![v].at = "over", ![v].silent = TRUE]
    BY <1>1, <2>1, <2>4
  <2>5. CASE UNCHANGED upload
    BY <2>5
  <2>6. CASE Upload(v) \/ StartIngestion(v) \/ OpenUpload(v) \/ Commit(v) \/ HandOff(v)
    BY <2>2, <2>6 DEF Upload, StartIngestion, OpenUpload, Commit, HandOff, Steps
  <2>7. CASE NoConnection(v) \/ CommitUnanswered(v)
    BY <2>4, <2>7 DEF NoConnection, CommitUnanswered
  <2>8. CASE IngestFails(v) \/ ShowCompleted(v) \/ RaisesAfterCommit(v)
    BY <2>3, <2>8 DEF IngestFails, ShowCompleted, RaisesAfterCommit, Steps
  <2>9. CASE TickUpload(v) \/ ReapUpload(v)
    BY <2>5, <2>9 DEF TickUpload, ReapUpload
  <2> QED
    BY <1>1, <2>6, <2>7, <2>8, <2>9 DEF IngestionStep
<1>2. ASSUME NEW v \in Uploads, IngestionStep(v)
      PROVE  upload[v].at = "over" => upload' = upload
  BY <1>2 DEF IngestionStep, Upload, StartIngestion, NoConnection, OpenUpload, TickUpload,
     IngestFails, Commit, CommitUnanswered, ShowCompleted, HandOff, RaisesAfterCommit, ReapUpload,
     Store, At
<1>3. ASSUME NEW v \in Uploads, IngestionStep(v), NEW p \in Playlists, stored[p] = u
      PROVE  stored'[p] = u
  <2>1. stored \in [Playlists -> Uploads \cup {NoUpload}]
    BY DEF IngestionTypeOK
  <2>2. UNCHANGED stored \/ Store(v)
    BY <1>3 DEF IngestionStep, Upload, StartIngestion, NoConnection, OpenUpload, TickUpload,
       IngestFails, Commit, CommitUnanswered, ShowCompleted, HandOff, RaisesAfterCommit, ReapUpload
  <2> QED
    BY <1>3, <2>1, <2>2, NoUploadAssumption DEF Store, NotDuplicate
<1>4. ASSUME ~\E v \in Uploads : IngestionStep(v)
      PROVE  UNCHANGED stored /\ (upload[u].at = "over" => upload'[u].at = "over")
  BY <1>4 DEF NextIngestion, pipeline, ours, StartOwn, EndOwnArtist, EndOwnIdentity, RunStepAlone,
     OpenRunForPending, NoRunOpened, StageWithItsWork, WorkerDies
<1> QED
  BY <1>1, <1>2, <1>3, <1>4

(* Only a hand-off takes the matching of a playlist from "none". *)
LEMMA OnlyHandedOff ==
  ASSUME Shown, [NextIngestion]_pipeline, NEW p \in Playlists, own[p] = "none", own'[p] # "none"
  PROVE  \E u \in Uploads : HandOff(u) /\ upload[u].of = p
<1>1. own \in [Playlists -> Stages \ {"unqueued"}]
  BY DEF Shown, IngestionTypeOK
<1>2. ASSUME NEW q \in Playlists, StartOwn(q) \/ EndOwnArtist(q) \/ EndOwnIdentity(q)
      PROVE  FALSE
  BY <1>1, <1>2 DEF StartOwn, EndOwnArtist, EndOwnIdentity, OwnStep
<1>3. ~WorkerDies
  BY <1>1 DEF WorkerDies
<1>4. ~UNCHANGED own
  OBVIOUS
<1>5. PICK u \in Uploads : IngestionStep(u)
  BY <1>2, <1>3, <1>4 DEF NextIngestion, pipeline, ours, RunStepAlone, OpenRunForPending,
     NoRunOpened, StageWithItsWork
<1>6. HandOff(u)
  BY <1>4, <1>5 DEF IngestionStep, Upload, StartIngestion, NoConnection, OpenUpload, TickUpload,
     IngestFails, Commit, CommitUnanswered, Store, ShowCompleted, RaisesAfterCommit, ReapUpload
<1> QED
  BY <1>1, <1>6 DEF HandOff

LEMMA HandedInductive == Shown /\ Handed /\ [NextIngestion]_pipeline => Handed'
<1> SUFFICES ASSUME Shown, Handed, [NextIngestion]_pipeline, NEW p \in Playlists, own'[p] # "none"
             PROVE  \E u \in Uploads : stored'[p] = u /\ upload'[u].at = "over"
  BY DEF Handed
<1>1. CASE own[p] # "none"
  BY <1>1, OverStays DEF Handed
<1>2. CASE own[p] = "none"
  <2>1. PICK u \in Uploads : HandOff(u) /\ upload[u].of = p
    BY <1>2, OnlyHandedOff
  <2>2. stored'[p] = u
    BY <2>1 DEF HandOff, At, Shown, Follows, Mine
  <2>3. upload'[u].at = "over"
    BY <2>1 DEF HandOff, MoveTo, Shown, IngestionTypeOK
  <2> QED
    BY <2>2, <2>3
<1> QED
  BY <1>1, <1>2

LEMMA HandedHolds == IngestionSpec => []Handed
<1>1. InitIngestion => Handed
  BY DEF InitIngestion, Handed
<1> QED
  BY <1>1, HandedInductive, ShownHolds, PTL DEF IngestionSpec

(* For any number of uploads of any files beside any re-checks: COMPLETED is   *)
(* only shown of stored data; an upload that ended shows what became of its   *)
(* file, whatever the reaper did to its row in between; and FAILED is shown of *)
(* stored data only by an upload that raised after its commit, whose playlist *)
(* then has no matching under way - unless the row's last write, or the       *)
(* commit's answer, was lost.                                                 *)
THEOREM UploadsShown == IngestionSpec => []UploadShown
<1>1. Shown /\ Handed => UploadShown
  BY DEF Shown, Handed, Follows, Mine, UploadShown, Shows, IngestionTypeOK
<1> QED
  BY <1>1, ShownHolds, HandedHolds, PTL

-----------------------------------------------------------------------------
(* The one worker: who is at work is who the worker is on, and alone. *)

Deciding == {"reading", "fanning", "failing"}
WorkerIs(task, x) == worker.task = task /\ worker.run = x

RecheckHolds == \A r \in Runs : recheck[r] \in Deciding => WorkerIs("recheck", r)
UnqueuedHeld ==
  \A r \in Runs, p \in Playlists : stage[r][p] = "unqueued" => recheck[r] \in {"fanning", "failing"}
StageHolds ==
  \A r \in Runs, p \in Playlists : stage[r][p] \in InStage => WorkerIs(stage[r][p], r)
StageAlone ==
  \A r \in Runs, p, q \in Playlists : stage[r][p] \in InStage /\ stage[r][q] \in InStage => p = q
UploadHolds == \A u \in Uploads : upload[u].at \in AtWork => WorkerIs("ingestion", u)
OwnHolds == \A p \in Playlists : own[p] \in InStage => WorkerIs("own", p)

RunTypes ==
  /\ recheck \in [Runs -> Rechecks]
  /\ stage \in [Runs -> [Playlists -> Stages]]
Held ==
  /\ Shown /\ RunTypes
  /\ RecheckHolds /\ UnqueuedHeld /\ StageHolds /\ StageAlone /\ UploadHolds /\ OwnHolds

(* Whoever is at work is the only one. *)
Nobody ==
  /\ \A r \in Runs : recheck[r] \notin Deciding
  /\ \A r \in Runs, p \in Playlists : stage[r][p] \notin InStage \cup {"unqueued"}
  /\ \A u \in Uploads : upload[u].at \notin AtWork
  /\ \A p \in Playlists : own[p] \notin InStage

LEMMA NobodyWhenFree ==
  ASSUME Held, worker = Free \/ worker.task \notin {"recheck", "artist", "identity", "ingestion", "own"}
  PROVE  Nobody
<1>1. worker.task \notin {"recheck", "artist", "identity", "ingestion", "own"}
  BY DEF Free
<1> QED
  BY <1>1 DEF Held, Nobody, RecheckHolds, UnqueuedHeld, StageHolds, UploadHolds, OwnHolds,
     WorkerIs, Deciding, InStage

LEMMA NobodyHolds ==
  ASSUME Nobody, RunTypes, Shown
  PROVE  Held
  BY DEF Held, Nobody, RecheckHolds, UnqueuedHeld, StageHolds, StageAlone, UploadHolds, OwnHolds,
     Deciding, InStage

(* A step of the uploads' side stays at its task, takes one or leaves it, and *)
(* to the re-checks nothing has happened.                                    *)
StaysAtWork ==
  /\ worker' = worker
  /\ \A u \in Uploads : upload'[u].at \in AtWork => upload[u].at \in AtWork
  /\ \A p \in Playlists : own'[p] \in InStage => own[p] \in InStage
TakesUpload(u) ==
  /\ worker = Free /\ WorkerIs("ingestion", u)'
  /\ \A v \in Uploads \ {u} : upload'[v] = upload[v]
  /\ own' = own
TakesOwn(p) ==
  /\ worker = Free /\ WorkerIs("own", p)'
  /\ \A q \in Playlists \ {p} : own'[q] = own[q]
  /\ upload' = upload
LeavesUpload(u) ==
  /\ upload[u].at \in AtWork /\ upload'[u].at \notin AtWork /\ worker' = Free
  /\ \A v \in Uploads \ {u} : upload'[v] = upload[v]
  /\ \A p \in Playlists : own'[p] \in InStage => own[p] \in InStage
LeavesOwn(p) ==
  /\ own[p] \in InStage /\ own'[p] \notin InStage /\ worker' = Free
  /\ \A q \in Playlists \ {p} : own'[q] = own[q]
  /\ upload' = upload
Beside ==
  /\ UNCHANGED Runs_
  /\ \/ StaysAtWork
     \/ \E u \in Uploads : TakesUpload(u) \/ LeavesUpload(u)
     \/ \E p \in Playlists : TakesOwn(p) \/ LeavesOwn(p)

LEMMA MovesTo ==
  ASSUME Shown, NEW u \in Uploads, NEW step \in Steps, NEW silent \in BOOLEAN,
         \/ MoveTo(u, step)
         \/ upload' = [upload EXCEPT ![u].at = step, ![u].silent = silent]
  PROVE  upload'[u].at = step /\ \A v \in Uploads \ {u} : upload'[v] = upload[v]
<1>1. IngestionTypeOK /\ upload[u].silent \in BOOLEAN
  BY DEF Shown, IngestionTypeOK
<1>2. CASE MoveTo(u, step)
  <2>1. upload' = [upload EXCEPT ![u].at = step, ![u].silent = upload[u].silent]
    BY <1>1, <1>2, MoveToMoves
  <2> QED
    BY <1>1, <2>1, MovedAlone
<1>3. CASE upload' = [upload EXCEPT ![u].at = step, ![u].silent = silent]
  BY <1>1, <1>3, MovedAlone
<1> QED
  BY <1>2, <1>3

LEMMA ShowLastMoves ==
  ASSUME Shown, NEW u \in Uploads, NEW status \in {"completed", "failed"}, NEW step \in Steps,
         ShowLast(u, status, step)
  PROVE  upload'[u].at = step /\ \A v \in Uploads \ {u} : upload'[v] = upload[v]
<1>1. IngestionTypeOK
  BY DEF Shown
<1>2. PICK silent \in BOOLEAN :
        /\ upload' = [upload EXCEPT ![u].at = step, ![u].silent = silent]
        /\ shown' \in [Uploads -> {"none", "running", "completed", "failed"}]
        /\ shown'[u] \in {shown[u], status}
        /\ ~silent => shown'[u] = status
        /\ \A v \in Uploads \ {u} : shown'[v] = shown[v]
  BY <1>1, ShowLastResult
<1> QED
  BY <1>2, MovesTo

LEMMA UploadBeside ==
  ASSUME Held, NEW u \in Uploads, IngestionStep(u)
  PROVE  Beside
<1>0. /\ Shown /\ upload[u].at \in Steps /\ upload[u].silent \in BOOLEAN
      /\ own \in [Playlists -> Stages \ {"unqueued"}] /\ upload[u].of \in Playlists
  <2>1. Shown /\ upload[u] \in [at : Steps, of : Playlists, silent : BOOLEAN]
    BY DEF Held, Shown, IngestionTypeOK
  <2> QED
    BY <2>1 DEF Shown, IngestionTypeOK
<1> USE DEF Runs_, AtWork
<1>1. CASE Upload(u) \/ OpenUpload(u) \/ Commit(u)
  <2>1. PICK step \in {"queued", "storing", "stored"} :
          /\ MoveTo(u, step)
          /\ step = "queued" \/ upload[u].at \in AtWork
    BY <1>1 DEF Upload, OpenUpload, Commit, Store, At
  <2>2. UNCHANGED <<worker, own, recheck, stage, row, matched>>
    BY <1>1 DEF Upload, OpenUpload, Commit, Store, vars
  <2>3. step \in Steps
    BY DEF Steps
  <2> QED
    BY <1>0, <2>1, <2>2, <2>3, MovesTo DEF Beside, StaysAtWork
<1>2. CASE StartIngestion(u)
  <2>1. /\ MoveTo(u, "counting") /\ worker = Free
        /\ worker' = [task |-> "ingestion", run |-> u]
        /\ UNCHANGED <<own, recheck, stage, row, matched>>
    BY <1>2 DEF StartIngestion, Take
  <2>2. WorkerIs("ingestion", u)'
    BY <2>1 DEF WorkerIs
  <2>3. \A v \in Uploads \ {u} : upload'[v] = upload[v]
    BY <1>0, <2>1, MovesTo DEF Steps
  <2> QED
    BY <2>1, <2>2, <2>3 DEF Beside, TakesUpload
<1>3. CASE TickUpload(u) \/ ReapUpload(u)
  BY <1>3 DEF TickUpload, ReapUpload, vars, Beside, StaysAtWork
<1>4. CASE ShowCompleted(u)
  <2>1. /\ ShowLast(u, "completed", "handing") /\ upload[u].at = "stored"
        /\ UNCHANGED <<worker, own, recheck, stage, row, matched>>
    BY <1>4 DEF ShowCompleted, At, vars
  <2>2. \A v \in Uploads \ {u} : upload'[v] = upload[v]
    BY <1>0, <2>1, ShowLastMoves DEF Steps
  <2> QED
    BY <2>1, <2>2 DEF Beside, StaysAtWork
<1>5. CASE NoConnection(u) \/ IngestFails(u) \/ CommitUnanswered(u) \/ HandOff(u)
             \/ RaisesAfterCommit(u)
  <2>1. /\ upload[u].at \in AtWork /\ worker' = Free
        /\ UNCHANGED <<recheck, stage, row, matched>>
    BY <1>5 DEF NoConnection, IngestFails, CommitUnanswered, HandOff, RaisesAfterCommit, Store,
       At, LeaveTask
  <2>2. /\ upload'[u].at \notin AtWork
        /\ \A v \in Uploads \ {u} : upload'[v] = upload[v]
    <3>1. CASE IngestFails(u) \/ RaisesAfterCommit(u)
      BY <1>0, <3>1, ShowLastMoves DEF IngestFails, RaisesAfterCommit, Steps
    <3>2. CASE NoConnection(u) \/ CommitUnanswered(u) \/ HandOff(u)
      BY <1>0, <3>2, MovesTo DEF NoConnection, CommitUnanswered, HandOff, Steps
    <3> QED
      BY <1>5, <3>1, <3>2
  <2>3. \A p \in Playlists : own'[p] \in InStage => own[p] \in InStage
    BY <1>0, <1>5 DEF NoConnection, IngestFails, CommitUnanswered, HandOff, RaisesAfterCommit,
       Store, InStage
  <2> QED
    BY <2>1, <2>2, <2>3 DEF Beside, LeavesUpload
<1> QED
  BY <1>1, <1>2, <1>3, <1>4, <1>5 DEF IngestionStep

LEMMA OwnBeside ==
  ASSUME Held, NEW p \in Playlists, StartOwn(p) \/ EndOwnArtist(p) \/ EndOwnIdentity(p)
  PROVE  Beside
<1>0. own \in [Playlists -> Stages \ {"unqueued"}]
  BY DEF Held, Shown, IngestionTypeOK
<1> USE DEF Runs_
<1>1. CASE StartOwn(p)
  <2>1. /\ worker = Free /\ worker' = [task |-> "own", run |-> p] /\ upload' = upload
        /\ UNCHANGED <<recheck, stage, row, matched>>
        /\ \E s \in Stages : own' = [own EXCEPT ![p] = s]
    BY <1>1 DEF StartOwn, Take, OwnStep, Stages
  <2>2. WorkerIs("own", p)'
    BY <2>1 DEF WorkerIs
  <2> QED
    BY <1>0, <2>1, <2>2 DEF Beside, TakesOwn
<1>2. CASE EndOwnArtist(p) \/ EndOwnIdentity(p)
  BY <1>0, <1>2 DEF EndOwnArtist, EndOwnIdentity, OwnStep, LeaveTask, InStage, Beside, LeavesOwn
<1> QED
  BY <1>1, <1>2

(* Such a step leaves the worker held as it was, or by the one it is about. *)
LEMMA BesideKeepsHeld ==
  ASSUME Held, Beside, Shown'
  PROVE  Held'
<1>0. RunTypes'
  BY DEF Held, RunTypes, Beside, Runs_
<1>1. CASE StaysAtWork
  BY <1>0, <1>1 DEF Held, StaysAtWork, Beside, Runs_, RecheckHolds, UnqueuedHeld, StageHolds,
     StageAlone, UploadHolds, OwnHolds, WorkerIs
<1>2. ASSUME NEW u \in Uploads, TakesUpload(u) PROVE Held'
  <2>1. Nobody
    BY <1>2, NobodyWhenFree DEF TakesUpload
  <2> QED
    BY <1>0, <1>2, <2>1 DEF TakesUpload, Nobody, Held, Beside, Runs_, RecheckHolds, UnqueuedHeld,
       StageHolds, StageAlone, UploadHolds, OwnHolds
<1>3. ASSUME NEW p \in Playlists, TakesOwn(p) PROVE Held'
  <2>1. Nobody
    BY <1>3, NobodyWhenFree DEF TakesOwn
  <2> QED
    BY <1>0, <1>3, <2>1 DEF TakesOwn, Nobody, Held, Beside, Runs_, RecheckHolds, UnqueuedHeld,
       StageHolds, StageAlone, UploadHolds, OwnHolds
<1>4. ASSUME NEW u \in Uploads, LeavesUpload(u) PROVE Held'
  <2>1. Nobody'
    BY <1>4 DEF LeavesUpload, Nobody, Held, Beside, Runs_, RecheckHolds, UnqueuedHeld,
       StageHolds, UploadHolds, OwnHolds, WorkerIs, Deciding, InStage
  <2> QED
    BY <1>0, <2>1 DEF Nobody, Held, RecheckHolds, UnqueuedHeld, StageHolds, StageAlone,
       UploadHolds, OwnHolds, Deciding
<1>5. ASSUME NEW p \in Playlists, LeavesOwn(p) PROVE Held'
  <2>1. Nobody'
    BY <1>5 DEF LeavesOwn, Nobody, Held, Beside, Runs_, RecheckHolds, UnqueuedHeld,
       StageHolds, UploadHolds, OwnHolds, WorkerIs, Deciding, InStage
  <2> QED
    BY <1>0, <2>1 DEF Nobody, Held, RecheckHolds, UnqueuedHeld, StageHolds, StageAlone,
       UploadHolds, OwnHolds, Deciding
<1> QED
  BY <1>1, <1>2, <1>3, <1>4, <1>5 DEF Beside

(* What a step of a re-check does to who is at work. *)
LEMMA RecheckKeepsHeld ==
  ASSUME Held, NEW r \in Runs, RecheckStep(r), Shown'
  PROVE  Held'
<1>0. /\ RunTypes /\ recheck \in [Runs -> Rechecks] /\ stage \in [Runs -> [Playlists -> Stages]]
      /\ RecheckHolds /\ UnqueuedHeld /\ StageHolds /\ StageAlone /\ UploadHolds /\ OwnHolds
  BY DEF Held, RunTypes
<1>1. UNCHANGED <<upload, own>>
  BY DEF RecheckStep, RunStepAlone, OpenRunForPending, NoRunOpened, StageWithItsWork, ours
<1> DEFINE Same == UNCHANGED <<recheck, stage, worker>>
           Frees == /\ worker' = Free
                    /\ \A q \in Runs : recheck'[q] \notin Deciding
                    /\ \A q \in Runs, p \in Playlists : stage'[q][p] \notin InStage \cup {"unqueued"}
                    /\ \A u \in Uploads : upload[u].at \notin AtWork
                    /\ \A p \in Playlists : own[p] \notin InStage
<1>2. CASE Tick(r) \/ Reap(r)
  <2>1. Same
    BY <1>2 DEF Tick, Reap
  <2> QED
    BY <1>0, <1>1, <2>1 DEF Held, RunTypes, RecheckHolds, UnqueuedHeld, StageHolds, StageAlone,
       UploadHolds, OwnHolds, WorkerIs
<1>3. ASSUME Frees, RunTypes' PROVE Held'
  <2>1. Nobody'
    BY <1>1, <1>3 DEF Nobody
  <2> QED
    BY <1>3, <2>1 DEF Nobody, Held, RecheckHolds, UnqueuedHeld, StageHolds, StageAlone,
       UploadHolds, OwnHolds, Deciding
<1>4. CASE Request(r)
  <2>1. /\ recheck' = [recheck EXCEPT ![r] = "queued"] /\ recheck[r] = "idle"
        /\ UNCHANGED <<stage, worker>>
    BY <1>4 DEF Request
  <2>2. RunTypes' /\ \A q \in Runs : recheck'[q] \in Deciding => recheck'[q] = recheck[q]
    BY <1>0, <2>1 DEF RunTypes, Rechecks, Deciding
  <2>3. UnqueuedHeld'
    BY <1>0, <2>1 DEF UnqueuedHeld
  <2> QED
    BY <1>0, <1>1, <2>1, <2>2, <2>3 DEF Held, RecheckHolds, StageHolds, StageAlone,
       UploadHolds, OwnHolds, WorkerIs
<1>5. CASE StartRecheck(r)
  <2>1. /\ recheck' = [recheck EXCEPT ![r] = "reading"] /\ stage' = stage
        /\ worker = Free /\ worker' = [task |-> "recheck", run |-> r]
    BY <1>5 DEF StartRecheck, Take
  <2>2. Nobody
    BY <2>1, NobodyWhenFree
  <2>3. RunTypes' /\ RecheckHolds'
    BY <1>0, <2>1, <2>2 DEF RunTypes, Rechecks, RecheckHolds, Nobody, WorkerIs
  <2> QED
    BY <1>1, <2>1, <2>2, <2>3 DEF Nobody, Held, UnqueuedHeld, StageHolds, StageAlone,
       UploadHolds, OwnHolds
<1>6. CASE NoRunOpened(r) \/ RecheckEnds(r)
  <2>1. /\ recheck[r] \in Deciding /\ recheck' = [recheck EXCEPT ![r] = "over"]
        /\ worker' = Free /\ stage' = stage
        /\ \/ recheck[r] = "reading"
           \/ \A p \in Playlists : stage[r][p] # "unqueued"
    BY <1>6 DEF NoRunOpened, NoRun, RecheckEnds, Deciding
  <2>2. WorkerIs("recheck", r)
    BY <1>0, <2>1 DEF RecheckHolds
  <2>3. RunTypes'
    BY <1>0, <2>1 DEF RunTypes, Rechecks
  <2>4. Frees
    BY <1>0, <2>1, <2>2 DEF RecheckHolds, UnqueuedHeld, StageHolds, UploadHolds, OwnHolds,
       WorkerIs, Deciding, InStage
  <2> QED
    BY <1>3, <2>3, <2>4
<1>7. CASE RecheckRaises(r)
  <2>1. /\ recheck[r] = "fanning" /\ recheck' = [recheck EXCEPT ![r] = "failing"]
        /\ UNCHANGED <<stage, worker>>
    BY <1>7 DEF RecheckRaises
  <2>2. RunTypes' /\ RecheckHolds' /\ UnqueuedHeld'
    BY <1>0, <2>1 DEF RunTypes, Rechecks, RecheckHolds, UnqueuedHeld, Deciding, WorkerIs
  <2> QED
    BY <1>0, <1>1, <2>1, <2>2 DEF Held, StageHolds, StageAlone, UploadHolds, OwnHolds, WorkerIs
<1>8. CASE OpenRunForPending(r)
  <2>1. PICK playlists \in SUBSET Playlists :
          /\ recheck[r] = "reading" /\ recheck' = [recheck EXCEPT ![r] = "fanning"]
          /\ worker' = worker
          /\ stage' = [stage EXCEPT ![r] =
               [p \in Playlists |-> IF p \in playlists THEN "unqueued" ELSE "none"]]
    BY <1>8 DEF OpenRunForPending, OpenRun
  <2>2. WorkerIs("recheck", r)
    BY <1>0, <2>1 DEF RecheckHolds, Deciding
  <2>3. /\ RunTypes'
        /\ \A q \in Runs \ {r} : recheck'[q] = recheck[q] /\ stage'[q] = stage[q]
        /\ recheck'[r] = "fanning" /\ \A p \in Playlists : stage'[r][p] \in {"unqueued", "none"}
    BY <1>0, <2>1 DEF RunTypes, Rechecks, Stages
  <2>4. RecheckHolds' /\ UnqueuedHeld'
    BY <1>0, <2>1, <2>2, <2>3 DEF RecheckHolds, UnqueuedHeld, WorkerIs
  <2>5. StageHolds' /\ StageAlone'
    BY <1>0, <2>1, <2>3 DEF StageHolds, StageAlone, InStage, WorkerIs
  <2> QED
    BY <1>0, <1>1, <2>1, <2>3, <2>4, <2>5 DEF Held, UploadHolds, OwnHolds, WorkerIs
<1>9. CASE LeaveHandedOn(r)
  <2>1. On("handedOn", r) /\ worker' = Free /\ UNCHANGED <<recheck, stage>>
    BY <1>9 DEF LeaveHandedOn
  <2>2. Nobody
    BY <2>1, NobodyWhenFree DEF On
  <2> QED
    BY <1>0, <1>3, <2>1, <2>2 DEF Nobody, RunTypes
<1>10. ASSUME NEW p \in Playlists, StageWithItsWork(r, p) PROVE Held'
  <2>1. /\ \/ QueueStage(r, p) \/ EndUnqueued(r, p) \/ StartArtist(r, p) \/ StartIdentity(r, p)
           \/ ArtistFails(r, p) \/ HandOn(r, p) \/ \E fails \in BOOLEAN : IdentityEnds(r, p, fails)
    BY <1>10 DEF StageWithItsWork
  <2>2. PICK s \in Stages : Become(r, p, s)
    BY <2>1 DEF QueueStage, EndUnqueued, StartArtist, StartIdentity, ArtistFails, HandOn,
       IdentityEnds, Stages
  <2>3. /\ recheck' = recheck /\ RunTypes'
        /\ stage'[r][p] = s
        /\ \A q \in Playlists \ {p} : stage'[r][q] = stage[r][q]
        /\ \A q \in Runs \ {r} : stage'[q] = stage[q]
    BY <1>0, <2>1, <2>2 DEF QueueStage, EndUnqueued, StartArtist, StartIdentity, ArtistFails,
       HandOn, IdentityEnds, Become, RunTypes
  <2>4. CASE QueueStage(r, p) \/ EndUnqueued(r, p)
    <3>1. worker' = worker /\ s \in {"artistQueued", "ended"}
      BY <1>0, <2>3, <2>4 DEF QueueStage, EndUnqueued, Become
    <3>2. UnqueuedHeld'
      BY <1>0, <2>3, <3>1 DEF UnqueuedHeld
    <3>3. \A q \in Runs, t \in Playlists : stage'[q][t] \in InStage => stage'[q][t] = stage[q][t]
      BY <2>3, <3>1 DEF InStage
    <3>4. StageHolds' /\ StageAlone'
      BY <1>0, <3>1, <3>3 DEF StageHolds, StageAlone, WorkerIs
    <3> QED
      BY <1>0, <1>1, <2>3, <3>1, <3>2, <3>4 DEF Held, RecheckHolds, UploadHolds, OwnHolds, WorkerIs
  <2>5. CASE StartArtist(r, p) \/ StartIdentity(r, p)
    <3>1. worker = Free /\ worker' = [task |-> s, run |-> r] /\ s \in InStage
      BY <1>0, <2>3, <2>5 DEF StartArtist, StartIdentity, Take, Become, InStage
    <3>2. Nobody
      BY <3>1, NobodyWhenFree
    <3>3. StageHolds' /\ StageAlone'
      BY <2>3, <3>1, <3>2 DEF Nobody, StageHolds, StageAlone, WorkerIs
    <3> QED
      BY <1>1, <2>3, <3>1, <3>2, <3>3 DEF Nobody, Held, RecheckHolds, UnqueuedHeld, UploadHolds,
         OwnHolds, InStage
  <2>6. CASE HandOn(r, p)
    <3>1. /\ stage[r][p] = "artist" /\ s = "identityQueued"
          /\ worker' = [task |-> "handedOn", run |-> r]
      BY <1>0, <2>3, <2>6 DEF HandOn, Become
    <3>2. WorkerIs("artist", r)
      BY <1>0, <3>1 DEF StageHolds, InStage
    <3>3. \A q \in Runs : recheck'[q] \notin Deciding
      BY <1>0, <2>3, <3>2 DEF RecheckHolds, WorkerIs
    <3>4. \A q \in Runs, t \in Playlists : stage'[q][t] \notin InStage \cup {"unqueued"}
      <4> SUFFICES ASSUME NEW q \in Runs, NEW t \in Playlists
                   PROVE  stage'[q][t] \notin InStage \cup {"unqueued"}
        OBVIOUS
      <4>1. CASE q = r /\ t = p
        BY <2>3, <3>1, <4>1 DEF InStage
      <4>2. CASE ~(q = r /\ t = p)
        <5>1. stage'[q][t] = stage[q][t]
          BY <2>3, <4>2
        <5>2. stage[q][t] \notin InStage
          BY <1>0, <3>1, <3>2, <4>2 DEF StageHolds, StageAlone, WorkerIs, InStage
        <5>3. stage[q][t] # "unqueued"
          BY <1>0, <2>3, <3>3 DEF UnqueuedHeld, Deciding
        <5> QED
          BY <5>1, <5>2, <5>3
      <4> QED
        BY <4>1, <4>2
    <3>5. /\ \A u \in Uploads : upload'[u].at \notin AtWork
          /\ \A t \in Playlists : own'[t] \notin InStage
      BY <1>0, <1>1, <3>2 DEF UploadHolds, OwnHolds, WorkerIs
    <3>6. Nobody'
      BY <3>3, <3>4, <3>5 DEF Nobody
    <3> QED
      BY <2>3, <3>6 DEF Nobody, Held, RecheckHolds, UnqueuedHeld, StageHolds, StageAlone,
         UploadHolds, OwnHolds, Deciding
  <2>7. CASE ArtistFails(r, p) \/ \E fails \in BOOLEAN : IdentityEnds(r, p, fails)
    <3>1. stage[r][p] \in InStage /\ s = "ended" /\ worker' = Free
      BY <1>0, <2>3, <2>7 DEF ArtistFails, IdentityEnds, Become, InStage
    <3>2. WorkerIs(stage[r][p], r)
      BY <1>0, <3>1 DEF StageHolds
    <3>3. \A q \in Runs : recheck'[q] \notin Deciding
      BY <1>0, <2>3, <3>1, <3>2 DEF RecheckHolds, WorkerIs, InStage
    <3>4. \A q \in Runs, t \in Playlists : stage'[q][t] \notin InStage \cup {"unqueued"}
      <4> SUFFICES ASSUME NEW q \in Runs, NEW t \in Playlists
                   PROVE  stage'[q][t] \notin InStage \cup {"unqueued"}
        OBVIOUS
      <4>1. CASE q = r /\ t = p
        BY <2>3, <3>1, <4>1 DEF InStage
      <4>2. CASE ~(q = r /\ t = p)
        <5>1. stage'[q][t] = stage[q][t]
          BY <2>3, <4>2
        <5>2. stage[q][t] \notin InStage
          BY <1>0, <3>1, <3>2, <4>2 DEF StageHolds, StageAlone, WorkerIs, InStage
        <5>3. stage[q][t] # "unqueued"
          BY <1>0, <2>3, <3>3 DEF UnqueuedHeld, Deciding
        <5> QED
          BY <5>1, <5>2, <5>3
      <4> QED
        BY <4>1, <4>2
    <3>5. /\ \A u \in Uploads : upload[u].at \notin AtWork
          /\ \A t \in Playlists : own[t] \notin InStage
      BY <1>0, <3>1, <3>2 DEF UploadHolds, OwnHolds, WorkerIs, InStage
    <3>6. Frees
      BY <3>1, <3>3, <3>4, <3>5
    <3> QED
      BY <1>3, <2>3, <3>6
  <2> QED
    BY <2>1, <2>4, <2>5, <2>6, <2>7
<1> QED
  BY <1>2, <1>4, <1>5, <1>6, <1>7, <1>8, <1>9, <1>10 DEF RecheckStep, RunStepAlone

LEMMA DeathKeepsHeld ==
  ASSUME Held, WorkerDies, Shown'
  PROVE  Held'
<1>0. /\ recheck \in [Runs -> Rechecks] /\ stage \in [Runs -> [Playlists -> Stages]]
      /\ upload \in [Uploads -> [at : Steps, of : Playlists, silent : BOOLEAN]]
      /\ own \in [Playlists -> Stages \ {"unqueued"}]
  BY DEF Held, RunTypes, Shown, IngestionTypeOK
<1>1. RunTypes' /\ \A r \in Runs : recheck'[r] \notin Deciding
  BY <1>0 DEF WorkerDies, Crash, RunTypes, Rechecks, Stages, Deciding
<1>2. \A r \in Runs, p \in Playlists : stage'[r][p] \notin InStage \cup {"unqueued"}
  BY <1>0 DEF WorkerDies, Crash, InStage
<1>3. \A u \in Uploads : upload'[u].at \notin AtWork
  BY <1>0 DEF WorkerDies, AtWork, Steps
<1>4. \A p \in Playlists : own'[p] \notin InStage
  BY <1>0 DEF WorkerDies, InStage
<1>5. Nobody'
  BY <1>1, <1>2, <1>3, <1>4 DEF Nobody
<1> QED
  BY <1>1, <1>5 DEF Nobody, Held, RecheckHolds, UnqueuedHeld, StageHolds, StageAlone,
     UploadHolds, OwnHolds, Deciding

LEMMA HeldInductive == Held /\ Shown' /\ [NextIngestion]_pipeline => Held'
<1> SUFFICES ASSUME Held, Shown', [NextIngestion]_pipeline PROVE Held'
  OBVIOUS
<1>1. CASE UNCHANGED pipeline
  <2>1. UNCHANGED <<recheck, stage, worker, upload, own>>
    BY <1>1 DEF pipeline, vars, ours
  <2> QED
    BY <2>1 DEF Held, RunTypes, RecheckHolds, UnqueuedHeld, StageHolds, StageAlone, UploadHolds,
       OwnHolds, WorkerIs
<1> QED
  BY <1>1, UploadBeside, OwnBeside, BesideKeepsHeld, RecheckKeepsHeld, DeathKeepsHeld
     DEF NextIngestion, RecheckStep

LEMMA HeldAlways == IngestionSpec => []Held
<1>1. InitIngestion /\ Shown => Held
  <2> SUFFICES ASSUME InitIngestion, Shown PROVE Held
    OBVIOUS
  <2>1. RunTypes /\ Nobody
    BY DEF InitIngestion, Init, RunTypes, Nobody, Rechecks, Stages, Deciding, InStage, AtWork
  <2> QED
    BY <2>1, NobodyHolds
<1>2. Held /\ Shown' /\ [NextIngestion]_pipeline => Held'
  BY HeldInductive
<1> QED
  BY <1>1, <1>2, ShownHolds, PTL DEF IngestionSpec

-----------------------------------------------------------------------------
(* Every step is one of MatchingRun's, or none of its business. *)

LEMMA BesideStutters ==
  ASSUME Held, Beside
  PROVE  UNCHANGED <<recheck, stage, MatchingTask, row, matched>>
<1>1. MatchingTask' = MatchingTask
  <2>1. CASE StaysAtWork
    BY <2>1 DEF StaysAtWork, MatchingTask
  <2>2. CASE (\E u \in Uploads : TakesUpload(u)) \/ (\E p \in Playlists : TakesOwn(p))
    BY <2>2 DEF TakesUpload, TakesOwn, MatchingTask, WorkerIs, Tasks, Free
  <2>3. CASE (\E u \in Uploads : LeavesUpload(u)) \/ (\E p \in Playlists : LeavesOwn(p))
    BY <2>3 DEF LeavesUpload, LeavesOwn, MatchingTask, WorkerIs, Tasks, Free, Held, UploadHolds, OwnHolds
  <2> QED
    BY <2>1, <2>2, <2>3 DEF Beside
<1> QED
  BY <1>1 DEF Beside, Runs_

(* What the re-checks see of the worker. *)
LEMMA TaskSeen ==
  /\ worker = Free => MatchingTask = Free
  /\ worker' = Free => MatchingTask' = Free
  /\ worker' = worker => MatchingTask' = MatchingTask
  /\ \A r \in Runs, task \in Tasks :
       /\ worker = [task |-> task, run |-> r] => MatchingTask = worker
       /\ worker' = [task |-> task, run |-> r] => MatchingTask' = worker'
  BY DEF MatchingTask, Free

LEMMA AloneMaps ==
  ASSUME NEW r \in Runs, RunStepAlone(r)
  PROVE  Matchings!Next
<1>1. CASE Request(r)
  BY <1>1, TaskSeen DEF Request, Matchings!Request, Matchings!Next
<1>2. CASE StartRecheck(r)
  <2>1. Matchings!StartRecheck(r)
    BY <1>2, TaskSeen DEF StartRecheck, Take, Tasks, Matchings!StartRecheck, Matchings!Take,
       Free, Matchings!Free
  <2> QED
    BY <2>1 DEF Matchings!RunStep, Matchings!Next
<1>3. CASE RecheckEnds(r)
  <2>1. Matchings!RecheckEnds(r)
    BY <1>3, TaskSeen DEF RecheckEnds, Matchings!RecheckEnds, Free, Matchings!Free
  <2> QED
    BY <2>1 DEF Matchings!RunStep, Matchings!Next
<1>4. CASE RecheckRaises(r)
  BY <1>4, TaskSeen DEF RecheckRaises, Matchings!RecheckRaises, Matchings!Next
<1>5. CASE LeaveHandedOn(r)
  <2>1. Matchings!LeaveHandedOn(r)
    BY <1>5, TaskSeen DEF LeaveHandedOn, On, Tasks, RaisesAfterHandOn, FinishStage, Landings, Writable,
       Matchings!LeaveHandedOn, Matchings!On, Matchings!RaisesAfterHandOn, Matchings!FinishStage,
       Matchings!Landings, Matchings!Writable, Free, Matchings!Free
  <2> QED
    BY <2>1 DEF Matchings!RunStep, Matchings!Next
<1>6. CASE Tick(r)
  <2>1. Matchings!Tick(r)
    BY <1>6, TaskSeen DEF Tick, On, Tasks, RefreshRow, Landings, Writable,
       Matchings!Tick, Matchings!On, Matchings!RefreshRow, Matchings!Landings, Matchings!Writable
  <2> QED
    BY <2>1 DEF Matchings!Next
<1>7. CASE Reap(r)
  BY <1>7, TaskSeen DEF Reap, Matchings!Reap, Matchings!Next
<1> QED
  BY <1>1, <1>2, <1>3, <1>4, <1>5, <1>6, <1>7 DEF RunStepAlone

LEMMA OpeningMaps ==
  ASSUME NEW r \in Runs, OpenRunForPending(r) \/ NoRunOpened(r)
  PROVE  Matchings!Next
<1>1. CASE OpenRun(r)
  <2>1. ASSUME NEW playlists, OpenRow(r, playlists) PROVE Matchings!OpenRow(r, playlists)
    <3>1. Landings = Matchings!Landings /\ StagesOf(playlists) = Matchings!StagesOf(playlists)
      BY DEF Landings, StagesOf, Matchings!Landings, Matchings!StagesOf, Cardinality, Matchings!Cardinality
    <3> QED
      BY <2>1, <3>1 DEF OpenRow, Matchings!OpenRow
  <2>2. MatchingTask' = MatchingTask
    BY <1>1, TaskSeen DEF OpenRun
  <2>3. Matchings!OpenRun(r)
    BY <1>1, <2>1, <2>2, Zenon DEF OpenRun, Matchings!OpenRun
  <2> QED
    BY <2>3 DEF Matchings!RunStep, Matchings!Next
<1>2. CASE NoRun(r)
  <2>1. Matchings!NoRun(r)
    BY <1>2, TaskSeen DEF NoRun, Matchings!NoRun, Free, Matchings!Free
  <2> QED
    BY <2>1 DEF Matchings!RunStep, Matchings!Next
<1> QED
  BY <1>1, <1>2 DEF OpenRunForPending, NoRunOpened

LEMMA StageMaps ==
  ASSUME NEW r \in Runs, NEW p \in Playlists, StageWithItsWork(r, p)
  PROVE  Matchings!Next
<1> SUFFICES Matchings!StageStep(r, p)
  BY DEF Matchings!Next
<1>1. CASE QueueStage(r, p)
  BY <1>1, TaskSeen DEF QueueStage, Become, Matchings!QueueStage, Matchings!Become, Matchings!StageStep
<1>2. CASE EndUnqueued(r, p)
  <2>1. Matchings!EndUnqueued(r, p)
    BY <1>2, TaskSeen DEF EndUnqueued, Become, FinishStage, Landings, Writable,
       Matchings!EndUnqueued, Matchings!Become, Matchings!FinishStage, Matchings!Landings, Matchings!Writable
  <2> QED
    BY <2>1 DEF Matchings!StageStep
<1>3. CASE StartArtist(r, p)
  <2>1. Matchings!StartArtist(r, p)
    BY <1>3, TaskSeen DEF StartArtist, Take, Tasks, Become, RefreshRow, Landings, Writable,
       Matchings!StartArtist, Matchings!Take, Matchings!Become, Matchings!RefreshRow,
       Matchings!Landings, Matchings!Writable, Free, Matchings!Free
  <2> QED
    BY <2>1 DEF Matchings!StageStep
<1>4. CASE StartIdentity(r, p)
  <2>1. Matchings!StartIdentity(r, p)
    BY <1>4, TaskSeen DEF StartIdentity, Take, Tasks, Become, RefreshRow, Landings, Writable,
       Matchings!StartIdentity, Matchings!Take, Matchings!Become, Matchings!RefreshRow,
       Matchings!Landings, Matchings!Writable, Free, Matchings!Free
  <2> QED
    BY <2>1 DEF Matchings!StageStep
<1>5. CASE ArtistFails(r, p)
  <2>1. Matchings!ArtistFails(r, p)
    BY <1>5, TaskSeen DEF ArtistFails, Become, FinishStage, Landings, Writable,
       Matchings!ArtistFails, Matchings!Become, Matchings!FinishStage, Matchings!Landings,
       Matchings!Writable, Free, Matchings!Free
  <2> QED
    BY <2>1 DEF Matchings!StageStep
<1>6. CASE HandOn(r, p)
  <2>1. Matchings!HandOn(r, p)
    BY <1>6, TaskSeen DEF HandOn, Become, Tasks, Matchings!HandOn, Matchings!Become
  <2> QED
    BY <2>1 DEF Matchings!StageStep
<1>7. ASSUME NEW fails \in BOOLEAN, IdentityEnds(r, p, fails) PROVE Matchings!StageStep(r, p)
  <2>1. Matchings!IdentityEnds(r, p, fails)
    BY <1>7, TaskSeen DEF IdentityEnds, Become, FinishStage, Landings, Writable,
       Matchings!IdentityEnds, Matchings!Become, Matchings!FinishStage, Matchings!Landings,
       Matchings!Writable, Free, Matchings!Free
  <2> QED
    BY <2>1 DEF Matchings!StageStep
<1> QED
  BY <1>1, <1>2, <1>3, <1>4, <1>5, <1>6, <1>7 DEF StageWithItsWork

LEMMA DeathMaps ==
  ASSUME Held, WorkerDies
  PROVE  Matchings!Next \/ UNCHANGED <<recheck, stage, MatchingTask, row, matched>>
<1>1. MatchingTask' = Free
  BY TaskSeen DEF WorkerDies, Crash
<1>2. CASE worker.task \in Tasks
  <2>1. MatchingTask # Free
    BY <1>2 DEF MatchingTask, Free, Tasks
  <2>2. Matchings!Crash
    BY <1>1, <2>1 DEF WorkerDies, Crash, Matchings!Crash, Free, Matchings!Free
  <2> QED
    BY <2>2 DEF Matchings!Next
<1>3. CASE worker.task \notin Tasks
  <2>1. /\ \A r \in Runs : recheck[r] \notin Deciding
        /\ \A r \in Runs, p \in Playlists : stage[r][p] \notin InStage \cup {"unqueued"}
    BY <1>3 DEF Held, RecheckHolds, UnqueuedHeld, StageHolds, WorkerIs, Tasks, Deciding, InStage
  <2>2. recheck \in [Runs -> Rechecks] /\ stage \in [Runs -> [Playlists -> Stages]]
    BY DEF Held, RunTypes
  <2>3. recheck' = recheck
    BY <2>1, <2>2 DEF WorkerDies, Crash, Deciding
  <2>4. stage' = stage
    <3>1. ASSUME NEW r \in Runs
          PROVE  [p \in Playlists |-> IF stage[r][p] \in {"unqueued", "artist", "identity"}
                                       THEN "lost" ELSE stage[r][p]] = stage[r]
      BY <2>1, <2>2 DEF InStage
    <3>2. stage' = [r \in Runs |-> stage[r]]
      BY <3>1 DEF WorkerDies, Crash
    <3> QED
      BY <2>2, <3>2
  <2>5. MatchingTask = Free
    BY <1>3 DEF MatchingTask
  <2> QED
    BY <1>1, <2>3, <2>4, <2>5 DEF WorkerDies, Crash
<1> QED
  BY <1>2, <1>3

LEMMA StepMaps ==
  Held /\ [NextIngestion]_pipeline => [Matchings!Next]_(Matchings!vars)
<1> SUFFICES ASSUME Held, [NextIngestion]_pipeline
             PROVE  Matchings!Next \/ UNCHANGED <<recheck, stage, MatchingTask, row, matched>>
  BY DEF Matchings!vars
<1>1. CASE UNCHANGED pipeline
  BY <1>1, TaskSeen DEF pipeline, vars
<1> QED
  BY <1>1, UploadBeside, OwnBeside, BesideStutters, AloneMaps, OpeningMaps, StageMaps, DeathMaps
     DEF NextIngestion

(* Whatever uploads do beside them on the same worker, the re-checks, their *)
(* stages and their rows behave as MatchingRun says.                        *)
THEOREM ImplementsMatchings == IngestionSpec => ImplementsMatchingRun
<1>1. InitIngestion => Matchings!Init
  BY TaskSeen DEF InitIngestion, Init, Matchings!Init, Free, Matchings!Free
<1>2. Held /\ [NextIngestion]_pipeline => [Matchings!Next]_(Matchings!vars)
  BY StepMaps
<1> QED
  BY <1>1, <1>2, HeldAlways, PTL DEF IngestionSpec, ImplementsMatchingRun, Matchings!Spec
=============================================================================
