---------------------------- MODULE ItemContract ----------------------------
(***************************************************************************)
(* The item contract of one listener's session: the engine's GET item calls *)
(* with everything they await between the check of a seq and its            *)
(* assignment, and its started and failed reports                           *)
(* (StreamService.item, started, failed; sessions.py; domain/liners.py).    *)
(*                                                                          *)
(* The engine has one call in flight, but a call it gave up on runs on, so  *)
(* several for one seq may be awaiting at once.  An action is the code      *)
(* between two awaits; positions in the schedule are 1 .. Songs from the    *)
(* landing.                                                                 *)
(***************************************************************************)
EXTENDS Naturals, Sequences, FiniteSets

CONSTANTS
  Calls,    \* item requests that may be in flight together
  Songs,    \* playable songs from the landing (1) to the end of the schedule
  Cadence,  \* songs between two liners; 0 is off
  Liners,   \* the station's liners
  None

ASSUME SongsAssumption == Songs \in Nat \ {0}
ASSUME CadenceAssumption == Cadence \in Nat
ASSUME NoneAssumption == None \notin Nat /\ None \notin Liners

VARIABLES
  open,         \* the session is on the table
  landing,      \* placement: "none" yet, "landed" or "failed"
  assigned,     \* what was handed out, by seq (seq 0 is assigned[1])
  endSeq,       \* the end-of-schedule marker
  rotation,     \* the session's liner shuffle: the liners left, in no order yet, and the last
  committed,    \* the seq of the last started report that moved the position
  finalFailed,  \* the clip was reported failed
  call,         \* the calls in flight
  answers       \* every <<seq, slot>> ever answered

slots == <<assigned, endSeq, rotation>>
reports == <<committed, finalFailed>>
vars == <<open, landing, slots, reports, call, answers>>

\* Cues as the day was read at tune-in, or as re-read when the item was asked for.
Song(n, cues) == [kind |-> "song", at |-> n, cues |-> cues]
\* A liner keeps the song it follows.
Liner(l, after) == [kind |-> "liner", at |-> after, id |-> l]
Clip == [kind |-> "clip", at |-> Songs]
Slots ==
  {Song(n, cues) : n \in 1 .. Songs, cues \in {"tunedIn", "fresh"}}
    \cup {Liner(l, n) : l \in Liners, n \in 1 .. Songs} \cup {Clip}

\* Where a call waits: for the landing to be published, for its read, for the
\* walk to the next song, for the clip's setting, the liners or the stored cues.
Waits == {"idle", "placement", "landing", "walk", "clip", "liners", "cues"}
\* `from` is the song the call walks from; `afterSong` that no liner came between.
Idle == [wait |-> "idle", seq |-> 0, from |-> 0, afterSong |-> FALSE]

TypeOK ==
  /\ open \in BOOLEAN
  /\ landing \in {"none", "landed", "failed"}
  /\ assigned \in Seq(Slots)
  /\ endSeq \in Nat \cup {None}
  /\ rotation \in [left : SUBSET Liners, last : Liners \cup {None}]
  /\ committed \in Nat \cup {None}
  /\ finalFailed \in BOOLEAN
  /\ call \in [Calls -> [wait : Waits, seq : Nat, from : 0 .. Songs, afterSong : BOOLEAN]]
  /\ answers \subseteq Nat \X Slots

Init ==
  /\ open = TRUE
  /\ landing = "none"
  /\ assigned = <<>>
  /\ endSeq = None
  /\ rotation = [left |-> {}, last |-> None]
  /\ committed = None
  /\ finalFailed = FALSE
  /\ call = [c \in Calls |-> Idle]
  /\ answers = {}

SlotAt(seq) == assigned[seq + 1]

-----------------------------------------------------------------------------
(* The answers of a call, and the seq check of every step that may assign. *)

IsAssigned(seq) == seq < Len(assigned)
IsPastEnd(seq) == endSeq # None /\ seq >= endSeq
IsNext(seq) == seq = Len(assigned) /\ ~IsPastEnd(seq)

Answer(c, slot) ==
  /\ call' = [call EXCEPT ![c] = Idle]
  /\ answers' = answers \cup {<<call[c].seq, slot>>}

\* An error answer: 403 or 404 (no such session or item), 410 (the end), 503.
Refuse(c) == call' = [call EXCEPT ![c] = Idle] /\ UNCHANGED answers

WaitFor(c, wait) == call' = [call EXCEPT ![c].wait = wait] /\ UNCHANGED answers

\* A seq that is not the next one: the slot it was given, or an error.
Serve(c) == IF IsAssigned(call[c].seq) THEN Answer(c, SlotAt(call[c].seq)) ELSE Refuse(c)

\* MUTANT: the slot is stored without looking whether the seq has been assigned.
StoreBlindly(c, slot) ==
  /\ assigned' = IF IsAssigned(call[c].seq)
                   THEN [assigned EXCEPT ![call[c].seq + 1] = slot] ELSE Append(assigned, slot)
  /\ Answer(c, slot)

\* _assign: a concurrent call may have stored the seq, or ended the schedule.
Store(c, slot) ==
  IF IsNext(call[c].seq)
    THEN assigned' = Append(assigned, slot) /\ Answer(c, slot)
    ELSE UNCHANGED assigned /\ Serve(c)

-----------------------------------------------------------------------------
(* Liners: songs_since_liner, liner_due, next_liner. *)

\* The songs before seq with no liner after them.
SongsSinceLiner(seq) ==
  Cardinality({i \in 1 .. seq :
    assigned[i].kind = "song" /\ \A j \in i .. seq : assigned[j].kind # "liner"})

LinerDue(seq) == Cadence # 0 /\ SongsSinceLiner(seq) >= Cadence

\* What is left of this round of the liners there are now: a shuffled order hides
\* its next entry until it is drawn, so it is a set to draw from.
LeftOf(available) == rotation.left \cap available

\* next_liner: one of those left, or the first of a new round, which is not the
\* liner played last when there is another.
NextLiners(available) ==
  IF LeftOf(available) # {} THEN LeftOf(available)
  ELSE IF available \subseteq {rotation.last} THEN available
  ELSE available \ {rotation.last}

\* MUTANT: the shuffle forgets which liner played last.
RestUnnamed(l, available) == [left |-> available \ {l}, last |-> None]
RestAfter(l, available) ==
  [left |-> (IF LeftOf(available) # {} THEN LeftOf(available) ELSE available) \ {l}, last |-> l]

-----------------------------------------------------------------------------
(* GET item: one action per stretch of code between two awaits. *)

\* item(): the seq is authorised and looked up; the next one starts its reads,
\* any other is answered from the log or refused.
Ask(c, seq) ==
  /\ open
  /\ call[c].wait = "idle"
  /\ IsNext(seq)
  /\ call' = [call EXCEPT ![c] =
       IF seq = 0
         THEN [wait |-> "placement", seq |-> 0, from |-> 0, afterSong |-> FALSE]
         ELSE [wait |-> "walk", seq |-> seq, from |-> SlotAt(seq - 1).at,
               afterSong |-> SlotAt(seq - 1).kind = "song"]]
  /\ UNCHANGED <<open, landing, slots, reports, answers>>

AskAgain(c, seq) ==
  /\ open
  /\ call[c].wait = "idle"
  /\ IsAssigned(seq)
  /\ answers' = answers \cup {<<seq, SlotAt(seq)>>}
  /\ UNCHANGED <<open, landing, slots, reports, call>>

\* MUTANT: the wait for placement has no timeout.
PlacementAwaitedForEver(c) ==
  /\ call[c].wait = "placement"
  /\ \/ open /\ landing = "landed" /\ WaitFor(c, "landing")
     \/ ~open /\ landing # "none" /\ Refuse(c)
  /\ UNCHANGED <<open, landing, slots, reports>>

\* Past the five seconds, or with no landing published, the engine must retry.
PlacementAwaited(c) ==
  /\ call[c].wait = "placement"
  /\ \/ open /\ landing = "landed" /\ WaitFor(c, "landing")
     \/ Refuse(c)
  /\ UNCHANGED <<open, landing, slots, reports>>

LandingRead(c) ==
  /\ call[c].wait = "landing"
  /\ IF open THEN Store(c, Song(1, "tunedIn")) ELSE Refuse(c) /\ UNCHANGED assigned
  /\ UNCHANGED <<open, landing, endSeq, rotation, reports>>

AfterWalk(c) ==
  CASE call[c].from = Songs -> "clip"
    [] call[c].from < Songs /\ call[c].afterSong /\ LinerDue(call[c].seq) -> "liners"
    [] OTHER -> "cues"

\* _following in a thread: the walk is over the day as read at tune-in, so it
\* ends at the same song every time.  A liner is looked for only after a song.
Walked(c) ==
  /\ call[c].wait = "walk"
  /\ WaitFor(c, AfterWalk(c))
  /\ UNCHANGED <<open, landing, slots, reports>>

\* MUTANT: with no clip the end is marked one seq late.
EndSeqLate(seq, clip) == seq + 1
EndSeqAfter(seq, clip) == IF clip THEN seq + 1 ELSE seq

\* _final_clip, then _end_schedule unless a concurrent call got there first.
ClipRead(c) ==
  /\ call[c].wait = "clip"
  /\ \/ /\ ~open /\ Refuse(c)
        /\ UNCHANGED slots
     \/ /\ open /\ ~IsNext(call[c].seq) /\ Serve(c)
        /\ UNCHANGED slots
     \/ /\ open /\ IsNext(call[c].seq)
        /\ \E clip \in BOOLEAN :
             /\ endSeq' = EndSeqAfter(call[c].seq, clip)
             /\ IF clip
                  THEN assigned' = Append(assigned, Clip) /\ Answer(c, Clip)
                  ELSE UNCHANGED assigned /\ Refuse(c)
        /\ UNCHANGED rotation
  /\ UNCHANGED <<open, landing, reports>>

\* The bounded read answers the liners stored now, or none when it is busy, late
\* or failed; with none to play the song goes on.  The shuffle moves on only with
\* a liner stored for the seq.
LinersRead(c) ==
  /\ call[c].wait = "liners"
  /\ \/ ~open /\ Refuse(c) /\ UNCHANGED slots
     \/ open /\ ~IsNext(call[c].seq) /\ Serve(c) /\ UNCHANGED slots
     \/ /\ open /\ IsNext(call[c].seq)
        /\ \E available \in SUBSET Liners :
             \/ available = {} /\ WaitFor(c, "cues") /\ UNCHANGED slots
             \/ \E l \in NextLiners(available) :
                  /\ Store(c, Liner(l, call[c].from))
                  /\ rotation' = RestAfter(l, available)
                  /\ UNCHANGED endSeq
  /\ UNCHANGED <<open, landing, reports>>

\* The re-read may find cues stored since tune-in.
CuesRead(c) ==
  /\ call[c].wait = "cues"
  /\ IF open
       THEN \E cues \in {"tunedIn", "fresh"} : Store(c, Song(call[c].from + 1, cues))
       ELSE Refuse(c) /\ UNCHANGED assigned
  /\ UNCHANGED <<open, landing, endSeq, rotation, reports>>

\* A day, the landing or the clip could not be read in time, or the liners' read raised
\* what is no failed read; nothing is recorded.
ReadFails(c) ==
  /\ call[c].wait \in {"landing", "walk", "clip", "liners"}
  /\ Refuse(c)
  /\ UNCHANGED <<open, landing, slots, reports>>

-----------------------------------------------------------------------------
(* Placement, the reports and the close. *)

Place ==
  /\ landing = "none"
  /\ landing' \in {"landed", "failed"}
  /\ UNCHANGED <<open, slots, reports, call, answers>>

Commits(seq) == committed = None \/ seq > committed

Started(seq) ==
  /\ open
  /\ IsAssigned(seq)
  /\ committed' = IF Commits(seq) THEN seq ELSE committed
  /\ UNCHANGED <<open, landing, slots, finalFailed, call, answers>>

\* MUTANT: any failed item counts as the clip.
FlagsAny(seq) == TRUE
FlagsFinal(seq) == finalFailed \/ SlotAt(seq) = Clip

Failed(seq) ==
  /\ open
  /\ IsAssigned(seq)
  /\ finalFailed' = FlagsFinal(seq)
  /\ UNCHANGED <<open, landing, slots, committed, call, answers>>

Close ==
  /\ open
  /\ open' = FALSE
  /\ UNCHANGED <<landing, slots, reports, call, answers>>

CallStep(c) ==
  \/ PlacementAwaited(c) \/ LandingRead(c) \/ Walked(c) \/ ClipRead(c)
  \/ LinersRead(c) \/ CuesRead(c) \/ ReadFails(c)

\* Every seq that is assigned, and the next one.
Known == 0 .. Len(assigned)

Next ==
  \/ \E c \in Calls : CallStep(c) \/ \E seq \in Known : Ask(c, seq) \/ AskAgain(c, seq)
  \/ \E seq \in Known : Started(seq) \/ Failed(seq)
  \/ Place
  \/ Close

Spec == Init /\ [][Next]_vars

\* Every await ends: reads time out, threads finish, a busy read answers at once.
FairSpec == Spec /\ \A c \in Calls : WF_vars(CallStep(c))

-----------------------------------------------------------------------------
(* Properties. *)

\* "The same seq always returns the same item": whatever calls for a seq overlap,
\* time out and are made again, and whatever their reads find, no two answers for
\* it ever differ, cues included.
SameSeqSameItem == \A a, b \in answers : a[1] = b[1] => a[2] = b[2]

\* The shuffle names the liner last handed out, which is not to come again this
\* round: overlapping calls never draw two liners for one seq, nor one for none.
LastLinerIs(l) ==
  IF l = None THEN \A i \in 1 .. Len(assigned) : assigned[i].kind # "liner"
  ELSE \E i \in 1 .. Len(assigned) :
         /\ assigned[i].kind = "liner" /\ assigned[i].id = l
         /\ \A j \in 1 .. Len(assigned) : j > i => assigned[j].kind # "liner"
RotationMatchesLog == LastLinerIs(rotation.last) /\ rotation.last \notin rotation.left

\* schedule_finished
Finished ==
  /\ endSeq # None
  /\ committed # None
  /\ committed + (IF finalFailed THEN 2 ELSE 1) >= endSeq

\* The schedule counts as finished - the channel told `ended`, the bookmark
\* cleared - only once its last song has started.
FinishedAfterLastSong ==
  Finished => \A i \in DOMAIN assigned : assigned[i].kind = "song" => i <= committed + 1

\* The session's items are those of the abstract log, in its order.
Log == INSTANCE ItemLog WITH
  log <- [i \in DOMAIN assigned |-> [kind |-> assigned[i].kind, at |-> assigned[i].at]],
  over <- endSeq # None \/ ~open
ImplementsItemLog == Log!LogSpec

\* Every item call is answered, whatever it waits for and whoever closes the session.
CallsAnswered == \A c \in Calls : call[c].wait # "idle" ~> call[c].wait = "idle"

=============================================================================
