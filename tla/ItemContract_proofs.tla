------------------------ MODULE ItemContract_proofs ------------------------
(***************************************************************************)
(* What ItemContract promises for any schedule, cadence, liners and number  *)
(* of overlapping calls: its types, the log and the answers given from it,  *)
(* the liner rotation that follows the log, and that it is an ItemLog.      *)
(***************************************************************************)
EXTENDS ItemContract, TLAPS

IsLog == assigned \in Seq(Slots)

\* Positions stay within the schedule, no liner is placed after the last song,
\* and a clip is the last entry of a log that has ended.
SlotsInOrder ==
  \A i \in 1 .. Len(assigned) :
    /\ assigned[i].at \in 1 .. Songs
    /\ assigned[i].kind \in {"song", "liner", "clip"}
    /\ assigned[i].kind = "liner" => assigned[i].at < Songs
    /\ assigned[i].kind = "clip" =>
         assigned[i] = Clip /\ i = Len(assigned) /\ endSeq # None

EndIsLength == endSeq # None => endSeq = Len(assigned)

LogInv == IsLog /\ SlotsInOrder /\ EndIsLength

\* What a waiting call remembers is still so: entries are never changed.
CallFollows(w) ==
  /\ w.wait \in {"placement", "landing"} => w.seq = 0
  /\ w.wait \in {"walk", "clip", "liners", "cues"} =>
       /\ w.seq \in 1 .. Len(assigned)
       /\ w.from = assigned[w.seq].at
       /\ w.afterSong = (assigned[w.seq].kind = "song")
  /\ w.wait = "clip" => w.from = Songs
  /\ w.wait \in {"liners", "cues"} => w.from < Songs
  /\ w.wait = "liners" => w.afterSong /\ LinerDue(w.seq)

Call == [wait : Waits, seq : Nat, from : 0 .. Songs, afterSong : BOOLEAN]
CallInv == call \in [Calls -> Call] /\ \A c \in Calls : CallFollows(call[c])

AnswersMatchLog ==
  /\ answers \subseteq Nat \X Slots
  /\ \A a \in answers : a[1] < Len(assigned) /\ a[2] = assigned[a[1] + 1]

ReportsInv ==
  /\ committed \in Nat \cup {None}
  /\ finalFailed \in BOOLEAN
  /\ finalFailed => assigned # <<>> /\ assigned[Len(assigned)].kind = "clip"

SessionInv == open \in BOOLEAN /\ landing \in {"none", "landed", "failed"}

Inv == LogInv /\ CallInv /\ AnswersMatchLog /\ ReportsInv /\ SessionInv

-----------------------------------------------------------------------------
(* The steps of the log. *)

\* A slot that may be handed out next.
Follows(slot) ==
  \/ /\ slot.kind = "song"
     /\ slot.at = IF Len(assigned) = 0 THEN 1 ELSE assigned[Len(assigned)].at + 1
     /\ slot.at \in 1 .. Songs
  \/ /\ slot.kind = "liner"
     /\ Len(assigned) # 0
     /\ slot.at = assigned[Len(assigned)].at /\ slot.at < Songs
     /\ assigned[Len(assigned)].kind = "song"
     /\ LinerDue(Len(assigned))

Stays == UNCHANGED <<assigned, endSeq>>
HandsOut ==
  /\ open /\ open' = open
  /\ endSeq = None /\ endSeq' = endSeq
  /\ \E slot \in Slots : Follows(slot) /\ assigned' = Append(assigned, slot)
Ends ==
  /\ open /\ open' = open
  /\ endSeq = None
  /\ Len(assigned) # 0
  /\ assigned[Len(assigned)].kind = "song" /\ assigned[Len(assigned)].at = Songs
  /\ \/ assigned' = assigned
     \/ assigned' = Append(assigned, Clip)
  /\ endSeq' = Len(assigned')

LogStep == Stays \/ HandsOut \/ Ends

(* Append keeps the entries there are and adds one. *)
LEMMA Appended ==
  ASSUME IsLog, NEW slot \in Slots, assigned' = Append(assigned, slot)
  PROVE  /\ IsLog'
         /\ Len(assigned) \in Nat
         /\ Len(assigned') = Len(assigned) + 1
         /\ assigned'[Len(assigned) + 1] = slot
         /\ \A i \in 1 .. Len(assigned) : assigned'[i] = assigned[i]
<1> HIDE DEF Slots
<1> QED
  BY DEF IsLog

LEMMA SlotsOf ==
  /\ \A n \in 1 .. Songs, cues \in {"tunedIn", "fresh"} : Song(n, cues) \in Slots
  /\ \A l \in Liners, n \in 1 .. Songs : Liner(l, n) \in Slots
  /\ Clip \in Slots
  BY DEF Slots

LEMMA LogLength == IsLog => Len(assigned) \in Nat
  BY DEF IsLog

\* A call that may still assign is at the end of a log that has not ended.
LEMMA NextIsEnd ==
  ASSUME LogInv, NEW seq \in Nat, IsNext(seq)
  PROVE  endSeq = None /\ seq = Len(assigned)
  BY LogLength, NoneAssumption DEF LogInv, EndIsLength, IsNext, IsPastEnd

\* Store hands its slot out, or leaves the log as it is.
LEMMA Stored ==
  ASSUME LogInv, NEW c \in Calls, call[c].seq \in Nat, NEW slot, Store(c, slot)
  PROVE  \/ assigned' = assigned
         \/ /\ endSeq = None /\ call[c].seq = Len(assigned)
            /\ assigned' = Append(assigned, slot)
  BY NextIsEnd DEF Store

(* Every step leaves the log alone, hands out what may follow, or ends it.      *)
LEMMA StepOfLog == Inv /\ [Next]_vars => LogStep
<1> SUFFICES ASSUME Inv, [Next]_vars PROVE LogStep
  OBVIOUS
<1> USE SongsAssumption
<1>0. /\ LogInv /\ Len(assigned) \in Nat
      /\ \A c \in Calls : call[c] \in Call /\ CallFollows(call[c])
  BY LogLength DEF Inv, LogInv, CallInv
<1>1. ASSUME NEW c \in Calls, LandingRead(c) PROVE LogStep
  <2>1. CASE ~open
    BY <1>1, <2>1 DEF LandingRead, LogStep, Stays
  <2>2. CASE open
    <3>1. Store(c, Song(1, "tunedIn")) /\ UNCHANGED <<open, endSeq>>
      BY <1>1, <2>2 DEF LandingRead
    <3>2. call[c].seq = 0 /\ call[c].seq \in Nat
      BY <1>0, <1>1 DEF LandingRead, CallFollows
    <3>3. assigned' = assigned
            \/ (endSeq = None /\ Len(assigned) = 0 /\ assigned' = Append(assigned, Song(1, "tunedIn")))
      BY <1>0, <3>1, <3>2, Stored
    <3>4. Len(assigned) = 0 => Follows(Song(1, "tunedIn"))
      BY DEF Follows, Song
    <3>5. Song(1, "tunedIn") \in Slots
      BY SlotsOf
    <3> QED
      BY <2>2, <3>1, <3>3, <3>4, <3>5 DEF LogStep, Stays, HandsOut
  <2> QED
    BY <2>1, <2>2
<1>2. ASSUME NEW c \in Calls, CuesRead(c) PROVE LogStep
  <2>1. CASE ~open
    BY <1>2, <2>1 DEF CuesRead, LogStep, Stays
  <2>2. CASE open
    <3>1. PICK cues \in {"tunedIn", "fresh"} : Store(c, Song(call[c].from + 1, cues))
      BY <1>2, <2>2 DEF CuesRead
    <3>2. UNCHANGED <<open, endSeq>>
      BY <1>2 DEF CuesRead
    <3>3. /\ call[c].seq \in 1 .. Len(assigned) /\ call[c].from = assigned[call[c].seq].at
          /\ call[c].from < Songs /\ call[c].from \in 0 .. Songs
      BY <1>0, <1>2 DEF CuesRead, CallFollows, Call
    <3>4. \/ assigned' = assigned
          \/ /\ endSeq = None /\ call[c].seq = Len(assigned)
             /\ assigned' = Append(assigned, Song(call[c].from + 1, cues))
      BY <1>0, <3>1, <3>3, Stored
    <3>5. call[c].seq = Len(assigned) => Follows(Song(call[c].from + 1, cues))
      BY <1>0, <3>3 DEF Follows, Song
    <3>6. Song(call[c].from + 1, cues) \in Slots
      BY <3>3, SlotsOf
    <3> QED
      BY <2>2, <3>2, <3>4, <3>5, <3>6 DEF LogStep, Stays, HandsOut
  <2> QED
    BY <2>1, <2>2
<1>3. ASSUME NEW c \in Calls, LinersRead(c) PROVE LogStep
  <2>1. CASE UNCHANGED slots
    BY <2>1 DEF slots, LogStep, Stays
  <2>2. CASE open /\ IsNext(call[c].seq) /\ ~UNCHANGED slots
    <3>1. PICK available \in SUBSET Liners : \E l \in NextLiners(available) :
            /\ Store(c, Liner(l, call[c].from))
            /\ UNCHANGED endSeq
      BY <1>3, <2>2 DEF LinersRead
    <3>2. PICK l \in Liners : Store(c, Liner(l, call[c].from)) /\ UNCHANGED endSeq
      BY <3>1 DEF NextLiners, LeftOf
    <3>3. /\ call[c].seq \in 1 .. Len(assigned) /\ call[c].from = assigned[call[c].seq].at
          /\ call[c].afterSong = (assigned[call[c].seq].kind = "song")
          /\ call[c].from < Songs /\ call[c].afterSong /\ LinerDue(call[c].seq)
      BY <1>0, <1>3 DEF LinersRead, CallFollows
    <3>4. \/ assigned' = assigned
          \/ /\ endSeq = None /\ call[c].seq = Len(assigned)
             /\ assigned' = Append(assigned, Liner(l, call[c].from))
      BY <1>0, <3>2, <3>3, Stored
    <3>5. call[c].seq = Len(assigned) => Follows(Liner(l, call[c].from))
      <4>1. assigned[call[c].seq].kind = "song"
        BY <3>3
      <4>2. /\ Liner(l, call[c].from).kind = "liner"
            /\ Liner(l, call[c].from).at = call[c].from
        BY DEF Liner
      <4>3. call[c].seq # 0
        BY <3>3
      <4> QED
        BY <3>3, <4>1, <4>2, <4>3 DEF Follows
    <3>6. UNCHANGED open
      BY <1>3 DEF LinersRead
    <3>7. Liner(l, call[c].from) \in Slots
      <4>1. call[c].from \in 1 .. Songs
        BY <1>0, <3>3 DEF LogInv, SlotsInOrder
      <4> QED
        BY <4>1, SlotsOf
    <3> QED
      BY <2>2, <3>2, <3>4, <3>5, <3>6, <3>7 DEF LogStep, Stays, HandsOut
  <2> QED
    BY <1>3, <2>1, <2>2 DEF LinersRead, slots
<1>4. ASSUME NEW c \in Calls, ClipRead(c) PROVE LogStep
  <2>1. CASE UNCHANGED slots
    BY <2>1 DEF slots, LogStep, Stays
  <2>2. CASE open /\ IsNext(call[c].seq) /\ ~UNCHANGED slots
    <3>1. PICK clip \in BOOLEAN :
            /\ endSeq' = EndSeqAfter(call[c].seq, clip)
            /\ assigned' = IF clip THEN Append(assigned, Clip) ELSE assigned
      BY <1>4, <2>2 DEF ClipRead
    <3>2. /\ call[c].seq \in 1 .. Len(assigned) /\ call[c].from = assigned[call[c].seq].at
          /\ call[c].from = Songs
      BY <1>0, <1>4 DEF ClipRead, CallFollows
    <3>3. endSeq = None /\ call[c].seq = Len(assigned)
      BY <1>0, <2>2, <3>2, NextIsEnd
    <3>4. /\ Len(assigned) \in 1 .. Len(assigned) /\ assigned[Len(assigned)].at = Songs
          /\ assigned[Len(assigned)].kind = "song"
      <4>1. Len(assigned) \in 1 .. Len(assigned) /\ assigned[Len(assigned)].at = Songs
        BY <3>2, <3>3
      <4>2. ~(Songs < Songs)
        OBVIOUS
      <4> QED
        BY <1>0, <3>3, <4>1, <4>2 DEF LogInv, SlotsInOrder
    <3>5. endSeq' = Len(assigned')
      BY <1>0, <3>1, <3>3, Appended, SlotsOf DEF EndSeqAfter, LogInv
    <3>6. UNCHANGED open
      BY <1>4 DEF ClipRead
    <3>7. Len(assigned) # 0 /\ (assigned' = assigned \/ assigned' = Append(assigned, Clip))
      BY <1>0, <3>1, <3>4
    <3> QED
      BY <2>2, <3>3, <3>4, <3>5, <3>6, <3>7 DEF LogStep, Ends
  <2> QED
    BY <1>4, <2>1, <2>2 DEF ClipRead, slots
<1>5. ASSUME NEW c \in Calls, PlacementAwaited(c) \/ Walked(c) \/ ReadFails(c) PROVE LogStep
  BY <1>5 DEF PlacementAwaited, Walked, ReadFails, slots, LogStep, Stays
<1>6. ASSUME NEW c \in Calls, NEW seq \in Known, Ask(c, seq) \/ AskAgain(c, seq) PROVE LogStep
  BY <1>6 DEF Ask, AskAgain, slots, LogStep, Stays
<1>7. ASSUME NEW seq \in Known, Started(seq) \/ Failed(seq) PROVE LogStep
  BY <1>7 DEF Started, Failed, slots, LogStep, Stays
<1>8. CASE Place \/ Close \/ UNCHANGED vars
  BY <1>8 DEF Place, Close, vars, slots, LogStep, Stays
<1> QED
  BY <1>1, <1>2, <1>3, <1>4, <1>5, <1>6, <1>7, <1>8 DEF Next, CallStep

-----------------------------------------------------------------------------
(* Steps keep the log in order, and every entry as it was. *)

Grows ==
  /\ Len(assigned) \in Nat /\ Len(assigned') \in Nat
  /\ Len(assigned) <= Len(assigned')
  /\ \A i \in 1 .. Len(assigned) : assigned'[i] = assigned[i]

LEMMA LogGrows == LogInv /\ LogStep => Grows
<1> SUFFICES ASSUME LogInv, LogStep PROVE Grows
  OBVIOUS
<1>1. CASE assigned' = assigned
  BY <1>1, LogLength DEF LogInv, Grows
<1>2. ASSUME NEW slot \in Slots, assigned' = Append(assigned, slot) PROVE Grows
  BY <1>2, Appended DEF LogInv, Grows
<1> QED
  BY <1>1, <1>2, SlotsOf DEF LogStep, Stays, HandsOut, Ends

LEMMA LogKept == LogInv /\ LogStep => LogInv'
<1> SUFFICES ASSUME LogInv, LogStep PROVE LogInv'
  OBVIOUS
<1> USE SongsAssumption, NoneAssumption
<1>0. Len(assigned) \in Nat
  BY LogLength DEF LogInv
<1>1. CASE Stays
  BY <1>1 DEF Stays, LogInv, IsLog, SlotsInOrder, EndIsLength
<1>2. CASE HandsOut
  <2>1. PICK slot \in Slots : Follows(slot) /\ assigned' = Append(assigned, slot)
    BY <1>2 DEF HandsOut
  <2>2. endSeq = None /\ endSeq' = None
    BY <1>2 DEF HandsOut
  <2>3. /\ IsLog' /\ Len(assigned') = Len(assigned) + 1
        /\ assigned'[Len(assigned) + 1] = slot
        /\ \A i \in 1 .. Len(assigned) : assigned'[i] = assigned[i]
    BY <2>1, Appended DEF LogInv
  <2>4. slot.at \in 1 .. Songs /\ slot.kind \in {"song", "liner"}
         /\ (slot.kind = "liner" => slot.at < Songs)
    <3>1. Len(assigned) # 0 => assigned[Len(assigned)].at \in 1 .. Songs
      BY <1>0 DEF LogInv, SlotsInOrder
    <3> QED
      BY <2>1, <3>1 DEF Follows
  <2>5. SlotsInOrder'
    <3> SUFFICES ASSUME NEW i \in 1 .. Len(assigned')
        PROVE  /\ assigned'[i].at \in 1 .. Songs
               /\ assigned'[i].kind \in {"song", "liner", "clip"}
               /\ assigned'[i].kind = "liner" => assigned'[i].at < Songs
               /\ assigned'[i].kind # "clip"
      BY DEF SlotsInOrder
    <3>1. CASE i \in 1 .. Len(assigned)
      BY <2>2, <2>3, <3>1 DEF LogInv, SlotsInOrder
    <3>2. CASE i = Len(assigned) + 1
      BY <2>3, <2>4, <3>2
    <3> QED
      BY <1>0, <2>3, <3>1, <3>2
  <2> QED
    BY <2>2, <2>3, <2>5 DEF LogInv, EndIsLength
<1>3. CASE Ends
  <2>1. endSeq = None /\ endSeq' = Len(assigned')
    BY <1>3 DEF Ends
  <2>2. CASE assigned' = assigned
    <3>1. SlotsInOrder'
      BY <2>1, <2>2 DEF LogInv, SlotsInOrder
    <3> QED
      BY <2>1, <2>2, <3>1 DEF LogInv, IsLog, EndIsLength
  <2>3. CASE assigned' = Append(assigned, Clip)
    <3>1. /\ IsLog' /\ Len(assigned') = Len(assigned) + 1
          /\ assigned'[Len(assigned) + 1] = Clip
          /\ \A i \in 1 .. Len(assigned) : assigned'[i] = assigned[i]
      BY <2>3, Appended, SlotsOf DEF LogInv
    <3>2. Clip.at \in 1 .. Songs /\ Clip.kind = "clip"
      BY DEF Clip
    <3>3. endSeq' # None
      BY <1>0, <2>1, <3>1
    <3>4. SlotsInOrder'
      <4> SUFFICES ASSUME NEW i \in 1 .. Len(assigned')
          PROVE  /\ assigned'[i].at \in 1 .. Songs
                 /\ assigned'[i].kind \in {"song", "liner", "clip"}
                 /\ assigned'[i].kind = "liner" => assigned'[i].at < Songs
                 /\ assigned'[i].kind = "clip" => assigned'[i] = Clip /\ i = Len(assigned')
        BY <3>3 DEF SlotsInOrder, Clip
      <4>1. CASE i \in 1 .. Len(assigned)
        BY <2>1, <3>1, <4>1 DEF LogInv, SlotsInOrder
      <4>2. CASE i = Len(assigned) + 1
        BY <3>1, <3>2, <4>2
      <4> QED
        BY <1>0, <3>1, <4>1, <4>2
    <3> QED
      BY <2>1, <3>1, <3>4 DEF LogInv, EndIsLength
  <2> QED
    BY <1>3, <2>2, <2>3 DEF Ends
<1> QED
  BY <1>1, <1>2, <1>3 DEF LogStep

\* Whether a liner is due is told from entries that do not change.
LEMMA LinerStaysDue ==
  ASSUME Grows, NEW seq \in 1 .. Len(assigned)
  PROVE  LinerDue(seq)' = LinerDue(seq)
<1>1. \A i \in 1 .. seq : assigned'[i] = assigned[i]
  BY DEF Grows
<1>2. {i \in 1 .. seq : assigned'[i].kind = "song" /\ \A j \in i .. seq : assigned'[j].kind # "liner"}
    = {i \in 1 .. seq : assigned[i].kind = "song" /\ \A j \in i .. seq : assigned[j].kind # "liner"}
  BY <1>1 DEF Grows
<1> QED
  BY <1>2 DEF LinerDue, SongsSinceLiner

-----------------------------------------------------------------------------
(* The calls and their answers. *)

\* A step that moves one call on keeps what every other call remembers.
LEMMA CallMoves ==
  ASSUME CallInv, Grows, NEW c \in Calls, NEW w \in Call, CallFollows(w)',
         call' = [call EXCEPT ![c] = w]
  PROVE  CallInv'
<1>1. call' \in [Calls -> Call]
  BY DEF CallInv
<1>2. ASSUME NEW d \in Calls PROVE CallFollows(call[d])'
  <2>1. CASE d = c
    <3>1. call'[d] = w
      BY <2>1 DEF CallInv
    <3> QED
      BY <3>1 DEF CallFollows, LinerDue, SongsSinceLiner
  <2>2. CASE d # c
    <3> DEFINE v == call[d]
    <3>1. v' = v /\ CallFollows(v)
      BY <2>2 DEF CallInv
    <3>2. v.wait = "liners" => LinerDue(v.seq)'
      <4>1. v.wait = "liners" => v.seq \in 1 .. Len(assigned) /\ LinerDue(v.seq)
        BY <3>1 DEF CallFollows
      <4> QED
        <5>1. PICK seq \in Nat : seq = v.seq
          BY <3>1 DEF CallInv, Call
        <5>2. v.wait = "liners" => LinerDue(seq) = LinerDue(seq)'
          BY <4>1, <5>1, LinerStaysDue
        <5>3. LinerDue(v.seq) = LinerDue(seq)
          BY <5>1
        <5>4. LinerDue(v.seq)' = LinerDue(seq)'
          BY <3>1, <5>1 DEF LinerDue, SongsSinceLiner
        <5> QED
          BY <4>1, <5>2, <5>3, <5>4
    <3> QED
      BY <3>1, <3>2 DEF CallFollows, Grows
  <2> QED
    BY <2>1, <2>2
<1> QED
  BY <1>1, <1>2 DEF CallInv

LEMMA CallsStay ==
  ASSUME CallInv, UNCHANGED <<assigned, call>>
  PROVE  CallInv'
<1>1. ASSUME NEW d \in Calls PROVE CallFollows(call[d])'
  <2>1. CallFollows(call[d])
    BY DEF CallInv
  <2>2. LinerDue(call[d].seq)' = LinerDue(call[d].seq)
    BY DEF LinerDue, SongsSinceLiner
  <2> QED
    BY <2>1, <2>2 DEF CallFollows
<1> QED
  BY <1>1 DEF CallInv

LEMMA WaitChanges ==
  ASSUME NEW r \in Call, NEW wait \in Waits
  PROVE  [r EXCEPT !.wait = wait]
           = [wait |-> wait, seq |-> r.seq, from |-> r.from, afterSong |-> r.afterSong]
  BY DEF Call

LEMMA IdleFollows == SongsAssumption => Idle \in Call /\ CallFollows(Idle)'
  BY DEF Idle, Call, Waits, CallFollows

LEMMA AnswersStay ==
  ASSUME AnswersMatchLog, Grows, answers' = answers
  PROVE  AnswersMatchLog'
<1>1. ASSUME NEW a \in answers PROVE a[1] < Len(assigned') /\ a[2] = assigned'[a[1] + 1]
  <2>1. a[1] \in Nat /\ a[1] < Len(assigned) /\ a[2] = assigned[a[1] + 1]
    BY DEF AnswersMatchLog
  <2>2. a[1] + 1 \in 1 .. Len(assigned)
    BY <2>1 DEF Grows
  <2> QED
    BY <2>1, <2>2 DEF Grows
<1> QED
  BY <1>1 DEF AnswersMatchLog

LEMMA AnswerAdded ==
  ASSUME AnswersMatchLog, Grows, IsLog', NEW seq \in Nat, seq < Len(assigned'),
         answers' = answers \cup {<<seq, assigned'[seq + 1]>>}
  PROVE  AnswersMatchLog'
<1>1. ASSUME NEW a \in answers'
      PROVE  a \in Nat \X Slots /\ a[1] < Len(assigned') /\ a[2] = assigned'[a[1] + 1]
  <2>1. CASE a \in answers
    <3>1. a[1] \in Nat /\ a[1] < Len(assigned) /\ a[2] = assigned[a[1] + 1]
      BY <2>1 DEF AnswersMatchLog
    <3>2. a[1] + 1 \in 1 .. Len(assigned)
      BY <3>1 DEF Grows
    <3> QED
      BY <2>1, <3>1, <3>2 DEF Grows, AnswersMatchLog
  <2>2. CASE a = <<seq, assigned'[seq + 1]>>
    <3>1. assigned'[seq + 1] \in Slots
      BY DEF IsLog, Grows
    <3> QED
      BY <2>2, <3>1
  <2> QED
    BY <1>1, <2>1, <2>2
<1> QED
  BY <1>1 DEF AnswersMatchLog

\* Answered from the log or refused.
LEMMA Served ==
  ASSUME LogInv, AnswersMatchLog, Grows, assigned' = assigned, NEW c \in Calls,
         call[c].seq \in Nat, Serve(c)
  PROVE  AnswersMatchLog' /\ call' = [call EXCEPT ![c] = Idle]
<1>1. CASE IsAssigned(call[c].seq)
  <2>1. answers' = answers \cup {<<call[c].seq, assigned'[call[c].seq + 1]>>}
    BY <1>1 DEF Serve, Answer, SlotAt
  <2> QED
    BY <1>1, <2>1, AnswerAdded DEF Serve, Answer, IsAssigned, LogInv, IsLog
<1>2. CASE ~IsAssigned(call[c].seq)
  BY <1>2, AnswersStay DEF Serve, Refuse
<1> QED
  BY <1>1, <1>2

LEMMA StoredOrServed ==
  ASSUME LogInv, AnswersMatchLog, Grows, NEW c \in Calls, call[c].seq \in Nat,
         NEW slot \in Slots, Store(c, slot)
  PROVE  AnswersMatchLog' /\ call' = [call EXCEPT ![c] = Idle]
<1>1. CASE IsNext(call[c].seq)
  <2>1. assigned' = Append(assigned, slot) /\ Answer(c, slot) /\ call[c].seq = Len(assigned)
    BY <1>1 DEF Store, IsNext
  <2>2. assigned'[call[c].seq + 1] = slot /\ call[c].seq < Len(assigned') /\ IsLog'
    BY <2>1, Appended DEF LogInv
  <2> QED
    BY <2>1, <2>2, AnswerAdded DEF Answer
<1>2. CASE ~IsNext(call[c].seq)
  BY <1>2, Served DEF Store
<1> QED
  BY <1>1, <1>2

(* Every step keeps what the waiting calls remember and answers from the log.   *)
LEMMA CallsKept == Inv /\ [Next]_vars => CallInv' /\ AnswersMatchLog'
<1> SUFFICES ASSUME Inv, [Next]_vars PROVE CallInv' /\ AnswersMatchLog'
  OBVIOUS
<1> USE SongsAssumption
<1>0. /\ LogInv /\ CallInv /\ AnswersMatchLog /\ Grows
      /\ \A c \in Calls : call[c] \in Call /\ CallFollows(call[c])
      /\ \A c \in Calls : call[c].seq \in Nat
  BY StepOfLog, LogGrows DEF Inv, CallInv, Call
\* A call that ends, or that goes on waiting for something else.
<1>a. ASSUME NEW c \in Calls, call' = [call EXCEPT ![c] = Idle] PROVE CallInv'
  BY <1>0, <1>a, IdleFollows, CallMoves
<1>b. ASSUME NEW c \in Calls, Refuse(c) PROVE CallInv' /\ AnswersMatchLog'
  BY <1>0, <1>a, <1>b, AnswersStay DEF Refuse
<1>c. ASSUME NEW c \in Calls, NEW slot \in Slots, Store(c, slot) PROVE CallInv' /\ AnswersMatchLog'
  BY <1>0, <1>a, <1>c, StoredOrServed
<1>d. ASSUME NEW c \in Calls, Serve(c), assigned' = assigned PROVE CallInv' /\ AnswersMatchLog'
  BY <1>0, <1>a, <1>d, Served
<1>e. ASSUME NEW c \in Calls, NEW wait \in Waits, WaitFor(c, wait), assigned' = assigned,
             wait = "landing" => call[c].wait = "placement",
             wait \in {"clip", "liners", "cues"} => call[c].wait \in {"walk", "liners"},
             wait \in {"landing", "clip", "liners", "cues"},
             wait = "clip" => call[c].from = Songs,
             wait \in {"liners", "cues"} => call[c].from < Songs,
             wait = "liners" => call[c].afterSong /\ LinerDue(call[c].seq)
      PROVE  CallInv' /\ AnswersMatchLog'
  <2> DEFINE old == call[c]
             w == [wait |-> wait, seq |-> old.seq, from |-> old.from, afterSong |-> old.afterSong]
  <2>1. call' = [call EXCEPT ![c] = w] /\ answers' = answers
    <3>1. [call[c] EXCEPT !.wait = wait] = w
      BY <1>0, WaitChanges
    <3>2. call' = [call EXCEPT ![c] = [call[c] EXCEPT !.wait = wait]]
      BY <1>0, <1>e DEF WaitFor, CallInv
    <3> QED
      BY <1>e, <3>1, <3>2 DEF WaitFor
  <2>2. w \in Call /\ CallFollows(w)
    BY <1>0, <1>e DEF Call, CallFollows
  <2>3. PICK m \in Call : m = w
    BY <2>2
  <2>4. CallFollows(m)'
    BY <1>e, <2>2, <2>3 DEF CallFollows, LinerDue, SongsSinceLiner
  <2>5. CallInv'
    BY <1>0, <2>1, <2>3, <2>4, CallMoves
  <2> QED
    BY <1>0, <2>1, <2>5, AnswersStay
<1>1. ASSUME NEW c \in Calls, NEW seq \in Known, Ask(c, seq) PROVE CallInv' /\ AnswersMatchLog'
  <2> DEFINE w == IF seq = 0
         THEN [wait |-> "placement", seq |-> 0, from |-> 0, afterSong |-> FALSE]
         ELSE [wait |-> "walk", seq |-> seq, from |-> SlotAt(seq - 1).at,
               afterSong |-> SlotAt(seq - 1).kind = "song"]
  <2>1. call' = [call EXCEPT ![c] = w] /\ answers' = answers /\ assigned' = assigned
    BY <1>1 DEF Ask, slots
  <2>2. seq \in Nat /\ seq = Len(assigned)
    BY <1>0, <1>1, LogLength DEF Ask, IsNext, LogInv, Known
  <2>3. w \in Call /\ CallFollows(w)
    <3>1. CASE seq = 0
      BY <3>1 DEF Idle, Call, Waits, CallFollows
    <3>2. CASE seq # 0
      <4>1. seq \in 1 .. Len(assigned) /\ SlotAt(seq - 1) = assigned[seq]
        BY <2>2, <3>2 DEF SlotAt
      <4>2. assigned[seq].at \in 0 .. Songs
        BY <1>0, <4>1 DEF LogInv, SlotsInOrder
      <4> QED
        BY <2>2, <3>2, <4>1, <4>2 DEF Call, Waits, CallFollows
    <3> QED
      BY <3>1, <3>2
  <2>4. PICK m \in Call : m = w
    BY <2>3
  <2>5. CallFollows(m)'
    BY <2>1, <2>3, <2>4 DEF CallFollows, LinerDue, SongsSinceLiner
  <2>6. CallInv'
    <3> HIDE DEF w
    <3> QED
      BY <1>0, <2>1, <2>4, <2>5, CallMoves
  <2> QED
    BY <1>0, <2>1, <2>6, AnswersStay
<1>2. ASSUME NEW c \in Calls, NEW seq \in Known, AskAgain(c, seq) PROVE CallInv' /\ AnswersMatchLog'
  <2>1. /\ call' = call /\ assigned' = assigned /\ seq \in Nat /\ seq < Len(assigned')
        /\ answers' = answers \cup {<<seq, assigned'[seq + 1]>>}
    BY <1>2 DEF AskAgain, slots, SlotAt, IsAssigned, Known
  <2>2. CallInv'
    BY <1>0, <2>1, CallsStay
  <2>3. IsLog'
    BY <1>0, <2>1 DEF LogInv, IsLog
  <2> QED
    BY <1>0, <2>1, <2>2, <2>3, AnswerAdded
<1>3. ASSUME NEW c \in Calls, PlacementAwaited(c) PROVE CallInv' /\ AnswersMatchLog'
  BY <1>3, <1>b, <1>e DEF PlacementAwaited, slots, Waits
<1>4. ASSUME NEW c \in Calls, LandingRead(c) PROVE CallInv' /\ AnswersMatchLog'
  BY <1>4, <1>b, <1>c, SlotsOf DEF LandingRead
<1>5. ASSUME NEW c \in Calls, Walked(c) PROVE CallInv' /\ AnswersMatchLog'
  <2>1. AfterWalk(c) \in {"clip", "liners", "cues"}
    BY DEF AfterWalk
  <2>2. call[c].from \in 0 .. Songs
    BY <1>0 DEF Call
  <2>3. /\ AfterWalk(c) = "clip" => call[c].from = Songs
        /\ AfterWalk(c) \in {"liners", "cues"} => call[c].from < Songs
        /\ AfterWalk(c) = "liners" => call[c].afterSong /\ LinerDue(call[c].seq)
    BY <2>2 DEF AfterWalk
  <2>4. PICK wait \in Waits : wait = AfterWalk(c)
    BY <2>1 DEF Waits
  <2> QED
    BY <1>5, <1>e, <2>1, <2>3, <2>4 DEF Walked, slots
<1>6. ASSUME NEW c \in Calls, ClipRead(c) PROVE CallInv' /\ AnswersMatchLog'
  <2>1. CASE open /\ IsNext(call[c].seq) /\ ~UNCHANGED slots
    <3>1. PICK clip \in BOOLEAN :
             IF clip
               THEN assigned' = Append(assigned, Clip) /\ Answer(c, Clip)
               ELSE UNCHANGED assigned /\ Refuse(c)
      BY <1>6, <2>1 DEF ClipRead
    <3>2. CASE clip
      BY <1>c, <2>1, <3>1, <3>2, SlotsOf DEF Store
    <3>3. CASE ~clip
      BY <1>b, <3>1, <3>3
    <3> QED
      BY <3>2, <3>3
  <2>2. CASE ~(open /\ IsNext(call[c].seq) /\ ~UNCHANGED slots)
    BY <1>6, <1>b, <1>d, <2>2 DEF ClipRead, slots
  <2> QED
    BY <2>1, <2>2
<1>7. ASSUME NEW c \in Calls, LinersRead(c) PROVE CallInv' /\ AnswersMatchLog'
  <2>1. \/ Refuse(c)
        \/ Serve(c) /\ assigned' = assigned
        \/ WaitFor(c, "cues") /\ assigned' = assigned
        \/ \E l \in Liners : Store(c, Liner(l, call[c].from))
    BY <1>7 DEF LinersRead, slots, NextLiners, LeftOf
  <2>2. call[c].wait = "liners" /\ call[c].from < Songs
    BY <1>0, <1>7 DEF LinersRead, CallFollows
  <2>3. call[c].from \in 1 .. Songs
    BY <1>0, <2>2 DEF CallFollows, LogInv, SlotsInOrder
  <2> QED
    BY <1>b, <1>c, <1>d, <1>e, <2>1, <2>2, <2>3, SlotsOf DEF Waits
<1>8. ASSUME NEW c \in Calls, CuesRead(c) PROVE CallInv' /\ AnswersMatchLog'
  <2>1. call[c].from + 1 \in 1 .. Songs
    BY <1>0, <1>8 DEF CuesRead, CallFollows, Call
  <2> QED
    BY <1>8, <1>b, <1>c, <2>1, SlotsOf DEF CuesRead
<1>9. ASSUME NEW c \in Calls, ReadFails(c) PROVE CallInv' /\ AnswersMatchLog'
  BY <1>9, <1>b DEF ReadFails
<1>10. CASE \/ \E seq \in Known : Started(seq) \/ Failed(seq)
            \/ Place \/ Close \/ UNCHANGED vars
  <2>1. UNCHANGED <<assigned, call, answers>>
    BY <1>10 DEF Started, Failed, Place, Close, vars, slots
  <2>2. CallInv'
    BY <1>0, <2>1, CallsStay
  <2> QED
    BY <1>0, <2>1, <2>2, AnswersStay
<1> QED
  BY <1>1, <1>2, <1>3, <1>4, <1>5, <1>6, <1>7, <1>8, <1>9, <1>10 DEF Next, CallStep

(* The clip was reported failed only once it is the last entry of the log.      *)
LEMMA ReportsKept == Inv /\ [Next]_vars => ReportsInv'
<1> SUFFICES ASSUME Inv, [Next]_vars PROVE ReportsInv'
  OBVIOUS
<1>0. /\ LogStep /\ LogInv /\ ReportsInv /\ Len(assigned) \in Nat
      /\ committed \in Nat \cup {None}
  BY StepOfLog, LogLength DEF Inv, LogInv, ReportsInv
\* Once the clip is handed out nothing more is.
<1>1. finalFailed => assigned' = assigned
  <2>1. finalFailed => endSeq # None
    BY <1>0 DEF LogInv, SlotsInOrder, ReportsInv, IsLog
  <2> QED
    BY <1>0, <2>1 DEF LogStep, Stays, HandsOut, Ends
<1>2. CASE UNCHANGED reports
  BY <1>0, <1>1, <1>2 DEF reports, ReportsInv
<1>3. ASSUME NEW seq \in Known, Started(seq) PROVE ReportsInv'
  BY <1>0, <1>3 DEF Started, slots, Known, ReportsInv
<1>4. ASSUME NEW seq \in Known, Failed(seq) PROVE ReportsInv'
  <2>1. assigned' = assigned /\ committed' = committed /\ finalFailed' = FlagsFinal(seq)
    BY <1>4 DEF Failed, slots
  <2>0. finalFailed' \in BOOLEAN
    BY <1>0, <2>1 DEF FlagsFinal, ReportsInv
  <2>2. CASE SlotAt(seq) = Clip
    <3>1. seq + 1 \in 1 .. Len(assigned) /\ assigned[seq + 1].kind = "clip"
      BY <1>0, <1>4, <2>2 DEF Failed, IsAssigned, Known, SlotAt, Clip
    <3>2. seq + 1 = Len(assigned)
      BY <1>0, <3>1 DEF LogInv, SlotsInOrder
    <3>3. assigned # <<>>
      BY <3>1
    <3> QED
      BY <1>0, <2>0, <2>1, <3>1, <3>2, <3>3 DEF ReportsInv
  <2>3. CASE SlotAt(seq) # Clip
    BY <1>0, <2>1, <2>3 DEF FlagsFinal, ReportsInv
  <2> QED
    BY <2>2, <2>3
<1> QED
  BY <1>2, <1>3, <1>4 DEF Next, CallStep, Ask, AskAgain, PlacementAwaited, LandingRead,
     Walked, ClipRead, LinersRead, CuesRead, ReadFails, Place, Close, vars

LEMMA InitInv == Init => Inv
<1> SUFFICES ASSUME Init PROVE Inv
  OBVIOUS
<1>1. LogInv
  BY DEF Init, LogInv, IsLog, SlotsInOrder, EndIsLength
<1>2. CallInv
  BY SongsAssumption DEF Init, CallInv, CallFollows, Idle, Call, Waits
<1> QED
  BY <1>1, <1>2 DEF Init, Inv, AnswersMatchLog, ReportsInv, SessionInv

LEMMA SessionKept == Inv /\ [Next]_vars => SessionInv'
  BY DEF Inv, SessionInv, Next, CallStep, Ask, AskAgain, PlacementAwaited, LandingRead, Walked,
     ClipRead, LinersRead, CuesRead, ReadFails, Place, Started, Failed, Close, vars

LEMMA InvKept == Inv /\ [Next]_vars => Inv'
  BY StepOfLog, LogKept, CallsKept, ReportsKept, SessionKept DEF Inv

LEMMA InvHolds == Spec => []Inv
  BY InitInv, InvKept, PTL DEF Spec

-----------------------------------------------------------------------------
(* The liner rotation follows the log. *)

RotationTyped == rotation \in [left : SUBSET Liners, last : Liners \cup {None}]
RotationInv == RotationTyped /\ RotationMatchesLog

\* A liner is drawn exactly when it is handed out.
DrawsNone ==
  /\ rotation' = rotation
  /\ \/ assigned' = assigned
     \/ \E slot \in Slots : slot.kind # "liner" /\ assigned' = Append(assigned, slot)
Draws ==
  \E available \in SUBSET Liners : \E l \in NextLiners(available), n \in 1 .. Songs :
    /\ assigned' = Append(assigned, Liner(l, n))
    /\ rotation' = RestAfter(l, available)

LEMMA StepOfRotation == Inv /\ [Next]_vars => DrawsNone \/ Draws
<1> SUFFICES ASSUME Inv, [Next]_vars PROVE DrawsNone \/ Draws
  OBVIOUS
<1>0. /\ LogInv
      /\ \A c \in Calls : call[c] \in Call /\ CallFollows(call[c])
  BY DEF Inv, CallInv
<1>1. ASSUME NEW c \in Calls, LandingRead(c) PROVE DrawsNone
  <2>1. assigned' = assigned \/ assigned' = Append(assigned, Song(1, "tunedIn"))
    BY <1>1 DEF LandingRead, Store
  <2>2. Song(1, "tunedIn").kind # "liner"
    BY DEF Song
  <2>3. Song(1, "tunedIn") \in Slots
    BY SlotsOf, SongsAssumption
  <2> QED
    BY <1>1, <2>1, <2>2, <2>3 DEF LandingRead, DrawsNone
<1>2. ASSUME NEW c \in Calls, CuesRead(c) PROVE DrawsNone
  <2>1. \/ assigned' = assigned
        \/ \E cues \in {"tunedIn", "fresh"} : assigned' = Append(assigned, Song(call[c].from + 1, cues))
    BY <1>2 DEF CuesRead, Store
  <2>2. call[c].from + 1 \in 1 .. Songs
    BY <1>0, <1>2, SongsAssumption DEF CuesRead, CallFollows, Call
  <2>3. \A cues \in {"tunedIn", "fresh"} :
          /\ Song(call[c].from + 1, cues) \in Slots
          /\ Song(call[c].from + 1, cues).kind # "liner"
    BY <2>2, SlotsOf DEF Song
  <2> QED
    BY <1>2, <2>1, <2>3 DEF CuesRead, DrawsNone
<1>3. ASSUME NEW c \in Calls, LinersRead(c) PROVE DrawsNone \/ Draws
  <2>1. CASE UNCHANGED slots
    BY <2>1 DEF slots, DrawsNone
  <2>2. CASE open /\ IsNext(call[c].seq) /\ ~UNCHANGED slots
    <3>1. PICK available \in SUBSET Liners : \E l \in NextLiners(available) :
            /\ assigned' = Append(assigned, Liner(l, call[c].from))
            /\ rotation' = RestAfter(l, available)
      BY <1>3, <2>2 DEF LinersRead, Store
    <3>2. call[c].from \in 1 .. Songs
      BY <1>0, <1>3 DEF LinersRead, CallFollows, LogInv, SlotsInOrder
    <3> QED
      BY <3>1, <3>2 DEF Draws
  <2> QED
    BY <1>3, <2>1, <2>2 DEF LinersRead, slots
<1>4. ASSUME NEW c \in Calls, ClipRead(c) PROVE DrawsNone
  <2>1. rotation' = rotation /\ (assigned' = assigned \/ assigned' = Append(assigned, Clip))
    BY <1>4 DEF ClipRead, slots
  <2>2. Clip \in Slots /\ Clip.kind # "liner"
    BY SlotsOf DEF Clip
  <2> QED
    BY <2>1, <2>2 DEF DrawsNone
<1>5. ASSUME NEW c \in Calls,
             \/ PlacementAwaited(c) \/ Walked(c) \/ ReadFails(c)
             \/ \E seq \in Known : Ask(c, seq) \/ AskAgain(c, seq)
      PROVE  DrawsNone
  BY <1>5 DEF PlacementAwaited, Walked, ReadFails, Ask, AskAgain, slots, DrawsNone
<1>6. CASE \/ \E seq \in Known : Started(seq) \/ Failed(seq)
           \/ Place \/ Close \/ UNCHANGED vars
  BY <1>6 DEF Started, Failed, Place, Close, vars, slots, DrawsNone
<1> QED
  BY <1>1, <1>2, <1>3, <1>4, <1>5, <1>6 DEF Next, CallStep

\* What is drawn was not drawn last unless it is alone, and is not to come again.
LEMMA DrawnRest ==
  ASSUME RotationTyped, NEW available \in SUBSET Liners, NEW l \in NextLiners(available)
  PROVE  /\ l \in Liners
         /\ RestAfter(l, available) \in [left : SUBSET Liners, last : Liners \cup {None}]
         /\ RestAfter(l, available).last = l
         /\ l \notin RestAfter(l, available).left
<1>1. l \in Liners
  BY DEF NextLiners, LeftOf
<1> QED
  BY <1>1 DEF RestAfter, LeftOf

LEMMA RotationKept ==
  ASSUME LogInv, RotationInv, DrawsNone \/ Draws
  PROVE  RotationInv'
<1>0. Len(assigned) \in Nat
  BY LogLength DEF LogInv
<1>1. CASE assigned' = assigned /\ rotation' = rotation
  BY <1>1 DEF RotationInv, RotationTyped, RotationMatchesLog, LastLinerIs
<1>2. ASSUME NEW slot \in Slots, slot.kind # "liner", assigned' = Append(assigned, slot),
             rotation' = rotation
      PROVE  RotationInv'
  <2>1. /\ Len(assigned') = Len(assigned) + 1 /\ assigned'[Len(assigned) + 1] = slot
        /\ \A i \in 1 .. Len(assigned) : assigned'[i] = assigned[i]
    BY <1>2, Appended DEF LogInv
  <2>2. \A i \in 1 .. Len(assigned') : i \in 1 .. Len(assigned) \/ assigned'[i].kind # "liner"
    BY <1>0, <1>2, <2>1
  <2>3. LastLinerIs(rotation.last)'
    <3>1. CASE rotation.last = None
      BY <1>2, <2>1, <2>2, <3>1 DEF RotationInv, RotationMatchesLog, LastLinerIs
    <3>2. CASE rotation.last # None
      <4>1. PICK i \in 1 .. Len(assigned) :
              /\ assigned[i].kind = "liner" /\ assigned[i].id = rotation.last
              /\ \A j \in 1 .. Len(assigned) : j > i => assigned[j].kind # "liner"
        BY <3>2 DEF RotationInv, RotationMatchesLog, LastLinerIs
      <4>2. /\ i \in 1 .. Len(assigned') /\ assigned'[i] = assigned[i]
            /\ \A j \in 1 .. Len(assigned') : j > i => assigned'[j].kind # "liner"
        BY <1>0, <2>1, <2>2, <4>1
      <4> QED
        BY <1>2, <3>2, <4>1, <4>2 DEF LastLinerIs
    <3> QED
      BY <3>1, <3>2
  <2> QED
    BY <1>2, <2>3 DEF RotationInv, RotationTyped, RotationMatchesLog
<1>3. ASSUME NEW available \in SUBSET Liners, NEW l \in NextLiners(available), NEW n \in 1 .. Songs,
             assigned' = Append(assigned, Liner(l, n)), rotation' = RestAfter(l, available)
      PROVE  RotationInv'
  <2>1. /\ l \in Liners /\ RotationTyped' /\ rotation'.last = l /\ l \notin rotation'.left
    BY <1>3, DrawnRest DEF RotationInv, RotationTyped
  <2>2. /\ Len(assigned') = Len(assigned) + 1 /\ assigned'[Len(assigned) + 1] = Liner(l, n)
    BY <1>3, <2>1, SlotsOf, Appended DEF LogInv
  <2>3. Liner(l, n).kind = "liner" /\ Liner(l, n).id = l
    BY DEF Liner
  <2>4. LastLinerIs(l)'
    <3>1. l # None
      BY <2>1, NoneAssumption
    <3>2. \A j \in 1 .. Len(assigned') : ~(j > Len(assigned) + 1)
      BY <1>0, <2>2
    <3> QED
      BY <1>0, <2>2, <2>3, <3>1, <3>2 DEF LastLinerIs
  <2> QED
    BY <2>1, <2>4 DEF RotationInv, RotationMatchesLog, LastLinerIs
<1> QED
  BY <1>1, <1>2, <1>3 DEF DrawsNone, Draws

LEMMA RotationAlways == Spec => []RotationInv
<1>1. Init => RotationInv
  BY DEF Init, RotationInv, RotationTyped, RotationMatchesLog, LastLinerIs
<1>2. Inv /\ RotationInv /\ [Next]_vars => RotationInv'
  BY StepOfRotation, RotationKept DEF Inv
<1> QED
  BY <1>1, <1>2, InvHolds, PTL DEF Spec

-----------------------------------------------------------------------------
(* The promises. *)

(* Every variable of a session keeps to its values, however many calls overlap. *)
THEOREM TypeCorrect == Spec => []TypeOK
<1>1. Inv /\ RotationInv => TypeOK
  <2> SUFFICES ASSUME Inv, RotationInv PROVE TypeOK
    OBVIOUS
  <2>1. endSeq \in Nat \cup {None}
    BY LogLength DEF Inv, LogInv, EndIsLength
  <2> QED
    BY <2>1 DEF TypeOK, Inv, LogInv, IsLog, CallInv, Call, AnswersMatchLog, ReportsInv, SessionInv,
       RotationInv, RotationTyped
<1> QED
  BY <1>1, InvHolds, RotationAlways, PTL

(* The session's shuffle says what was handed out: it names the last liner in   *)
(* the log and has it no more this round, so a call that lost the race for a    *)
(* seq drew nothing (StreamService._liner_after, next_liner).                   *)
THEOREM RotationFollowsLog == Spec => []RotationMatchesLog
<1>1. RotationInv => RotationMatchesLog
  BY DEF RotationInv
<1> QED
  BY <1>1, RotationAlways, PTL

(* "The same seq always returns the same item", for any number of overlapping   *)
(* calls: every answer given so far is the entry the log has for its seq, and   *)
(* entries never change (StreamService._assign, _served).                       *)
THEOREM SameItem == Spec => []SameSeqSameItem
<1>1. Inv => SameSeqSameItem
  BY DEF Inv, AnswersMatchLog, SameSeqSameItem
<1> QED
  BY <1>1, InvHolds, PTL

(* A schedule is finished only when its last song has started: the failed clip  *)
(* counts for one seq and is never a song (schedule_finished).                  *)
THEOREM FinishedLate == Spec => []FinishedAfterLastSong
<1>1. Inv => FinishedAfterLastSong
  <2> SUFFICES ASSUME Inv, Finished, NEW i \in DOMAIN assigned, assigned[i].kind = "song"
               PROVE  i <= committed + 1
    BY DEF FinishedAfterLastSong
  <2>1. Len(assigned) \in Nat /\ DOMAIN assigned = 1 .. Len(assigned)
    BY DEF Inv, LogInv, IsLog
  <2>2. committed \in Nat /\ endSeq = Len(assigned)
    BY DEF Inv, LogInv, EndIsLength, ReportsInv, Finished
  <2>3. CASE finalFailed
    <3>1. i # Len(assigned)
      BY <2>3 DEF Inv, ReportsInv
    <3>2. committed + 2 >= Len(assigned)
      BY <2>2, <2>3 DEF Finished
    <3> QED
      BY <2>1, <2>2, <3>1, <3>2
  <2>4. CASE ~finalFailed
    BY <2>1, <2>2, <2>4 DEF Finished
  <2> QED
    BY <2>3, <2>4
<1> QED
  BY <1>1, InvHolds, PTL

-----------------------------------------------------------------------------
(* The refinement of ItemLog. *)

logOf == [i \in DOMAIN assigned |-> [kind |-> assigned[i].kind, at |-> assigned[i].at]]
overOf == endSeq # None \/ ~open

LEMMA LogOf ==
  ASSUME Inv
  PROVE  /\ Len(assigned) \in Nat /\ DOMAIN assigned = 1 .. Len(assigned)
         /\ logOf \in Seq(Log!Entry) /\ Len(logOf) = Len(assigned)
         /\ \A i \in 1 .. Len(assigned) :
              logOf[i].kind = assigned[i].kind /\ logOf[i].at = assigned[i].at
<1>1. Len(assigned) \in Nat /\ DOMAIN assigned = 1 .. Len(assigned)
  BY DEF Inv, LogInv, IsLog
<1>2. logOf \in [1 .. Len(assigned) -> Log!Entry]
  BY <1>1 DEF logOf, Inv, LogInv, SlotsInOrder, Log!Entry, Log!Positions
<1> QED
  BY <1>1, <1>2 DEF logOf

\* The same songs are counted since the last liner.
LEMMA SinceIsSongsSinceLiner ==
  Inv => Log!Since(logOf) = SongsSinceLiner(Len(assigned))
<1> SUFFICES ASSUME Inv PROVE Log!Since(logOf) = SongsSinceLiner(Len(assigned))
  OBVIOUS
<1>1. {i \in 1 .. Len(logOf) :
         logOf[i].kind = "song" /\ \A j \in i .. Len(logOf) : logOf[j].kind # "liner"}
    = {i \in 1 .. Len(assigned) :
         assigned[i].kind = "song" /\ \A j \in i .. Len(assigned) : assigned[j].kind # "liner"}
  BY LogOf
<1> QED
  BY <1>1 DEF Log!Since, SongsSinceLiner, Cardinality, Log!Cardinality

\* What the session hands out is appended to the log.
LEMMA LogAppends ==
  ASSUME Inv, Inv', NEW slot \in Slots, assigned' = Append(assigned, slot)
  PROVE  logOf' = Append(logOf, [kind |-> slot.kind, at |-> slot.at])
<1>1. /\ Len(assigned') = Len(assigned) + 1 /\ assigned'[Len(assigned) + 1] = slot
      /\ \A i \in 1 .. Len(assigned) : assigned'[i] = assigned[i]
  BY Appended DEF Inv, LogInv
<1>2. DOMAIN assigned' = 1 .. Len(assigned')
  BY DEF Inv, LogInv, IsLog
<1>3. logOf' = [i \in 1 .. Len(assigned) + 1 |->
                 IF i = Len(assigned) + 1 THEN [kind |-> slot.kind, at |-> slot.at] ELSE logOf[i]]
  BY <1>1, <1>2, LogOf DEF logOf
<1> QED
  BY <1>3, LogOf

LEMMA LogSteps == Inv /\ Inv' /\ LogStep /\ (open' => open)
                    => [Log!LogNext]_(Log!logVars)
<1> SUFFICES ASSUME Inv, Inv', LogStep, open' => open
             PROVE  Log!HandOut \/ Log!SignOff \/ Log!Leave \/ (logOf' = logOf /\ overOf' = overOf)
  BY DEF Log!LogNext, Log!logVars, logOf, overOf, Log!HandOut, Log!SignOff, Log!Leave
<1> USE SongsAssumption
<1>1. CASE Stays
  BY <1>1 DEF Stays, logOf, overOf, Log!Leave
<1>2. CASE HandsOut
  <2>1. PICK slot \in Slots : Follows(slot) /\ assigned' = Append(assigned, slot)
    BY <1>2 DEF HandsOut
  <2> DEFINE e == [kind |-> slot.kind, at |-> slot.at]
  <2>2. logOf' = Append(logOf, e) /\ ~overOf /\ overOf' = overOf
    BY <1>2, <2>1, LogAppends DEF HandsOut, overOf
  <2>3. e \in Log!Entry /\ e.kind # "clip"
    <3>1. Len(assigned) # 0 => assigned[Len(assigned)].at \in 1 .. Songs
      BY LogOf DEF Inv, LogInv, SlotsInOrder
    <3> QED
      BY <2>1, <3>1 DEF Follows, Log!Entry, Log!Positions
  <2>4. Log!MayFollow(logOf, e)
    <3>1. CASE Len(assigned) = 0
      <4>1. logOf = <<>>
        BY <3>1, LogOf
      <4> QED
        BY <2>1, <3>1, <4>1 DEF Follows, Log!MayFollow
    <3>2. CASE Len(assigned) # 0
      <4>1. /\ logOf # <<>> /\ Log!Last(logOf).at = assigned[Len(assigned)].at
            /\ Log!Last(logOf).kind = assigned[Len(assigned)].kind
        BY <3>2, LogOf DEF Log!Last
      <4>2. LinerDue(Len(assigned)) => Cadence # 0 /\ Log!Since(logOf) >= Cadence
        BY SinceIsSongsSinceLiner DEF LinerDue
      <4> QED
        BY <2>1, <3>2, <4>1, <4>2 DEF Follows, Log!MayFollow
    <3> QED
      BY <3>1, <3>2
  <2>5. Log!HandOut
    BY <2>2, <2>3, <2>4 DEF Log!HandOut, logOf, overOf
  <2> QED
    BY <2>5
<1>3. CASE Ends
  <2>1. /\ logOf # <<>>
        /\ Log!Last(logOf) = [kind |-> "song", at |-> Songs]
    BY <1>3, LogOf DEF Ends, Log!Last, Log!Entry, Log!Positions, logOf
  <2>2. ~overOf /\ overOf'
    BY <1>3, LogLength, NoneAssumption DEF Ends, overOf, Inv, LogInv
  <2>3. logOf' \in {logOf, Append(logOf, [kind |-> "clip", at |-> Songs])}
    <3>1. CASE assigned' = assigned
      BY <3>1 DEF logOf
    <3>2. CASE assigned' = Append(assigned, Clip)
      BY <3>2, LogAppends, SlotsOf DEF Clip
    <3> QED
      BY <1>3, <3>1, <3>2 DEF Ends
  <2> QED
    BY <2>1, <2>2, <2>3 DEF Log!SignOff, logOf, overOf
<1> QED
  BY <1>1, <1>2, <1>3 DEF LogStep

(* A session hands out what ItemLog promises, in its order, whatever calls       *)
(* overlap, fail or find the session closed: songs in a row, liners only where   *)
(* due and never before the end, nothing after the sign-off.                     *)
THEOREM ImplementsLog == Spec => ImplementsItemLog
<1>1. Init => Log!LogInit
  BY DEF Init, Log!LogInit
<1>2. Inv /\ Inv' /\ [Next]_vars => [Log!LogNext]_(Log!logVars)
  <2>1. [Next]_vars => (open' => open)
    BY DEF Next, CallStep, Ask, AskAgain, PlacementAwaited, LandingRead, Walked, ClipRead,
       LinersRead, CuesRead, ReadFails, Place, Started, Failed, Close, vars
  <2> QED
    BY <2>1, StepOfLog, LogSteps
<1> QED
  BY <1>1, <1>2, InvHolds, PTL DEF Spec, ImplementsItemLog, Log!LogSpec

=============================================================================
