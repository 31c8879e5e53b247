-------------------------- MODULE Listening_proofs --------------------------
(***************************************************************************)
(* What the two ends of listening keep.                                     *)
(*                                                                          *)
(* The listener feed, for any channels, streams, limits and any finite set  *)
(* of pages: counting finite sets gives the subscriptions; what a page is   *)
(* told follows from the order of its mailbox: unread events are in the     *)
(* order they were made, between the last one told and the last one made,   *)
(* and the waiting title comes after them.                                  *)
(*                                                                          *)
(* The page's player, for any times: the timers that run are the ones its   *)
(* state needs, it settles in time, and it shows no stale title.            *)
(***************************************************************************)
EXTENDS ListenerFeed, RadioPlayer, FiniteSetTheorems, TLAPS

Mail == [queue : Seq(Event), held : Event, shut : BOOLEAN]

\* A mailbox whose reader was last told `low`, when `high` events were made, of
\* which `songs` are titles, and those up to `now` are due.
InOrder(m, low, high, songs, now) ==
  /\ \A i \in 1 .. Len(m.queue) : m.queue[i] # Refusal =>
       /\ low <= m.queue[i] /\ m.queue[i] <= high
       /\ m.queue[i] \in songs => m.queue[i] <= now
  /\ \A i, j \in 1 .. Len(m.queue) :
       i < j /\ m.queue[j] # Refusal => m.queue[i] <= m.queue[j]
  /\ m.held # NoTitle =>
       /\ low <= m.held /\ m.held <= high
       /\ \A i \in 1 .. Len(m.queue) : m.queue[i] <= m.held

\* A mailbox that was shut is empty.
ShutIsEmpty(m) == m.shut => m.queue = <<>> /\ m.held = NoTitle

Sound(m, low, high, songs, now) ==
  m \in Mail /\ ShutIsEmpty(m) /\ InOrder(m, low, high, songs, now)

-----------------------------------------------------------------------------
(* What the mailbox's operators do to its order.                             *)

(* Time passes.                                                              *)
LEMMA Later ==
  ASSUME NEW m, NEW low \in Nat, NEW high \in Nat, NEW songs \in SUBSET Nat, NEW now \in Nat,
         NEW later \in Nat, now <= later, Sound(m, low, high, songs, now)
  PROVE  Sound(m, low, high, songs, later)
  BY DEF Sound, InOrder, Mail, Event

(* A mailbox that is shut is in any order.                                   *)
LEMMA ShutSound ==
  ASSUME NEW m, NEW low \in Nat, NEW high \in Nat, NEW songs \in SUBSET Nat, NEW now \in Nat
  PROVE  Sound(Shut(m), low, high, songs, now) /\ Backlog(Shut(m)) = 0
<1>1. Shut(m) \in Mail
  BY DEF Shut, Mail, Event, NoTitle
<1> QED
  BY <1>1 DEF Sound, InOrder, ShutIsEmpty, Shut, Mail, NoTitle, Event, Backlog

LEMMA AppendOf ==
  ASSUME NEW s \in Seq(Nat), NEW event \in Nat
  PROVE  /\ Len(s) \in Nat /\ Len(Append(s, event)) = Len(s) + 1
         /\ Append(s, event)[Len(s) + 1] = event
         /\ \A i \in 1 .. Len(s) : Append(s, event)[i] = s[i] /\ s[i] \in Nat
  OBVIOUS

(* What an event at the end of the queue needs.                              *)
LEMMA Appended ==
  ASSUME NEW m \in Mail, NEW m2 \in Mail, NEW event \in Nat,
         NEW low \in Nat, NEW high \in Nat, NEW songs \in SUBSET Nat, NEW now \in Nat,
         Sound(m, low, high, songs, now), ~m2.shut,
         m2.queue = Append(m.queue, event),
         m2.held = NoTitle \/ (m2.held = m.held /\ event = Refusal),
         event # Refusal =>
           /\ low <= event /\ event <= high /\ (event \in songs => event <= now)
           /\ \A i \in 1 .. Len(m.queue) : m.queue[i] <= event
  PROVE  Sound(m2, low, high, songs, now)
<1>1. /\ Len(m.queue) \in Nat /\ Len(m2.queue) = Len(m.queue) + 1
      /\ m2.queue[Len(m.queue) + 1] = event
      /\ \A i \in 1 .. Len(m.queue) : m2.queue[i] = m.queue[i] /\ m.queue[i] \in Nat
  <2>1. m.queue \in Seq(Nat)
    BY DEF Mail, Event
  <2> QED
    BY <2>1, AppendOf
<1>2. InOrder(m, low, high, songs, now)
  BY DEF Sound
<1>3. \A i \in 1 .. Len(m2.queue) : i \in 1 .. Len(m.queue) \/ i = Len(m.queue) + 1
  BY <1>1
<1>4. \A i \in 1 .. Len(m2.queue) : m2.queue[i] # Refusal =>
       /\ low <= m2.queue[i] /\ m2.queue[i] <= high
       /\ m2.queue[i] \in songs => m2.queue[i] <= now
  BY <1>1, <1>2, <1>3 DEF InOrder
<1>5. \A i, j \in 1 .. Len(m2.queue) :
       i < j /\ m2.queue[j] # Refusal => m2.queue[i] <= m2.queue[j]
  BY <1>1, <1>2, <1>3 DEF InOrder
<1>6. m2.held # NoTitle =>
       /\ low <= m2.held /\ m2.held <= high
       /\ \A i \in 1 .. Len(m2.queue) : m2.queue[i] <= m2.held
  BY <1>1, <1>2, <1>3 DEF InOrder, Refusal, NoTitle, Mail, Event
<1> QED
  BY <1>4, <1>5, <1>6 DEF Sound, InOrder, ShutIsEmpty

(* A refusal is told in any order.                                           *)
LEMMA RefusalTold ==
  ASSUME NEW m, NEW low \in Nat, NEW high \in Nat, NEW songs \in SUBSET Nat, NEW now \in Nat,
         Sound(m, low, high, songs, now), ~m.shut
  PROVE  ~TellStatus(m, Refusal).shut /\ Sound(TellStatus(m, Refusal), low, high, songs, now)
<1>1. m \in Mail
  BY DEF Sound
<1>2. PICK m2 : m2 = TellStatus(m, Refusal)
  OBVIOUS
<1>3. /\ m2 \in Mail /\ ~m2.shut /\ m2.held = m.held
      /\ m2.queue = Append(m.queue, Refusal)
  <2>1. Append(m.queue, Refusal) \in Seq(Event)
    BY <1>1 DEF Mail, Refusal, Event
  <2> QED
    BY <1>1, <1>2, <2>1 DEF Mail, TellStatus
<1> QED
  BY <1>1, <1>2, <1>3, Appended DEF Refusal, Event

(* The waiting title goes, told first if it is due.                          *)
LEMMA TitleGone ==
  ASSUME NEW m, NEW low \in Nat, NEW high \in Nat, NEW songs \in SUBSET Nat,
         Sound(m, low, high, songs, due), due \in Nat, ~m.shut
  PROVE  /\ Sound(ReplaceTitle(m, NoTitle), low, high, songs, due)
         /\ ~ReplaceTitle(m, NoTitle).shut
         /\ ReplaceTitle(m, NoTitle).held = NoTitle
<1>1. m \in Mail /\ InOrder(m, low, high, songs, due)
  BY DEF Sound
<1>2. PICK m2 : m2 = ReplaceTitle(m, NoTitle)
  OBVIOUS
<1>3. /\ m2 \in Mail /\ ~m2.shut /\ m2.held = NoTitle
      /\ m2.queue = IF IsDue(m.held) THEN Append(m.queue, m.held) ELSE m.queue
  <2>1. m.held \in Event /\ NoTitle \in Event /\ Append(m.queue, m.held) \in Seq(Event)
    BY <1>1 DEF Mail, NoTitle, Event
  <2> QED
    BY <1>1, <1>2, <2>1 DEF Mail, ReplaceTitle
<1>4. CASE IsDue(m.held)
  <2>1. /\ m.held \in Event /\ m.held <= due
        /\ low <= m.held /\ m.held <= high
        /\ \A i \in 1 .. Len(m.queue) : m.queue[i] <= m.held
    BY <1>1, <1>4 DEF IsDue, InOrder, Mail
  <2>2. m2.queue = Append(m.queue, m.held)
    BY <1>3, <1>4
  <2>3. Sound(m2, low, high, songs, due)
    BY <1>1, <1>3, <2>1, <2>2, Appended DEF Event
  <2> QED
    BY <1>2, <1>3, <2>3
<1>5. CASE ~IsDue(m.held)
  BY <1>1, <1>2, <1>3, <1>5 DEF Sound, InOrder, ShutIsEmpty
<1> QED
  BY <1>4, <1>5

(* A newer title takes its place.                                            *)
LEMMA TitleWaits ==
  ASSUME NEW m, NEW low \in Nat, NEW high \in Nat, NEW songs \in SUBSET (1 .. high),
         Sound(m, low, high, songs, due), due \in Nat, ~m.shut, low <= high
  PROVE  /\ ~ReplaceTitle(m, high + 1).shut
         /\ Sound(ReplaceTitle(m, high + 1), low, high + 1, songs \cup {high + 1}, due)
<1>1. m \in Mail
  BY DEF Sound
<1>2. PICK m1 : m1 = ReplaceTitle(m, NoTitle)
  OBVIOUS
<1>3. PICK m2 : m2 = ReplaceTitle(m, high + 1)
  OBVIOUS
<1>4. /\ m1 \in Mail /\ m2 \in Mail /\ ~m2.shut /\ m2.held = high + 1
      /\ m2.queue = m1.queue
  <2>1. /\ m.held \in Event /\ NoTitle \in Event /\ high + 1 \in Event
        /\ Append(m.queue, m.held) \in Seq(Event)
    BY <1>1 DEF Mail, NoTitle, Event
  <2> QED
    BY <1>1, <1>2, <1>3, <2>1 DEF Mail, ReplaceTitle
<1>5. Sound(m1, low, high, songs, due)
  BY <1>2, TitleGone
<1>6. InOrder(m1, low, high, songs, due)
  BY <1>5 DEF Sound
<1>7. \A i \in 1 .. Len(m1.queue) : m1.queue[i] \in Nat /\ m1.queue[i] <= high
  BY <1>4, <1>6 DEF InOrder, Mail, Event, Refusal
<1>8. InOrder(m2, low, high + 1, songs \cup {high + 1}, due)
  <2>1. ASSUME NEW i \in 1 .. Len(m1.queue), m1.queue[i] # Refusal
        PROVE  /\ low <= m1.queue[i] /\ m1.queue[i] <= high + 1
               /\ m1.queue[i] \in songs \cup {high + 1} => m1.queue[i] <= due
    <3>1. m1.queue[i] \in Nat /\ m1.queue[i] <= high /\ m1.queue[i] # high + 1
      BY <1>7
    <3> QED
      BY <2>1, <3>1, <1>6 DEF InOrder
  <2>2. \A i, j \in 1 .. Len(m1.queue) :
          i < j /\ m1.queue[j] # Refusal => m1.queue[i] <= m1.queue[j]
    BY <1>6 DEF InOrder
  <2>3. \A i \in 1 .. Len(m1.queue) : m1.queue[i] <= high + 1
    BY <1>7
  <2> QED
    BY <1>4, <2>1, <2>2, <2>3 DEF InOrder
<1> QED
  BY <1>3, <1>4, <1>8 DEF Sound, ShutIsEmpty

(* A status that ends the title is told after everything before it.          *)
LEMMA StatusTold ==
  ASSUME NEW m, NEW low \in Nat, NEW high \in Nat, NEW songs \in SUBSET (1 .. high),
         Sound(m, low, high, songs, due), due \in Nat, ~m.shut, low <= high
  PROVE  ~Supersede(m, high + 1).shut /\ Sound(Supersede(m, high + 1), low, high + 1, songs, due)
<1>1. PICK m1 : m1 = ReplaceTitle(m, NoTitle)
  OBVIOUS
<1>2. Sound(m1, low, high, songs, due) /\ ~m1.shut /\ m1.held = NoTitle
  BY <1>1, TitleGone
<1>3. m1 \in Mail /\ InOrder(m1, low, high, songs, due)
  BY <1>2 DEF Sound
<1>4. PICK m2 : m2 = Supersede(m, high + 1)
  OBVIOUS
<1>5. m2 = TellStatus(m1, high + 1)
  BY <1>1, <1>4 DEF Supersede
<1>6. /\ m2 \in Mail /\ ~m2.shut /\ m2.held = NoTitle
      /\ m2.queue = Append(m1.queue, high + 1)
  <2>1. Append(m1.queue, high + 1) \in Seq(Event)
    BY <1>3 DEF Mail, Event
  <2> QED
    BY <1>2, <1>3, <1>5, <2>1 DEF Mail, TellStatus
<1>7. \A i \in 1 .. Len(m1.queue) : m1.queue[i] \in Nat /\ m1.queue[i] <= high
  BY <1>3 DEF InOrder, Mail, Event, Refusal
<1>8. InOrder(m1, low, high + 1, songs, due)
  BY <1>2, <1>3, <1>7 DEF InOrder
<1>9. Sound(m1, low, high + 1, songs, due)
  BY <1>2, <1>3, <1>8 DEF Sound
<1> QED
  <2>1. songs \in SUBSET Nat /\ high + 1 \in Nat /\ high + 1 \notin songs /\ low <= high + 1
    OBVIOUS
  <2>2. high + 1 # Refusal =>
          /\ low <= high + 1 /\ high + 1 <= high + 1 /\ (high + 1 \in songs => high + 1 <= due)
          /\ \A i \in 1 .. Len(m1.queue) : m1.queue[i] <= high + 1
    BY <1>7, <2>1
  <2>3. Sound(m2, low, high + 1, songs, due)
    BY <1>3, <1>6, <1>9, <2>1, <2>2, Appended DEF Event
  <2> QED
    BY <1>4, <1>6, <2>3

LEMMA TailOf ==
  ASSUME NEW s \in Seq(Nat), s # <<>>
  PROVE  /\ Len(Tail(s)) = Len(s) - 1
         /\ \A i \in 1 .. Len(Tail(s)) :
              i + 1 \in 1 .. Len(s) /\ Tail(s)[i] = s[i + 1] /\ Tail(s)[i] \in Nat
  OBVIOUS

(* The first unread event is taken: the others come after it.                *)
LEMMA HeadTaken ==
  ASSUME NEW m, NEW low \in Nat, NEW high \in Nat, NEW songs \in SUBSET Nat, NEW now \in Nat,
         Sound(m, low, high, songs, now), ~m.shut, m.queue # <<>>, low <= high
  PROVE  /\ Head(m.queue) \in Nat
         /\ Head(m.queue) # Refusal =>
              /\ low <= Head(m.queue) /\ Head(m.queue) <= high
              /\ Head(m.queue) \in songs => Head(m.queue) <= now
         /\ Sound([m EXCEPT !.queue = Tail(@)],
                  IF Head(m.queue) = Refusal THEN low ELSE Head(m.queue), high, songs, now)
<1>1. m \in Mail /\ InOrder(m, low, high, songs, now)
  BY DEF Sound
<1>2. PICK m2 : m2 = [m EXCEPT !.queue = Tail(@)]
  OBVIOUS
<1>3. PICK event : event = Head(m.queue)
  OBVIOUS
<1>4. Tail(m.queue) \in Seq(Event)
  BY <1>1 DEF Mail, Event
<1>5. m2 \in Mail /\ ~m2.shut /\ m2.held = m.held /\ m2.queue = Tail(m.queue)
  BY <1>1, <1>2, <1>4 DEF Mail
<1>6. /\ Len(m.queue) \in Nat /\ Len(m.queue) >= 1 /\ event = m.queue[1] /\ event \in Nat
      /\ Len(m2.queue) = Len(m.queue) - 1
      /\ \A i \in 1 .. Len(m2.queue) :
           i + 1 \in 1 .. Len(m.queue) /\ m2.queue[i] = m.queue[i + 1] /\ m2.queue[i] \in Nat
  <2>1. m.queue \in Seq(Nat)
    BY <1>1 DEF Mail, Event
  <2>2. Len(m.queue) \in Nat /\ Len(m.queue) >= 1 /\ event = m.queue[1] /\ event \in Nat
    BY <1>3, <2>1
  <2> QED
    BY <1>5, <2>1, <2>2, TailOf
<1>7. event # Refusal =>
        /\ low <= event /\ event <= high
        /\ event \in songs => event <= now
  BY <1>1, <1>6 DEF InOrder
<1>8. \A i \in 1 .. Len(m2.queue) : m2.queue[i] # Refusal => event <= m2.queue[i]
  <2>1. SUFFICES ASSUME NEW i \in 1 .. Len(m2.queue), m2.queue[i] # Refusal
                 PROVE  event <= m2.queue[i]
    OBVIOUS
  <2>2. PICK j \in 1 .. Len(m.queue) : j = i + 1 /\ 1 < j /\ m2.queue[i] = m.queue[j]
    BY <1>6
  <2>3. 1 \in 1 .. Len(m.queue)
    BY <1>6
  <2> QED
    BY <1>1, <1>6, <2>1, <2>2, <2>3 DEF InOrder
<1>9. m.held # NoTitle => event <= m.held
  BY <1>1, <1>6 DEF InOrder
<1>10. PICK low2 \in Nat : low2 = IF event = Refusal THEN low ELSE event
  BY <1>6
<1>11. InOrder(m2, low2, high, songs, now)
  <2>1. \A i \in 1 .. Len(m2.queue) : m2.queue[i] # Refusal =>
         /\ low2 <= m2.queue[i] /\ m2.queue[i] <= high
         /\ m2.queue[i] \in songs => m2.queue[i] <= now
    BY <1>1, <1>6, <1>8, <1>10 DEF InOrder
  <2>2. \A i, j \in 1 .. Len(m2.queue) :
         i < j /\ m2.queue[j] # Refusal => m2.queue[i] <= m2.queue[j]
    <3>1. SUFFICES ASSUME NEW i \in 1 .. Len(m2.queue), NEW j \in 1 .. Len(m2.queue),
                          i < j, m2.queue[j] # Refusal
                   PROVE  m2.queue[i] <= m2.queue[j]
      OBVIOUS
    <3>2. PICK k \in 1 .. Len(m.queue) : k = i + 1 /\ m2.queue[i] = m.queue[k]
      BY <1>6
    <3>3. PICK l \in 1 .. Len(m.queue) : l = j + 1 /\ m2.queue[j] = m.queue[l]
      BY <1>6
    <3>4. k < l
      BY <3>1, <3>2, <3>3
    <3> QED
      BY <1>1, <3>1, <3>2, <3>3, <3>4 DEF InOrder
  <2>3. m2.held # NoTitle =>
         /\ low2 <= m2.held /\ m2.held <= high
         /\ \A i \in 1 .. Len(m2.queue) : m2.queue[i] <= m2.held
    BY <1>1, <1>5, <1>6, <1>9, <1>10 DEF InOrder
  <2> QED
    BY <2>1, <2>2, <2>3 DEF InOrder
<1>12. Sound(m2, low2, high, songs, now)
  BY <1>5, <1>11 DEF Sound, ShutIsEmpty
<1> QED
  BY <1>2, <1>3, <1>6, <1>7, <1>10, <1>12

(* Nothing else is unread, and the waiting title is due.                     *)
LEMMA HeldTaken ==
  ASSUME NEW m, NEW low \in Nat, NEW high \in Nat, NEW songs \in SUBSET Nat,
         Sound(m, low, high, songs, due), due \in Nat, m.queue = <<>>, IsDue(m.held)
  PROVE  /\ m.held \in Nat /\ m.held # Refusal
         /\ low <= m.held /\ m.held <= high /\ m.held <= due
         /\ Sound([m EXCEPT !.held = NoTitle], m.held, high, songs, due)
<1>1. m \in Mail /\ InOrder(m, low, high, songs, due) /\ ShutIsEmpty(m)
  BY DEF Sound
<1>2. PICK m2 : m2 = [m EXCEPT !.held = NoTitle]
  OBVIOUS
<1>3. /\ m2 \in Mail /\ m2.shut = m.shut /\ m2.held = NoTitle /\ m2.queue = <<>>
  BY <1>1, <1>2 DEF Mail, NoTitle, Event
<1>4. /\ m.held \in Nat /\ m.held # Refusal
      /\ low <= m.held /\ m.held <= high /\ m.held <= due
  BY <1>1 DEF InOrder, Mail, Event, IsDue, NoTitle, Refusal
<1>5. Sound(m2, m.held, high, songs, due)
  BY <1>3, <1>4 DEF Sound, InOrder, ShutIsEmpty
<1> QED
  BY <1>2, <1>4, <1>5

-----------------------------------------------------------------------------
(* The invariant.                                                            *)

Numbers ==
  /\ titles \subseteq 1 .. made
  /\ due <= made
  /\ \A c \in Channels : current[c] <= made

MailSound ==
  \A r \in Readers :
    shown[r] <= made /\ Sound(mail[r], shown[r], made, titles, due)

\* A sleep that ran out was for a title that is due.
SleepsDue == \A r \in Readers : read[r].slept => read[r].held <= due

\* Until it is opened a subscription has nothing.
Unopened ==
  \A r \in Readers :
    IF read[r].at = "none" THEN on[r] = None /\ mail[r] = Empty /\ shown[r] = 0
                           ELSE on[r] \in Channels

Inv ==
  /\ TypeOK /\ Numbers /\ MailSound /\ SleepsDue /\ Unopened
  /\ CountsOpenPages /\ KeptWhileUsed /\ UnreadBounded

-----------------------------------------------------------------------------
(* A read takes what may be told, or waits.                                  *)

\* What a step of r's read, which found the mailbox m, may do.
ReadDoes(r, m) ==
  /\ mail' \in [Readers -> Mail] /\ shown' \in [Readers -> Event] /\ read' \in [Readers -> Wait]
  /\ \A q \in Readers \ {r} : mail'[q] = mail[q] /\ shown'[q] = shown[q] /\ read'[q] = read[q]
  /\ Sound(mail'[r], shown'[r], made, titles, due)
  /\ shown[r] <= shown'[r] /\ shown'[r] <= made
  /\ shown'[r] # shown[r] /\ shown'[r] \in titles => shown'[r] <= due
  /\ ~read'[r].slept /\ read'[r].at # "none"
  /\ mail'[r].shut = m.shut /\ Backlog(mail'[r]) <= Backlog(m)

LEMMA AtWait ==
  /\ At("away") \in Wait /\ ~At("away").slept /\ At("away").at = "away"
  /\ \A event \in Nat :
       /\ [At("waiting") EXCEPT !.held = event] \in Wait
       /\ ~[At("waiting") EXCEPT !.held = event].slept
       /\ [At("waiting") EXCEPT !.held = event].at = "waiting"
  BY DEF At, Wait, Reads, Event, NoTitle

LEMMA BacklogFalls ==
  ASSUME NEW m \in Mail
  PROVE  /\ Backlog(m) \in Nat
         /\ m.queue # <<>> => Backlog([m EXCEPT !.queue = Tail(@)]) <= Backlog(m)
         /\ Backlog([m EXCEPT !.held = NoTitle]) <= Backlog(m)
<1>1. m.queue \in Seq(Nat) /\ Len(m.queue) \in Nat /\ m.held \in Nat
  BY DEF Mail, Event
<1>2. Backlog(m) \in Nat
  <2>1. CASE m.held = NoTitle
    BY <1>1, <2>1 DEF Backlog
  <2>2. CASE m.held # NoTitle
    BY <1>1, <2>2 DEF Backlog
  <2> QED
    BY <2>1, <2>2
<1>3. ASSUME m.queue # <<>>
      PROVE  Backlog([m EXCEPT !.queue = Tail(@)]) <= Backlog(m)
  <2>1. Tail(m.queue) \in Seq(Nat) /\ Len(Tail(m.queue)) <= Len(m.queue) /\ Len(Tail(m.queue)) \in Nat
    BY <1>1, <1>3
  <2>2. PICK m2 : m2 = [m EXCEPT !.queue = Tail(@)]
    OBVIOUS
  <2>3. m2.queue = Tail(m.queue) /\ m2.held = m.held
    BY <2>1, <2>2 DEF Mail, Event
  <2>4. Len(m2.queue) <= Len(m.queue) /\ Len(m2.queue) \in Nat
    BY <2>1, <2>3
  <2> QED
    BY <1>1, <2>2, <2>3, <2>4 DEF Backlog
<1>4. Backlog([m EXCEPT !.held = NoTitle]) <= Backlog(m)
  <2>1. PICK m2 : m2 = [m EXCEPT !.held = NoTitle]
    OBVIOUS
  <2>2. m2.queue = m.queue /\ m2.held = NoTitle
    BY <2>1 DEF Mail, NoTitle, Event
  <2> QED
    <3>1. Backlog(m2) = Len(m.queue)
      BY <1>1, <2>2 DEF Backlog
    <3>2. Backlog(m) >= Len(m.queue)
      <4>1. CASE m.held = NoTitle
        BY <1>1, <4>1 DEF Backlog
      <4>2. CASE m.held # NoTitle
        BY <1>1, <4>2 DEF Backlog
      <4> QED
        BY <4>1, <4>2
    <3> QED
      BY <2>1, <3>1, <3>2
<1> QED
  BY <1>2, <1>3, <1>4

LEMMA TakesOrWaits ==
  ASSUME TypeOK, MailSound, NEW r \in Readers, NEW m,
         Sound(m, shown[r], made, titles, due), TakeOrWait(r, m)
  PROVE  ReadDoes(r, m)
<1>1. /\ m \in Mail /\ shown[r] \in Nat /\ shown[r] <= made /\ made \in Nat
      /\ titles \in SUBSET Nat /\ due \in Nat
      /\ mail \in [Readers -> Mail] /\ read \in [Readers -> Wait]
      /\ shown \in [Readers -> Event]
  BY DEF Sound, TypeOK, MailSound, Mail, Event
<1>2. CASE m.shut
  <2>1. /\ mail' = [mail EXCEPT ![r] = m] /\ read' = [read EXCEPT ![r] = At("away")]
        /\ shown' = shown
    BY <1>2 DEF TakeOrWait
  <2> QED
    <3>1. /\ mail'[r] = m /\ read'[r] = At("away") /\ shown'[r] = shown[r]
          /\ mail' \in [Readers -> Mail] /\ read' \in [Readers -> Wait]
          /\ \A q \in Readers \ {r} : mail'[q] = mail[q] /\ shown'[q] = shown[q] /\ read'[q] = read[q]
      BY <1>1, <2>1, AtWait
    <3>2. Backlog(m) \in Nat
      BY <1>1, BacklogFalls
    <3> QED
      BY <1>1, <2>1, <3>1, <3>2, AtWait DEF ReadDoes
<1>3. CASE ~m.shut /\ m.queue # <<>>
  <2>1. Give(r, [m EXCEPT !.queue = Tail(@)], Head(m.queue))
    BY <1>3 DEF TakeOrWait
  <2>2. PICK m2 : m2 = [m EXCEPT !.queue = Tail(@)]
    OBVIOUS
  <2>3. PICK event : event = Head(m.queue)
    OBVIOUS
  <2>4. /\ event \in Nat
        /\ event # Refusal =>
             /\ shown[r] <= event /\ event <= made
             /\ event \in titles => event <= due
        /\ Sound(m2, IF event = Refusal THEN shown[r] ELSE event, made, titles, due)
    BY <1>1, <1>3, <2>2, <2>3, HeadTaken
  <2>5. m2 \in Mail /\ m2.shut = m.shut /\ Backlog(m2) <= Backlog(m)
    BY <1>1, <1>3, <2>2, <2>4, BacklogFalls DEF Sound, Mail
  <2>6. /\ mail' = [mail EXCEPT ![r] = m2] /\ read' = [read EXCEPT ![r] = At("away")]
        /\ shown' = [shown EXCEPT ![r] = IF event = Refusal THEN @ ELSE event]
    BY <2>1, <2>2, <2>3 DEF Give
  <2>7. shown'[r] = IF event = Refusal THEN shown[r] ELSE event
    BY <1>1, <2>6
  <2>8. Sound(mail'[r], shown'[r], made, titles, due)
    BY <1>1, <2>4, <2>6, <2>7
  <2> QED
    BY <1>1, <2>4, <2>5, <2>6, <2>7, <2>8, AtWait DEF ReadDoes, Event, Refusal
<1>4. CASE ~m.shut /\ m.queue = <<>> /\ IsDue(m.held)
  <2>1. Give(r, [m EXCEPT !.held = NoTitle], m.held)
    BY <1>4 DEF TakeOrWait
  <2>2. PICK m2 : m2 = [m EXCEPT !.held = NoTitle]
    OBVIOUS
  <2>3. /\ m.held \in Nat /\ m.held # Refusal
        /\ shown[r] <= m.held /\ m.held <= made /\ m.held <= due
        /\ Sound(m2, m.held, made, titles, due)
    BY <1>1, <1>4, <2>2, HeldTaken
  <2>4. m2 \in Mail /\ m2.shut = m.shut /\ Backlog(m2) <= Backlog(m)
    BY <1>1, <2>2, <2>3, BacklogFalls DEF Sound, Mail
  <2>5. /\ mail' = [mail EXCEPT ![r] = m2] /\ read' = [read EXCEPT ![r] = At("away")]
        /\ shown' = [shown EXCEPT ![r] = m.held]
    BY <2>1, <2>2, <2>3 DEF Give
  <2> QED
    BY <1>1, <2>3, <2>4, <2>5, AtWait DEF ReadDoes, Event
<1>5. CASE ~m.shut /\ m.queue = <<>> /\ ~IsDue(m.held)
  <2>1. /\ mail' = [mail EXCEPT ![r] = m]
        /\ read' = [read EXCEPT ![r] = [At("waiting") EXCEPT !.held = m.held]]
        /\ shown' = shown
    BY <1>5 DEF TakeOrWait
  <2>2. m.held \in Nat
    BY <1>1 DEF Mail, Event
  <2>3. PICK wait : wait = [At("waiting") EXCEPT !.held = m.held]
    OBVIOUS
  <2>4. wait \in Wait /\ ~wait.slept /\ wait.at = "waiting"
    BY <2>2, <2>3, AtWait
  <2>5. read' = [read EXCEPT ![r] = wait]
    BY <2>1, <2>3
  <2> QED
    <3>1. /\ mail'[r] = m /\ read'[r] = wait /\ shown'[r] = shown[r]
          /\ mail' \in [Readers -> Mail] /\ read' \in [Readers -> Wait]
          /\ \A q \in Readers \ {r} : mail'[q] = mail[q] /\ shown'[q] = shown[q] /\ read'[q] = read[q]
      BY <1>1, <2>1, <2>4, <2>5
    <3>2. Backlog(m) \in Nat
      BY <1>1, BacklogFalls
    <3> QED
      <4>1. Sound(mail'[r], shown'[r], made, titles, due)
        BY <3>1
      <4>2. ~read'[r].slept /\ read'[r].at # "none" /\ shown' \in [Readers -> Event]
        BY <1>1, <2>1, <2>4, <3>1
      <4>3. mail'[r].shut = m.shut /\ Backlog(mail'[r]) <= Backlog(m)
        BY <3>1, <3>2
      <4>4. shown[r] <= shown'[r] /\ shown'[r] <= made /\ shown'[r] = shown[r]
        BY <1>1, <3>1
      <4> QED
        BY <3>1, <4>1, <4>2, <4>3, <4>4 DEF ReadDoes
<1> QED
  BY <1>2, <1>3, <1>4, <1>5

(* What a sleep that ran out leaves: the title slept for, if it still waits, *)
(* is told like one that is replaced when it is due.                         *)
LEMMA SettledSound ==
  ASSUME TypeOK, MailSound, SleepsDue, NEW r \in Readers
  PROVE  /\ Sound(Settled(r), shown[r], made, titles, due)
         /\ Settled(r).shut = mail[r].shut
         /\ Backlog(Settled(r)) <= Backlog(mail[r])
<1>1. /\ mail[r] \in Mail /\ shown[r] \in Nat /\ made \in Nat
      /\ titles \in SUBSET Nat /\ due \in Nat
      /\ Sound(mail[r], shown[r], made, titles, due) /\ ShutIsEmpty(mail[r])
  BY DEF Sound, TypeOK, MailSound, Mail, Event
<1>2. CASE SleptFor(r) /\ read[r].held # NoTitle
  <2>1. /\ read[r].held = mail[r].held /\ IsDue(mail[r].held) /\ ~mail[r].shut
    BY <1>1, <1>2 DEF SleptFor, SleepsDue, IsDue, ShutIsEmpty
  <2>2. PICK m : m = mail[r]
    OBVIOUS
  <2>3. Settled(r) = [m EXCEPT !.queue = Append(@, m.held), !.held = NoTitle]
    BY <1>2, <2>1, <2>2 DEF Settled
  <2>4. ReplaceTitle(m, NoTitle) = [m EXCEPT !.queue = Append(@, m.held), !.held = NoTitle]
    BY <2>1, <2>2 DEF ReplaceTitle
  <2>5. Sound(Settled(r), shown[r], made, titles, due) /\ ~Settled(r).shut
    BY <1>1, <2>1, <2>2, <2>3, <2>4, TitleGone
  <2>6. PICK m2 : m2 = Settled(r)
    OBVIOUS
  <2>7. Append(m.queue, m.held) \in Seq(Event) /\ m \in Mail
    BY <1>1, <2>2 DEF Mail
  <2>8. m2.queue = Append(m.queue, m.held) /\ m2.held = NoTitle
    BY <2>3, <2>6, <2>7 DEF Mail, NoTitle, Event
  <2>9. Len(m.queue) \in Nat /\ Len(m2.queue) = Len(m.queue) + 1
    BY <2>7, <2>8 DEF Mail
  <2>10. Backlog(m2) <= Backlog(m)
    BY <1>2, <2>1, <2>2, <2>8, <2>9 DEF Backlog
  <2>11. Settled(r).shut = mail[r].shut
    BY <1>1, <2>1, <2>2, <2>3, <2>7 DEF Mail
  <2>12. Backlog(Settled(r)) <= Backlog(mail[r])
    BY <2>2, <2>6, <2>10
  <2> QED
    BY <2>5, <2>11, <2>12
<1>3. CASE ~(SleptFor(r) /\ read[r].held # NoTitle)
  <2>1. Settled(r) = mail[r]
    BY <1>3 DEF Settled
  <2> QED
    <3>1. Backlog(mail[r]) \in Nat
      BY <1>1, BacklogFalls
    <3> QED
      BY <1>1, <2>1, <3>1
<1> QED
  BY <1>2, <1>3

-----------------------------------------------------------------------------
(* The feed tells the pages of a channel.                                    *)

(* More events are made: what was unread keeps its order.                    *)
LEMMA Grown ==
  ASSUME NEW m, NEW low \in Nat, NEW high \in Nat, NEW songs \in SUBSET (1 .. high), NEW now \in Nat,
         NEW high2 \in Nat, high <= high2, NEW songs2 \in SUBSET Nat,
         \A i \in 1 .. high : i \in songs2 => i \in songs,
         Sound(m, low, high, songs, now)
  PROVE  Sound(m, low, high2, songs2, now)
<1>1. m \in Mail /\ ShutIsEmpty(m) /\ InOrder(m, low, high, songs, now)
  BY DEF Sound
<1>2. \A i \in 1 .. Len(m.queue) : m.queue[i] \in Nat
  BY <1>1 DEF Mail, Event
<1>3. InOrder(m, low, high2, songs2, now)
  BY <1>1, <1>2 DEF InOrder, Mail, Event, Refusal
<1> QED
  BY <1>1, <1>3 DEF Sound

\* What Tell does with the mailboxes it made of c's.
TellDoes(c, told) ==
  /\ mail' \in [Readers -> Mail]
  /\ boxes' \in [Channels -> SUBSET Readers] /\ boxes'[c] \subseteq boxes[c]
  /\ \A d \in Channels \ {c} : boxes'[d] = boxes[d]
  /\ \A r \in boxes'[c] : mail'[r] = told[r] /\ ~TooFarBehind(told[r])
  /\ \A r \in boxes[c] \ boxes'[c] : mail'[r] = Shut(told[r])
  /\ \A r \in Readers \ boxes[c] : mail'[r] = mail[r]
  /\ count' = count - Cardinality(boxes[c] \ boxes'[c])
  /\ read' \in [Readers -> Wait]
  /\ \A r \in Readers :
       read'[r].at = read[r].at /\ read'[r].held = read[r].held /\ read'[r].slept = read[r].slept

LEMMA WokenReads ==
  ASSUME read \in [Readers -> Wait], NEW readers
  PROVE  /\ Woken(readers) \in [Readers -> Wait]
         /\ \A r \in Readers :
              /\ Woken(readers)[r].at = read[r].at
              /\ Woken(readers)[r].held = read[r].held
              /\ Woken(readers)[r].slept = read[r].slept
  BY DEF Woken, Wait

LEMMA ShutMail ==
  \A m : Shut(m) \in Mail /\ Shut(m).shut
  BY DEF Shut, Mail, Event, NoTitle

LEMMA Tells ==
  ASSUME TypeOK, NEW c \in Channels, NEW playing, NEW told, Tell(c, playing, told),
         \A r \in boxes[c] : told[r] \in Mail
  PROVE  TellDoes(c, told) /\ known' = KnownAfter(c, playing, boxes'[c])
<1>1. PICK dropped : dropped = {r \in boxes[c] : TooFarBehind(told[r])}
  OBVIOUS
<1>2. /\ mail' = [r \in Readers |-> CASE r \in dropped -> Shut(told[r])
                                      [] r \in boxes[c] \ dropped -> told[r]
                                      [] OTHER -> mail[r]]
      /\ boxes' = [boxes EXCEPT ![c] = @ \ dropped]
      /\ count' = count - Cardinality(dropped)
      /\ read' = Woken(boxes[c])
      /\ known' = KnownAfter(c, playing, boxes[c] \ dropped)
  BY <1>1 DEF Tell
<1>3. /\ boxes[c] \subseteq Readers /\ dropped \subseteq boxes[c]
      /\ boxes' \in [Channels -> SUBSET Readers] /\ boxes'[c] = boxes[c] \ dropped
      /\ boxes[c] \ boxes'[c] = dropped
      /\ \A d \in Channels \ {c} : boxes'[d] = boxes[d]
  BY <1>1, <1>2 DEF TypeOK
<1>4. /\ \A r \in dropped : mail'[r] = Shut(told[r])
      /\ \A r \in boxes[c] \ dropped : mail'[r] = told[r]
      /\ \A r \in Readers \ boxes[c] : mail'[r] = mail[r]
      /\ mail' = [r \in Readers |-> mail'[r]]
  BY <1>2, <1>3
<1>5. mail' \in [Readers -> Mail]
  <2>1. mail \in [Readers -> Mail]
    BY DEF TypeOK, Mail
  <2>2. ASSUME NEW r \in Readers
        PROVE  mail'[r] \in Mail
    <3>1. CASE r \in dropped
      BY <1>4, <3>1, ShutMail
    <3>2. CASE r \in boxes[c] \ dropped
      BY <1>4, <3>2
    <3>3. CASE r \notin boxes[c]
      BY <1>4, <2>1, <3>3
    <3> QED
      BY <1>3, <3>1, <3>2, <3>3
  <2> QED
    BY <1>4, <2>2
<1>6. /\ read' \in [Readers -> Wait]
      /\ \A r \in Readers :
           read'[r].at = read[r].at /\ read'[r].held = read[r].held /\ read'[r].slept = read[r].slept
  BY <1>2, WokenReads DEF TypeOK
<1>7. \A r \in boxes'[c] : ~TooFarBehind(told[r])
  BY <1>1, <1>3
<1> QED
  BY <1>2, <1>3, <1>4, <1>5, <1>6, <1>7 DEF TellDoes

\* The subscriptions that are open.
Open == {r \in Readers : on[r] # None /\ ~mail[r].shut}

LEMMA OpenIsUnion ==
  ASSUME on \in [Readers -> Channels \cup {None}]
  PROVE  UNION {OpenPages(c) : c \in Channels} = Open
  BY NoneAssumption DEF Open, OpenPages

(* A page is on one channel: what leaves or joins its list leaves or joins all. *)
LEMMA ToldAreCounted ==
  ASSUME TypeOK, CountsOpenPages, NEW c \in Channels, NEW told, TellDoes(c, told), on' = on,
         \A r \in boxes[c] : ~told[r].shut
  PROVE  CountsOpenPages'
<1>1. /\ boxes[c] \subseteq Readers /\ on \in [Readers -> Channels \cup {None}]
      /\ boxes \in [Channels -> SUBSET Readers]
      /\ boxes' \in [Channels -> SUBSET Readers] /\ boxes'[c] \subseteq boxes[c]
      /\ \A d \in Channels : boxes[d] = OpenPages(d)
      /\ \A d \in Channels \ {c} : boxes'[d] = boxes[d]
  BY DEF TypeOK, CountsOpenPages, TellDoes
<1>2. \A r \in Readers : ~mail'[r].shut <=> ~mail[r].shut /\ r \notin boxes[c] \ boxes'[c]
  <2>1. SUFFICES ASSUME NEW r \in Readers
                 PROVE  ~mail'[r].shut <=> ~mail[r].shut /\ r \notin boxes[c] \ boxes'[c]
    OBVIOUS
  <2>2. CASE r \in boxes'[c]
    BY <1>1, <2>2 DEF TellDoes, OpenPages
  <2>3. CASE r \in boxes[c] \ boxes'[c]
    BY <2>3, ShutMail DEF TellDoes
  <2>4. CASE r \notin boxes[c]
    BY <2>4 DEF TellDoes
  <2> QED
    BY <2>2, <2>3, <2>4
<1>3. \A d \in Channels : boxes'[d] = OpenPages(d)'
  BY <1>1, <1>2 DEF OpenPages
<1>4. PICK gone : gone = boxes[c] \ boxes'[c]
  OBVIOUS
<1>5. Open' = Open \ gone /\ gone \subseteq Open
  BY <1>1, <1>2, <1>4, NoneAssumption DEF Open, OpenPages
<1>6. /\ IsFiniteSet(Open) /\ Cardinality(Open) \in Nat
      /\ Cardinality(Open \ gone) = Cardinality(Open) - Cardinality(gone)
      /\ IsFiniteSet(gone) /\ Cardinality(gone) \in Nat
  <2>1. IsFiniteSet(Open) /\ Cardinality(Open) \in Nat
    BY ReadersAssumption, FS_Subset, FS_CardinalityType DEF Open
  <2>2. IsFiniteSet(gone) /\ Cardinality(gone) \in Nat
    BY <1>5, <2>1, FS_Subset, FS_CardinalityType
  <2>3. Open \cap gone = gone
    BY <1>5
  <2> QED
    BY <2>1, <2>2, <2>3, FS_Difference
<1>7. count = Cardinality(Open) /\ count' = count - Cardinality(gone) /\ count <= Limit
  BY <1>1, <1>4, OpenIsUnion DEF CountsOpenPages, TellDoes
<1>8. count' = Cardinality(Open') /\ count' <= Limit
  BY <1>5, <1>6, <1>7, BoundsAssumption
<1>9. (UNION {OpenPages(d) : d \in Channels})' = Open'
  BY <1>1, NoneAssumption DEF Open, OpenPages
<1> QED
  BY <1>3, <1>8, <1>9 DEF CountsOpenPages

LEMMA ToldKeeps ==
  ASSUME Inv, NEW c \in Channels, NEW told, TellDoes(c, told),
         on' = on, shown' = shown, due' = due,
         made' \in Nat, made <= made', titles' \subseteq 1 .. made',
         \A i \in 1 .. made : i \in titles' => i \in titles,
         \A r \in boxes[c] : ~told[r].shut /\ Sound(told[r], shown[r], made', titles', due)
  PROVE  MailSound' /\ SleepsDue' /\ Unopened' /\ CountsOpenPages' /\ UnreadBounded'
<1>1. /\ boxes[c] \subseteq Readers /\ made \in Nat /\ due \in Nat /\ titles \in SUBSET (1 .. made)
      /\ shown \in [Readers -> Nat] /\ titles' \in SUBSET Nat
      /\ boxes[c] = OpenPages(c)
  BY DEF Inv, TypeOK, Numbers, Event, CountsOpenPages
<1>2. /\ mail' \in [Readers -> Mail]
      /\ \A r \in boxes'[c] : mail'[r] = told[r] /\ ~TooFarBehind(told[r])
      /\ \A r \in boxes[c] \ boxes'[c] : mail'[r] = Shut(told[r])
      /\ \A r \in Readers \ boxes[c] : mail'[r] = mail[r]
      /\ boxes'[c] \subseteq boxes[c]
  BY DEF TellDoes
<1>3. MailSound'
  <2>1. ASSUME NEW r \in Readers
        PROVE  shown'[r] <= made' /\ Sound(mail'[r], shown'[r], made', titles', due')
    <3>1. shown[r] \in Nat /\ shown[r] <= made /\ Sound(mail[r], shown[r], made, titles, due)
      BY <1>1 DEF Inv, MailSound
    <3>2. shown'[r] <= made'
      BY <1>1, <3>1
    <3>3. CASE r \in boxes'[c]
      BY <1>2, <3>2, <3>3
    <3>4. CASE r \in boxes[c] \ boxes'[c]
      BY <1>1, <1>2, <3>1, <3>2, <3>4, ShutSound
    <3>5. CASE r \notin boxes[c]
      BY <1>1, <1>2, <3>1, <3>2, <3>5, Grown
    <3> QED
      BY <3>3, <3>4, <3>5
  <2> QED
    BY <2>1 DEF MailSound
<1>4. SleepsDue'
  BY DEF Inv, SleepsDue, TellDoes
<1>5. Unopened'
  <2>1. \A r \in Readers : read[r].at = "none" => r \notin boxes[c]
    BY <1>1, NoneAssumption DEF Inv, Unopened, OpenPages
  <2> QED
    BY <1>2, <2>1 DEF Inv, Unopened, TellDoes
<1>6. CountsOpenPages'
  BY ToldAreCounted DEF Inv
<1>7. UnreadBounded'
  <2>1. ASSUME NEW r \in Readers
        PROVE  Backlog(mail'[r]) <= PendingLimit /\ (mail'[r].shut => Backlog(mail'[r]) = 0)
    <3>1. CASE r \in boxes'[c]
      <4>1. told[r] \in Mail /\ Backlog(told[r]) \in Nat /\ ~told[r].shut
        BY <1>2, <3>1, BacklogFalls
      <4> QED
        BY <1>2, <3>1, <4>1, BoundsAssumption DEF TooFarBehind
    <3>2. CASE r \in boxes[c] \ boxes'[c]
      <4>1. Backlog(Shut(told[r])) = 0
        BY <1>1, ShutSound
      <4> QED
        BY <1>2, <3>2, <4>1, BoundsAssumption
    <3>3. CASE r \notin boxes[c]
      BY <1>2, <3>3 DEF Inv, UnreadBounded
    <3> QED
      BY <3>1, <3>2, <3>3
  <2> QED
    BY <2>1 DEF UnreadBounded, Backlog
<1> QED
  BY <1>3, <1>4, <1>5, <1>6, <1>7

(* The prune decides by the streams and the pages that are left.             *)
LEMMA Pruned ==
  ASSUME Inv, NEW c \in Channels, NEW playing, NEW readers,
         known' = KnownAfter(c, playing, readers),
         playing = Playing(c)', readers = boxes'[c],
         \A d \in Channels \ {c} : boxes'[d] = boxes[d] /\ Playing(d)' = Playing(d)
  PROVE  KeptWhileUsed' /\ known' \subseteq Channels
<1>1. known \subseteq Channels
  BY DEF Inv, TypeOK
<1>2. ASSUME NEW d \in Channels
      PROVE  d \in known' <=> boxes'[d] # {} \/ Playing(d)' # {}
  <2>1. CASE d = c
    BY <2>1 DEF KnownAfter
  <2>2. CASE d # c
    BY <2>2 DEF KnownAfter, Inv, KeptWhileUsed
  <2> QED
    BY <2>1, <2>2
<1> QED
  BY <1>1, <1>2 DEF KeptWhileUsed, KnownAfter

-----------------------------------------------------------------------------
(* Each call of the feed keeps the invariant.                                *)

LEMMA Mailboxes ==
  ASSUME Inv, NEW c \in Channels
  PROVE  /\ boxes[c] \subseteq Readers
         /\ made \in Nat /\ due \in Nat /\ titles \in SUBSET (1 .. made)
         /\ \A r \in boxes[c] :
              /\ ~mail[r].shut /\ shown[r] \in Nat /\ shown[r] <= made
              /\ Sound(mail[r], shown[r], made, titles, due)
  BY DEF Inv, TypeOK, Numbers, MailSound, CountsOpenPages, OpenPages, Event

(* What the calls that tell a channel's pages have in common.                *)
LEMMA TellStep ==
  ASSUME Inv, NEW c \in Channels, NEW playing, NEW told, Tell(c, playing, told),
         playing = Playing(c)', \A d \in Channels \ {c} : Playing(d)' = Playing(d),
         on' = on, shown' = shown, due' = due,
         made' \in Nat, made <= made', titles' \subseteq 1 .. made',
         \A i \in 1 .. made : i \in titles' => i \in titles,
         streams' \in [Streams -> {"new", "playing", "over"}], opened' \in [Streams -> Nat],
         current' \in [Channels -> Nat], \A d \in Channels : current'[d] <= made',
         \A r \in boxes[c] : ~told[r].shut /\ Sound(told[r], shown[r], made', titles', due)
  PROVE  Inv'
<1>1. \A r \in boxes[c] : told[r] \in Mail
  BY DEF Sound
<1>2. TellDoes(c, told) /\ known' = KnownAfter(c, playing, boxes'[c])
  BY <1>1, Tells DEF Inv
<1>3. MailSound' /\ SleepsDue' /\ Unopened' /\ CountsOpenPages' /\ UnreadBounded'
  BY <1>2, ToldKeeps
<1>4. PICK readers : readers = boxes'[c]
  OBVIOUS
<1>5. \A d \in Channels \ {c} : boxes'[d] = boxes[d]
  BY <1>2 DEF TellDoes
<1>6. KeptWhileUsed' /\ known' \subseteq Channels
  BY <1>2, <1>4, <1>5, Pruned
<1>7. Numbers'
  BY DEF Inv, Numbers, TypeOK
<1>8. TypeOK'
  <2>1. /\ mail' \in [Readers -> [queue : Seq(Event), held : Event, shut : BOOLEAN]]
        /\ boxes' \in [Channels -> SUBSET Readers] /\ read' \in [Readers -> Wait]
    BY <1>2 DEF TellDoes, Mail
  <2>2. count' \in Int
    <3>1. boxes[c] \ boxes'[c] \subseteq Readers
      BY Mailboxes
    <3>2. PICK gone : gone = boxes[c] \ boxes'[c]
      OBVIOUS
    <3>3. Cardinality(gone) \in Nat
      BY <3>1, <3>2, ReadersAssumption, FS_Subset, FS_CardinalityType
    <3> QED
      BY <1>2, <3>2, <3>3 DEF TellDoes, Inv, TypeOK
  <2>3. /\ due' \in Nat /\ on' \in [Readers -> Channels \cup {None}]
        /\ shown' \in [Readers -> Event] /\ titles' \subseteq Nat
    BY DEF Inv, TypeOK
  <2> QED
    BY <1>6, <2>1, <2>2, <2>3 DEF TypeOK, Event
<1> QED
  BY <1>3, <1>6, <1>7, <1>8 DEF Inv

LEMMA OpenedKeeps ==
  ASSUME Inv, NEW s \in Streams, Opened(s)
  PROVE  Inv'
<1>1. PICK c \in Channels : c = ChannelOf[s]
  BY ChannelAssumption
<1>2. PICK told : told = [r \in boxes[c] |-> Supersede(mail[r], made + 1)]
  OBVIOUS
<1>3. PICK playing : playing = Playing(c) \cup {s}
  OBVIOUS
<1>4. /\ streams' = [streams EXCEPT ![s] = "playing"] /\ opened' = [opened EXCEPT ![s] = made + 1]
      /\ made' = made + 1 /\ titles' = titles /\ due' = due /\ on' = on /\ shown' = shown
      /\ current' = [current EXCEPT ![c] = NoTitle]
      /\ Tell(c, playing, told)
  BY <1>1, <1>2, <1>3 DEF Opened
<1>5. \A r \in boxes[c] : ~told[r].shut /\ Sound(told[r], shown[r], made', titles', due)
  <2>1. SUFFICES ASSUME NEW r \in boxes[c]
                 PROVE  ~told[r].shut /\ Sound(told[r], shown[r], made + 1, titles, due)
    BY <1>4
  <2>2. /\ ~mail[r].shut /\ shown[r] \in Nat /\ shown[r] <= made
        /\ Sound(mail[r], shown[r], made, titles, due)
        /\ made \in Nat /\ due \in Nat /\ titles \in SUBSET (1 .. made)
    BY Mailboxes
  <2>3. told[r] = Supersede(mail[r], made + 1)
    BY <1>2
  <2> QED
    BY <2>2, <2>3, StatusTold
<1>6. playing = Playing(c)' /\ \A d \in Channels \ {c} : Playing(d)' = Playing(d)
  BY <1>1, <1>3, <1>4 DEF Playing, Inv, TypeOK
<1>7. /\ made' \in Nat /\ made <= made' /\ titles' \subseteq 1 .. made'
      /\ \A i \in 1 .. made : i \in titles' => i \in titles
      /\ streams' \in [Streams -> {"new", "playing", "over"}] /\ opened' \in [Streams -> Nat]
      /\ current' \in [Channels -> Nat] /\ \A d \in Channels : current'[d] <= made'
  BY <1>4 DEF Inv, TypeOK, Numbers, Event, NoTitle
<1> QED
  BY <1>4, <1>5, <1>6, <1>7, TellStep

LEMMA RefusedKeeps ==
  ASSUME Inv, NEW c \in Channels, Refused(c)
  PROVE  Inv'
<1>1. PICK told : told = [r \in boxes[c] |-> TellStatus(mail[r], Refusal)]
  OBVIOUS
<1>2. PICK playing : playing = Playing(c)
  OBVIOUS
<1>3. /\ streams' = streams /\ opened' = opened /\ current' = current
      /\ made' = made /\ titles' = titles /\ due' = due /\ on' = on /\ shown' = shown
      /\ Tell(c, playing, told)
  BY <1>1, <1>2 DEF Refused, clock
<1>4. \A r \in boxes[c] : ~told[r].shut /\ Sound(told[r], shown[r], made', titles', due)
  <2>1. SUFFICES ASSUME NEW r \in boxes[c]
                 PROVE  ~told[r].shut /\ Sound(told[r], shown[r], made, titles, due)
    BY <1>3
  <2>2. /\ ~mail[r].shut /\ shown[r] \in Nat
        /\ Sound(mail[r], shown[r], made, titles, due)
        /\ made \in Nat /\ due \in Nat /\ titles \in SUBSET Nat
    BY Mailboxes
  <2>3. told[r] = TellStatus(mail[r], Refusal)
    BY <1>1
  <2> QED
    BY <2>2, <2>3, RefusalTold
<1>5. playing = Playing(c)' /\ \A d \in Channels \ {c} : Playing(d)' = Playing(d)
  BY <1>2, <1>3 DEF Playing
<1>6. /\ made' \in Nat /\ made <= made' /\ titles' \subseteq 1 .. made'
      /\ \A i \in 1 .. made : i \in titles' => i \in titles
      /\ streams' \in [Streams -> {"new", "playing", "over"}] /\ opened' \in [Streams -> Nat]
      /\ current' \in [Channels -> Nat] /\ \A d \in Channels : current'[d] <= made'
  BY <1>3 DEF Inv, TypeOK, Numbers, Event
<1> QED
  BY <1>3, <1>4, <1>5, <1>6, TellStep

LEMMA TitleKeeps ==
  ASSUME Inv, NEW s \in Streams, Title(s)
  PROVE  Inv'
<1>1. PICK c \in Channels : c = ChannelOf[s]
  BY ChannelAssumption
<1>2. PICK told : told = [r \in boxes[c] |-> ReplaceTitle(mail[r], made + 1)]
  OBVIOUS
<1>3. PICK playing : playing = Playing(c)
  OBVIOUS
<1>4. /\ streams' = streams /\ opened' = opened
      /\ made' = made + 1 /\ titles' = titles \cup {made + 1} /\ due' = due
      /\ on' = on /\ shown' = shown
      /\ current' = [current EXCEPT ![c] = made + 1]
      /\ Tell(c, playing, told)
  BY <1>1, <1>2, <1>3 DEF Title
<1>5. \A r \in boxes[c] : ~told[r].shut /\ Sound(told[r], shown[r], made', titles', due)
  <2>1. SUFFICES ASSUME NEW r \in boxes[c]
                 PROVE  /\ ~told[r].shut
                        /\ Sound(told[r], shown[r], made + 1, titles \cup {made + 1}, due)
    BY <1>4
  <2>2. /\ ~mail[r].shut /\ shown[r] \in Nat /\ shown[r] <= made
        /\ Sound(mail[r], shown[r], made, titles, due)
        /\ made \in Nat /\ due \in Nat /\ titles \in SUBSET (1 .. made)
    BY Mailboxes
  <2>3. told[r] = ReplaceTitle(mail[r], made + 1)
    BY <1>2
  <2> QED
    BY <2>2, <2>3, TitleWaits
<1>6. playing = Playing(c)' /\ \A d \in Channels \ {c} : Playing(d)' = Playing(d)
  BY <1>3, <1>4 DEF Playing
<1>7. /\ made' \in Nat /\ made <= made' /\ titles' \subseteq 1 .. made'
      /\ \A i \in 1 .. made : i \in titles' => i \in titles
      /\ streams' \in [Streams -> {"new", "playing", "over"}] /\ opened' \in [Streams -> Nat]
      /\ current' \in [Channels -> Nat] /\ \A d \in Channels : current'[d] <= made'
  BY <1>4 DEF Inv, TypeOK, Numbers, Event
<1> QED
  BY <1>4, <1>5, <1>6, <1>7, TellStep

(* The owner's end is told like an opening; an older stream's end only prunes. *)
LEMMA EndedKeeps ==
  ASSUME Inv, NEW s \in Streams, Ended(s)
  PROVE  Inv'
<1>1. PICK c \in Channels : c = ChannelOf[s]
  BY ChannelAssumption
<1>2. PICK playing : playing = Playing(c) \ {s}
  OBVIOUS
<1>3. /\ streams' = [streams EXCEPT ![s] = "over"] /\ opened' = opened
      /\ titles' = titles /\ due' = due /\ on' = on /\ shown' = shown
  BY DEF Ended
<1>4. playing = Playing(c)' /\ \A d \in Channels \ {c} : Playing(d)' = Playing(d)
  BY <1>1, <1>2, <1>3 DEF Playing, Inv, TypeOK
<1>5. CASE Owns(s)
  <2>1. PICK told : told = [r \in boxes[c] |-> Supersede(mail[r], made + 1)]
    OBVIOUS
  <2>2. /\ made' = made + 1 /\ current' = [current EXCEPT ![c] = NoTitle]
        /\ Tell(c, playing, told)
    BY <1>1, <1>2, <1>5, <2>1 DEF Ended
  <2>3. \A r \in boxes[c] : ~told[r].shut /\ Sound(told[r], shown[r], made', titles', due)
    <3>1. SUFFICES ASSUME NEW r \in boxes[c]
                   PROVE  ~told[r].shut /\ Sound(told[r], shown[r], made + 1, titles, due)
      BY <1>3, <2>2
    <3>2. /\ ~mail[r].shut /\ shown[r] \in Nat /\ shown[r] <= made
          /\ Sound(mail[r], shown[r], made, titles, due)
          /\ made \in Nat /\ due \in Nat /\ titles \in SUBSET (1 .. made)
      BY Mailboxes
    <3>3. told[r] = Supersede(mail[r], made + 1)
      BY <2>1
    <3> QED
      BY <3>2, <3>3, StatusTold
  <2>4. /\ made' \in Nat /\ made <= made' /\ titles' \subseteq 1 .. made'
        /\ \A i \in 1 .. made : i \in titles' => i \in titles
        /\ streams' \in [Streams -> {"new", "playing", "over"}] /\ opened' \in [Streams -> Nat]
        /\ current' \in [Channels -> Nat] /\ \A d \in Channels : current'[d] <= made'
    BY <1>3, <2>2 DEF Inv, TypeOK, Numbers, Event, NoTitle
  <2> QED
    BY <1>3, <1>4, <2>2, <2>3, <2>4, TellStep
<1>6. CASE ~Owns(s)
  <2>1. /\ made' = made /\ current' = current /\ mail' = mail /\ boxes' = boxes
        /\ count' = count /\ read' = read /\ known' = KnownAfter(c, playing, boxes[c])
    BY <1>1, <1>2, <1>6 DEF Ended
  <2>2. PICK readers : readers = boxes[c]
    OBVIOUS
  <2>3. KeptWhileUsed' /\ known' \subseteq Channels
    BY <1>4, <2>1, <2>2, Pruned
  <2>4. TypeOK'
    BY <1>3, <2>1, <2>3 DEF Inv, TypeOK
  <2> QED
    BY <1>3, <2>1, <2>3, <2>4
       DEF Inv, Numbers, MailSound, SleepsDue, Unopened, CountsOpenPages, OpenPages, UnreadBounded
<1> QED
  BY <1>5, <1>6

LEMMA SubscribeKeeps ==
  ASSUME Inv, NEW r \in Readers, NEW c \in Channels, Subscribe(r, c)
  PROVE  Inv'
<1>1. PICK m : m = [Empty EXCEPT !.held = current[c]]
  OBVIOUS
<1>2. PICK wait : wait = At("away")
  OBVIOUS
<1>3. /\ read[r].at = "none" /\ count < Limit
      /\ on' = [on EXCEPT ![r] = c] /\ mail' = [mail EXCEPT ![r] = m]
      /\ boxes' = [boxes EXCEPT ![c] = @ \cup {r}] /\ known' = known \cup {c}
      /\ count' = count + 1 /\ read' = [read EXCEPT ![r] = wait]
      /\ streams' = streams /\ opened' = opened /\ current' = current
      /\ made' = made /\ titles' = titles /\ due' = due /\ shown' = shown
  BY <1>1, <1>2 DEF Subscribe, clock
<1>4. wait \in Wait /\ wait.at = "away" /\ ~wait.slept
  BY <1>2, AtWait
<1>5. /\ m \in Mail /\ m.queue = <<>> /\ m.held = current[c] /\ ~m.shut
      /\ m.held \in Nat /\ m.held <= made
  <2>1. current[c] \in Nat /\ current[c] <= made
    BY DEF Inv, TypeOK, Numbers, Event
  <2>2. m = [queue |-> <<>>, held |-> current[c], shut |-> FALSE]
    BY <1>1 DEF Empty
  <2> QED
    BY <2>1, <2>2 DEF Mail, Event
<1>6. on[r] = None /\ mail[r] = Empty /\ shown[r] = 0
  BY <1>3 DEF Inv, Unopened
<1>7. TypeOK'
  BY <1>3, <1>4, <1>5 DEF Inv, TypeOK, Mail
<1>8. MailSound'
  <2>1. Sound(m, 0, made, titles, due)
    BY <1>5 DEF Sound, ShutIsEmpty, InOrder
  <2>2. mail'[r] = m /\ \A q \in Readers \ {r} : mail'[q] = mail[q]
    BY <1>3 DEF Inv, TypeOK
  <2> QED
    BY <1>3, <1>6, <2>1, <2>2 DEF Inv, MailSound
<1>9. SleepsDue' /\ Unopened' /\ Numbers'
  BY <1>3, <1>4 DEF Inv, TypeOK, SleepsDue, Unopened, Numbers
<1>10. CountsOpenPages'
  <2>1. Open' = Open \cup {r} /\ r \notin Open
    BY <1>3, <1>5, <1>6, NoneAssumption DEF Open, Inv, TypeOK
  <2>2. IsFiniteSet(Open) /\ Cardinality(Open \cup {r}) = Cardinality(Open) + 1
    BY <2>1, ReadersAssumption, FS_Subset, FS_AddElement DEF Open
  <2>3. UNION {OpenPages(d) : d \in Channels} = Open
    BY OpenIsUnion DEF Inv, TypeOK
  <2>4. (UNION {OpenPages(d) : d \in Channels})' = Open'
    BY <1>7, NoneAssumption DEF TypeOK, Open, OpenPages
  <2>5. count' = Cardinality(Open') /\ count' <= Limit
    <3>1. count = Cardinality(Open) /\ count \in Int /\ Limit \in Int
      <4>1. count = Cardinality(UNION {OpenPages(d) : d \in Channels}) /\ count <= Limit
        BY DEF Inv, CountsOpenPages
      <4>2. count \in Int /\ Limit \in Int
        BY BoundsAssumption DEF Inv, TypeOK
      <4> QED
        BY <2>3, <4>1, <4>2
    <3>2. Cardinality(Open') = Cardinality(Open) + 1
      BY <2>1, <2>2
    <3> QED
      BY <1>3, <3>1, <3>2
  <2>6. \A d \in Channels : boxes'[d] = OpenPages(d)'
    BY <1>3, <1>5, <1>6, NoneAssumption DEF Inv, TypeOK, CountsOpenPages, OpenPages
  <2> QED
    BY <2>4, <2>5, <2>6 DEF CountsOpenPages
<1>11. KeptWhileUsed'
  BY <1>3 DEF Inv, TypeOK, KeptWhileUsed, Playing
<1>12. UnreadBounded'
  <2>1. Backlog(m) <= 1
    <3>1. CASE m.held = NoTitle
      BY <1>5, <3>1 DEF Backlog
    <3>2. CASE m.held # NoTitle
      BY <1>5, <3>2 DEF Backlog
    <3> QED
      BY <3>1, <3>2
  <2>2. Backlog(m) \in Nat
    BY <1>5, BacklogFalls
  <2>3. mail'[r] = m /\ \A q \in Readers \ {r} : mail'[q] = mail[q]
    BY <1>3 DEF Inv, TypeOK
  <2>4. ASSUME NEW q \in Readers
        PROVE  Backlog(mail'[q]) <= PendingLimit /\ (mail'[q].shut => Backlog(mail'[q]) = 0)
    <3>1. CASE q = r
      BY <1>5, <2>1, <2>2, <2>3, <3>1, BoundsAssumption
    <3>2. CASE q # r
      BY <2>3, <3>2 DEF Inv, UnreadBounded
    <3> QED
      BY <3>1, <3>2
  <2> QED
    BY <2>4 DEF UnreadBounded, Backlog
<1> QED
  BY <1>7, <1>8, <1>9, <1>10, <1>11, <1>12 DEF Inv

LEMMA LeaveKeeps ==
  ASSUME Inv, NEW r \in Readers, Leave(r)
  PROVE  Inv'
<1>1. PICK wait : wait = At("over")
  OBVIOUS
<1>2. wait \in Wait /\ wait.at = "over" /\ ~wait.slept
  BY <1>1 DEF At, Wait, Reads, Event, NoTitle
<1>3. /\ read[r].at # "none" /\ read' = [read EXCEPT ![r] = wait]
      /\ streams' = streams /\ opened' = opened /\ current' = current
      /\ made' = made /\ titles' = titles /\ due' = due /\ on' = on /\ shown' = shown
  BY <1>1 DEF Leave, clock
<1>4. Numbers' /\ SleepsDue'
  BY <1>2, <1>3 DEF Inv, TypeOK, Numbers, SleepsDue
<1>5. CASE ~StillCounts(mail[r])
  <2>1. mail' = mail /\ boxes' = boxes /\ count' = count /\ known' = known
    BY <1>5 DEF Leave
  <2> QED
    <3>1. TypeOK'
      BY <1>2, <1>3, <2>1 DEF Inv, TypeOK
    <3>2. MailSound' /\ Unopened'
      BY <1>2, <1>3, <2>1 DEF Inv, TypeOK, MailSound, Unopened
    <3>3. CountsOpenPages' /\ KeptWhileUsed'
      BY <1>3, <2>1 DEF Inv, CountsOpenPages, OpenPages, KeptWhileUsed, Playing
    <3>4. UnreadBounded'
      BY <2>1 DEF Inv, UnreadBounded, Backlog
    <3> QED
      BY <1>4, <3>1, <3>2, <3>3, <3>4 DEF Inv
<1>6. CASE StillCounts(mail[r])
  <2>1. PICK c \in Channels : c = on[r]
    BY <1>3 DEF Inv, Unopened
  <2>2. PICK playing, readers : playing = Playing(c) /\ readers = boxes[c] \ {r}
    OBVIOUS
  <2>3. PICK m : m = Shut(mail[r])
    OBVIOUS
  <2>4. /\ mail' = [mail EXCEPT ![r] = m] /\ boxes' = [boxes EXCEPT ![c] = @ \ {r}]
        /\ count' = count - 1 /\ known' = KnownAfter(c, playing, readers)
    BY <1>6, <2>1, <2>2, <2>3 DEF Leave
  <2>5. m \in Mail /\ m.shut
    BY <2>3, ShutMail
  <2>6. KeptWhileUsed' /\ known' \subseteq Channels
    <3>1. readers = boxes'[c] /\ playing = Playing(c)'
      BY <1>3, <2>2, <2>4 DEF Inv, TypeOK, Playing
    <3>2. \A d \in Channels \ {c} : boxes'[d] = boxes[d] /\ Playing(d)' = Playing(d)
      BY <1>3, <2>4 DEF Inv, TypeOK, Playing
    <3> QED
      BY <2>4, <3>1, <3>2, Pruned
  <2>7. TypeOK'
    BY <1>2, <1>3, <2>4, <2>5, <2>6 DEF Inv, TypeOK, Mail
  <2>8. mail'[r] = m /\ \A q \in Readers \ {r} : mail'[q] = mail[q]
    BY <2>4 DEF Inv, TypeOK
  <2>9. MailSound' /\ Unopened'
    <3>1. /\ shown[r] \in Nat /\ made \in Nat /\ due \in Nat /\ titles \in SUBSET Nat
      BY DEF Inv, TypeOK, Event
    <3>2. Sound(m, shown[r], made, titles, due)
      BY <2>3, <3>1, ShutSound
    <3> QED
      BY <1>2, <1>3, <2>8, <3>2 DEF Inv, TypeOK, MailSound, Unopened
  <2>10. CountsOpenPages'
    <3>1. Open' = Open \ {r} /\ r \in Open
      BY <1>3, <1>6, <2>1, <2>5, <2>8, NoneAssumption DEF Open, StillCounts
    <3>2. IsFiniteSet(Open) /\ Cardinality(Open \ {r}) = Cardinality(Open) - 1 /\ Cardinality(Open) \in Nat
      BY <3>1, ReadersAssumption, FS_Subset, FS_RemoveElement, FS_CardinalityType DEF Open
    <3>3. UNION {OpenPages(d) : d \in Channels} = Open
      BY OpenIsUnion DEF Inv, TypeOK
    <3>4. (UNION {OpenPages(d) : d \in Channels})' = Open'
      BY <2>7, NoneAssumption DEF TypeOK, Open, OpenPages
    <3>5. count' = Cardinality(Open') /\ count' <= Limit
      <4>1. count = Cardinality(Open) /\ count <= Limit /\ count \in Int /\ Limit \in Int
        <5>1. count = Cardinality(UNION {OpenPages(d) : d \in Channels}) /\ count <= Limit
          BY DEF Inv, CountsOpenPages
        <5>2. count \in Int /\ Limit \in Int
          BY BoundsAssumption DEF Inv, TypeOK
        <5> QED
          BY <3>3, <5>1, <5>2
      <4>2. Cardinality(Open') = Cardinality(Open) - 1
        BY <3>1, <3>2
      <4> QED
        BY <2>4, <4>1, <4>2
    <3>6. \A d \in Channels : boxes'[d] = OpenPages(d)'
      BY <1>3, <2>1, <2>4, <2>5, <2>8 DEF Inv, TypeOK, CountsOpenPages, OpenPages
    <3> QED
      BY <3>4, <3>5, <3>6 DEF CountsOpenPages
  <2>11. UnreadBounded'
    <3>1. Backlog(m) = 0
      <4>1. m.queue = <<>> /\ m.held = NoTitle
        BY <2>3 DEF Shut
      <4> QED
        BY <4>1 DEF Backlog
    <3>2. ASSUME NEW q \in Readers
          PROVE  Backlog(mail'[q]) <= PendingLimit /\ (mail'[q].shut => Backlog(mail'[q]) = 0)
      <4>1. CASE q = r
        BY <2>8, <3>1, <4>1, BoundsAssumption
      <4>2. CASE q # r
        BY <2>8, <4>2 DEF Inv, UnreadBounded
      <4> QED
        BY <4>1, <4>2
    <3> QED
      BY <3>2 DEF UnreadBounded, Backlog
  <2> QED
    BY <1>4, <2>6, <2>7, <2>9, <2>10, <2>11 DEF Inv
<1> QED
  BY <1>5, <1>6

-----------------------------------------------------------------------------
(* Each step of a read keeps the invariant.                                  *)

(* What a read takes leaves the feed's tables as they were.                  *)
LEMMA ReadKeeps ==
  ASSUME Inv, NEW r \in Readers, NEW m, ReadDoes(r, m),
         m.shut = mail[r].shut, m \in Mail, ShutIsEmpty(m), Backlog(m) <= Backlog(mail[r]),
         read[r].at # "none",
         UNCHANGED <<tables, boxes, count, clock, on>>
  PROVE  Inv'
<1>1. /\ streams' = streams /\ opened' = opened /\ current' = current /\ known' = known
      /\ boxes' = boxes /\ count' = count /\ on' = on
      /\ made' = made /\ titles' = titles /\ due' = due
  BY DEF tables, clock
<1>2. TypeOK'
  BY <1>1 DEF Inv, TypeOK, ReadDoes, Mail
<1>3. MailSound'
  BY <1>1 DEF Inv, MailSound, ReadDoes
<1>4. Numbers' /\ SleepsDue'
  BY <1>1 DEF Inv, Numbers, SleepsDue, ReadDoes
<1>5. Unopened'
  <2>1. ASSUME NEW q \in Readers
        PROVE  IF read'[q].at = "none" THEN on'[q] = None /\ mail'[q] = Empty /\ shown'[q] = 0
                                       ELSE on'[q] \in Channels
    BY <1>1, <2>1 DEF Inv, Unopened, ReadDoes
  <2> QED
    BY <2>1 DEF Unopened, Empty, NoTitle
<1>6. \A q \in Readers : mail'[q].shut = mail[q].shut
  BY DEF ReadDoes
<1>7. CountsOpenPages' /\ KeptWhileUsed'
  <2>1. \A c \in Channels : OpenPages(c)' = OpenPages(c) /\ Playing(c)' = Playing(c)
    BY <1>1, <1>6 DEF OpenPages, Playing
  <2>2. (UNION {OpenPages(c) : c \in Channels})' = UNION {OpenPages(c) : c \in Channels}
    BY <2>1
  <2> QED
    BY <1>1, <2>1, <2>2 DEF Inv, CountsOpenPages, KeptWhileUsed
<1>8. UnreadBounded'
  <2>1. /\ mail[r] \in Mail /\ mail'[r] \in Mail
        /\ Backlog(mail[r]) \in Nat /\ Backlog(mail'[r]) \in Nat /\ Backlog(m) \in Nat
    <3>1. mail[r] \in Mail /\ mail'[r] \in Mail
      BY DEF Inv, TypeOK, Mail, ReadDoes
    <3>2. PICK m1, m2 : m1 = mail[r] /\ m2 = mail'[r]
      OBVIOUS
    <3>3. Backlog(m1) \in Nat /\ Backlog(m2) \in Nat /\ Backlog(m) \in Nat
      BY <3>1, <3>2, BacklogFalls
    <3> QED
      BY <3>1, <3>2, <3>3
  <2>2. Backlog(mail[r]) <= PendingLimit /\ (mail[r].shut => Backlog(mail[r]) = 0)
    BY DEF Inv, UnreadBounded
  <2>3. Backlog(mail'[r]) <= Backlog(mail[r])
    BY <2>1 DEF ReadDoes
  <2>4. ASSUME NEW q \in Readers
        PROVE  Backlog(mail'[q]) <= PendingLimit /\ (mail'[q].shut => Backlog(mail'[q]) = 0)
    <3>1. CASE q = r
      <4>1. PICK b, b2 \in Nat : b = Backlog(mail[r]) /\ b2 = Backlog(mail'[r])
        BY <2>1
      <4>2. b <= PendingLimit /\ b2 <= b /\ PendingLimit \in Nat
        BY <2>2, <2>3, <4>1, BoundsAssumption
      <4>3. mail'[r].shut => b = 0
        BY <1>6, <2>2, <4>1
      <4>4. b2 <= PendingLimit /\ (mail'[r].shut => b2 = 0)
        BY <4>2, <4>3
      <4> QED
        BY <3>1, <4>1, <4>4
    <3>2. CASE q # r
      BY <3>2 DEF Inv, UnreadBounded, ReadDoes
    <3> QED
      BY <3>1, <3>2
  <2> QED
    BY <2>4 DEF UnreadBounded, Backlog
<1> QED
  BY <1>2, <1>3, <1>4, <1>5, <1>7, <1>8 DEF Inv

LEMMA ReadFacts ==
  ASSUME Inv, NEW r \in Readers
  PROVE  /\ mail[r] \in Mail /\ ShutIsEmpty(mail[r])
         /\ Sound(mail[r], shown[r], made, titles, due)
         /\ Backlog(mail[r]) \in Nat
<1>1. Sound(mail[r], shown[r], made, titles, due)
  BY DEF Inv, MailSound
<1>2. mail[r] \in Mail /\ ShutIsEmpty(mail[r])
  BY <1>1 DEF Sound
<1> QED
  BY <1>1, <1>2, BacklogFalls

LEMMA AskKeeps ==
  ASSUME Inv, NEW r \in Readers, Ask(r)
  PROVE  Inv' /\ \E m : ReadDoes(r, m)
<1>1. PICK m : m = mail[r]
  OBVIOUS
<1>2. /\ read[r].at # "none" /\ TakeOrWait(r, m)
      /\ UNCHANGED <<tables, boxes, count, clock, on>>
  BY <1>1 DEF Ask
<1>3. ReadDoes(r, m)
  BY <1>1, <1>2, ReadFacts, TakesOrWaits DEF Inv
<1>4. m.shut = mail[r].shut /\ m \in Mail /\ ShutIsEmpty(m) /\ Backlog(m) <= Backlog(mail[r])
  BY <1>1, ReadFacts
<1>5. Inv'
  BY <1>2, <1>3, <1>4, ReadKeeps
<1> QED
  BY <1>3, <1>5

LEMMA GoesKeeps ==
  ASSUME Inv, NEW r \in Readers, Goes(r)
  PROVE  Inv' /\ \E m : ReadDoes(r, m)
<1>1. PICK m : m = Settled(r)
  OBVIOUS
<1>2. /\ read[r].at # "none" /\ TakeOrWait(r, m)
      /\ UNCHANGED <<tables, boxes, count, clock, on>>
  BY <1>1 DEF Goes
<1>3. /\ Sound(m, shown[r], made, titles, due)
      /\ m.shut = mail[r].shut /\ Backlog(m) <= Backlog(mail[r])
  BY <1>1, SettledSound DEF Inv
<1>4. ReadDoes(r, m)
  BY <1>2, <1>3, TakesOrWaits DEF Inv
<1>5. m \in Mail /\ ShutIsEmpty(m)
  BY <1>3 DEF Sound
<1>6. Inv'
  BY <1>2, <1>3, <1>4, <1>5, ReadKeeps
<1> QED
  BY <1>4, <1>6

LEMMA WaitKeeps ==
  ASSUME Inv, NEW r \in Readers, SleepEnds(r) \/ Wakes(r)
  PROVE  Inv' /\ shown' = shown
<1>1. /\ read[r].at = "waiting"
      /\ \/ IsDue(read[r].held) /\ read' = [read EXCEPT ![r].slept = TRUE]
         \/ read' = [read EXCEPT ![r].at = "cancelling"]
      /\ UNCHANGED <<tables, boxes, count, clock, on, mail, shown>>
  BY DEF SleepEnds, Wakes
<1>2. /\ streams' = streams /\ opened' = opened /\ current' = current /\ known' = known
      /\ boxes' = boxes /\ count' = count /\ on' = on /\ mail' = mail /\ shown' = shown
      /\ made' = made /\ titles' = titles /\ due' = due
  BY <1>1 DEF tables, clock
<1>3. /\ read' \in [Readers -> Wait]
      /\ \A q \in Readers : read[q].at = "none" <=> read'[q].at = "none"
      /\ \A q \in Readers : read'[q].slept => read'[q].held <= due
  <2>1. read \in [Readers -> Wait] /\ due \in Nat
    BY DEF Inv, TypeOK
  <2>2. PICK wait \in Wait :
          /\ read' = [read EXCEPT ![r] = wait] /\ wait.at # "none"
          /\ wait.held = read[r].held /\ (wait.slept => read[r].slept \/ IsDue(read[r].held))
    <3>1. CASE IsDue(read[r].held) /\ read' = [read EXCEPT ![r].slept = TRUE]
      <4>1. PICK wait : wait = [read[r] EXCEPT !.slept = TRUE]
        OBVIOUS
      <4>2. wait \in Wait /\ wait.at = "waiting" /\ wait.held = read[r].held
        BY <1>1, <2>1, <4>1 DEF Wait
      <4> QED
        BY <3>1, <4>1, <4>2
    <3>2. CASE read' = [read EXCEPT ![r].at = "cancelling"]
      <4>1. PICK wait : wait = [read[r] EXCEPT !.at = "cancelling"]
        OBVIOUS
      <4>2. /\ wait \in Wait /\ wait.at = "cancelling" /\ wait.held = read[r].held
            /\ wait.slept = read[r].slept
        BY <2>1, <4>1 DEF Wait, Reads
      <4> QED
        BY <3>2, <4>1, <4>2
    <3> QED
      BY <1>1, <3>1, <3>2
  <2>3. /\ read' \in [Readers -> Wait] /\ read'[r] = wait
        /\ \A q \in Readers \ {r} : read'[q] = read[q]
    BY <2>1, <2>2
  <2> QED
    BY <1>1, <2>1, <2>2, <2>3 DEF Inv, SleepsDue, IsDue
<1>4. TypeOK' /\ SleepsDue'
  BY <1>2, <1>3 DEF Inv, TypeOK, SleepsDue
<1>5. Unopened'
  BY <1>2, <1>3 DEF Inv, Unopened
<1>6. MailSound' /\ Numbers' /\ UnreadBounded'
  BY <1>2 DEF Inv, MailSound, Numbers, UnreadBounded, Backlog
<1>7. CountsOpenPages' /\ KeptWhileUsed'
  BY <1>2 DEF Inv, CountsOpenPages, OpenPages, KeptWhileUsed, Playing
<1> QED
  BY <1>2, <1>4, <1>5, <1>6, <1>7 DEF Inv

LEMMA PassTimeKeeps ==
  ASSUME Inv, PassTime
  PROVE  Inv' /\ shown' = shown
<1>1. /\ due' = due + 1 /\ due < made /\ shown' = shown /\ made' = made /\ titles' = titles
      /\ streams' = streams /\ opened' = opened /\ current' = current /\ known' = known
      /\ boxes' = boxes /\ count' = count /\ on' = on /\ mail' = mail /\ read' = read
  BY DEF PassTime, tables, pages
<1>2. due \in Nat /\ due' \in Nat /\ made \in Nat /\ due' <= made
  BY <1>1 DEF Inv, TypeOK
<1>3. TypeOK' /\ Numbers' /\ Unopened'
  BY <1>1, <1>2 DEF Inv, TypeOK, Numbers, Unopened
<1>4. MailSound'
  <2>1. ASSUME NEW r \in Readers
        PROVE  shown'[r] <= made' /\ Sound(mail'[r], shown'[r], made', titles', due')
    <3>1. /\ shown[r] \in Nat /\ shown[r] <= made /\ titles \in SUBSET Nat
          /\ Sound(mail[r], shown[r], made, titles, due)
      BY DEF Inv, TypeOK, MailSound, Event
    <3>2. PICK later \in Nat : later = due'
      BY <1>2
    <3>3. Sound(mail[r], shown[r], made, titles, later)
      BY <1>1, <1>2, <3>1, <3>2, Later
    <3> QED
      BY <1>1, <3>1, <3>2, <3>3
  <2> QED
    BY <2>1 DEF MailSound
<1>5. SleepsDue'
  BY <1>1, <1>2 DEF Inv, TypeOK, Wait, Event, SleepsDue
<1>6. UnreadBounded'
  BY <1>1 DEF Inv, UnreadBounded, Backlog
<1>7. CountsOpenPages' /\ KeptWhileUsed'
  BY <1>1 DEF Inv, CountsOpenPages, OpenPages, KeptWhileUsed, Playing
<1> QED
  BY <1>1, <1>3, <1>4, <1>5, <1>6, <1>7 DEF Inv

LEMMA InitHolds == Init => Inv
<1> SUFFICES ASSUME Init
             PROVE  Inv
  OBVIOUS
<1>1. /\ streams = [s \in Streams |-> "new"] /\ opened = [s \in Streams |-> 0]
      /\ current = [c \in Channels |-> NoTitle] /\ boxes = [c \in Channels |-> {}]
      /\ known = {} /\ count = 0 /\ made = 0 /\ titles = {} /\ due = 0
      /\ on = [r \in Readers |-> None] /\ mail = [r \in Readers |-> Empty]
      /\ read = [r \in Readers |-> At("none")] /\ shown = [r \in Readers |-> 0]
  BY DEF Init
<1>2. /\ Empty \in Mail /\ Empty.queue = <<>> /\ Empty.held = NoTitle /\ ~Empty.shut
      /\ At("none") \in Wait /\ At("none").at = "none" /\ ~At("none").slept
  BY DEF Empty, Mail, Event, NoTitle, At, Wait, Reads
<1>3. TypeOK /\ Numbers /\ SleepsDue /\ Unopened
  BY <1>1, <1>2 DEF TypeOK, Mail, Event, NoTitle, Numbers, SleepsDue, Unopened
<1>4. MailSound
  <2>1. Sound(Empty, 0, 0, {}, 0)
    BY <1>2 DEF Sound, ShutIsEmpty, InOrder
  <2> QED
    BY <1>1, <2>1 DEF MailSound
<1>5. UnreadBounded
  <2>1. Backlog(Empty) = 0
    BY <1>2 DEF Backlog
  <2>2. \A r \in Readers : Backlog(mail[r]) = 0
    BY <1>1, <2>1
  <2> QED
    BY <2>2, BoundsAssumption DEF UnreadBounded
<1>6. CountsOpenPages
  <2>1. \A c \in Channels : OpenPages(c) = {}
    BY <1>1, NoneAssumption DEF OpenPages
  <2>2. UNION {OpenPages(c) : c \in Channels} = {}
    BY <2>1
  <2> QED
    BY <1>1, <2>1, <2>2, FS_EmptySet, BoundsAssumption DEF CountsOpenPages
<1>7. KeptWhileUsed
  BY <1>1 DEF KeptWhileUsed, Playing
<1> QED
  BY <1>3, <1>4, <1>5, <1>6, <1>7 DEF Inv

LEMMA StutterKeeps == Inv /\ UNCHANGED vars => Inv'
<1> SUFFICES ASSUME Inv, UNCHANGED vars
             PROVE  Inv'
  OBVIOUS
<1>1. /\ streams' = streams /\ opened' = opened /\ current' = current /\ known' = known
      /\ boxes' = boxes /\ count' = count /\ on' = on /\ mail' = mail /\ shown' = shown
      /\ made' = made /\ titles' = titles /\ due' = due /\ read' = read
  BY DEF vars, tables, clock, pages
<1>2. TypeOK' /\ Numbers' /\ SleepsDue' /\ Unopened' /\ MailSound'
  BY <1>1 DEF Inv, TypeOK, Numbers, SleepsDue, Unopened, MailSound
<1>3. CountsOpenPages' /\ KeptWhileUsed' /\ UnreadBounded'
  <2>1. CountsOpenPages'
    BY <1>1 DEF Inv, CountsOpenPages, OpenPages
  <2>2. KeptWhileUsed'
    BY <1>1 DEF Inv, KeptWhileUsed, Playing
  <2>3. UnreadBounded'
    BY <1>1 DEF Inv, UnreadBounded, Backlog
  <2> QED
    BY <2>1, <2>2, <2>3
<1> QED
  BY <1>2, <1>3 DEF Inv

\* What a step may do with the last event each page was told.
TellsFair ==
  \A r \in Readers :
    /\ shown[r] <= shown'[r]
    /\ shown'[r] # shown[r] /\ shown'[r] \in titles => shown'[r] <= due

(* Every step, by its actions.                                               *)
LEMMA StepKeeps ==
  ASSUME Inv, Next
  PROVE  Inv' /\ TellsFair
<1>1. \A r \in Readers : shown[r] \in Nat
  BY DEF Inv, TypeOK, Event
<1>2. shown' = shown => TellsFair
  BY <1>1 DEF TellsFair
<1>3. ASSUME NEW s \in Streams, Opened(s) \/ Title(s) \/ Ended(s)
      PROVE  Inv' /\ TellsFair
  <2>1. shown' = shown
    BY <1>3 DEF Opened, Title, Ended
  <2> QED
    BY <1>2, <1>3, <2>1, OpenedKeeps, TitleKeeps, EndedKeeps
<1>4. ASSUME NEW c \in Channels, Refused(c)
      PROVE  Inv' /\ TellsFair
  <2>1. shown' = shown
    BY <1>4 DEF Refused
  <2> QED
    BY <1>2, <1>4, <2>1, RefusedKeeps
<1>5. ASSUME NEW c \in Channels, NEW r \in Readers, Subscribe(r, c)
      PROVE  Inv' /\ TellsFair
  <2>1. shown' = shown
    BY <1>5 DEF Subscribe
  <2> QED
    BY <1>2, <1>5, <2>1, SubscribeKeeps
<1>6. ASSUME NEW r \in Readers, Leave(r)
      PROVE  Inv' /\ TellsFair
  <2>1. shown' = shown
    BY <1>6 DEF Leave
  <2> QED
    BY <1>2, <1>6, <2>1, LeaveKeeps
<1>7. ASSUME NEW r \in Readers, SleepEnds(r) \/ Wakes(r)
      PROVE  Inv' /\ TellsFair
  BY <1>2, <1>7, WaitKeeps
<1>8. ASSUME NEW r \in Readers, Ask(r) \/ Goes(r)
      PROVE  Inv' /\ TellsFair
  <2>1. Inv' /\ \E m : ReadDoes(r, m)
    BY <1>8, AskKeeps, GoesKeeps
  <2>2. /\ shown[r] <= shown'[r]
        /\ shown'[r] # shown[r] /\ shown'[r] \in titles => shown'[r] <= due
        /\ \A q \in Readers \ {r} : shown'[q] = shown[q]
    BY <2>1 DEF ReadDoes
  <2> QED
    BY <1>1, <2>1, <2>2 DEF TellsFair
<1>9. CASE PassTime
  BY <1>2, <1>9, PassTimeKeeps
<1> QED
  BY <1>3, <1>4, <1>5, <1>6, <1>7, <1>8, <1>9 DEF Next, ReadStep

LEMMA InvHolds == Spec => []Inv
<1>1. Inv /\ [Next]_vars => Inv'
  BY StepKeeps, StutterKeeps
<1> QED
  BY InitHolds, <1>1, PTL DEF Spec

-----------------------------------------------------------------------------
(* The promises.                                                             *)

(* The feed's tables and every mailbox keep their types.                     *)
THEOREM TypeCorrect == Spec => []TypeOK
<1>1. Inv => TypeOK
  BY DEF Inv
<1> QED
  BY <1>1, InvHolds, PTL

(* The number of open subscriptions is that of the pages in the channels'    *)
(* lists, and within the limit: ListenerFeed._forget gives each back once.   *)
THEOREM PagesCounted == Spec => []CountsOpenPages
<1>1. Inv => CountsOpenPages
  BY DEF Inv
<1> QED
  BY <1>1, InvHolds, PTL

(* A channel is in the table exactly while it is used: _prune, also from inside *)
(* the fan-out of _tell.                                                     *)
THEOREM ChannelsPruned == Spec => []KeptWhileUsed
<1>1. Inv => KeptWhileUsed
  BY DEF Inv
<1> QED
  BY <1>1, InvHolds, PTL

(* No mailbox outgrows PENDING_LIMIT (ListenerFeed._tell), though a wait moves *)
(* its title among the unread events (_Mailbox.wait).                        *)
THEOREM MailBounded == Spec => []UnreadBounded
<1>1. Inv => UnreadBounded
  BY DEF Inv
<1> QED
  BY <1>1, InvHolds, PTL

(* A page is told what it is told in the order it happened, though a title is *)
(* delayed and the status that ends it is not (_Mailbox.supersede, wait).    *)
THEOREM InOrderTold == Spec => ToldInOrder
<1>1. Inv /\ [Next]_vars => [\A r \in Readers : shown'[r] >= shown[r]]_vars
  <2> SUFFICES ASSUME Inv, Next
               PROVE  \A r \in Readers : shown'[r] >= shown[r]
    OBVIOUS
  <2> QED
    BY StepKeeps DEF TellsFair, Inv, TypeOK, Event
<1> QED
  BY <1>1, InvHolds, PTL DEF Spec, ToldInOrder

(* A title is told only once its delay has passed, whether it was held, slept *)
(* for or replaced (_Mailbox.take, wait, _replace_title).                    *)
THEOREM NoneEarly == Spec => NeverEarly
<1>1. Inv /\ [Next]_vars =>
        [\A r \in Readers :
           shown'[r] # shown[r] /\ shown'[r] \in titles => shown'[r] <= due]_vars
  BY StepKeeps DEF TellsFair
<1> QED
  BY <1>1, InvHolds, PTL DEF Spec, NeverEarly

(* Count, table and mailboxes agree for any channels, streams and pages, prunes  *)
(* and drops inside a fan-out included.                                          *)
THEOREM FeedAccounts == Spec => []FeedAccounted
<1>1. CountsOpenPages /\ KeptWhileUsed /\ UnreadBounded => FeedAccounted
  BY DEF FeedAccounted
<1> QED
  BY <1>1, PagesCounted, ChannelsPruned, MailBounded, PTL

(* Whatever wakes a read, what it tells is in order and past its delay.          *)
THEOREM TellsOnTime == Spec => ToldOnTime
  BY InOrderTold, NoneEarly DEF ToldOnTime

-----------------------------------------------------------------------------
(* The page's player. *)

\* What else the phases tell of each other's fields.
Fits ==
  LET p == player IN
  /\ p.phase = "retrying" => p.reconnecting
  /\ p.phase \in Resting => ~p.reconnecting
  /\ p.titlesLost => p.phase \in {"tuning", "needsTap", "playing"} \/ p.lossPending
  /\ p.phase = "playing" => admitted # "no"

\* How far each timer has run when the player is this old.
Timely ==
  LET p == player IN
  /\ p.reconnecting => age + timers["deadline"] <= Deadline
  /\ p.stalling => age + timers["stall"] <= StallTime
  /\ ~p.reconnecting =>
       /\ p.phase = "connecting" => age + timers["open"] <= OpenTime
       /\ p.phase = "tuning" =>
            age + timers["tune"] <= OpenTime + TuneTime + TapTime + TuneTime
       /\ p.phase = "tuning" /\ audio = "loading" =>
            age + timers["tune"] <= OpenTime + TuneTime
       /\ p.phase = "needsTap" => age + timers["tap"] <= OpenTime + TuneTime + TapTime
       /\ p.phase \in Resting => age = 0

PlayerInv == PlayerTypeOK /\ HoldsItsPhase /\ Fits /\ Timely /\ NoStaleTitle

LEMMA InitialPlayer == initialState \in Players
  BY TimesAssumption DEF initialState, Players, Phases, Songs, Statuses, Resting

-----------------------------------------------------------------------------
(* Transitions. *)

LEMMA LeaveToKeeps ==
  ASSUME NEW phase \in Resting, LeaveTo(phase)
  PROVE  PlayerInv'
<1> USE DEF LeaveTo, initialState, AllOff, Off, Resting
<1>1. PlayerTypeOK'
  <2>1. player' \in Players
    <3> HIDE DEF initialState
    <3> QED
      BY InitialPlayer DEF Players, Phases
  <2>2. timers' \in [TimerNames -> Int] /\ \A t \in TimerNames : timers'[t] = -1
    OBVIOUS
  <2>3. \A t \in TimerNames : -1 \in Off..Longest(t)
    BY TimesAssumption DEF TimerNames, Longest
  <2> QED
    BY <2>1, <2>2, <2>3 DEF PlayerTypeOK
<1>2. HoldsItsPhase'
  BY DEF HoldsItsPhase, Needs, Running, TimerNames
<1>3. Fits' /\ Timely' /\ NoStaleTitle'
  BY DEF Fits, Timely, NoStaleTitle
<1> QED
  BY <1>1, <1>2, <1>3 DEF PlayerInv

LEMMA RetryKeeps ==
  ASSUME PlayerInv, NEW deadline \in 0..Deadline, NEW since \in 0..Deadline,
         deadline + since <= Deadline, Retry(deadline, since)
  PROVE  PlayerInv'
<1> USE DEF Off, Resting
<1>1. /\ player \in Players /\ timers \in [TimerNames -> Int] /\ age \in Nat
      /\ \A t \in TimerNames : timers[t] \in Off..Longest(t)
      /\ player.attempt \in 0..LastAttempt
  BY DEF PlayerInv, PlayerTypeOK, Players
<1>2. RetryDelay(NextAttempt) \in 0..LongestWait /\ NextAttempt \in 0..LastAttempt
  BY <1>1, TimesAssumption DEF RetryDelay, NextAttempt
<1>3. player.reconnecting => timers["deadline"] \in 0..Deadline
  BY <1>1 DEF PlayerInv, HoldsItsPhase, Needs, Running, TimerNames, Longest
<1>4. DeadlineOf(deadline) \in 0..Deadline
  BY <1>3 DEF DeadlineOf
<1>5. /\ player' \in Players
      /\ player'.phase = "retrying" /\ player'.song = "none" /\ player'.titlesLost = FALSE
      /\ player'.reconnecting = TRUE /\ player'.lossPending = FALSE
      /\ player'.stalling = FALSE
  BY <1>1, <1>2 DEF Retry, Players, Phases, Songs, Statuses
<1>6. /\ timers' \in [TimerNames -> Int]
      /\ timers'["deadline"] = DeadlineOf(deadline) /\ timers'["wait"] = RetryDelay(NextAttempt)
      /\ \A t \in TimerNames \ {"deadline", "wait"} : timers'[t] = Off
  BY <1>2, <1>4 DEF Retry, AllOff, TimerNames
<1>7. source' = "closed" /\ audio' = "silent" /\ admitted' = "no"
      /\ age' = IF player.reconnecting THEN age ELSE since
  BY DEF Retry
<1>8. PlayerTypeOK'
  BY <1>1, <1>2, <1>4, <1>5, <1>6, <1>7, TimesAssumption DEF PlayerTypeOK, TimerNames, Longest
<1>9. HoldsItsPhase'
  BY <1>2, <1>4, <1>5, <1>6, <1>7 DEF HoldsItsPhase, Needs, Running, TimerNames
<1>10. Timely'
  BY <1>1, <1>3, <1>4, <1>5, <1>6, <1>7 DEF PlayerInv, Timely, DeadlineOf
<1>11. Fits' /\ NoStaleTitle'
  BY <1>5, <1>7 DEF Fits, NoStaleTitle
<1> QED
  BY <1>8, <1>9, <1>10, <1>11 DEF PlayerInv

\* A try that failed: 0 seconds after a drop, if it is the one.
LEMMA TryFailedKeeps ==
  ASSUME PlayerInv, TryFailed
  PROVE  PlayerInv'
  BY LeaveToKeeps, RetryKeeps, TimesAssumption DEF TryFailed, Resting

LEMMA ReasonKeeps ==
  ASSUME PlayerInv, NEW kind, NEW deadline \in 0..Deadline, NEW since \in 0..Deadline,
         deadline + since <= Deadline, DecideByReason(kind, deadline, since)
  PROVE  PlayerInv'
  BY LeaveToKeeps, RetryKeeps DEF DecideByReason, Resting

\* What the invariant says of the values a step reads.
LEMMA Typed ==
  ASSUME PlayerInv
  PROVE  /\ player \in Players /\ timers \in [TimerNames -> Int] /\ age \in Nat
         /\ \A t \in TimerNames : timers[t] \in Off..Longest(t)
         /\ \A t \in TimerNames : timers[t] # Off <=> Needs(t)
  BY DEF PlayerInv, PlayerTypeOK, HoldsItsPhase, Running

-----------------------------------------------------------------------------
(* The steps, one by one. *)

LEMMA StartTryKeeps ==
  ASSUME PlayerInv, StartTry
  PROVE  PlayerInv'
<1> USE DEF Off, Resting
<1>1. PlayerInv /\ player.phase = "retrying" /\ ~player.lossPending
  BY DEF StartTry
<1>2. /\ player' \in Players /\ player'.phase = "connecting"
      /\ player'.song = player.song /\ player'.titlesLost = player.titlesLost
      /\ player'.reconnecting = player.reconnecting
      /\ player'.lossPending = player.lossPending /\ player'.stalling = player.stalling
  BY Typed DEF StartTry, Players, Phases
<1>3. /\ timers' \in [TimerNames -> Int]
      /\ timers'["wait"] = Off /\ timers'["open"] = OpenTime
      /\ \A t \in TimerNames \ {"wait", "open"} : timers'[t] = timers[t]
  BY Typed, TimesAssumption DEF StartTry, TimerNames
<1>4. source' = "opening" /\ UNCHANGED <<audio, admitted, age>>
  BY DEF StartTry
<1>5. PlayerTypeOK'
  BY <1>2, <1>3, <1>4, Typed, TimesAssumption DEF PlayerInv, PlayerTypeOK, TimerNames, Longest
<1>6. HoldsItsPhase'
  BY <1>1, <1>2, <1>3, <1>4, TimesAssumption DEF PlayerInv, HoldsItsPhase, Needs, Running, TimerNames
<1>7. Fits' /\ Timely' /\ NoStaleTitle'
  BY <1>1, <1>2, <1>3, <1>4
     DEF PlayerInv, Fits, Timely, NoStaleTitle, HoldsItsPhase, Needs, Running, TimerNames
<1> QED
  BY <1>5, <1>6, <1>7 DEF PlayerInv

LEMMA LoseTitlesKeeps ==
  ASSUME PlayerInv, LoseTitles, player.phase \in {"tuning", "playing"}
  PROVE  PlayerInv'
<1> USE DEF Off, Resting
<1>1. PlayerInv /\ player.phase \in {"tuning", "playing"}
  BY DEF LoseTitles
<1>2. /\ player' \in Players
      /\ player'.song = "none" /\ player'.titlesLost = TRUE
      /\ player'.phase = player.phase /\ player'.reconnecting = player.reconnecting
      /\ player'.lossPending = player.lossPending /\ player'.stalling = player.stalling
  BY <1>1, Typed DEF LoseTitles, Players, Phases, Songs, Statuses
<1>3. timers' = timers
  BY <1>1 DEF LoseTitles
<1>4. source' = "closed" /\ UNCHANGED <<audio, admitted, age>>
  BY <1>1 DEF LoseTitles
<1>5. PlayerTypeOK'
  BY <1>2, <1>3, <1>4, Typed, TimesAssumption DEF PlayerInv, PlayerTypeOK, TimerNames, Longest
<1>6. HoldsItsPhase'
  BY <1>1, <1>2, <1>3, <1>4, Typed, TimesAssumption
     DEF PlayerInv, HoldsItsPhase, Fits, Needs, Running, TimerNames
<1>7. Fits' /\ NoStaleTitle'
  BY <1>1, <1>2, <1>3, <1>4 DEF PlayerInv, Fits, NoStaleTitle, HoldsItsPhase
<1>8. Timely'
  BY <1>1, <1>2, <1>3, <1>4, Typed, TimesAssumption
     DEF PlayerInv, Timely, Fits, HoldsItsPhase, Needs, TimerNames, Longest
<1> QED
  BY <1>5, <1>6, <1>7, <1>8 DEF PlayerInv

LEMMA TapKeeps ==
  ASSUME PlayerInv, Tap
  PROVE  PlayerInv'
<1> USE DEF Off, Resting
<1>1. PlayerInv /\ player.phase = "needsTap"
  BY DEF Tap
<1>2. /\ player' \in Players
      /\ player'.phase = "tuning"
      /\ player'.song = player.song /\ player'.titlesLost = player.titlesLost
      /\ player'.reconnecting = player.reconnecting /\ player'.lossPending = player.lossPending
      /\ player'.stalling = player.stalling
  BY <1>1, Typed DEF Tap, Players, Phases, Songs, Statuses
<1>3. /\ timers' \in [TimerNames -> Int]
      /\ timers'["tap"] = Off /\ timers'["tune"] = TuneTime
      /\ \A t \in TimerNames \ {"tap", "tune"} : timers'[t] = timers[t]
  BY <1>1, Typed, TimesAssumption DEF Tap, TimerNames
<1>4. audio' = (IF audio = "lost" THEN "lost" ELSE "resumed") /\ UNCHANGED <<source, admitted, age>>
  BY <1>1 DEF Tap
<1>5. PlayerTypeOK'
  BY <1>2, <1>3, <1>4, Typed, TimesAssumption DEF PlayerInv, PlayerTypeOK, TimerNames, Longest
<1>6. HoldsItsPhase'
  BY <1>1, <1>2, <1>3, <1>4, Typed, TimesAssumption
     DEF PlayerInv, HoldsItsPhase, Fits, Needs, Running, TimerNames
<1>7. Fits' /\ NoStaleTitle'
  BY <1>1, <1>2, <1>3, <1>4 DEF PlayerInv, Fits, NoStaleTitle, HoldsItsPhase
<1>8. Timely'
  BY <1>1, <1>2, <1>3, <1>4, Typed, TimesAssumption
     DEF PlayerInv, Timely, Fits, HoldsItsPhase, Needs, TimerNames, Longest
<1> QED
  BY <1>5, <1>6, <1>7, <1>8 DEF PlayerInv

LEMMA PlayBlockedKeeps ==
  ASSUME PlayerInv, PlayBlocked
  PROVE  PlayerInv'
<1> USE DEF Off, Resting
<1>1. PlayerInv /\ audio = "loading"
  BY DEF PlayBlocked
<1>2. /\ player' \in Players
      /\ player'.phase = "needsTap" /\ player'.lossPending = FALSE
      /\ player'.song = player.song /\ player'.titlesLost = player.titlesLost
      /\ player'.reconnecting = player.reconnecting /\ player'.stalling = player.stalling
  BY <1>1, Typed DEF PlayBlocked, Players, Phases, Songs, Statuses
<1>3. /\ timers' \in [TimerNames -> Int]
      /\ timers'["tune"] = Off /\ timers'["grace"] = Off /\ timers'["tap"] = TapTime
      /\ \A t \in TimerNames \ {"tune", "grace", "tap"} : timers'[t] = timers[t]
  BY <1>1, Typed, TimesAssumption DEF PlayBlocked, TimerNames
<1>4. audio' = "refused" /\ UNCHANGED <<source, admitted, age>>
  BY <1>1 DEF PlayBlocked
<1>5. PlayerTypeOK'
  BY <1>2, <1>3, <1>4, Typed, TimesAssumption DEF PlayerInv, PlayerTypeOK, TimerNames, Longest
<1>6. HoldsItsPhase'
  BY <1>1, <1>2, <1>3, <1>4, Typed, TimesAssumption
     DEF PlayerInv, HoldsItsPhase, Fits, Needs, Running, TimerNames
<1>7. Fits' /\ NoStaleTitle'
  BY <1>1, <1>2, <1>3, <1>4 DEF PlayerInv, Fits, NoStaleTitle, HoldsItsPhase
<1>8. Timely'
  BY <1>1, <1>2, <1>3, <1>4, Typed, TimesAssumption
     DEF PlayerInv, Timely, Fits, HoldsItsPhase, Needs, TimerNames, Longest
<1> QED
  BY <1>5, <1>6, <1>7, <1>8 DEF PlayerInv

LEMMA AudioWaitsKeeps ==
  ASSUME PlayerInv, AudioWaits
  PROVE  PlayerInv'
<1> USE DEF Off, Resting
<1>1. PlayerInv /\ audio = "playing"
  BY DEF AudioWaits
<1>2. /\ player' \in Players
      /\ player'.stalling = TRUE
      /\ player'.phase = player.phase /\ player'.song = player.song
      /\ player'.titlesLost = player.titlesLost /\ player'.reconnecting = player.reconnecting
      /\ player'.lossPending = player.lossPending
  BY <1>1, Typed DEF AudioWaits, Players, Phases, Songs, Statuses
<1>3. /\ timers' \in [TimerNames -> Int]
      /\ timers'["stall"] = StallTime
      /\ \A t \in TimerNames \ {"stall"} : timers'[t] = timers[t]
  BY <1>1, Typed, TimesAssumption DEF AudioWaits, TimerNames
<1>4. audio' = "stalled" /\ age' = 0 /\ UNCHANGED <<source, admitted>>
  BY <1>1 DEF AudioWaits
<1>5. PlayerTypeOK'
  BY <1>2, <1>3, <1>4, Typed, TimesAssumption DEF PlayerInv, PlayerTypeOK, TimerNames, Longest
<1>6. HoldsItsPhase'
  BY <1>1, <1>2, <1>3, <1>4, Typed, TimesAssumption
     DEF PlayerInv, HoldsItsPhase, Fits, Needs, Running, TimerNames
<1>7. Fits' /\ NoStaleTitle'
  BY <1>1, <1>2, <1>3, <1>4 DEF PlayerInv, Fits, NoStaleTitle, HoldsItsPhase
<1>8. Timely'
  BY <1>1, <1>2, <1>3, <1>4, Typed, TimesAssumption
     DEF PlayerInv, Timely, Fits, HoldsItsPhase, Needs, TimerNames, Longest
<1> QED
  BY <1>5, <1>6, <1>7, <1>8 DEF PlayerInv

LEMMA AdmittedKeeps ==
  ASSUME PlayerInv, Admitted, source = "open"
  PROVE  PlayerInv'
<1> USE DEF Off, Resting
<1>1. PlayerInv /\ source = "open" /\ audio \in {"loading", "refused", "resumed"}
  BY DEF Admitted, SongCleared
<1>2. /\ player' \in Players
      /\ player'.song = "none"
      /\ player'.phase = player.phase /\ player'.titlesLost = player.titlesLost
      /\ player'.reconnecting = player.reconnecting /\ player'.lossPending = player.lossPending
      /\ player'.stalling = player.stalling
  BY <1>1, Typed DEF Admitted, SongCleared, Players, Phases, Songs, Statuses
<1>3. timers' = timers
  BY <1>1 DEF Admitted, SongCleared
<1>4. admitted' = "told" /\ UNCHANGED <<source, audio, age>>
  BY <1>1 DEF Admitted, SongCleared
<1>5. PlayerTypeOK'
  BY <1>2, <1>3, <1>4, Typed, TimesAssumption DEF PlayerInv, PlayerTypeOK, TimerNames, Longest
<1>6. HoldsItsPhase'
  BY <1>1, <1>2, <1>3, <1>4, Typed, TimesAssumption
     DEF PlayerInv, HoldsItsPhase, Fits, Needs, Running, TimerNames
<1>7. Fits' /\ NoStaleTitle'
  BY <1>1, <1>2, <1>3, <1>4 DEF PlayerInv, Fits, NoStaleTitle, HoldsItsPhase
<1>8. Timely'
  BY <1>1, <1>2, <1>3, <1>4, Typed, TimesAssumption
     DEF PlayerInv, Timely, Fits, HoldsItsPhase, Needs, TimerNames, Longest
<1> QED
  BY <1>5, <1>6, <1>7, <1>8 DEF PlayerInv

LEMMA MissedKeeps ==
  ASSUME PlayerInv, Admitted, source # "open"
  PROVE  PlayerInv'
<1> USE DEF Off, Resting
<1>1. PlayerInv /\ source # "open" /\ audio \in {"loading", "refused", "resumed"}
  BY DEF Admitted
<1>2. player' = player /\ player' \in Players
  BY <1>1, Typed DEF Admitted
<1>3. timers' = timers
  BY <1>1 DEF Admitted
<1>4. admitted' = "missed" /\ UNCHANGED <<source, audio, age>>
  BY <1>1 DEF Admitted
<1>5. PlayerTypeOK'
  BY <1>2, <1>3, <1>4, Typed, TimesAssumption DEF PlayerInv, PlayerTypeOK, TimerNames, Longest
<1>6. HoldsItsPhase'
  BY <1>1, <1>2, <1>3, <1>4, Typed, TimesAssumption
     DEF PlayerInv, HoldsItsPhase, Fits, Needs, Running, TimerNames
<1>7. Fits' /\ NoStaleTitle'
  BY <1>1, <1>2, <1>3, <1>4 DEF PlayerInv, Fits, NoStaleTitle, HoldsItsPhase
<1>8. Timely'
  BY <1>1, <1>2, <1>3, <1>4, Typed, TimesAssumption
     DEF PlayerInv, Timely, Fits, HoldsItsPhase, Needs, TimerNames, Longest
<1> QED
  BY <1>5, <1>6, <1>7, <1>8 DEF PlayerInv

LEMMA BlipKeeps ==
  ASSUME PlayerInv, Blip
  PROVE  PlayerInv'
<1> USE DEF Off, Resting
<1>1. PlayerInv /\ source = "open"
  BY DEF Blip
<1>2. player' = player /\ player' \in Players
  BY <1>1, Typed DEF Blip
<1>3. timers' = timers
  BY <1>1 DEF Blip
<1>4. source' = "blip" /\ UNCHANGED <<audio, admitted, age>>
  BY <1>1 DEF Blip
<1>5. PlayerTypeOK'
  BY <1>2, <1>3, <1>4, Typed, TimesAssumption DEF PlayerInv, PlayerTypeOK, TimerNames, Longest
<1>6. HoldsItsPhase'
  BY <1>1, <1>2, <1>3, <1>4, Typed, TimesAssumption
     DEF PlayerInv, HoldsItsPhase, Fits, Needs, Running, TimerNames
<1>7. Fits' /\ NoStaleTitle'
  BY <1>1, <1>2, <1>3, <1>4 DEF PlayerInv, Fits, NoStaleTitle, HoldsItsPhase
<1>8. Timely'
  BY <1>1, <1>2, <1>3, <1>4, Typed, TimesAssumption
     DEF PlayerInv, Timely, Fits, HoldsItsPhase, Needs, TimerNames, Longest
<1> QED
  BY <1>5, <1>6, <1>7, <1>8 DEF PlayerInv

LEMMA PlayFromRestKeeps ==
  ASSUME PlayerInv, PlayFromRest
  PROVE  PlayerInv'
<1> USE DEF Off, Resting
<1>1. PlayerInv /\ player.phase \in Resting
  BY DEF PlayFromRest
<1>2. /\ player' \in Players
      /\ player'.phase = "connecting" /\ player'.song = "none"
      /\ player'.titlesLost = FALSE /\ player'.reconnecting = FALSE
      /\ player'.lossPending = FALSE /\ player'.stalling = FALSE

  <2>1. player' = [initialState EXCEPT !.phase = "connecting"]
    BY DEF PlayFromRest
  <2>2. player' \in Players
    BY <2>1, InitialPlayer DEF Players, Phases
  <2> QED
    BY <2>1, <2>2 DEF initialState
<1>3. /\ timers' \in [TimerNames -> Int]
      /\ timers'["open"] = OpenTime
      /\ \A t \in TimerNames \ {"open"} : timers'[t] = timers[t]
  BY <1>1, Typed, TimesAssumption DEF PlayFromRest, TimerNames
<1>4. source' = "opening" /\ UNCHANGED <<audio, admitted, age>>
  BY <1>1 DEF PlayFromRest
<1>5. PlayerTypeOK'
  BY <1>2, <1>3, <1>4, Typed, TimesAssumption DEF PlayerInv, PlayerTypeOK, TimerNames, Longest
<1>6. HoldsItsPhase'
  BY <1>1, <1>2, <1>3, <1>4, Typed, TimesAssumption
     DEF PlayerInv, HoldsItsPhase, Fits, Needs, Running, TimerNames
<1>7. Fits' /\ NoStaleTitle'
  BY <1>1, <1>2, <1>3, <1>4 DEF PlayerInv, Fits, NoStaleTitle, HoldsItsPhase
<1>8. Timely'
  BY <1>1, <1>2, <1>3, <1>4, Typed, TimesAssumption
     DEF PlayerInv, Timely, Fits, HoldsItsPhase, Needs, TimerNames, Longest
<1> QED
  BY <1>5, <1>6, <1>7, <1>8 DEF PlayerInv

LEMMA FirstOpenKeeps ==
  ASSUME PlayerInv, EventsOpen, player.phase = "connecting"
  PROVE  PlayerInv'
<1> USE DEF Off, Resting
<1>1. PlayerInv /\ player.phase = "connecting"
  BY DEF EventsOpen
<1>2. /\ player' \in Players
      /\ player'.phase = "tuning"
      /\ player'.song = player.song /\ player'.titlesLost = player.titlesLost
      /\ player'.reconnecting = player.reconnecting /\ player'.lossPending = player.lossPending
      /\ player'.stalling = player.stalling
  BY <1>1, Typed DEF EventsOpen, Players, Phases, Songs, Statuses
<1>3. /\ timers' \in [TimerNames -> Int]
      /\ timers'["open"] = Off /\ timers'["tune"] = TuneTime
      /\ \A t \in TimerNames \ {"open", "tune"} : timers'[t] = timers[t]
  BY <1>1, Typed, TimesAssumption DEF EventsOpen, TimerNames
<1>4. source' = "open" /\ audio' = "loading" /\ UNCHANGED <<admitted, age>>
  BY <1>1 DEF EventsOpen
<1>5. PlayerTypeOK'
  BY <1>2, <1>3, <1>4, Typed, TimesAssumption DEF PlayerInv, PlayerTypeOK, TimerNames, Longest
<1>6. HoldsItsPhase'
  BY <1>1, <1>2, <1>3, <1>4, Typed, TimesAssumption
     DEF PlayerInv, HoldsItsPhase, Fits, Needs, Running, TimerNames
<1>7. Fits' /\ NoStaleTitle'
  BY <1>1, <1>2, <1>3, <1>4 DEF PlayerInv, Fits, NoStaleTitle, HoldsItsPhase
<1>8. Timely'
  BY <1>1, <1>2, <1>3, <1>4, Typed, TimesAssumption
     DEF PlayerInv, Timely, Fits, HoldsItsPhase, Needs, TimerNames, Longest
<1> QED
  BY <1>5, <1>6, <1>7, <1>8 DEF PlayerInv

LEMMA LaterOpenKeeps ==
  ASSUME PlayerInv, EventsOpen, player.phase # "connecting"
  PROVE  PlayerInv'
<1> USE DEF Off, Resting
<1>1. PlayerInv /\ player.phase # "connecting" /\ source \in {"opening", "blip"}
  BY DEF EventsOpen
<1>2. player' = player /\ player' \in Players
  BY <1>1, Typed DEF EventsOpen
<1>3. timers' = timers
  BY <1>1 DEF EventsOpen
<1>4. source' = "open" /\ UNCHANGED <<audio, admitted, age>>
  BY <1>1 DEF EventsOpen
<1>5. PlayerTypeOK'
  BY <1>2, <1>3, <1>4, Typed, TimesAssumption DEF PlayerInv, PlayerTypeOK, TimerNames, Longest
<1>6. HoldsItsPhase'
  BY <1>1, <1>2, <1>3, <1>4, Typed, TimesAssumption
     DEF PlayerInv, HoldsItsPhase, Fits, Needs, Running, TimerNames
<1>7. Fits' /\ NoStaleTitle'
  BY <1>1, <1>2, <1>3, <1>4 DEF PlayerInv, Fits, NoStaleTitle, HoldsItsPhase
<1>8. Timely'
  BY <1>1, <1>2, <1>3, <1>4, Typed, TimesAssumption
     DEF PlayerInv, Timely, Fits, HoldsItsPhase, Needs, TimerNames, Longest
<1> QED
  BY <1>5, <1>6, <1>7, <1>8 DEF PlayerInv

LEMMA NowPlayingKeeps ==
  ASSUME PlayerInv, NowPlaying
  PROVE  PlayerInv'
<1> USE DEF Off, Resting
<1>1. PlayerInv /\ source = "open" /\ player.phase \in {"tuning", "playing", "needsTap"}
  BY DEF NowPlaying, Quiet
<1>2. /\ player' \in Players
      /\ player'.song = (IF admitted = "no" THEN "before" ELSE "since")
      /\ player'.phase = player.phase /\ player'.titlesLost = player.titlesLost
      /\ player'.reconnecting = player.reconnecting /\ player'.lossPending = player.lossPending
      /\ player'.stalling = player.stalling
  BY <1>1, Typed DEF NowPlaying, Quiet, Players, Phases, Songs, Statuses
<1>3. timers' = timers
  BY <1>1 DEF NowPlaying, Quiet
<1>4. UNCHANGED <<source, audio, admitted, age>>
  BY <1>1 DEF NowPlaying, Quiet
<1>5. PlayerTypeOK'
  BY <1>2, <1>3, <1>4, Typed, TimesAssumption DEF PlayerInv, PlayerTypeOK, TimerNames, Longest
<1>6. HoldsItsPhase'
  BY <1>1, <1>2, <1>3, <1>4, Typed, TimesAssumption
     DEF PlayerInv, HoldsItsPhase, Fits, Needs, Running, TimerNames
<1>7. Fits' /\ NoStaleTitle'
  BY <1>1, <1>2, <1>3, <1>4 DEF PlayerInv, Fits, NoStaleTitle, HoldsItsPhase
<1>8. Timely'
  BY <1>1, <1>2, <1>3, <1>4, Typed, TimesAssumption
     DEF PlayerInv, Timely, Fits, HoldsItsPhase, Needs, TimerNames, Longest
<1> QED
  BY <1>5, <1>6, <1>7, <1>8 DEF PlayerInv

LEMMA LossTuningKeeps ==
  ASSUME PlayerInv, AudioLost, player.phase = "tuning"
  PROVE  PlayerInv'
<1> USE DEF Off, Resting
<1>1. PlayerInv /\ player.phase = "tuning" /\ audio \notin {"silent", "lost"}
  BY DEF AudioLost
<1>2. /\ player' \in Players
      /\ player'.lossPending = TRUE
      /\ player'.phase = player.phase /\ player'.song = player.song
      /\ player'.titlesLost = player.titlesLost /\ player'.reconnecting = player.reconnecting
      /\ player'.stalling = player.stalling
  BY <1>1, Typed DEF AudioLost, Players, Phases, Songs, Statuses
<1>3. /\ timers' \in [TimerNames -> Int]
      /\ timers'["grace"] = GraceTime
      /\ \A t \in TimerNames \ {"grace"} : timers'[t] = timers[t]
  BY <1>1, Typed, TimesAssumption DEF AudioLost, TimerNames
<1>4. audio' = "lost" /\ UNCHANGED <<source, admitted, age>>
  BY <1>1 DEF AudioLost
<1>5. PlayerTypeOK'
  BY <1>2, <1>3, <1>4, Typed, TimesAssumption DEF PlayerInv, PlayerTypeOK, TimerNames, Longest
<1>6. HoldsItsPhase'
  BY <1>1, <1>2, <1>3, <1>4, Typed, TimesAssumption
     DEF PlayerInv, HoldsItsPhase, Fits, Needs, Running, TimerNames
<1>7. Fits' /\ NoStaleTitle'
  BY <1>1, <1>2, <1>3, <1>4 DEF PlayerInv, Fits, NoStaleTitle, HoldsItsPhase
<1>8. Timely'
  BY <1>1, <1>2, <1>3, <1>4, Typed, TimesAssumption
     DEF PlayerInv, Timely, Fits, HoldsItsPhase, Needs, TimerNames, Longest
<1> QED
  BY <1>5, <1>6, <1>7, <1>8 DEF PlayerInv

\* A loss while playing that waits for its reason is the drop.
LEMMA LossPlayingKeeps ==
  ASSUME PlayerInv, AudioLost, player.phase = "playing", player.lastStatus \notin Deciding
  PROVE  PlayerInv'
<1> USE DEF Off, Resting
<1>1. PlayerInv /\ player.phase = "playing" /\ player.lastStatus \notin Deciding
  OBVIOUS
<1>2. /\ audio' = "lost" /\ age' = 0 /\ UNCHANGED <<source, admitted>>
      /\ player' = [player EXCEPT !.phase = "retrying", !.song = "none",
                                  !.lastStatus = "none", !.reconnecting = TRUE,
                                  !.lossPending = TRUE, !.stalling = FALSE]
      /\ timers' = [timers EXCEPT !["stall"] = Off, !["deadline"] = Deadline,
                                  !["grace"] = GraceTime]
  BY <1>1 DEF AudioLost, DecideByReason, Deciding
<1>3. /\ player' \in Players
      /\ player'.phase = "retrying" /\ player'.song = "none"
      /\ player'.titlesLost = player.titlesLost /\ player'.reconnecting = TRUE
      /\ player'.lossPending = TRUE /\ player'.stalling = FALSE
  BY <1>2, Typed DEF Players, Phases, Songs, Statuses
<1>4. /\ timers' \in [TimerNames -> Int]
      /\ timers'["stall"] = Off /\ timers'["deadline"] = Deadline
      /\ timers'["grace"] = GraceTime
      /\ \A t \in TimerNames \ {"stall", "deadline", "grace"} : timers'[t] = timers[t]
  BY <1>2, Typed, TimesAssumption DEF TimerNames
<1>5. PlayerTypeOK'
  BY <1>2, <1>3, <1>4, Typed, TimesAssumption DEF PlayerInv, PlayerTypeOK, TimerNames, Longest
<1>6. HoldsItsPhase'
  BY <1>1, <1>2, <1>3, <1>4, Typed, TimesAssumption
     DEF PlayerInv, HoldsItsPhase, Fits, Needs, Running, TimerNames
<1>7. Fits' /\ NoStaleTitle' /\ Timely'
  BY <1>2, <1>3, <1>4, TimesAssumption DEF Fits, NoStaleTitle, Timely
<1> QED
  BY <1>5, <1>6, <1>7 DEF PlayerInv

LEMMA LossTappedKeeps ==
  ASSUME PlayerInv, AudioLost, player.phase = "needsTap"
  PROVE  PlayerInv'
<1>1. audio' = "lost" /\ UNCHANGED <<player, source, timers, admitted, age>>
  BY DEF AudioLost
<1>2. audio # "silent" /\ audio \notin {"playing", "stalled", "loading", "resumed"}
  BY DEF PlayerInv, HoldsItsPhase, Resting
<1>3. PlayerTypeOK' /\ Fits' /\ Timely' /\ NoStaleTitle'
  BY <1>1 DEF PlayerInv, PlayerTypeOK, Fits, Timely, NoStaleTitle
<1>4. HoldsItsPhase'
  BY <1>1, <1>2 DEF PlayerInv, HoldsItsPhase, Needs, Running, Resting
<1> QED
  BY <1>3, <1>4 DEF PlayerInv

LEMMA AudioLostKeeps ==
  ASSUME PlayerInv, AudioLost
  PROVE  PlayerInv'
<1>1. CASE player.phase = "playing" /\ player.lastStatus \in Deciding
  <2>1. DecideByReason(player.lastStatus, Deadline, 0)
    BY <1>1 DEF AudioLost
  <2> QED
    BY <2>1, ReasonKeeps, TimesAssumption
<1>2. player.phase \in {"playing", "tuning", "needsTap"}
  BY DEF AudioLost
<1> QED
  BY <1>1, <1>2, LossPlayingKeeps, LossTappedKeeps, LossTuningKeeps

\* The first `playing` of a try, and the end of a stall.
LEMMA AudioPlaysKeeps ==
  ASSUME PlayerInv, AudioPlays
  PROVE  PlayerInv'
<1> USE DEF Off, Resting
<1>1. /\ PlayerInv /\ audio' = "playing" /\ age' = 0 /\ UNCHANGED <<source, admitted>>
      /\ player.phase # "playing" => admitted # "no" /\ player.phase = "tuning"
  BY DEF AudioPlays, PlayerInv, HoldsItsPhase
<1>2. CASE player.phase = "playing"
  <2>1. /\ player' \in Players /\ player'.stalling = FALSE
        /\ player'.phase = player.phase /\ player'.song = player.song
        /\ player'.titlesLost = player.titlesLost
        /\ player'.reconnecting = player.reconnecting
        /\ player'.lossPending = player.lossPending
    BY <1>2, Typed DEF AudioPlays, Players
  <2>2. /\ timers' \in [TimerNames -> Int] /\ timers'["stall"] = Off
        /\ \A t \in TimerNames \ {"stall"} : timers'[t] = timers[t]
    BY <1>2, Typed DEF AudioPlays, TimerNames
  <2>3. PlayerTypeOK'
    BY <1>1, <2>1, <2>2, Typed, TimesAssumption DEF PlayerInv, PlayerTypeOK, TimerNames, Longest
  <2>4. HoldsItsPhase'
    BY <1>1, <1>2, <2>1, <2>2, Typed DEF PlayerInv, HoldsItsPhase, Needs, Running, TimerNames
  <2>5. Fits' /\ NoStaleTitle'
    BY <1>1, <1>2, <2>1 DEF PlayerInv, Fits, NoStaleTitle
  <2>6. Timely'
    BY <1>1, <1>2, <2>1, <2>2, Typed DEF PlayerInv, Timely, TimerNames, Longest
  <2> QED
    BY <2>3, <2>4, <2>5, <2>6 DEF PlayerInv
<1>3. CASE player.phase # "playing"
  <2>1. /\ player' \in Players /\ player'.phase = "playing"
        /\ player'.song = player.song /\ player'.titlesLost = player.titlesLost
        /\ player'.reconnecting = FALSE /\ player'.lossPending = FALSE
        /\ player'.stalling = FALSE
    <3>1. player' = [player EXCEPT !.phase = "playing", !.lastStatus = "none", !.attempt = 0,
                                   !.reconnecting = FALSE, !.lossPending = FALSE,
                                   !.stalling = FALSE]
      BY <1>3 DEF AudioPlays
    <3>2. 0 \in 0..LastAttempt /\ "playing" \in Phases
      BY TimesAssumption DEF Phases
    <3> QED
      BY <3>1, <3>2, Typed DEF Players
  <2>2. timers' = AllOff
    BY <1>3 DEF AudioPlays, TimersWhenPlaying
  <2>3. PlayerTypeOK'
    BY <1>1, <2>1, <2>2, TimesAssumption DEF PlayerInv, PlayerTypeOK, AllOff, TimerNames, Longest
  <2>4. HoldsItsPhase'
    BY <1>1, <1>3, <2>1, <2>2 DEF PlayerInv, HoldsItsPhase, Needs, Running, AllOff, TimerNames
  <2>5. Fits'
    BY <1>1, <1>3, <2>1 DEF Fits
  <2>6. NoStaleTitle'
    BY <1>1, <1>3, <2>1 DEF PlayerInv, PlayerTypeOK, NoStaleTitle
  <2>7. Timely'
    BY <1>1, <2>1 DEF Timely
  <2> QED
    BY <2>3, <2>4, <2>5, <2>6, <2>7 DEF PlayerInv
<1> QED
  BY <1>2, <1>3

LEMMA EventsClosedKeeps ==
  ASSUME PlayerInv, EventsClosed
  PROVE  PlayerInv'
<1>1. CASE TryFailed
  BY <1>1, TryFailedKeeps
<1>2. CASE player.phase \in {"tuning", "playing"} /\ LoseTitles
  BY <1>2, LoseTitlesKeeps
<1>3. CASE player.phase = "retrying" /\ source # "closed" /\ source' = "closed"
           /\ UNCHANGED <<player, audio, timers, admitted, age>>
  <2>1. PlayerTypeOK' /\ Fits' /\ Timely'
    BY <1>3 DEF PlayerInv, PlayerTypeOK, Fits, Timely
  <2>2. HoldsItsPhase'
    BY <1>3 DEF PlayerInv, HoldsItsPhase, Needs, Running, Resting
  <2>3. NoStaleTitle'
    BY <1>3 DEF PlayerInv, NoStaleTitle
  <2> QED
    BY <2>1, <2>2, <2>3 DEF PlayerInv
<1> QED
  BY <1>1, <1>2, <1>3 DEF EventsClosed

\* A status of another of the listener's streams while tuning in.
LEMMA OtherTuningKeeps ==
  ASSUME PlayerInv, player' = SongCleared, Quiet
  PROVE  PlayerInv'
<1>1. /\ player' \in Players /\ player'.song = "none"
      /\ player'.phase = player.phase /\ player'.titlesLost = player.titlesLost
      /\ player'.reconnecting = player.reconnecting
      /\ player'.lossPending = player.lossPending /\ player'.stalling = player.stalling
  BY Typed DEF SongCleared, Players, Songs
<1>2. UNCHANGED <<source, audio, timers, admitted, age>>
  BY DEF Quiet
<1>3. PlayerTypeOK' /\ Fits' /\ Timely' /\ NoStaleTitle'
  BY <1>1, <1>2 DEF PlayerInv, PlayerTypeOK, Fits, Timely, NoStaleTitle
<1>4. HoldsItsPhase'
  BY <1>1, <1>2 DEF PlayerInv, HoldsItsPhase, Needs, Running
<1> QED
  BY <1>3, <1>4 DEF PlayerInv

LEMMA StatusKeeps ==
  ASSUME PlayerInv, NEW kind \in Statuses, Status(kind)
  PROVE  PlayerInv'
<1>1. CASE StatusWhileTuning(kind)
  BY <1>1, LeaveToKeeps, RetryKeeps, TryFailedKeeps, OtherTuningKeeps, TimesAssumption
     DEF StatusWhileTuning, Resting
<1>2. CASE player' = [player EXCEPT !.lastStatus = kind] /\ Quiet
  <2>1. /\ player' \in Players /\ player'.song = player.song
        /\ player'.phase = player.phase /\ player'.titlesLost = player.titlesLost
        /\ player'.reconnecting = player.reconnecting
        /\ player'.lossPending = player.lossPending /\ player'.stalling = player.stalling
    BY <1>2, Typed DEF Players
  <2>2. UNCHANGED <<source, audio, timers, admitted, age>>
    BY <1>2 DEF Quiet
  <2>3. PlayerTypeOK' /\ Fits' /\ Timely' /\ NoStaleTitle'
    BY <2>1, <2>2 DEF PlayerInv, PlayerTypeOK, Fits, Timely, NoStaleTitle
  <2>4. HoldsItsPhase'
    BY <2>1, <2>2 DEF PlayerInv, HoldsItsPhase, Needs, Running
  <2> QED
    BY <2>3, <2>4 DEF PlayerInv
<1>3. CASE DecideByReason(kind, Deadline, 0)
  BY <1>3, ReasonKeeps, TimesAssumption
<1> QED
  BY <1>1, <1>2, <1>3 DEF Status

-----------------------------------------------------------------------------
(* The timers. *)

LEMMA TimeoutKeeps ==
  ASSUME PlayerInv, NEW t \in TimerNames, Timeout(t)
  PROVE  PlayerInv'
<1>1. CASE TryFailed
  BY <1>1, TryFailedKeeps
<1>2. CASE Retry(Deadline, 0)
  BY <1>2, RetryKeeps, TimesAssumption
<1>3. CASE \E phase \in Resting : LeaveTo(phase)
  BY <1>3, LeaveToKeeps
<1>4. CASE StartTry
  BY <1>4, StartTryKeeps
<1>5. CASE t = "stall"
  <2>1. player.stalling /\ timers["stall"] = 0
    BY <1>5, Typed DEF Timeout, Needs, Off
  <2>2. age \in 0..StallTime
    BY <2>1, Typed DEF PlayerInv, Timely
  <2>3. /\ StallDeadline \in 0..Deadline /\ age \in 0..Deadline
        /\ StallDeadline + age <= Deadline
    BY <2>2, TimesAssumption DEF StallDeadline
  <2>4. DecideByReason(player.lastStatus, StallDeadline, age) \/ Retry(StallDeadline, age)
    BY <1>5 DEF Timeout, OnTimeout
  <2> QED
    BY <2>3, <2>4, ReasonKeeps, RetryKeeps
<1> QED
  BY <1>1, <1>2, <1>3, <1>4, <1>5 DEF Timeout, OnTimeout, Resting

LEMMA SecondKeeps ==
  ASSUME PlayerInv, Second
  PROVE  PlayerInv'
<1> USE DEF Off
<1>1. UNCHANGED <<player, source, audio, admitted>> /\ age' = age + 1
  BY DEF Second
<1>2. /\ timers' \in [TimerNames -> Int]
      /\ \A t \in TimerNames : IF timers[t] # Off THEN timers'[t] = timers[t] - 1 /\ timers[t] > 0
                                                ELSE timers'[t] = Off
  BY Typed DEF Second, Running
<1>3. PlayerTypeOK'
  <2>1. \A t \in TimerNames : Longest(t) \in Int
    BY TimesAssumption DEF TimerNames, Longest
  <2>2. \A t \in TimerNames : timers'[t] \in Off..Longest(t)
    BY <1>2, <2>1, Typed
  <2>3. age' \in Nat
    BY <1>1, Typed
  <2> QED
    BY <1>1, <1>2, <2>2, <2>3 DEF PlayerInv, PlayerTypeOK
<1>4. \A t \in TimerNames : timers'[t] # Off <=> timers[t] # Off
  BY <1>2, Typed
<1>5. HoldsItsPhase'
  BY <1>1, <1>4 DEF PlayerInv, HoldsItsPhase, Needs, Running
<1>6. \A t \in TimerNames : Needs(t) => timers'[t] = timers[t] - 1
  BY <1>2, Typed
<1>7. player.phase \notin Resting \/ player.reconnecting
  <2>1. PICK t \in TimerNames : timers[t] # Off
    BY DEF Second, Running
  <2>2. Needs(t)
    BY <2>1, Typed
  <2> QED
    BY <2>2 DEF Needs, PlayerInv, HoldsItsPhase, Resting
<1>8. Timely'
  BY <1>1, <1>6, <1>7, Typed DEF PlayerInv, Timely, Needs, TimerNames, Resting
<1>9. Fits' /\ NoStaleTitle'
  BY <1>1 DEF PlayerInv, Fits, NoStaleTitle
<1> QED
  BY <1>3, <1>5, <1>8, <1>9 DEF PlayerInv

-----------------------------------------------------------------------------

LEMMA PlayerInvInductive == PlayerInv /\ [PlayerNext]_playerVars => PlayerInv'
<1> SUFFICES ASSUME PlayerInv, [PlayerNext]_playerVars PROVE PlayerInv'
  OBVIOUS
<1>1. CASE Listener
  BY <1>1, PlayFromRestKeeps, TapKeeps, LeaveToKeeps, StartTryKeeps
     DEF Listener, Stop, Visible, Resting
<1>2. CASE Events
  <2>1. CASE EventsOpen
    BY <2>1, FirstOpenKeeps, LaterOpenKeeps
  <2>2. CASE Admitted
    BY <2>2, AdmittedKeeps, MissedKeeps
  <2> QED
    BY <1>2, <2>1, <2>2, BlipKeeps, EventsClosedKeeps, NowPlayingKeeps, StatusKeeps DEF Events
<1>3. CASE Audio
  BY <1>3, AudioPlaysKeeps, AudioLostKeeps, AudioWaitsKeeps, PlayBlockedKeeps, LeaveToKeeps
     DEF Audio, AudioPaused, Resting
<1>4. CASE UNCHANGED playerVars
  <2>1. PlayerTypeOK' /\ Fits' /\ Timely' /\ NoStaleTitle'
    BY <1>4 DEF playerVars, PlayerInv, PlayerTypeOK, Fits, Timely, NoStaleTitle
  <2>2. HoldsItsPhase'
    BY <1>4 DEF playerVars, PlayerInv, HoldsItsPhase, Needs, Running
  <2> QED
    BY <2>1, <2>2 DEF PlayerInv
<1> QED
  BY <1>1, <1>2, <1>3, <1>4, TimeoutKeeps, SecondKeeps DEF PlayerNext

LEMMA PlayerInvHolds == PlayerSpec => []PlayerInv
<1>1. PlayerInit => PlayerInv
  <2> SUFFICES ASSUME PlayerInit PROVE PlayerInv
    OBVIOUS
  <2> USE DEF PlayerInit, AllOff, Off
  <2>1. PlayerTypeOK
    <3>1. \A t \in TimerNames : -1 \in Off..Longest(t)
      BY TimesAssumption DEF TimerNames, Longest
    <3> QED
      BY <3>1, InitialPlayer DEF PlayerTypeOK
  <2>2. HoldsItsPhase
    BY DEF HoldsItsPhase, Needs, Running, initialState, Resting
  <2>3. Fits /\ Timely /\ NoStaleTitle
    BY DEF Fits, Timely, NoStaleTitle, initialState, Resting
  <2> QED
    BY <2>1, <2>2, <2>3 DEF PlayerInv
<1> QED
  BY <1>1, PlayerInvInductive, PTL DEF PlayerSpec

(* The player, the browser's objects and the timers keep their types: no timer *)
(* is ever set for longer than its limit, the doubling wait included.          *)
THEOREM PlayerTypeCorrect == PlayerSpec => []PlayerTypeOK
<1>1. PlayerInv => PlayerTypeOK
  BY DEF PlayerInv
<1> QED
  BY <1>1, PlayerInvHolds, PTL

(* For any times: no event, in any order, leaves a timer running that its state *)
(* does not wait for, one missing that it does, or a stream open at rest.       *)
THEOREM PhaseHeld == PlayerSpec => []HoldsItsPhase
<1>1. PlayerInv => HoldsItsPhase
  BY DEF PlayerInv
<1> QED
  BY <1>1, PlayerInvHolds, PTL

(* For any times: a drop is over within Deadline of its start, and a first tune- *)
(* in within the sum of its limits.                                              *)
THEOREM Settles == PlayerSpec => []SettlesInTime
<1>1. PlayerInv => SettlesInTime
  <2> SUFFICES ASSUME PlayerInv PROVE SettlesInTime
    OBVIOUS
  <2>1. \A t \in TimerNames : Needs(t) => timers[t] \in Nat
    BY Typed DEF Off
  <2>2. player.reconnecting => timers["deadline"] \in Nat
    BY <2>1 DEF Needs, TimerNames
  <2>3. player.phase = "connecting" => timers["open"] \in Nat
    BY <2>1 DEF Needs, TimerNames
  <2>4. player.phase = "tuning" => timers["tune"] \in Nat
    BY <2>1 DEF Needs, TimerNames
  <2>5. player.phase = "needsTap" => timers["tap"] \in Nat
    BY <2>1 DEF Needs, TimerNames
  <2> QED
    BY <2>2, <2>3, <2>4, <2>5, Typed, TimesAssumption DEF PlayerInv, Timely, SettlesInTime
<1> QED
  BY <1>1, PlayerInvHolds, PTL

(* A title told before the page's own stream was admitted is never shown over   *)
(* its audio, unless the page's events were down when it was admitted.          *)
THEOREM TitlesFresh == PlayerSpec => []NoStaleTitle
<1>1. PlayerInv => NoStaleTitle
  BY DEF PlayerInv
<1> QED
  BY <1>1, PlayerInvHolds, PTL
=============================================================================
