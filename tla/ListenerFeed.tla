---------------------------- MODULE ListenerFeed ----------------------------
(***************************************************************************)
(* The listener feed: what the pages subscribed to a channel are told of    *)
(* its streams, and how a page's read waits for it                          *)
(* (services/streaming/listener_events.py).                                 *)
(*                                                                          *)
(* Events are numbered as they are made; a title is due a fixed delay       *)
(* later, so titles fall due in that order.  Everything runs on one loop:   *)
(* an action is a call of the feed, or a page's read between two awaits.    *)
(***************************************************************************)
EXTENDS Integers, Sequences, FiniteSets

CONSTANTS
  Channels,
  Streams,      \* each is admitted and ends once
  ChannelOf,    \* the channel of each stream
  Readers,      \* subscriptions; each is opened once
  Limit,        \* subscriptions open at once, app-wide
  PendingLimit, \* PENDING_LIMIT
  MaxTitles,    \* bound: titles told
  None

ASSUME ChannelAssumption == ChannelOf \in [Streams -> Channels]
ASSUME ReadersAssumption == IsFiniteSet(Readers)
ASSUME BoundsAssumption == {Limit, MaxTitles} \subseteq Nat /\ PendingLimit \in Nat \ {0}
ASSUME NoneAssumption == None \notin Channels

VARIABLES
  streams,   \* where each stream is: "new", "playing" or "over"
  opened,    \* the `tuning` each stream was admitted with: still_playing's order
  current,   \* the title each channel shows
  boxes,     \* the mailboxes of each channel, as its list has them
  known,     \* the channels of the feed's table
  count,     \* _open
  made,      \* events made so far
  titles,    \* which of them are titles
  due,       \* events up to this one are past their delay
  on,        \* the channel each page subscribed to
  mail,      \* each page's mailbox
  read,      \* each page's read
  shown      \* the last event each page was given (history)

tables == <<streams, opened, current, known>>
clock == <<made, titles, due>>
pages == <<read, shown>>
vars == <<tables, boxes, count, clock, on, mail, pages>>

\* Number 0 stands for a refusal, which no title waits for and none replaces.
Event == Nat
NoTitle == 0
Refusal == 0

\* "away": the page has its last event or has not asked yet.  "waiting" has a
\* waker; "cancelling" has none, while the wait puts away what it started.
Reads == {"none", "away", "waiting", "cancelling", "over"}
Wait == [at : Reads, held : Event, woken : BOOLEAN, slept : BOOLEAN]
At(where) == [at |-> where, held |-> NoTitle, woken |-> FALSE, slept |-> FALSE]

Empty == [queue |-> <<>>, held |-> NoTitle, shut |-> FALSE]

TypeOK ==
  /\ streams \in [Streams -> {"new", "playing", "over"}]
  /\ opened \in [Streams -> Event]
  /\ current \in [Channels -> Event]
  /\ boxes \in [Channels -> SUBSET Readers]
  /\ known \subseteq Channels
  /\ count \in Int /\ made \in Nat /\ titles \subseteq Nat /\ due \in Nat
  /\ on \in [Readers -> Channels \cup {None}]
  /\ mail \in [Readers -> [queue : Seq(Event), held : Event, shut : BOOLEAN]]
  /\ read \in [Readers -> Wait]
  /\ shown \in [Readers -> Event]

Init ==
  /\ streams = [s \in Streams |-> "new"]
  /\ opened = [s \in Streams |-> 0]
  /\ current = [c \in Channels |-> NoTitle]
  /\ boxes = [c \in Channels |-> {}]
  /\ known = {}
  /\ count = 0
  /\ made = 0 /\ titles = {} /\ due = 0
  /\ on = [r \in Readers |-> None]
  /\ mail = [r \in Readers |-> Empty]
  /\ read = [r \in Readers |-> At("none")]
  /\ shown = [r \in Readers |-> 0]

-----------------------------------------------------------------------------
(* A mailbox: _replace_title, tell, supersede, hold, shut. *)

IsDue(title) == title # NoTitle /\ title <= due
Backlog(m) == Len(m.queue) + (IF m.held # NoTitle THEN 1 ELSE 0)

\* The waiting title goes, told first if it is due already.
ReplaceTitle(m, title) ==
  [m EXCEPT !.queue = IF IsDue(m.held) THEN Append(@, m.held) ELSE @, !.held = title]

TellStatus(m, event) == [m EXCEPT !.queue = Append(@, event)]
Supersede(m, event) == TellStatus(ReplaceTitle(m, NoTitle), event)

Shut(m) == [queue |-> <<>>, held |-> NoTitle, shut |-> TRUE]

-----------------------------------------------------------------------------
(* The feed: _tell, _forget, _prune. *)

TooFarBehind(m) == Backlog(m) > PendingLimit

\* MUTANT: nobody is woken by what is told.
WokenNever(readers) == read
\* A waker is there only while a read waits.
Woken(readers) ==
  [r \in Readers |-> IF r \in readers /\ read[r].at = "waiting"
                       THEN [read[r] EXCEPT !.woken = TRUE] ELSE read[r]]

\* A channel stays in the table while a stream or a page is on it.
KnownAfter(c, playing, readers) ==
  IF playing = {} /\ readers = {} THEN known \ {c} ELSE known \cup {c}

\* The channel's mailboxes after a delivery are `told`; whoever is left too far
\* behind is disconnected.  The channel's streams are then `playing`.
Tell(c, playing, told) ==
  LET dropped == {r \in boxes[c] : TooFarBehind(told[r])}
  IN  /\ mail' = [r \in Readers |-> CASE r \in dropped -> Shut(told[r])
                                      [] r \in boxes[c] \ dropped -> told[r]
                                      [] OTHER -> mail[r]]
      /\ boxes' = [boxes EXCEPT ![c] = @ \ dropped]
      /\ count' = count - Cardinality(dropped)
      /\ read' = Woken(boxes[c])
      /\ known' = KnownAfter(c, playing, boxes[c] \ dropped)

Playing(c) == {s \in Streams : ChannelOf[s] = c /\ streams[s] = "playing"}
\* The newest stream still playing owns its channel.
Owns(s) ==
  streams[s] = "playing" /\ \A u \in Playing(ChannelOf[s]) : opened[u] <= opened[s]

\* The newest stream takes the channel: its title is cleared, `tuning` is told.
Opened(s) ==
  LET c == ChannelOf[s] IN
  /\ streams[s] = "new"
  /\ streams' = [streams EXCEPT ![s] = "playing"]
  /\ opened' = [opened EXCEPT ![s] = made + 1]
  /\ made' = made + 1
  /\ current' = [current EXCEPT ![c] = NoTitle]
  /\ Tell(c, Playing(c) \cup {s}, [r \in boxes[c] |-> Supersede(mail[r], made + 1)])
  /\ UNCHANGED <<titles, due, on, shown>>

Refused(c) ==
  /\ c \in known
  /\ Tell(c, Playing(c), [r \in boxes[c] |-> TellStatus(mail[r], Refusal)])
  /\ UNCHANGED <<streams, opened, current, clock, on, shown>>

Title(s) ==
  LET c == ChannelOf[s] IN
  /\ Owns(s)
  /\ Cardinality(titles) < MaxTitles
  /\ titles' = titles \cup {made + 1}
  /\ made' = made + 1
  /\ current' = [current EXCEPT ![c] = made + 1]
  /\ Tell(c, Playing(c), [r \in boxes[c] |-> ReplaceTitle(mail[r], made + 1)])
  /\ UNCHANGED <<streams, opened, due, on, shown>>

\* The owner's end is told and clears the title; an older stream's is not told.
Ended(s) ==
  LET c == ChannelOf[s] IN
  /\ streams[s] = "playing"
  /\ streams' = [streams EXCEPT ![s] = "over"]
  /\ IF Owns(s)
       THEN /\ made' = made + 1
            /\ current' = [current EXCEPT ![c] = NoTitle]
            /\ Tell(c, Playing(c) \ {s}, [r \in boxes[c] |-> Supersede(mail[r], made + 1)])
       ELSE /\ known' = KnownAfter(c, Playing(c) \ {s}, boxes[c])
            /\ UNCHANGED <<made, current, mail, boxes, count, read>>
  /\ UNCHANGED <<opened, titles, due, on, shown>>

\* The title a channel shows is waiting in a new mailbox.
Subscribe(r, c) ==
  /\ read[r].at = "none"
  /\ count < Limit
  /\ on' = [on EXCEPT ![r] = c]
  /\ mail' = [mail EXCEPT ![r] = [Empty EXCEPT !.held = current[c]]]
  /\ boxes' = [boxes EXCEPT ![c] = @ \cup {r}]
  /\ known' = known \cup {c}
  /\ count' = count + 1
  /\ read' = [read EXCEPT ![r] = At("away")]
  /\ UNCHANGED <<streams, opened, current, clock, shown>>

\* MUTANT: a subscription that was disconnected is given back again.
StillCountsAlways(m) == TRUE
StillCounts(m) == ~m.shut

\* aclose, when the response ends or its client is gone, also in mid-read.
Leave(r) ==
  /\ read[r].at \notin {"none", "over"}
  /\ read' = [read EXCEPT ![r] = At("over")]
  /\ IF StillCounts(mail[r])
       THEN /\ mail' = [mail EXCEPT ![r] = Shut(@)]
            /\ boxes' = [boxes EXCEPT ![on[r]] = @ \ {r}]
            /\ count' = count - 1
            /\ known' = KnownAfter(on[r], Playing(on[r]), boxes[on[r]] \ {r})
       ELSE UNCHANGED <<mail, boxes, count, known>>
  /\ UNCHANGED <<streams, opened, current, clock, on, shown>>

-----------------------------------------------------------------------------
(* A page's read: __anext__, take, wait. *)

Give(r, m, event) ==
  /\ mail' = [mail EXCEPT ![r] = m]
  /\ read' = [read EXCEPT ![r] = At("away")]
  /\ shown' = [shown EXCEPT ![r] = IF event = Refusal THEN @ ELSE event]

\* __anext__'s loop from a mailbox m: take what may be told now, else wait.  A
\* mailbox that was shut ends the read; its page then leaves.
TakeOrWait(r, m) ==
  CASE m.shut ->
         /\ mail' = [mail EXCEPT ![r] = m]
         /\ read' = [read EXCEPT ![r] = At("away")]
         /\ UNCHANGED shown
    [] ~m.shut /\ m.queue # <<>> -> Give(r, [m EXCEPT !.queue = Tail(@)], Head(m.queue))
    [] ~m.shut /\ m.queue = <<>> /\ IsDue(m.held) ->
         Give(r, [m EXCEPT !.held = NoTitle], m.held)
    [] OTHER ->
         /\ mail' = [mail EXCEPT ![r] = m]
         /\ read' = [read EXCEPT ![r] = [At("waiting") EXCEPT !.held = m.held]]
         /\ UNCHANGED shown

Ask(r) ==
  /\ read[r].at = "away"
  /\ ~mail[r].shut
  /\ TakeOrWait(r, mail[r])
  /\ UNCHANGED <<tables, boxes, count, clock, on>>

\* The sleep for the title that was waiting when the read began to wait.
SleepEnds(r) ==
  /\ read[r].at = "waiting"
  /\ IsDue(read[r].held)
  /\ ~read[r].slept
  /\ read' = [read EXCEPT ![r].slept = TRUE]
  /\ UNCHANGED <<tables, boxes, count, clock, on, mail, shown>>

\* Either future is done: the waker is taken away and the other one cancelled.
Wakes(r) ==
  /\ read[r].at = "waiting"
  /\ read[r].woken \/ read[r].slept
  /\ read' = [read EXCEPT ![r].at = "cancelling"]
  /\ UNCHANGED <<tables, boxes, count, clock, on, mail, shown>>

\* MUTANT: the title slept for is told though another one has come since.
SleptForAny(r) == read[r].slept
\* The title slept for is told only if it is still the one that waits.
SleptFor(r) == read[r].slept /\ read[r].held = mail[r].held

Settled(r) ==
  IF SleptFor(r) /\ read[r].held # NoTitle
    THEN [mail[r] EXCEPT !.queue = Append(@, read[r].held), !.held = NoTitle] ELSE mail[r]

Goes(r) ==
  /\ read[r].at = "cancelling"
  /\ TakeOrWait(r, Settled(r))
  /\ UNCHANGED <<tables, boxes, count, clock, on>>

PassTime ==
  /\ due < made
  /\ due' = due + 1
  /\ UNCHANGED <<tables, boxes, count, made, titles, on, mail, pages>>

ReadStep(r) == Ask(r) \/ SleepEnds(r) \/ Wakes(r) \/ Goes(r)

Next ==
  \/ \E s \in Streams : Opened(s) \/ Title(s) \/ Ended(s)
  \/ \E c \in Channels : Refused(c) \/ \E r \in Readers : Subscribe(r, c)
  \/ \E r \in Readers : ReadStep(r) \/ Leave(r)
  \/ PassTime

Spec == Init /\ [][Next]_vars

\* A sleep ends at its time, and the loop runs what is due; nothing makes a page
\* ask for its next event.
FairSpec ==
  /\ Spec
  /\ \A r \in Readers : WF_vars(SleepEnds(r) \/ Wakes(r) \/ Goes(r))
  /\ WF_vars(PassTime)

-----------------------------------------------------------------------------
(* Properties. *)

OpenPages(c) == {r \in Readers : on[r] = c /\ ~mail[r].shut}

\* The open subscriptions are counted exactly, within the app's limit, and each
\* is in its channel's list: one that is disconnected for being behind while its
\* page leaves is given back once, in whichever order the two happen.
CountsOpenPages ==
  /\ \A c \in Channels : boxes[c] = OpenPages(c)
  /\ count = Cardinality(UNION {OpenPages(c) : c \in Channels})
  /\ count <= Limit

\* A channel is in the feed's table exactly while a stream plays or a page is on
\* it: none outlives them, and none goes while its newest stream could still tell
\* its end.
KeptWhileUsed ==
  \A c \in Channels :
    c \in known <=> boxes[c] # {} \/ Playing(c) # {}

\* No page holds more unread than PENDING_LIMIT, the waiting title included, and
\* one that was disconnected holds nothing, however its read was waiting.
UnreadBounded ==
  \A r \in Readers :
    Backlog(mail[r]) <= PendingLimit /\ (mail[r].shut => Backlog(mail[r]) = 0)

\* The feed gives back whatever a page or a stream held, in whichever order drops,
\* leaves and ends meet: its count, its table and its mailboxes agree.
FeedAccounted == CountsOpenPages /\ KeptWhileUsed /\ UnreadBounded

\* A page is told titles and the statuses that end them in the order they were
\* made: never the title of a stream after its end or after the next `tuning`,
\* though a read may have slept for that title when they were told.
ToldInOrder == [][\A r \in Readers : shown'[r] >= shown[r]]_vars

\* No title is told before its delay has passed, whatever wakes the read.
NeverEarly ==
  [][\A r \in Readers :
       shown'[r] # shown[r] /\ shown'[r] \in titles => shown'[r] <= due]_vars

\* What a page is told comes in order and not before its time, although the wait
\* for a title and what supersedes it may end in the same turn.
ToldOnTime == ToldInOrder /\ NeverEarly

\* A read that waits goes on once there is anything to tell, or the subscription
\* is over: no wake-up is lost between two waits.
WaitsEnd ==
  \A r \in Readers :
    read[r].at \in {"waiting", "cancelling"} /\ (mail[r].shut \/ Backlog(mail[r]) > 0)
      ~> read[r].at \notin {"waiting", "cancelling"}

=============================================================================
