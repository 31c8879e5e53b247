----------------------------- MODULE RadioPlayer -----------------------------
(***************************************************************************)
(* The listening page's player: the state machine that opens the events     *)
(* stream, starts the audio once it is open, and reconnects after a drop    *)
(* (web/radio/playerMachine.js), with the controller that performs its      *)
(* effects on the browser's objects (player.js) and what those objects and  *)
(* the server may do next.                                                  *)
(*                                                                          *)
(* One step is one event and everything the page does for it; between two   *)
(* seconds events come in any order, and a timer goes off in its second.    *)
(* Why a phase was left (`reason`) is left out.                             *)
(***************************************************************************)
EXTENDS Integers

CONSTANTS  \* in seconds
  OpenTime,     \* OPEN_MS
  TuneTime,     \* TUNE_MS
  GraceTime,    \* GRACE_MS
  StallTime,    \* STALL_MS
  TapTime,      \* TAP_MS
  Deadline,     \* DEADLINE_MS
  FirstWait,    \* FIRST_WAIT_MS
  LongestWait,  \* LONGEST_WAIT_MS
  LastAttempt   \* bound: the first try that waits LongestWait; later ones wait as long

ASSUME TimesAssumption ==
  /\ {OpenTime, TuneTime, GraceTime, TapTime, FirstWait, LongestWait, LastAttempt}
       \subseteq Nat \ {0}
  /\ StallTime \in Nat /\ Deadline \in Nat /\ 0 < StallTime /\ StallTime < Deadline

VARIABLES
  player,    \* PlayerState
  source,    \* the events stream; "blip": the browser is reconnecting it
  audio,     \* the audio element
  timers,    \* seconds until each timer goes off, Off when it does not run
  admitted,  \* whether the page's own stream was admitted, and its `tuning` told here
  age        \* seconds since Play, or since the drop or the stall began (history)

playerVars == <<player, source, audio, timers, admitted, age>>

Resting == {"idle", "ended", "failed"}
Phases == Resting \cup {"connecting", "tuning", "playing", "retrying", "needsTap"}
Statuses == {"tuning", "no_broadcast", "busy", "unavailable", "ended", "stopped"}
TimerNames == {"open", "tune", "grace", "stall", "tap", "deadline", "wait"}
Off == -1

\* A song is known by when it was told: before the page's own stream was admitted
\* (a title of an older stream of the listener), or since.
Songs == {"none", "before", "since"}

Players ==
  [phase : Phases, song : Songs, titlesLost : BOOLEAN, lastStatus : Statuses \cup {"none"},
   attempt : 0..LastAttempt, reconnecting : BOOLEAN, lossPending : BOOLEAN,
   stalling : BOOLEAN]

initialState ==
  [phase |-> "idle", song |-> "none", titlesLost |-> FALSE, lastStatus |-> "none",
   attempt |-> 0, reconnecting |-> FALSE, lossPending |-> FALSE, stalling |-> FALSE]

Longest(t) ==
  CASE t = "open" -> OpenTime [] t = "tune" -> TuneTime [] t = "grace" -> GraceTime
    [] t = "stall" -> StallTime [] t = "tap" -> TapTime [] t = "deadline" -> Deadline
    [] t = "wait" -> LongestWait

PlayerTypeOK ==
  /\ player \in Players
  /\ source \in {"closed", "opening", "open", "blip"}
  /\ audio \in {"silent", "loading", "refused", "resumed", "playing", "stalled", "lost"}
  /\ timers \in [TimerNames -> Int]
  /\ \A t \in TimerNames : timers[t] \in Off..Longest(t)
  /\ admitted \in {"no", "told", "missed"}
  /\ age \in Nat

AllOff == [t \in TimerNames |-> Off]

PlayerInit ==
  /\ player = initialState
  /\ source = "closed"
  /\ audio = "silent"
  /\ timers = AllOff
  /\ admitted = "no"
  /\ age = 0

-----------------------------------------------------------------------------
(* Transitions with their effects. *)

RetryDelay(attempt) ==
  LET doubled == FirstWait * 2^(attempt - 1)
  IN  IF doubled \in 0..LongestWait THEN doubled ELSE LongestWait

\* A drop's deadline goes on running through its retries.
DeadlineOf(deadline) == IF player.reconnecting THEN timers["deadline"] ELSE deadline

NextAttempt == IF player.attempt < LastAttempt THEN player.attempt + 1 ELSE LastAttempt

Quiet == UNCHANGED <<source, audio, timers, admitted, age>>

\* leave: nothing stays open, and the song goes.
LeaveTo(phase) ==
  /\ player' = [initialState EXCEPT !.phase = phase]
  /\ source' = "closed" /\ audio' = "silent" /\ timers' = AllOff
  /\ admitted' = "no" /\ age' = 0

\* retry, `since` seconds after the drop when it is the one that tells it.
Retry(deadline, since) ==
  /\ player' = [player EXCEPT !.phase = "retrying", !.song = "none", !.titlesLost = FALSE,
                              !.lastStatus = "none", !.attempt = NextAttempt,
                              !.reconnecting = TRUE, !.lossPending = FALSE,
                              !.stalling = FALSE]
  /\ source' = "closed" /\ audio' = "silent"
  /\ timers' = [AllOff EXCEPT !["deadline"] = DeadlineOf(deadline),
                              !["wait"] = RetryDelay(NextAttempt)]
  /\ admitted' = "no"
  /\ age' = IF player.reconnecting THEN age ELSE since

\* tryFailed: final on the first tune-in, another try on a reconnect.
TryFailed == IF player.reconnecting THEN Retry(Deadline, 0) ELSE LeaveTo("failed")

Deciding == {"ended", "unavailable", "stopped"}
DecideByReason(kind, deadline, since) ==
  \/ kind = "ended" /\ LeaveTo("ended")
  \/ kind = "unavailable" /\ LeaveTo("failed")
  \/ kind = "stopped" /\ Retry(deadline, since)

\* canStartTry, startTry
StartTry ==
  /\ player.phase = "retrying" /\ ~player.lossPending
  /\ player' = [player EXCEPT !.phase = "connecting"]
  /\ source' = "opening"
  /\ timers' = [timers EXCEPT !["wait"] = Off, !["open"] = OpenTime]
  /\ UNCHANGED <<audio, admitted, age>>

LoseTitles ==
  /\ player' = [player EXCEPT !.song = "none", !.titlesLost = TRUE]
  /\ source' = "closed"
  /\ UNCHANGED <<audio, timers, admitted, age>>

-----------------------------------------------------------------------------
(* The listener. *)

PlayFromRest ==
  /\ player.phase \in Resting
  /\ player' = [initialState EXCEPT !.phase = "connecting"]
  /\ source' = "opening"
  /\ timers' = [timers EXCEPT !["open"] = OpenTime]
  /\ UNCHANGED <<audio, admitted, age>>

\* The tap plays the audio it has; one that failed meanwhile stays silent.
Tap ==
  /\ player.phase = "needsTap"
  /\ player' = [player EXCEPT !.phase = "tuning"]
  /\ audio' = IF audio = "lost" THEN "lost" ELSE "resumed"
  /\ timers' = [timers EXCEPT !["tap"] = Off, !["tune"] = TuneTime]
  /\ UNCHANGED <<source, admitted, age>>

\* The button, the lock screen, or leaving the page.
Stop ==
  /\ player.phase \notin Resting
  /\ LeaveTo("idle")

Visible == StartTry

-----------------------------------------------------------------------------
(* The events stream. *)

\* Only the first `open` gives the audio its source; a later one ends a blip.
EventsOpen ==
  /\ source \in {"opening", "blip"}
  /\ source' = "open"
  /\ IF player.phase = "connecting"
       THEN /\ player' = [player EXCEPT !.phase = "tuning"]
            /\ audio' = "loading"
            /\ timers' = [timers EXCEPT !["open"] = Off, !["tune"] = TuneTime]
       ELSE UNCHANGED <<player, audio, timers>>
  /\ UNCHANGED <<admitted, age>>

Blip ==
  /\ source = "open"
  /\ source' = "blip"
  /\ UNCHANGED <<player, audio, timers, admitted, age>>

EventsClosed ==
  /\ source # "closed"
  /\ \/ player.phase \in {"connecting", "needsTap"} /\ TryFailed
     \/ player.phase = "tuning" /\ player.reconnecting /\ TryFailed
     \/ player.phase = "tuning" /\ ~player.reconnecting /\ LoseTitles
     \/ player.phase = "playing" /\ LoseTitles
     \/ /\ player.phase = "retrying"
        /\ source' = "closed"
        /\ UNCHANGED <<player, audio, timers, admitted, age>>

\* MUTANT: an older stream's title stays when the page's own stream is admitted.
SongKept == player
SongCleared == [player EXCEPT !.song = "none"]

\* statusWhileTuning
StatusWhileTuning(kind) ==
  \/ kind \in {"no_broadcast", "unavailable"} /\ LeaveTo("failed")
  \/ kind = "ended" /\ LeaveTo("ended")
  \/ kind = "busy" /\ TryFailed
  \/ kind = "stopped" /\ Retry(Deadline, 0)
  \/ kind = "tuning" /\ player' = SongCleared /\ Quiet

\* While its own audio plays a status is only remembered; while a loss waits for
\* its reason it may be it.
Status(kind) ==
  /\ source = "open"
  /\ \/ player.phase \in {"tuning", "needsTap"} /\ StatusWhileTuning(kind)
     \/ /\ player.phase = "playing"
        /\ player' = [player EXCEPT !.lastStatus = kind]
        /\ Quiet
     \/ /\ player.phase = "retrying" /\ player.lossPending
        /\ DecideByReason(kind, Deadline, 0)

NowPlaying ==
  /\ source = "open"
  /\ player.phase \in {"tuning", "playing", "needsTap"}
  /\ player' = [player EXCEPT !.song = IF admitted = "no" THEN "before" ELSE "since",
                              !.lastStatus = "none"]
  /\ Quiet

\* The server admits the page's own stream, before it sends any audio, and tells
\* `tuning` to whoever is subscribed: a page whose events are down never hears it.
Admitted ==
  /\ admitted = "no"
  /\ audio \in {"loading", "refused", "resumed"}
  /\ IF source = "open"
       THEN admitted' = "told" /\ player' = SongCleared
       ELSE admitted' = "missed" /\ UNCHANGED player
  /\ UNCHANGED <<source, audio, timers, age>>

-----------------------------------------------------------------------------
(* The audio element. *)

\* MUTANT: playing again does not end the drop's deadline.
KeptWhenPlaying == [AllOff EXCEPT !["deadline"] = timers["deadline"]]
TimersWhenPlaying == AllOff

AudioPlays ==
  /\ \/ audio \in {"loading", "resumed"} /\ admitted # "no"
     \/ audio = "stalled"
  /\ audio' = "playing"
  /\ IF player.phase = "playing"
       THEN /\ player' = [player EXCEPT !.stalling = FALSE]
            /\ timers' = [timers EXCEPT !["stall"] = Off]
       ELSE /\ player' = [player EXCEPT !.phase = "playing", !.lastStatus = "none",
                                        !.attempt = 0, !.reconnecting = FALSE,
                                        !.lossPending = FALSE, !.stalling = FALSE]
            /\ timers' = TimersWhenPlaying
  /\ age' = 0
  /\ UNCHANGED <<source, admitted>>

\* `error` or `ended`.  While tuning in it waits for a reason; while playing it is
\* the drop, decided by the reason remembered, or waiting for one.
AudioLost ==
  /\ audio \notin {"silent", "lost"}
  /\ \/ /\ player.phase = "needsTap"
        /\ audio' = "lost"
        /\ UNCHANGED <<player, source, timers, admitted, age>>
     \/ /\ player.phase = "tuning"
        /\ audio' = "lost"
        /\ player' = [player EXCEPT !.lossPending = TRUE]
        /\ timers' = [timers EXCEPT !["grace"] = GraceTime]
        /\ UNCHANGED <<source, admitted, age>>
     \/ player.phase = "playing" /\ DecideByReason(player.lastStatus, Deadline, 0)
     \/ /\ player.phase = "playing" /\ player.lastStatus \notin Deciding
        /\ audio' = "lost"
        /\ player' = [player EXCEPT !.phase = "retrying", !.song = "none",
                                    !.lastStatus = "none", !.reconnecting = TRUE,
                                    !.lossPending = TRUE, !.stalling = FALSE]
        /\ timers' = [timers EXCEPT !["stall"] = Off, !["deadline"] = Deadline,
                                    !["grace"] = GraceTime]
        /\ age' = 0
        /\ UNCHANGED <<source, admitted>>

AudioWaits ==
  /\ audio = "playing"
  /\ audio' = "stalled"
  /\ player' = [player EXCEPT !.stalling = TRUE]
  /\ timers' = [timers EXCEPT !["stall"] = StallTime]
  /\ age' = 0
  /\ UNCHANGED <<source, admitted>>

\* A pause the page did not ask for is a Stop.
AudioPaused ==
  /\ audio \in {"playing", "stalled"}
  /\ LeaveTo("idle")

\* The browser refuses to play without a tap; never inside one.
PlayBlocked ==
  /\ audio = "loading"
  /\ audio' = "refused"
  /\ player' = [player EXCEPT !.phase = "needsTap", !.lossPending = FALSE]
  /\ timers' = [timers EXCEPT !["tune"] = Off, !["grace"] = Off, !["tap"] = TapTime]
  /\ UNCHANGED <<source, admitted, age>>

-----------------------------------------------------------------------------
(* The timers. *)

\* MUTANT: a stall's deadline runs from its verdict, not from its start.
StallDeadlineWhole == Deadline
StallDeadline == Deadline - StallTime

\* onTimeout: each timer in the phase it belongs to.
OnTimeout(t) ==
  \/ t = "open" /\ player.phase = "connecting" /\ TryFailed
  \/ t = "tune" /\ player.phase = "tuning" /\ TryFailed
  \/ t = "grace" /\ player.phase = "tuning" /\ TryFailed
  \/ t = "grace" /\ player.phase = "retrying" /\ player.lossPending /\ Retry(Deadline, 0)
  \/ /\ t = "stall" /\ player.phase = "playing"
     /\ \/ DecideByReason(player.lastStatus, StallDeadline, age)
        \/ player.lastStatus \notin Deciding /\ Retry(StallDeadline, age)
  \/ /\ t = "tap" /\ player.phase = "needsTap"
     /\ LeaveTo(IF player.reconnecting THEN "failed" ELSE "idle")
  \/ /\ t = "deadline" /\ player.phase \notin Resting /\ player.reconnecting
     /\ LeaveTo("failed")
  \/ t = "wait" /\ StartTry

Timeout(t) ==
  /\ timers[t] = 0
  /\ OnTimeout(t)

Running == {t \in TimerNames : timers[t] # Off}

Second ==
  /\ Running # {}
  /\ \A t \in Running : timers[t] > 0
  /\ timers' = [t \in TimerNames |-> IF t \in Running THEN timers[t] - 1 ELSE Off]
  /\ age' = age + 1
  /\ UNCHANGED <<player, source, audio, admitted>>

-----------------------------------------------------------------------------

Listener == PlayFromRest \/ Tap \/ Stop \/ Visible
Events ==
  \/ EventsOpen \/ Blip \/ EventsClosed \/ NowPlaying \/ Admitted
  \/ \E kind \in Statuses : Status(kind)
Audio == AudioPlays \/ AudioLost \/ AudioWaits \/ AudioPaused \/ PlayBlocked

PlayerNext == Listener \/ Events \/ Audio \/ (\E t \in TimerNames : Timeout(t)) \/ Second

PlayerSpec == PlayerInit /\ [][PlayerNext]_playerVars

-----------------------------------------------------------------------------
(* Properties. *)

\* Whether a state of the player needs a timer.
Needs(t) ==
  LET p == player IN
  \/ t = "open" /\ p.phase = "connecting"
  \/ t = "tune" /\ p.phase = "tuning"
  \/ t = "tap" /\ p.phase = "needsTap"
  \/ t = "wait" /\ p.phase = "retrying" /\ ~p.lossPending
  \/ t = "grace" /\ p.lossPending
  \/ t = "stall" /\ p.stalling
  \/ t = "deadline" /\ p.reconnecting

\* However drops, stalls, taps and statuses cross, the timers that run are exactly
\* those its state waits for, and the browser's objects are what it takes them for:
\* a page at rest or between two tries holds no stream, a page that shows "playing"
\* plays, and no timer of a past try is left to go off in this one.
HoldsItsPhase ==
  LET p == player IN
  /\ \A t \in TimerNames : t \in Running <=> Needs(t)
  /\ audio = "silent" <=> \/ p.phase \in Resting \cup {"connecting"}
                          \/ p.phase = "retrying" /\ ~p.lossPending
  /\ audio \in {"playing", "stalled"} <=> p.phase = "playing"
  /\ audio = "stalled" <=> p.stalling
  /\ audio \in {"loading", "resumed"} => p.phase = "tuning"
  /\ p.lossPending => audio = "lost"
  /\ source = "opening" <=> p.phase = "connecting"
  /\ p.phase \in {"tuning", "needsTap", "playing"} => (source = "closed" <=> p.titlesLost)
  /\ p.phase \in Resting \/ (p.phase = "retrying" /\ ~p.lossPending) => source = "closed"

\* "The hard cut-off from the drop": a page that reconnects plays again or gives up
\* within Deadline of the drop, whatever its tries do; a first tune-in settles
\* within its own limits, the wait for a tap included.
SettlesInTime ==
  /\ player.reconnecting => age <= Deadline
  /\ player.phase \in {"connecting", "tuning", "needsTap"} /\ ~player.reconnecting =>
       age <= OpenTime + TuneTime + TapTime + TuneTime

\* No stale title: while the page's own audio plays it shows no title told before
\* its stream was admitted, unless its events were down when that was told; and a
\* page that has no events shows no title.
NoStaleTitle ==
  player.song # "none" =>
    /\ source # "closed"
    /\ player.phase \in {"tuning", "needsTap", "playing"}
    /\ player.song = "before" => admitted # "told"
    /\ player.song = "before" /\ player.phase = "playing" => admitted = "missed"

=============================================================================
