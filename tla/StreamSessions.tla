--------------------------- MODULE StreamSessions ---------------------------
(***************************************************************************)
(* The listener sessions of one API process: how a tune-in takes a slot,   *)
(* is placed while its engine starts, is relayed, reported on and closed,  *)
(* and what each of those steps does to the engine process, the listener   *)
(* feed and the bookmarks (backend/services/streaming/service.py).         *)
(*                                                                         *)
(* Everything that touches the tables runs on one event loop, so an action *)
(* is the code between two awaits.  The placement thread, the engine start *)
(* and the engine process run beside the loop.  A schedule is data here:   *)
(* placement may land, find nothing to play, or break; what a session has  *)
(* heard is one of "nothing", "song" and "signedOff" (schedule_finished).  *)
(* ItemContract models the items of one session in full.                   *)
(***************************************************************************)
EXTENDS Naturals, FiniteSets

CONSTANTS
  Tunes,        \* tune-ins; each is also the session id it is given
  Keys,         \* listener channels (listener key, station, year)
  NoKey,        \* a tune-in without a listener key
  KeyOf,        \* the channel of each tune-in
  Limits,       \* the values the listener-limit setting takes over time
  MaxLimit,     \* no setting exceeds it
  StopMayFail,  \* whether killing an engine process may raise OSError
  None

ASSUME KeysAssumption == NoKey \notin Keys /\ KeyOf \in [Tunes -> Keys \cup {NoKey}]
ASSUME LimitsAssumption == MaxLimit \in Nat /\ Limits \subseteq 0 .. MaxLimit
ASSUME StopAssumption == StopMayFail \in BOOLEAN
ASSUME NoneAssumption == None \notin Tunes

VARIABLES
  phase,      \* where each tune-in's request is in listen/open/relay
  place,      \* its placement coroutine and thread
  start,      \* its engine start future
  proc,       \* the process of an engine that became ready
  closes,     \* how often that engine's upstream was closed
  cancelled,  \* tune-ins whose listener left while they were opening
  table,      \* _sessions
  admitted,   \* admission order: the insertion order of _sessions
  admissions, \* how many were admitted so far
  kept,       \* sessions with session.engine set
  stopped,    \* sessions with session.stopped set
  stuck,      \* engines whose kill raised
  heard,      \* what the session has committed
  saved,      \* the bookmark each placement read
  bookmarks,  \* per channel, the session whose close wrote the bookmark
  playing,    \* the feed's still_playing lists; `admitted` is their order
  page,       \* per channel, the last status told
  watchdog,   \* whether the freeze watchdog's task still runs
  app         \* the lifespan: serving, closing every session, or done

lifecycle == <<phase, place, start, cancelled>>
engines == <<proc, closes, stuck>>
sessions == <<table, admitted, admissions, kept, stopped, heard>>
marks == <<saved, bookmarks>>
feed == <<playing, page>>
vars == <<lifecycle, engines, sessions, marks, feed, watchdog, app>>

Phases == {"idle", "reading", "opening", "relaying", "over"}
\* "forgot": the thread has had the bookmark dropped and is still walking.
\* "orphan": the coroutine was cancelled and its thread is still walking.
Placements == {"none", "walking", "forgot", "orphan", "landed", "lost", "broken"}
Starts == {"none", "starting", "ready", "failed"}
Statuses == {"none", "tuning", "stopped", "ended", "no_broadcast", "unavailable", "busy"}

TypeOK ==
  /\ phase \in [Tunes -> Phases]
  /\ place \in [Tunes -> Placements]
  /\ start \in [Tunes -> Starts]
  /\ proc \in [Tunes -> {"none", "live", "dead"}]
  /\ closes \in [Tunes -> Nat]
  /\ cancelled \subseteq Tunes
  /\ table \subseteq Tunes
  /\ admitted \in [Tunes -> Nat]
  /\ admissions \in Nat
  /\ kept \subseteq Tunes
  /\ stopped \subseteq Tunes
  /\ stuck \subseteq Tunes
  /\ heard \in [Tunes -> {"nothing", "song", "signedOff"}]
  /\ saved \in [Tunes -> Tunes \cup {None}]
  /\ bookmarks \in [Keys -> Tunes \cup {None}]
  /\ playing \subseteq Tunes
  /\ page \in [Keys -> Statuses]
  /\ watchdog \in BOOLEAN
  /\ app \in {"up", "closing", "down"}

Init ==
  /\ phase = [t \in Tunes |-> "idle"]
  /\ place = [t \in Tunes |-> "none"]
  /\ start = [t \in Tunes |-> "none"]
  /\ proc = [t \in Tunes |-> "none"]
  /\ closes = [t \in Tunes |-> 0]
  /\ cancelled = {}
  /\ table = {}
  /\ admitted = [t \in Tunes |-> 0]
  /\ admissions = 0
  /\ kept = {}
  /\ stopped = {}
  /\ stuck = {}
  /\ heard = [t \in Tunes |-> "nothing"]
  /\ saved = [t \in Tunes |-> None]
  /\ bookmarks = [k \in Keys |-> None]
  /\ playing = {}
  /\ page = [k \in Keys |-> "none"]
  /\ watchdog = TRUE
  /\ app = "up"

\* close_all runs without awaiting, so nothing else runs on the loop meanwhile.
LoopFree == app # "closing"

Keyed(t) == KeyOf[t] # NoKey
-----------------------------------------------------------------------------
(* The listener feed: ListenerFeed.opened, refused and ended. *)

\* The newest stream still playing on a channel owns it.
Owns(t) ==
  /\ t \in playing
  /\ \A u \in playing : KeyOf[u] = KeyOf[t] => admitted[u] <= admitted[t]

Tell(t, status) ==
  page' = IF Keyed(t) THEN [page EXCEPT ![KeyOf[t]] = status] ELSE page

FeedOpened(t) ==
  /\ playing' = IF Keyed(t) THEN playing \cup {t} ELSE playing
  /\ Tell(t, "tuning")

\* MUTANT: a stream that is not the channel's newest stays on the channel.
FeedEndedOwnerOnly(t, kind) ==
  IF Owns(t)
    THEN playing' = playing \ {t} /\ Tell(t, kind)
    ELSE UNCHANGED feed
\* MUTANT: the end is told only when no other stream plays on the channel.
FeedEndedLastOnly(t, kind) ==
  /\ playing' = playing \ {t}
  /\ IF t \in playing /\ \A u \in playing : KeyOf[u] = KeyOf[t] => u = t
       THEN Tell(t, kind)
       ELSE UNCHANGED page

\* The end of a stream is told only while it owns its channel.
FeedEnded(t, kind) ==
  /\ playing' = playing \ {t}
  /\ IF Owns(t) THEN Tell(t, kind) ELSE UNCHANGED page

-----------------------------------------------------------------------------
(* Stopping an engine: _halt, _closing_once, _stop. *)

\* poll() spares a process that has already exited, so only a live one can refuse.
StopOutcomes(t) == IF StopMayFail /\ proc[t] = "live" THEN BOOLEAN ELSE {FALSE}

ClosedOnce(t) == IF closes[t] = 0 THEN 1 ELSE closes[t]

\* Stop the engines of F (each once), then fail on those of E; E is {} or one
\* session, since the exception leaves the loop.
StopEngines(F, E) ==
  /\ proc' = [t \in Tunes |-> IF t \in F THEN "dead" ELSE proc[t]]
  /\ stopped' = stopped \cup F
  /\ stuck' = (stuck \ F) \cup E

\* The sessions stop_frozen looks at.  Time is abstract: any of them may be
\* past its freeze deadline.
Watched == {t \in table : t \in kept /\ t \notin stopped}

\* At most one kill raises: the exception leaves the loop over the frozen.
StopFailures(candidates) ==
  {{}} \cup {{t} : t \in {u \in candidates : TRUE \in StopOutcomes(u)}}

StopFrozen(candidates, E) ==
  \E F \in SUBSET (candidates \ E) :
    /\ StopEngines(F, E)
    /\ closes' = [t \in Tunes |-> IF t \in F THEN ClosedOnce(t) ELSE closes[t]]

\* MUTANT: an open that fails forgets the engine it started.
AbandonNothing(t, fails) == UNCHANGED <<proc, closes, stuck>>

\* _abandon_start: an engine that became ready and is not kept is halted.
AbandonStart(t, fails) ==
  IF start[t] # "ready"
    THEN UNCHANGED engines
    ELSE IF fails
      THEN /\ stuck' = stuck \cup {t}
           /\ UNCHANGED <<proc, closes>>
      ELSE /\ proc' = [proc EXCEPT ![t] = "dead"]
           /\ closes' = [closes EXCEPT ![t] = @ + 1]
           /\ UNCHANGED stuck

-----------------------------------------------------------------------------
(* Closing a session: close, close_all. *)

Finished(t) == heard[t] = "signedOff"

\* MUTANT: the close keeps a bookmark whether or not the schedule finished.
LeaveBookmarkAlways(t) ==
  bookmarks' = IF Keyed(t) /\ t \in kept THEN [bookmarks EXCEPT ![KeyOf[t]] = t] ELSE bookmarks

\* A finished session clears its channel's bookmark; any other that finished
\* opening leaves its own; one closed while opening leaves things as they are.
LeaveBookmark(t) ==
  bookmarks' =
    CASE ~Keyed(t) -> bookmarks
      [] Keyed(t) /\ Finished(t) -> [bookmarks EXCEPT ![KeyOf[t]] = None]
      [] Keyed(t) /\ ~Finished(t) /\ t \in kept -> [bookmarks EXCEPT ![KeyOf[t]] = t]
      [] OTHER -> bookmarks

\* The kill of a close: not tried when there is no engine or it was stopped.
CloseStops(t) == IF t \in kept \ stopped THEN {t} ELSE {}
CloseOutcomes(t) == IF t \in kept \ stopped THEN StopOutcomes(t) ELSE {FALSE}

\* close(): off the table and told first, then the stop, then the bookmark; a
\* stop that raises skips the bookmark.
CloseSession(t, fails) ==
  /\ table' = table \ {t}
  /\ FeedEnded(t, IF Finished(t) THEN "ended" ELSE "stopped")
  /\ IF fails
       THEN StopEngines({}, {t}) /\ UNCHANGED bookmarks
       ELSE StopEngines(CloseStops(t), {}) /\ LeaveBookmark(t)
  /\ UNCHANGED <<admitted, admissions, kept, heard, saved>>

-----------------------------------------------------------------------------
(* Opening a session: listen, open and the callbacks it waits on. *)

RequestListen(t) ==
  /\ app = "up"
  /\ phase[t] = "idle"
  /\ phase' = [phase EXCEPT ![t] = "reading"]
  /\ UNCHANGED <<place, start, cancelled, engines, sessions, marks, feed, watchdog, app>>

\* No such station, the read fails, or the listener leaves: nothing is told.
NotAdmitted(t) ==
  /\ LoopFree
  /\ phase[t] = "reading"
  /\ phase' = [phase EXCEPT ![t] = "over"]
  /\ UNCHANGED <<place, start, cancelled, engines, sessions, marks, feed, watchdog, app>>

\* MUTANT: the slot check counts one session too many in.
HasRoomForOneMore(limit) == Cardinality(table) <= limit
HasRoom(limit) == Cardinality(table) < limit

\* A refused tune-in is told on its channel; the owner and its stream stay.
Refuse(t, status) ==
  /\ LoopFree
  /\ phase[t] = "reading"
  /\ status = "busy" => \E limit \in Limits : ~HasRoom(limit)
  /\ phase' = [phase EXCEPT ![t] = "over"]
  /\ Tell(t, status)
  /\ UNCHANGED <<place, start, cancelled, engines, sessions, marks, playing, watchdog, app>>

\* The slot is taken, the channel told `tuning`, the bookmark read and both the
\* engine start and the placement begun, with no await in between.
Admit(t) ==
  /\ LoopFree
  /\ phase[t] = "reading"
  /\ \E limit \in Limits : HasRoom(limit)
  /\ phase' = [phase EXCEPT ![t] = "opening"]
  /\ table' = table \cup {t}
  /\ admissions' = admissions + 1
  /\ admitted' = [admitted EXCEPT ![t] = admissions + 1]
  /\ FeedOpened(t)
  /\ saved' = [saved EXCEPT ![t] = IF Keyed(t) THEN bookmarks[KeyOf[t]] ELSE None]
  /\ place' = [place EXCEPT ![t] = "walking"]
  /\ start' = [start EXCEPT ![t] = "starting"]
  /\ UNCHANGED <<cancelled, engines, kept, stopped, heard, bookmarks, watchdog, app>>

\* No free port for the harbor: admitted, told `tuning`, then `unavailable` and
\* off the table, all before the first await.
AdmitWithoutPort(t) ==
  /\ LoopFree
  /\ phase[t] = "reading"
  /\ \E limit \in Limits : HasRoom(limit)
  /\ phase' = [phase EXCEPT ![t] = "over"]
  /\ Tell(t, "unavailable")
  /\ UNCHANGED <<place, start, cancelled, engines, sessions, marks, playing, watchdog, app>>

\* MUTANT: the forget drops whatever bookmark the channel holds.
ForgetAny(t) == [bookmarks EXCEPT ![KeyOf[t]] = None]
\* forget_on_loop: only the bookmark the placement read is dropped.
Forgotten(t) ==
  IF bookmarks[KeyOf[t]] = saved[t] THEN [bookmarks EXCEPT ![KeyOf[t]] = None] ELSE bookmarks

\* The thread finds the bookmark expired, relogged or past the end of the log.
\* A cancelled placement's thread runs on, so its forget may come at any time.
Forget(t) ==
  /\ LoopFree
  /\ place[t] \in {"walking", "orphan"}
  /\ saved[t] # None
  /\ place' = [place EXCEPT ![t] = IF @ = "walking" THEN "forgot" ELSE "broken"]
  /\ bookmarks' = Forgotten(t)
  /\ UNCHANGED <<phase, start, cancelled, engines, sessions, saved, feed, watchdog, app>>

\* The landing is published, or the placement fails: "lost" is no broadcast or
\* the end of the schedule, "broken" any other error.
PublishPlacement(t) ==
  /\ LoopFree
  /\ place[t] \in {"walking", "forgot"}
  /\ \E outcome \in {"landed", "lost", "broken"} :
       place' = [place EXCEPT ![t] = outcome]
  /\ UNCHANGED <<phase, start, cancelled, engines, sessions, marks, feed, watchdog, app>>

\* start_ready_engine: the harbor answered, or both attempts failed and left
\* nothing running.
EngineReady(t) ==
  /\ LoopFree
  /\ start[t] = "starting"
  /\ start' = [start EXCEPT ![t] = "ready"]
  /\ proc' = [proc EXCEPT ![t] = "live"]
  /\ UNCHANGED <<phase, place, cancelled, closes, stuck, sessions, marks, feed, watchdog, app>>

EngineFails(t) ==
  /\ LoopFree
  /\ start[t] = "starting"
  /\ start' = [start EXCEPT ![t] = "failed"]
  /\ UNCHANGED <<phase, place, cancelled, engines, sessions, marks, feed, watchdog, app>>

\* The listener leaves while the session opens.  gather cancels what is still
\* running: the coroutine of the placement, not its thread, and the start, which
\* kills its own process as it unwinds.
Cancel(t) ==
  /\ LoopFree
  /\ phase[t] = "opening"
  /\ t \notin cancelled
  /\ cancelled' = cancelled \cup {t}
  /\ place' = [place EXCEPT ![t] = CASE @ = "walking" -> "orphan"
                                     [] @ = "forgot" -> "broken"
                                     [] OTHER -> @]
  /\ start' = [start EXCEPT ![t] = IF @ = "starting" THEN "failed" ELSE @]
  /\ UNCHANGED <<phase, engines, sessions, marks, feed, watchdog, app>>

\* MUTANT: a cancelled open also waits for its placement thread.
GatheredWithThread(t) ==
  /\ phase[t] = "opening"
  /\ place[t] \in {"landed", "lost", "broken"}
  /\ start[t] \in {"ready", "failed"}

\* gather returns once neither is running.
Gathered(t) ==
  /\ phase[t] = "opening"
  /\ place[t] \in {"orphan", "landed", "lost", "broken"}
  /\ start[t] \in {"ready", "failed"}

Keeps(t) ==
  /\ t \notin cancelled
  /\ place[t] = "landed"
  /\ start[t] = "ready"
  /\ t \in table

\* What a failed open tells: a stop that raises replaces the cancellation.
FailureOf(t, fails) ==
  CASE fails -> "unavailable"
    [] ~fails /\ t \in cancelled -> "stopped"
    [] ~fails /\ t \notin cancelled /\ place[t] = "lost" -> "no_broadcast"
    [] OTHER -> "unavailable"

SettleKept(t) ==
  /\ LoopFree
  /\ Gathered(t)
  /\ Keeps(t)
  /\ phase' = [phase EXCEPT ![t] = "relaying"]
  /\ kept' = kept \cup {t}
  /\ UNCHANGED <<place, start, cancelled, engines, table, admitted, admissions, stopped,
                 heard, marks, feed, watchdog, app>>

SettleFailed(t) ==
  /\ LoopFree
  /\ Gathered(t)
  /\ ~Keeps(t)
  /\ \E fails \in IF start[t] = "ready" THEN StopOutcomes(t) ELSE {FALSE} :
       /\ AbandonStart(t, fails)
       /\ FeedEnded(t, FailureOf(t, fails))
  /\ phase' = [phase EXCEPT ![t] = "over"]
  /\ table' = table \ {t}
  /\ UNCHANGED <<place, start, cancelled, admitted, admissions, kept, stopped, heard,
                 marks, watchdog, app>>

-----------------------------------------------------------------------------
(* The engine's calls, the watchdog, the relay and the shutdown. *)

\* A killed or crashed engine, and one that shut itself down, look the same.
EngineDies(t) ==
  /\ proc[t] = "live"
  /\ proc' = [proc EXCEPT ![t] = "dead"]
  /\ UNCHANGED <<lifecycle, closes, stuck, sessions, marks, feed, watchdog, app>>

\* An authorised call about an item that was sent: the engine asks for items
\* before its start is confirmed, and a call may arrive after it was killed.
Callable(t) == LoopFree /\ t \in table /\ place[t] = "landed"

\* started(): commits the position, then runs the watchdog's check, from which
\* the fresh report exempts this session.
Started(t) ==
  /\ Callable(t)
  /\ \E now \in IF Finished(t) THEN {"signedOff"} ELSE {"song", "signedOff"} :
       heard' = [heard EXCEPT ![t] = now]
  /\ \E E \in StopFailures(Watched \ {t}) : StopFrozen(Watched \ {t}, E)
  /\ UNCHANGED <<lifecycle, table, admitted, admissions, kept, marks, feed, watchdog, app>>

\* item() finds the end after the last song has started, or failed() flags the
\* final clip: either may finish the schedule with no further report.
EndsQuietly(t) ==
  /\ Callable(t)
  /\ heard[t] = "song"
  /\ heard' = [heard EXCEPT ![t] = "signedOff"]
  /\ UNCHANGED <<lifecycle, engines, table, admitted, admissions, kept, stopped,
                 marks, feed, watchdog, app>>

\* run_freeze_watchdog: a kill that raises ends the watchdog's task.
FreezeTick ==
  /\ LoopFree
  /\ watchdog
  /\ Watched # {}
  /\ \E E \in StopFailures(Watched) :
       StopFrozen(Watched, E) /\ watchdog' = (E = {})
  /\ UNCHANGED <<lifecycle, table, admitted, admissions, kept, heard, marks, feed, app>>

\* The response ends: the engine's audio stopped, or the listener left or
\* stalled.  The relay closes the upstream, then on_end closes the session.
RelayEnds(t) ==
  /\ LoopFree
  /\ phase[t] = "relaying"
  /\ phase' = [phase EXCEPT ![t] = "over"]
  /\ closes' = [closes EXCEPT ![t] = ClosedOnce(t)]
  /\ IF t \in table
       THEN \E fails \in CloseOutcomes(t) : CloseSession(t, fails)
       ELSE UNCHANGED <<proc, stuck, sessions, marks, feed>>
  /\ UNCHANGED <<place, start, cancelled, watchdog, app>>

\* stop_streaming: the watchdog first, then close_all.
ShutDown ==
  /\ app = "up"
  /\ app' = "closing"
  /\ watchdog' = FALSE
  /\ UNCHANGED <<lifecycle, engines, sessions, marks, feed>>

\* One turn of close_all's loop, in admission order; a stop that raises ends it.
CloseNext(t) ==
  /\ app = "closing"
  /\ t \in table
  /\ \A u \in table : admitted[t] <= admitted[u]
  /\ \E fails \in CloseOutcomes(t) :
       /\ CloseSession(t, fails)
       /\ closes' = IF t \in kept \ stopped /\ ~fails
                      THEN [closes EXCEPT ![t] = ClosedOnce(t)] ELSE closes
       /\ app' = IF fails THEN "down" ELSE "closing"
  /\ UNCHANGED <<lifecycle, watchdog>>

AllClosed ==
  /\ app = "closing"
  /\ table = {}
  /\ app' = "down"
  /\ UNCHANGED <<lifecycle, engines, sessions, marks, feed, watchdog>>

TuneStep(t) ==
  \/ RequestListen(t)
  \/ NotAdmitted(t)
  \/ \E status \in {"busy", "unavailable"} : Refuse(t, status)
  \/ Admit(t)
  \/ AdmitWithoutPort(t)
  \/ Forget(t)
  \/ PublishPlacement(t)
  \/ EngineReady(t)
  \/ EngineFails(t)
  \/ Cancel(t)
  \/ SettleKept(t)
  \/ SettleFailed(t)
  \/ EngineDies(t)
  \/ Started(t)
  \/ EndsQuietly(t)
  \/ RelayEnds(t)
  \/ CloseNext(t)

Next == (\E t \in Tunes : TuneStep(t)) \/ FreezeTick \/ ShutDown \/ AllClosed

Spec == Init /\ [][Next]_vars

\* The database answers or times out, an engine start is bounded by its two
\* ready timeouts, the loop runs what is due, and a relay whose engine is gone
\* reads the end of its upstream.  Nothing makes a listener come, leave or hear.
Fairness ==
  /\ \A t \in Tunes :
       /\ WF_vars(PublishPlacement(t))
       /\ WF_vars(EngineReady(t) \/ EngineFails(t))
       /\ WF_vars(SettleKept(t) \/ SettleFailed(t))
       /\ WF_vars(proc[t] = "dead" /\ RelayEnds(t))
       /\ WF_vars(CloseNext(t))
  /\ WF_vars(AllClosed)

FairSpec == Spec /\ Fairness

-----------------------------------------------------------------------------
(* Properties. *)

\* The listener limit is never exceeded, however many opens are in flight and
\* however the setting changes: the check and the insert of _admit are one step.
SlotLimit == Cardinality(table) <= MaxLimit

\* No engine outlives the session it was started for.  One that became ready is
\* waited for by its open, or held by a session that may still stop it; else it
\* is dead with its upstream closed exactly once - whatever mix of cancelled
\* opens, failed placements, freezes and shutdowns came first.  Only an engine
\* whose kill raised is excused.
EngineAccounted ==
  \A t \in Tunes : start[t] = "ready" =>
    /\ closes[t] <= 1
    /\ \/ phase[t] = "opening"
       \/ t \in table /\ t \in kept \ stopped
       \/ proc[t] = "dead" /\ closes[t] = 1
       \/ t \in stuck

\* The feed's still-playing streams are exactly the keyed sessions of the table,
\* on every path in and out, the ones where a stop raises included: a stream the
\* feed kept would own the channel for ever, one it lost would never be told.
FeedMirrorsTable == playing = {t \in table : Keyed(t)}

\* A channel left on `tuning` follows a stream that is still open, the newest
\* admitted on it: a page is never left waiting for a stream that is gone.
NoStuckTuning ==
  \A k \in Keys : page[k] = "tuning" =>
    \E t \in playing :
      /\ KeyOf[t] = k
      /\ \A u \in Tunes : KeyOf[u] = k => admitted[u] <= admitted[t]

\* Once its last stream is gone, a channel told `ended` has no bookmark: neither the
\* signed-off stream's nor one an older stream left since, so the next tune-in starts
\* from the clock.  While a stream of the channel still plays on (nothing is told of
\* the hand-back), only a stream admitted before it may have left one.  A kill that
\* raised as a session of the channel closed skips the clearing.
EndedForgets ==
  \A k \in Keys : page[k] = "ended" =>
    \/ bookmarks[k] = None
    \/ \E t \in playing : KeyOf[t] = k /\ admitted[bookmarks[k]] < admitted[t]
    \/ \E t \in stuck \ table : KeyOf[t] = k

\* What a page was told last is not left behind by its streams and bookmarks, in
\* whichever order they end.
PageNotMisled == NoStuckTuning /\ EndedForgets

\* A bookmark disappears only when a finished stream of its channel closes, or
\* when a placement drops the very bookmark it read: a newer one written while
\* that placement's thread was walking survives it.
ForgetsOnlyWhatItRead ==
  [][\A k \in Keys : bookmarks[k] # None /\ bookmarks'[k] = None =>
       \/ \E t \in table \ table' : KeyOf[t] = k /\ Finished(t)
       \/ \E t \in Tunes : saved[t] = bookmarks[k] /\ place'[t] # place[t]]_vars

\* Every open ends: the relay begins or the listener is told why not.
OpensSettle == \A t \in Tunes : phase[t] = "opening" ~> phase[t] \in {"relaying", "over"}

\* A dead engine never holds a listener slot for ever.
DeadEngineFreesSlot ==
  \A t \in Tunes : (t \in table /\ proc[t] = "dead") ~> t \notin table

\* The slot an open takes always comes back: the open settles whatever its thread
\* and its engine do, and a dead engine's session is closed whoever stopped it.
SlotsComeBack == OpensSettle /\ DeadEngineFreesSlot

=============================================================================
