------------------------------ MODULE ItemLog ------------------------------
(***************************************************************************)
(* What one listener's stream promises about its items: a log that only     *)
(* grows, of the songs of the schedule in order from the landing on, with a *)
(* liner only after Cadence songs and never right before the end, closed by *)
(* the sign-off clip or with nothing.  ItemContract implements it.          *)
(***************************************************************************)
EXTENDS Naturals, Sequences, FiniteSets, SequencesExt

CONSTANTS
  Songs,    \* playable songs from the landing (1) to the end of the schedule
  Cadence   \* songs between two liners; 0 is off

VARIABLES
  log,   \* what was handed out, in order
  over   \* nothing more will be handed out

logVars == <<log, over>>

\* A liner and the clip are logged with the position of the song before them.
Positions == 1 .. Songs
Entry == [kind : {"song", "liner", "clip"}, at : Positions]

\* Songs since the last liner, or since the landing.
Since(l) ==
  Cardinality({i \in 1 .. Len(l) :
    l[i].kind = "song" /\ \A j \in i .. Len(l) : l[j].kind # "liner"})

\* What may follow a log: the first song, the song after the last one (a liner
\* in between or not), or a liner that is due, after a song that is not the last.
MayFollow(l, e) ==
  IF l = <<>>
    THEN e = [kind |-> "song", at |-> 1]
    ELSE \/ e.kind = "song" /\ e.at = Last(l).at + 1
         \/ /\ e.kind = "liner" /\ e.at = Last(l).at
            /\ Last(l).kind = "song" /\ Last(l).at < Songs
            /\ Cadence # 0 /\ Since(l) >= Cadence

LogInit == log = <<>> /\ over = FALSE

HandOut ==
  /\ ~over
  /\ \E e \in Entry : e.kind # "clip" /\ MayFollow(log, e) /\ log' = Append(log, e)
  /\ UNCHANGED over

\* After the last song: the clip, or nothing more.
SignOff ==
  /\ ~over
  /\ log # <<>> /\ Last(log) = [kind |-> "song", at |-> Songs]
  /\ over' = TRUE
  /\ log' \in {log, Append(log, [kind |-> "clip", at |-> Songs])}

Leave == ~over /\ over' = TRUE /\ UNCHANGED log

LogNext == HandOut \/ SignOff \/ Leave

LogSpec == LogInit /\ [][LogNext]_logVars
=============================================================================
