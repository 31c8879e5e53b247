-------------------------- MODULE MCStreamSessions --------------------------
(***************************************************************************)
(* StreamSessions for TLC.                                                 *)
(***************************************************************************)
EXTENDS StreamSessions, TLC

CONSTANTS t1, t2, t3, k1

\* Every tune-in is on one listener's channel, where they meet.
OneChannel == [t \in Tunes |-> k1]

\* One keyed and one keyless tune-in.
KeyedAndKeyless == [t \in Tunes |-> IF t = t1 THEN k1 ELSE NoKey]

TunesSymmetric == Permutations(Tunes)

\* What no later step and no property reads is left out of the fingerprint: the
\* bookmark a finished placement read, and the marks of a request that is over.
Live(t) ==
  <<place[t], start[t], t \in cancelled, t \in kept, t \in stopped, heard[t], closes[t], proc[t]>>
Remains(t) == <<place[t] = "orphan", start[t] = "ready" => closes[t] = 1, proc[t] = "live">>
Fingerprint ==
  << [t \in Tunes |-> IF phase[t] = "over" THEN Remains(t) ELSE Live(t)],
     [t \in Tunes |-> IF place[t] \in {"walking", "orphan"} THEN saved[t] ELSE None],
     phase, table, admitted, stuck, bookmarks, playing, page, watchdog, app >>
=============================================================================
