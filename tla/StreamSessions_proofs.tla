------------------------ MODULE StreamSessions_proofs ------------------------
(***************************************************************************)
(* What StreamSessions promises for any tune-ins, channels and limits.     *)
(***************************************************************************)
EXTENDS StreamSessions, FiniteSetTheorems, TLAPS

-----------------------------------------------------------------------------
(* Type correctness. *)

(* Stopping engines and closing a session keep the types of what they change. *)
LEMMA StopEnginesType ==
  ASSUME TypeOK, NEW F \in SUBSET Tunes, NEW E \in SUBSET Tunes, StopEngines(F, E)
  PROVE  /\ proc' \in [Tunes -> {"none", "live", "dead"}]
         /\ stopped' \subseteq Tunes
         /\ stuck' \subseteq Tunes
  BY DEF TypeOK, StopEngines

LEMMA TellType ==
  ASSUME TypeOK, NEW t \in Tunes, NEW s \in Statuses, Tell(t, s)
  PROVE  page' \in [Keys -> Statuses]
  BY KeysAssumption DEF TypeOK, Tell, Keyed

LEMMA FeedEndedType ==
  ASSUME TypeOK, NEW t \in Tunes, NEW s \in Statuses, FeedEnded(t, s)
  PROVE  playing' \subseteq Tunes /\ page' \in [Keys -> Statuses]
<1>1. playing' \subseteq Tunes
  BY DEF TypeOK, FeedEnded
<1>2. page' \in [Keys -> Statuses]
  BY TellType DEF TypeOK, FeedEnded
<1> QED
  BY <1>1, <1>2

LEMMA ClosedOnceType ==
  ASSUME TypeOK, NEW t \in Tunes
  PROVE  ClosedOnce(t) \in Nat
  BY DEF TypeOK, ClosedOnce

LEMMA CloseSessionType ==
  ASSUME TypeOK, NEW t \in Tunes, NEW fails \in BOOLEAN, CloseSession(t, fails)
  PROVE  /\ table' \subseteq Tunes
         /\ playing' \subseteq Tunes /\ page' \in [Keys -> Statuses]
         /\ proc' \in [Tunes -> {"none", "live", "dead"}]
         /\ stopped' \subseteq Tunes /\ stuck' \subseteq Tunes
         /\ bookmarks' \in [Keys -> Tunes \cup {None}]
         /\ UNCHANGED <<admitted, admissions, kept, heard, saved>>
<1>1. table' \subseteq Tunes /\ UNCHANGED <<admitted, admissions, kept, heard, saved>>
  BY DEF TypeOK, CloseSession
<1>2. playing' \subseteq Tunes /\ page' \in [Keys -> Statuses]
  BY FeedEndedType DEF CloseSession, Statuses
<1>3. /\ proc' \in [Tunes -> {"none", "live", "dead"}]
      /\ stopped' \subseteq Tunes /\ stuck' \subseteq Tunes
  BY StopEnginesType DEF CloseSession, CloseStops
<1>4. bookmarks' \in [Keys -> Tunes \cup {None}]
  BY KeysAssumption DEF TypeOK, CloseSession, LeaveBookmark, Keyed
<1> QED
  BY <1>1, <1>2, <1>3, <1>4

LEMMA StopFrozenType ==
  ASSUME TypeOK, NEW C \in SUBSET Tunes, NEW E \in StopFailures(C), StopFrozen(C, E)
  PROVE  /\ proc' \in [Tunes -> {"none", "live", "dead"}]
         /\ stopped' \subseteq Tunes /\ stuck' \subseteq Tunes
         /\ closes' \in [Tunes -> Nat]
<1>1. E \in SUBSET Tunes
  BY DEF StopFailures
<1>2. PICK F \in SUBSET (C \ E) :
        /\ StopEngines(F, E)
        /\ closes' = [t \in Tunes |-> IF t \in F THEN ClosedOnce(t) ELSE closes[t]]
  BY DEF StopFrozen
<1> QED
  BY <1>1, <1>2, StopEnginesType, ClosedOnceType DEF TypeOK

(* Every variable keeps its type: a type error here would be a status, a        *)
(* placement or a bookmark the code never writes.                               *)
LEMMA TypeInductive == TypeOK /\ [Next]_vars => TypeOK'
<1> SUFFICES ASSUME TypeOK, [Next]_vars PROVE TypeOK'
  OBVIOUS
<1> USE KeysAssumption
<1> USE DEF lifecycle, engines, sessions, marks, feed
<1>1. ASSUME NEW t \in Tunes, RequestListen(t) PROVE TypeOK'
  BY <1>1 DEF TypeOK, RequestListen, Phases
<1>2. ASSUME NEW t \in Tunes, NotAdmitted(t) PROVE TypeOK'
  BY <1>2 DEF TypeOK, NotAdmitted, Phases
<1>3. ASSUME NEW t \in Tunes, NEW status \in {"busy", "unavailable"}, Refuse(t, status)
      PROVE TypeOK'
  BY <1>3, TellType DEF TypeOK, Refuse, Phases, Statuses
<1>4. ASSUME NEW t \in Tunes, Admit(t) PROVE TypeOK'
  <2>1. playing' \subseteq Tunes /\ page' \in [Keys -> Statuses]
    BY <1>4, TellType DEF TypeOK, Admit, FeedOpened, Statuses
  <2>2. saved' \in [Tunes -> Tunes \cup {None}]
    BY <1>4 DEF TypeOK, Admit, Keyed
  <2> QED
    BY <1>4, <2>1, <2>2 DEF TypeOK, Admit, Phases, Placements, Starts
<1>5. ASSUME NEW t \in Tunes, AdmitWithoutPort(t) PROVE TypeOK'
  BY <1>5, TellType DEF TypeOK, AdmitWithoutPort, Phases, Statuses
<1>6. ASSUME NEW t \in Tunes, Forget(t) PROVE TypeOK'
  BY <1>6 DEF TypeOK, Forget, Forgotten, Placements
<1>7. ASSUME NEW t \in Tunes, PublishPlacement(t) PROVE TypeOK'
  BY <1>7 DEF TypeOK, PublishPlacement, Placements
<1>8. ASSUME NEW t \in Tunes, EngineReady(t) PROVE TypeOK'
  BY <1>8 DEF TypeOK, EngineReady, Starts
<1>9. ASSUME NEW t \in Tunes, EngineFails(t) PROVE TypeOK'
  BY <1>9 DEF TypeOK, EngineFails, Starts
<1>10. ASSUME NEW t \in Tunes, Cancel(t) PROVE TypeOK'
  <2>1. place' \in [Tunes -> Placements]
    BY <1>10 DEF TypeOK, Cancel, Placements
  <2> QED
    BY <1>10, <2>1 DEF TypeOK, Cancel, Starts
<1>11. ASSUME NEW t \in Tunes, SettleKept(t) PROVE TypeOK'
  BY <1>11 DEF TypeOK, SettleKept, Phases
<1>12. ASSUME NEW t \in Tunes, SettleFailed(t) PROVE TypeOK'
  <2>1. PICK fails \in BOOLEAN : AbandonStart(t, fails) /\ FeedEnded(t, FailureOf(t, fails))
    BY <1>12 DEF SettleFailed, StopOutcomes
  <2>2. FailureOf(t, fails) \in Statuses
    BY DEF FailureOf, Statuses
  <2>3. playing' \subseteq Tunes /\ page' \in [Keys -> Statuses]
    BY <2>1, <2>2, FeedEndedType
  <2>4. /\ proc' \in [Tunes -> {"none", "live", "dead"}]
        /\ closes' \in [Tunes -> Nat] /\ stuck' \subseteq Tunes
    BY <2>1 DEF TypeOK, AbandonStart
  <2> QED
    BY <1>12, <2>3, <2>4 DEF TypeOK, SettleFailed, Phases
<1>13. ASSUME NEW t \in Tunes, EngineDies(t) PROVE TypeOK'
  BY <1>13 DEF TypeOK, EngineDies
<1>14. ASSUME NEW t \in Tunes, Started(t) PROVE TypeOK'
  <2>1. PICK E \in StopFailures(Watched \ {t}) : StopFrozen(Watched \ {t}, E)
    BY <1>14 DEF Started
  <2>2. Watched \ {t} \in SUBSET Tunes
    BY DEF TypeOK, Watched
  <2>3. heard' \in [Tunes -> {"nothing", "song", "signedOff"}]
    BY <1>14 DEF TypeOK, Started
  <2> QED
    BY <1>14, <2>1, <2>2, <2>3, StopFrozenType DEF TypeOK, Started
<1>15. ASSUME NEW t \in Tunes, EndsQuietly(t) PROVE TypeOK'
  BY <1>15 DEF TypeOK, EndsQuietly
<1>16. ASSUME NEW t \in Tunes, RelayEnds(t) PROVE TypeOK'
  <2>1. closes' \in [Tunes -> Nat] /\ phase' \in [Tunes -> Phases]
    BY <1>16, ClosedOnceType DEF TypeOK, RelayEnds, Phases
  <2>2. CASE t \in table
    <3>1. PICK fails \in BOOLEAN : CloseSession(t, fails)
      BY <1>16, <2>2 DEF RelayEnds, CloseOutcomes, StopOutcomes
    <3> QED
      BY <1>16, <2>1, <3>1, CloseSessionType DEF TypeOK, RelayEnds
  <2>3. CASE t \notin table
    BY <1>16, <2>1, <2>3 DEF TypeOK, RelayEnds
  <2> QED
    BY <2>2, <2>3
<1>17. ASSUME NEW t \in Tunes, CloseNext(t) PROVE TypeOK'
  <2>1. PICK fails \in BOOLEAN :
          /\ CloseSession(t, fails)
          /\ closes' = IF t \in kept \ stopped /\ ~fails
                         THEN [closes EXCEPT ![t] = ClosedOnce(t)] ELSE closes
          /\ app' = IF fails THEN "down" ELSE "closing"
    BY <1>17 DEF CloseNext, CloseOutcomes, StopOutcomes
  <2>2. closes' \in [Tunes -> Nat] /\ app' \in {"up", "closing", "down"}
    BY <2>1, ClosedOnceType DEF TypeOK
  <2> QED
    BY <1>17, <2>1, <2>2, CloseSessionType DEF TypeOK, CloseNext
<1>18. CASE FreezeTick
  <2>1. PICK E \in StopFailures(Watched) : StopFrozen(Watched, E) /\ watchdog' = (E = {})
    BY <1>18 DEF FreezeTick
  <2>2. Watched \in SUBSET Tunes
    BY DEF TypeOK, Watched
  <2> QED
    BY <1>18, <2>1, <2>2, StopFrozenType DEF TypeOK, FreezeTick
<1>19. CASE ShutDown
  BY <1>19 DEF TypeOK, ShutDown
<1>20. CASE AllClosed
  BY <1>20 DEF TypeOK, AllClosed
<1>21. CASE UNCHANGED vars
  BY <1>21 DEF TypeOK, vars
<1> QED
  BY <1>1, <1>2, <1>3, <1>4, <1>5, <1>6, <1>7, <1>8, <1>9, <1>10, <1>11, <1>12, <1>13,
     <1>14, <1>15, <1>16, <1>17, <1>18, <1>19, <1>20, <1>21 DEF Next, TuneStep

LEMMA TypeInit == Init => TypeOK
  BY DEF Init, TypeOK, Phases, Placements, Starts, Statuses

(* The state of every session, engine, bookmark and channel has its type. *)
THEOREM TypeCorrect == Spec => []TypeOK
<1> QED
  BY TypeInit, TypeInductive, PTL DEF Spec

-----------------------------------------------------------------------------
(* The feed mirrors the table. *)

LEMMA FeedInductive == TypeOK /\ FeedMirrorsTable /\ [Next]_vars => FeedMirrorsTable'
<1> SUFFICES ASSUME TypeOK, FeedMirrorsTable, [Next]_vars PROVE FeedMirrorsTable'
  OBVIOUS
<1> USE DEF FeedMirrorsTable, sessions, feed
<1>1. ASSUME NEW t \in Tunes, NEW fails \in BOOLEAN, CloseSession(t, fails)
      PROVE FeedMirrorsTable'
  BY <1>1 DEF CloseSession, FeedEnded
<1>2. ASSUME NEW t \in Tunes, Admit(t) PROVE FeedMirrorsTable'
  BY <1>2 DEF TypeOK, Admit, FeedOpened, Keyed
<1>3. ASSUME NEW t \in Tunes, SettleFailed(t) PROVE FeedMirrorsTable'
  BY <1>3 DEF SettleFailed, FeedEnded
<1>4. ASSUME NEW t \in Tunes, RelayEnds(t) PROVE FeedMirrorsTable'
  BY <1>1, <1>4 DEF RelayEnds, CloseOutcomes, StopOutcomes
<1>5. ASSUME NEW t \in Tunes, CloseNext(t) PROVE FeedMirrorsTable'
  BY <1>1, <1>5 DEF CloseNext, CloseOutcomes, StopOutcomes
<1>6. ASSUME NEW t \in Tunes, TuneStep(t), ~Admit(t), ~SettleFailed(t), ~RelayEnds(t),
             ~CloseNext(t)
      PROVE FeedMirrorsTable'
  BY <1>6 DEF TuneStep, RequestListen, NotAdmitted, Refuse, AdmitWithoutPort, Forget,
     PublishPlacement, EngineReady, EngineFails, Cancel, SettleKept, EngineDies, Started,
     EndsQuietly
<1>7. CASE FreezeTick \/ ShutDown \/ AllClosed \/ UNCHANGED vars
  BY <1>7 DEF FreezeTick, ShutDown, AllClosed, vars
<1> QED
  BY <1>2, <1>3, <1>4, <1>5, <1>6, <1>7 DEF Next

(* For any tune-ins: the feed follows exactly the keyed sessions of the table. *)
THEOREM FeedFollowsTable == Spec => []FeedMirrorsTable
<1>1. Init => FeedMirrorsTable
  BY DEF Init, FeedMirrorsTable
<1> QED
  BY <1>1, FeedInductive, TypeCorrect, PTL DEF Spec

-----------------------------------------------------------------------------
(* The slot limit. *)

WithinLimit == IsFiniteSet(table) /\ SlotLimit

LEMMA LimitInductive == TypeOK /\ WithinLimit /\ [Next]_vars => WithinLimit'
<1> SUFFICES ASSUME TypeOK, WithinLimit, [Next]_vars PROVE WithinLimit'
  OBVIOUS
<1> USE DEF WithinLimit, SlotLimit, sessions
<1>1. ASSUME table' \subseteq table PROVE WithinLimit'
  <2>1. /\ IsFiniteSet(table') /\ Cardinality(table') <= Cardinality(table)
        /\ Cardinality(table) \in Nat /\ Cardinality(table') \in Nat
    BY <1>1, FS_Subset, FS_CardinalityType
  <2> QED
    BY <2>1, LimitsAssumption
<1>2. ASSUME NEW t \in Tunes, Admit(t) PROVE WithinLimit'
  <2>1. PICK limit \in Limits : Cardinality(table) < limit
    BY <1>2 DEF Admit, HasRoom
  <2>2. limit \in Nat /\ limit <= MaxLimit
    BY <2>1, LimitsAssumption
  <2>3. table' = table \cup {t}
    BY <1>2 DEF Admit
  <2>4. /\ IsFiniteSet(table') /\ Cardinality(table) \in Nat
        /\ Cardinality(table') = Cardinality(table) \/ Cardinality(table') = Cardinality(table) + 1
    BY <2>3, FS_AddElement, FS_CardinalityType
  <2> QED
    BY <2>1, <2>2, <2>4, LimitsAssumption
<1>3. ASSUME NEW t \in Tunes, TuneStep(t), ~Admit(t) PROVE table' \subseteq table
  BY <1>3 DEF TuneStep, RequestListen, NotAdmitted, Refuse, AdmitWithoutPort, Forget,
     PublishPlacement, EngineReady, EngineFails, Cancel, SettleKept, SettleFailed, EngineDies,
     Started, EndsQuietly, RelayEnds, CloseNext, CloseSession
<1>4. CASE FreezeTick \/ ShutDown \/ AllClosed \/ UNCHANGED vars
  BY <1>1, <1>4 DEF FreezeTick, ShutDown, AllClosed, vars
<1> QED
  BY <1>1, <1>2, <1>3, <1>4 DEF Next

(* For any number of tune-ins and any settings: never more sessions than slots. *)
THEOREM SlotsBounded == Spec => []SlotLimit
<1>1. Init => WithinLimit
  BY FS_EmptySet, LimitsAssumption DEF Init, WithinLimit, SlotLimit
<1>2. Spec => []WithinLimit
  BY <1>1, LimitInductive, TypeCorrect, PTL DEF Spec
<1> QED
  BY <1>2, PTL DEF WithinLimit

-----------------------------------------------------------------------------
(* No engine outlives its session. *)

(* What one tune-in's request, table entry and engine know of each other. *)
EngineOwned(t) ==
  /\ start[t] # "ready" => proc[t] = "none" /\ closes[t] = 0
  /\ start[t] = "starting" => phase[t] = "opening"
  /\ phase[t] \in {"idle", "reading"} => start[t] = "none"
  /\ phase[t] = "opening" => closes[t] = 0 /\ t \notin kept
  /\ phase[t] = "relaying" => t \in kept
  /\ t \in kept => phase[t] \in {"relaying", "over"} /\ start[t] = "ready"
  /\ t \in stopped => t \in kept /\ proc[t] = "dead" /\ closes[t] = 1
  /\ t \in table => phase[t] \in {"opening", "relaying"}
  /\ start[t] = "ready" =>
       /\ closes[t] <= 1
       /\ \/ phase[t] = "opening"
          \/ t \in table /\ t \in kept \ stopped
          \/ proc[t] = "dead" /\ closes[t] = 1
          \/ t \in stuck

EnginesOwned == \A t \in Tunes : EngineOwned(t)

(* A step that leaves alone what EngineOwned reads of a tune-in keeps it. *)
LEMMA EngineOwnedUnchanged ==
  ASSUME NEW t \in Tunes, EngineOwned(t),
         phase'[t] = phase[t], start'[t] = start[t], proc'[t] = proc[t],
         closes'[t] = closes[t], t \in table' <=> t \in table, t \in kept' <=> t \in kept,
         t \in stopped' <=> t \in stopped, t \in stuck' <=> t \in stuck
  PROVE  EngineOwned(t)'
  BY DEF EngineOwned

(* stop_frozen leaves every engine it stopped dead with its upstream closed once. *)
LEMMA StopFrozenOwned ==
  ASSUME TypeOK, EnginesOwned, NEW C \in SUBSET Watched, NEW E \in StopFailures(C),
         StopFrozen(C, E), UNCHANGED <<lifecycle, table, kept>>
  PROVE  EnginesOwned'
<1>1. PICK F \in SUBSET (C \ E) :
        /\ StopEngines(F, E)
        /\ closes' = [t \in Tunes |-> IF t \in F THEN ClosedOnce(t) ELSE closes[t]]
  BY DEF StopFrozen
<1>2. ASSUME NEW t \in Tunes, t \in F PROVE EngineOwned(t)'
  <2>1. proc'[t] = "dead" /\ closes'[t] = ClosedOnce(t) /\ t \in stopped'
    BY <1>1, <1>2 DEF StopEngines
  <2>2. t \in table /\ t \in kept /\ t \notin stopped /\ start[t] = "ready"
    BY <1>2 DEF Watched, EnginesOwned, EngineOwned
  <2>3. closes'[t] = 1
    <3>1. closes[t] \in Nat /\ closes[t] <= 1
      BY <2>2 DEF EnginesOwned, EngineOwned, TypeOK
    <3> QED
      BY <2>1, <3>1 DEF ClosedOnce
  <2> QED
    BY <2>1, <2>2, <2>3 DEF EnginesOwned, EngineOwned, lifecycle
<1>3. ASSUME NEW t \in Tunes, t \notin F PROVE EngineOwned(t)'
  <2>1. /\ proc'[t] = proc[t]
        /\ closes'[t] = closes[t]
        /\ t \in stopped' <=> t \in stopped
        /\ t \in stuck => t \in stuck'
    BY <1>1, <1>3 DEF StopEngines
  <2> QED
    BY <2>1 DEF EnginesOwned, EngineOwned, lifecycle
<1> QED
  BY <1>2, <1>3 DEF EnginesOwned

(* A close, by the relay or by close_all, settles the engine of its session. *)
LEMMA CloseOwned ==
  ASSUME TypeOK, EnginesOwned, NEW t \in Tunes, t \in table,
         NEW fails \in CloseOutcomes(t), CloseSession(t, fails),
         UNCHANGED <<place, start, cancelled>>,
         \A u \in Tunes \ {t} : phase'[u] = phase[u] /\ closes'[u] = closes[u],
         phase'[t] = IF phase[t] = "relaying" THEN phase'[t] ELSE phase[t],
         phase'[t] \in {phase[t], "over"},
         closes'[t] \in {closes[t], ClosedOnce(t)},
         (t \in kept \ stopped /\ ~fails) => closes'[t] = ClosedOnce(t),
         t \notin kept => closes'[t] = closes[t]
  PROVE  EnginesOwned'
<1>1. ASSUME NEW u \in Tunes \ {t} PROVE EngineOwned(u)'
  <2>1. /\ u \in table' <=> u \in table
        /\ u \in kept' <=> u \in kept
        /\ u \in stopped' <=> u \in stopped
        /\ u \in stuck' <=> u \in stuck
        /\ proc'[u] = proc[u]
    BY DEF CloseSession, StopEngines, CloseStops
  <2> QED
    BY <2>1 DEF EnginesOwned, EngineOwned
<1>2. EngineOwned(t)'
  <2>1. EngineOwned(t) /\ t \notin table' /\ kept' = kept /\ start' = start
    BY DEF EnginesOwned, CloseSession
  <2>2. closes[t] \in Nat /\ ClosedOnce(t) \in Nat /\ ClosedOnce(t) >= 1
        /\ (closes[t] <= 1 => ClosedOnce(t) = 1)
    BY DEF TypeOK, ClosedOnce
  <2>3. CASE t \notin kept
    <3>1. proc'[t] = proc[t] /\ stopped' = stopped /\ stuck' = stuck
      BY <2>3, <2>1 DEF CloseOutcomes, CloseSession, StopEngines, CloseStops, EngineOwned, TypeOK
    <3>2. phase'[t] = phase[t] /\ phase[t] = "opening"
      BY <2>1, <2>3 DEF EngineOwned
    <3> QED
      BY <2>1, <2>3, <3>1, <3>2 DEF EngineOwned
  <2>4. CASE t \in stopped
    <3>1. proc'[t] = proc[t] /\ stopped' = stopped /\ stuck' = stuck
      BY <2>4 DEF CloseOutcomes, CloseSession, StopEngines, CloseStops, TypeOK
    <3>2. closes'[t] = 1
      BY <2>1, <2>2, <2>4 DEF EngineOwned, ClosedOnce
    <3> QED
      BY <2>1, <2>4, <3>1, <3>2 DEF EngineOwned
  <2>5. CASE t \in kept \ stopped /\ fails
    <3>1. proc'[t] = proc[t] /\ stopped' = stopped /\ t \in stuck'
      BY <2>5 DEF CloseSession, StopEngines, TypeOK
    <3> QED
      BY <2>1, <2>2, <2>5, <3>1 DEF EngineOwned
  <2>6. CASE t \in kept \ stopped /\ ~fails
    <3>1. proc'[t] = "dead" /\ t \in stopped'
      BY <2>6 DEF CloseSession, StopEngines, CloseStops, TypeOK
    <3>2. closes'[t] = 1
      BY <2>1, <2>2, <2>6 DEF EngineOwned
    <3> QED
      BY <2>1, <2>6, <3>1, <3>2 DEF EngineOwned
  <2> QED
    BY <2>3, <2>4, <2>5, <2>6
<1> QED
  BY <1>1, <1>2 DEF EnginesOwned

LEMMA OwnedInductive == TypeOK /\ EnginesOwned /\ [Next]_vars => EnginesOwned'
<1> SUFFICES ASSUME TypeOK, EnginesOwned, [Next]_vars PROVE EnginesOwned'
  OBVIOUS
<1> USE DEF lifecycle, engines, sessions
<1>1. ASSUME NEW t \in Tunes,
             RequestListen(t) \/ NotAdmitted(t) \/ AdmitWithoutPort(t)
               \/ (\E status \in {"busy", "unavailable"} : Refuse(t, status))
      PROVE EnginesOwned'
  BY <1>1 DEF TypeOK, EnginesOwned, EngineOwned, RequestListen, NotAdmitted, AdmitWithoutPort,
     Refuse
<1>2. ASSUME NEW t \in Tunes, Admit(t) PROVE EnginesOwned'
  BY <1>2 DEF TypeOK, EnginesOwned, EngineOwned, Admit
<1>3. ASSUME NEW t \in Tunes, Forget(t) \/ PublishPlacement(t) \/ EndsQuietly(t)
      PROVE EnginesOwned'
  BY <1>3 DEF EnginesOwned, EngineOwned, Forget, PublishPlacement, EndsQuietly
<1>4. ASSUME NEW t \in Tunes, EngineReady(t) PROVE EnginesOwned'
  BY <1>4 DEF TypeOK, EnginesOwned, EngineOwned, EngineReady
<1>5. ASSUME NEW t \in Tunes, EngineFails(t) \/ Cancel(t) PROVE EnginesOwned'
  BY <1>5 DEF TypeOK, EnginesOwned, EngineOwned, EngineFails, Cancel
<1>6. ASSUME NEW t \in Tunes, SettleKept(t) PROVE EnginesOwned'
  BY <1>6 DEF TypeOK, EnginesOwned, EngineOwned, SettleKept, Gathered, Keeps
<1>7. ASSUME NEW t \in Tunes, SettleFailed(t) PROVE EnginesOwned'
  <2>1. PICK fails \in BOOLEAN : AbandonStart(t, fails)
    BY <1>7 DEF SettleFailed, StopOutcomes
  <2>2. ASSUME NEW u \in Tunes, u # t PROVE EngineOwned(u)'
    BY <1>7, <2>1, <2>2 DEF TypeOK, EnginesOwned, EngineOwned, SettleFailed, AbandonStart
  <2>3. EngineOwned(t)'
    BY <1>7, <2>1 DEF TypeOK, EnginesOwned, EngineOwned, SettleFailed, AbandonStart, Gathered
  <2> QED
    BY <2>2, <2>3 DEF EnginesOwned
<1>8. ASSUME NEW t \in Tunes, EngineDies(t) PROVE EnginesOwned'
  BY <1>8 DEF TypeOK, EnginesOwned, EngineOwned, EngineDies
<1>9. ASSUME NEW t \in Tunes, Started(t) PROVE EnginesOwned'
  BY <1>9, StopFrozenOwned DEF Started
<1>10. ASSUME NEW t \in Tunes, RelayEnds(t) PROVE EnginesOwned'
  <2>1. CASE t \in table
    <3>1. PICK fails \in CloseOutcomes(t) : CloseSession(t, fails)
      BY <1>10, <2>1 DEF RelayEnds
    <3>2. t \in kept
      BY <1>10 DEF RelayEnds, EnginesOwned, EngineOwned
    <3> QED
      BY <1>10, <2>1, <3>1, <3>2, CloseOwned DEF RelayEnds, TypeOK
  <2>2. CASE t \notin table
    BY <1>10, <2>2 DEF TypeOK, EnginesOwned, EngineOwned, RelayEnds, ClosedOnce
  <2> QED
    BY <2>1, <2>2
<1>11. ASSUME NEW t \in Tunes, CloseNext(t) PROVE EnginesOwned'
  <2>1. PICK fails \in CloseOutcomes(t) :
          /\ CloseSession(t, fails)
          /\ closes' = IF t \in kept \ stopped /\ ~fails
                         THEN [closes EXCEPT ![t] = ClosedOnce(t)] ELSE closes
    BY <1>11 DEF CloseNext
  <2> QED
    BY <1>11, <2>1, CloseOwned DEF CloseNext, TypeOK
<1>12. CASE FreezeTick
  BY <1>12, StopFrozenOwned DEF FreezeTick
<1>13. CASE ShutDown \/ AllClosed \/ UNCHANGED vars
  BY <1>13 DEF EnginesOwned, EngineOwned, ShutDown, AllClosed, vars
<1> QED
  BY <1>1, <1>2, <1>3, <1>4, <1>5, <1>6, <1>7, <1>8, <1>9, <1>10, <1>11, <1>12, <1>13
     DEF Next, TuneStep

(* For any tune-ins: no engine outlives its session, save one whose kill raised. *)
THEOREM NoEngineLeaks == Spec => []EngineAccounted
<1>1. Init => EnginesOwned
  BY DEF Init, EnginesOwned, EngineOwned
<1>2. EnginesOwned => EngineAccounted
  BY DEF EnginesOwned, EngineOwned, EngineAccounted
<1> QED
  BY <1>1, <1>2, OwnedInductive, TypeCorrect, PTL DEF Spec

-----------------------------------------------------------------------------
(* What a page was told last. *)

(* No tune-in is numbered ahead of the count, a bookmark is of its own channel, and *)
(* a tune-in whose kill raised has been admitted before.                             *)
Numbered == \A t \in Tunes : admitted[t] <= admissions
MarkedByItsOwn == \A k \in Keys : bookmarks[k] # None => KeyOf[bookmarks[k]] = k
StuckWasOpen == \A t \in stuck : phase[t] \notin {"idle", "reading"}
Known == Numbered /\ MarkedByItsOwn /\ StuckWasOpen

(* A step that leaves the pages, the bookmarks and the streams alone.            *)
Quiet == UNCHANGED <<page, bookmarks, playing, admitted, admissions>>
(* An engine left running by a session that is gone stays so.                    *)
StuckStays == stuck \ table \subseteq stuck' \ table'

(* The end of a stream takes no page off `tuning` but its own.                   *)
LEMMA EndKeepsTuning ==
  ASSUME TypeOK, NoStuckTuning, NEW t \in Tunes, NEW kind \in Statuses \ {"tuning"},
         FeedEnded(t, kind), admitted' = admitted
  PROVE  NoStuckTuning'
<1> SUFFICES ASSUME NEW k \in Keys, page'[k] = "tuning"
             PROVE  \E u \in playing' :
                      /\ KeyOf[u] = k
                      /\ \A v \in Tunes : KeyOf[v] = k => admitted[v] <= admitted[u]
  BY DEF NoStuckTuning
<1>1. page[k] = "tuning" /\ ~(Owns(t) /\ KeyOf[t] = k)
  BY KeysAssumption DEF TypeOK, FeedEnded, Tell, Keyed
<1>2. PICK w \in playing : KeyOf[w] = k /\ \A v \in Tunes : KeyOf[v] = k => admitted[v] <= admitted[w]
  BY <1>1 DEF NoStuckTuning
<1>3. w # t
  BY <1>1, <1>2 DEF Owns, TypeOK
<1> QED
  BY <1>2, <1>3 DEF FeedEnded

(* The end of a stream with what it makes of the bookmark.                       *)
LEMMA EndKeepsForgetting ==
  ASSUME TypeOK, EndedForgets, NEW t \in Tunes, NEW kind \in Statuses,
         FeedEnded(t, kind), admitted' = admitted, StuckStays,
         \A k \in Keys : \/ bookmarks'[k] \in {bookmarks[k], None}
                         \/ bookmarks'[k] = t /\ KeyOf[t] = k /\ t \in playing,
         \A k \in Keys : KeyOf[t] = k /\ kind = "ended"
           => bookmarks'[k] = None \/ t \in stuck' \ table'
  PROVE  EndedForgets'
<1> SUFFICES ASSUME NEW k \in Keys, page'[k] = "ended"
             PROVE  \/ bookmarks'[k] = None
                    \/ \E u \in playing' : KeyOf[u] = k /\ admitted[bookmarks'[k]] < admitted[u]
                    \/ \E u \in stuck' \ table' : KeyOf[u] = k
  BY DEF EndedForgets
<1>1. CASE Owns(t) /\ KeyOf[t] = k
  <2>1. page'[k] = kind
    BY <1>1, KeysAssumption DEF FeedEnded, Tell, Keyed, TypeOK
  <2> QED
    BY <1>1, <2>1
<1>2. CASE ~(Owns(t) /\ KeyOf[t] = k)
  <2>1. page[k] = "ended"
    BY <1>2, KeysAssumption DEF FeedEnded, Tell, Keyed, TypeOK
  <2>2. playing' = playing \ {t} /\ playing \subseteq Tunes /\ admitted \in [Tunes -> Nat]
    BY DEF FeedEnded, TypeOK
  <2>3. t \in playing /\ KeyOf[t] = k => \E v \in playing : KeyOf[v] = k /\ admitted[t] < admitted[v]
    BY <1>2, <2>2 DEF Owns
  <2>4. CASE bookmarks'[k] = t /\ KeyOf[t] = k /\ t \in playing
    BY <2>2, <2>3, <2>4
  <2>5. CASE bookmarks'[k] = None
    BY <2>5
  <2>6. CASE bookmarks'[k] = bookmarks[k] /\ bookmarks[k] # None
    <3>1. CASE \E u \in stuck \ table : KeyOf[u] = k
      BY <3>1 DEF StuckStays
    <3>2. CASE \E w \in playing : KeyOf[w] = k /\ admitted[bookmarks[k]] < admitted[w]
      <4>1. PICK w \in playing : KeyOf[w] = k /\ admitted[bookmarks[k]] < admitted[w]
        BY <3>2
      <4>2. admitted[bookmarks[k]] \in Nat
        BY <2>2, <2>6 DEF TypeOK
      <4>3. CASE w = t
        <5>1. PICK v \in playing : KeyOf[v] = k /\ admitted[t] < admitted[v]
          BY <2>3, <4>1, <4>3
        <5>2. admitted[t] \in Nat /\ admitted[v] \in Nat /\ v # t
          BY <2>2, <5>1
        <5>3. v \in playing' /\ admitted[bookmarks'[k]] < admitted[v]
          BY <2>2, <2>6, <4>1, <4>2, <4>3, <5>1, <5>2
        <5> QED
          BY <5>1, <5>3
      <4>4. CASE w # t
        BY <2>2, <2>6, <4>1, <4>4
      <4> QED
        BY <4>3, <4>4
    <3> QED
      BY <2>1, <2>6, <3>1, <3>2 DEF EndedForgets
  <2> QED
    BY <2>4, <2>5, <2>6
<1> QED
  BY <1>1, <1>2

(* What a kill that raises, or does not, leaves of the engines that raised before. *)
LEMMA StopFrozenStuck ==
  ASSUME TypeOK, EnginesOwned, StuckWasOpen, NEW C \in SUBSET Watched, NEW E \in StopFailures(C),
         StopFrozen(C, E), UNCHANGED <<lifecycle, table>>
  PROVE  StuckStays /\ StuckWasOpen'
<1>1. PICK F \in SUBSET (C \ E) : StopEngines(F, E)
  BY DEF StopFrozen
<1>2. F \subseteq table /\ E \subseteq table /\ table \subseteq Tunes
  BY <1>1 DEF Watched, StopFailures, TypeOK
<1>3. \A t \in table : phase[t] \in {"opening", "relaying"}
  BY DEF EnginesOwned, EngineOwned, TypeOK
<1> QED
  BY <1>1, <1>2, <1>3 DEF StopEngines, StuckStays, StuckWasOpen, lifecycle

(* A close, by the relay or by close_all: off the table, told, and the bookmark.    *)
LEMMA CloseKeepsPage ==
  ASSUME TypeOK, EnginesOwned, FeedMirrorsTable, Known, PageNotMisled, NEW t \in Tunes, t \in table,
         NEW fails \in CloseOutcomes(t), CloseSession(t, fails),
         \A u \in Tunes \ {t} : phase'[u] = phase[u], phase'[t] \in {phase[t], "over"}
  PROVE  Known' /\ PageNotMisled'
<1> DEFINE kind == IF Finished(t) THEN "ended" ELSE "stopped"
<1>1. /\ FeedEnded(t, kind) /\ table' = table \ {t}
      /\ UNCHANGED <<admitted, admissions>> /\ kind \in Statuses \ {"tuning"}
  BY DEF CloseSession, Statuses
<1>2. /\ \A k \in Keys : \/ bookmarks'[k] \in {bookmarks[k], None}
                         \/ bookmarks'[k] = t /\ KeyOf[t] = k
      /\ ~fails /\ Finished(t) => \A k \in Keys : KeyOf[t] = k => bookmarks'[k] = None
  <2>1. bookmarks \in [Keys -> Tunes \cup {None}]
    BY DEF TypeOK
  <2>2. CASE fails
    BY <2>2 DEF CloseSession
  <2>3. CASE ~fails /\ ~Keyed(t)
    BY <2>3, KeysAssumption DEF CloseSession, LeaveBookmark, Keyed
  <2>4. CASE ~fails /\ Keyed(t) /\ Finished(t)
    BY <2>1, <2>4, KeysAssumption DEF CloseSession, LeaveBookmark, Keyed
  <2>5. CASE ~fails /\ Keyed(t) /\ ~Finished(t) /\ t \in kept
    BY <2>1, <2>5, KeysAssumption DEF CloseSession, LeaveBookmark, Keyed
  <2>6. CASE ~fails /\ Keyed(t) /\ ~Finished(t) /\ t \notin kept
    BY <2>6 DEF CloseSession, LeaveBookmark
  <2> QED
    BY <2>2, <2>3, <2>4, <2>5, <2>6
<1>3. t \in playing \/ ~Keyed(t)
  BY DEF FeedMirrorsTable
<1>4. /\ StuckStays
      /\ fails => t \in stuck' \ table'
      /\ stuck' \subseteq stuck \cup {t}
  <2>1. CloseStops(t) \subseteq table
    BY DEF CloseStops
  <2> QED
    BY <1>1, <2>1 DEF CloseSession, StopEngines, StuckStays, CloseStops
<1>5. StuckWasOpen'
  <2>1. phase[t] \in {"opening", "relaying"}
    BY DEF EnginesOwned, EngineOwned
  <2>2. stuck \subseteq Tunes
    BY DEF TypeOK
  <2> QED
    BY <1>4, <2>1, <2>2 DEF Known, StuckWasOpen
<1>6. Numbered' /\ MarkedByItsOwn'
  BY <1>1, <1>2 DEF Known, Numbered, MarkedByItsOwn
<1>7. NoStuckTuning'
  BY <1>1, EndKeepsTuning DEF PageNotMisled
<1>8. EndedForgets'
  <2>1. \A k \in Keys : KeyOf[t] = k => t \in playing
    BY <1>3, KeysAssumption DEF Keyed
  <2>2. kind = "ended" => Finished(t)
    OBVIOUS
  <2>3. ASSUME NEW k \in Keys, KeyOf[t] = k, kind = "ended"
        PROVE  bookmarks'[k] = None \/ t \in stuck' \ table'
    <3>1. CASE fails
      BY <1>4, <3>1
    <3>2. CASE ~fails
      BY <1>2, <2>2, <2>3, <3>2
    <3> QED
      BY <3>1, <3>2
  <2>4. kind \in Statuses /\ EndedForgets
    BY <1>1 DEF PageNotMisled
  <2>5. \A k \in Keys : \/ bookmarks'[k] \in {bookmarks[k], None}
                        \/ bookmarks'[k] = t /\ KeyOf[t] = k /\ t \in playing
    BY <1>2, <2>1
  <2>6. FeedEnded(t, kind) /\ admitted' = admitted /\ StuckStays
    BY <1>1, <1>4
  <2> HIDE DEF kind
  <2> QED
    BY <2>3, <2>4, <2>5, <2>6, EndKeepsForgetting
<1> QED
  BY <1>5, <1>6, <1>7, <1>8 DEF Known, PageNotMisled

(* A step that ends no stream and admits none.                                     *)
LEMMA QuietKeepsPage ==
  ASSUME Known, PageNotMisled, Quiet, StuckStays, StuckWasOpen'
  PROVE  Known' /\ PageNotMisled'
<1>1. Known'
  BY DEF Known, Quiet, Numbered, MarkedByItsOwn
<1>2. NoStuckTuning'
  BY DEF PageNotMisled, NoStuckTuning, Quiet
<1>3. EndedForgets'
  BY DEF PageNotMisled, EndedForgets, Quiet, StuckStays
<1> QED
  BY <1>1, <1>2, <1>3 DEF PageNotMisled

(* A refusal is told on the channel, and nothing else changes there.               *)
LEMMA RefusalKeepsPage ==
  ASSUME TypeOK, Known, PageNotMisled, NEW t \in Tunes, NEW status \in Statuses \ {"tuning", "ended"},
         Tell(t, status), UNCHANGED <<bookmarks, playing, admitted, admissions, stuck, table>>,
         phase' = [phase EXCEPT ![t] = "over"]
  PROVE  Known' /\ PageNotMisled'
<1>1. Known'
  BY DEF TypeOK, Known, Numbered, MarkedByItsOwn, StuckWasOpen
<1>2. \A k \in Keys : page'[k] \in {"tuning", "ended"} => page'[k] = page[k]
  BY KeysAssumption DEF TypeOK, Tell, Keyed
<1>3. NoStuckTuning'
  BY <1>2 DEF PageNotMisled, NoStuckTuning
<1>4. EndedForgets'
  BY <1>2 DEF PageNotMisled, EndedForgets
<1> QED
  BY <1>1, <1>3, <1>4 DEF PageNotMisled

LEMMA PageInductive ==
  TypeOK /\ EnginesOwned /\ FeedMirrorsTable /\ Known /\ PageNotMisled /\ [Next]_vars
    => Known' /\ PageNotMisled'
<1> SUFFICES ASSUME TypeOK, EnginesOwned, FeedMirrorsTable, Known, PageNotMisled, [Next]_vars
             PROVE  Known' /\ PageNotMisled'
  OBVIOUS
<1> USE DEF lifecycle, engines, sessions, marks, feed
<1>1. ASSUME NEW t \in Tunes, RequestListen(t) \/ NotAdmitted(t) PROVE Known' /\ PageNotMisled'
  <2>1. Quiet /\ UNCHANGED <<stuck, table>>
    BY <1>1 DEF RequestListen, NotAdmitted, Quiet
  <2>2. StuckWasOpen'
    BY <1>1, <2>1 DEF RequestListen, NotAdmitted, Known, StuckWasOpen, TypeOK
  <2> QED
    BY <2>1, <2>2, QuietKeepsPage DEF StuckStays
<1>2. ASSUME NEW t \in Tunes, NEW status \in {"busy", "unavailable"},
             Refuse(t, status) \/ AdmitWithoutPort(t)
      PROVE  Known' /\ PageNotMisled'
  <2>1. status \in Statuses \ {"tuning", "ended"} /\ "unavailable" \in Statuses \ {"tuning", "ended"}
    BY DEF Statuses
  <2> QED
    BY <1>2, <2>1, RefusalKeepsPage DEF Refuse, AdmitWithoutPort
<1>3. ASSUME NEW t \in Tunes, Admit(t) PROVE Known' /\ PageNotMisled'
  <2>1. /\ admitted' = [admitted EXCEPT ![t] = admissions + 1] /\ admissions' = admissions + 1
        /\ playing' = IF Keyed(t) THEN playing \cup {t} ELSE playing
        /\ page' = IF Keyed(t) THEN [page EXCEPT ![KeyOf[t]] = "tuning"] ELSE page
        /\ UNCHANGED <<bookmarks, stuck>> /\ table' = table \cup {t}
        /\ phase[t] = "reading" /\ phase' = [phase EXCEPT ![t] = "opening"]
    BY <1>3 DEF Admit, FeedOpened, Tell
  <2>2. /\ admitted \in [Tunes -> Nat] /\ admissions \in Nat /\ playing \subseteq Tunes
        /\ page \in [Keys -> Statuses] /\ bookmarks \in [Keys -> Tunes \cup {None}]
        /\ phase \in [Tunes -> Phases] /\ stuck \subseteq Tunes
    BY DEF TypeOK
  <2>3. Known'
    <3>1. Numbered'
      BY <2>1, <2>2 DEF Known, Numbered
    <3>2. MarkedByItsOwn' /\ StuckWasOpen'
      BY <2>1, <2>2 DEF Known, MarkedByItsOwn, StuckWasOpen
    <3> QED
      BY <3>1, <3>2 DEF Known
  <2>4. \A k \in Keys : k # KeyOf[t] => page'[k] = page[k]
    BY <2>1, <2>2
  <2>5. \A u \in Tunes : admitted'[u] <= admissions + 1 /\ (u # t => admitted'[u] = admitted[u])
    BY <2>1, <2>2 DEF Known, Numbered
  <2>6. NoStuckTuning'
    <3> SUFFICES ASSUME NEW k \in Keys, page'[k] = "tuning"
                 PROVE  \E u \in playing' :
                          /\ KeyOf[u] = k
                          /\ \A v \in Tunes : KeyOf[v] = k => admitted'[v] <= admitted'[u]
      BY DEF NoStuckTuning
    <3>1. CASE KeyOf[t] = k
      <4>1. t \in playing' /\ admitted'[t] = admissions + 1
        BY <2>1, <2>2, <3>1, KeysAssumption DEF Keyed
      <4> QED
        BY <2>5, <3>1, <4>1
    <3>2. CASE KeyOf[t] # k
      <4>1. PICK u \in playing :
              KeyOf[u] = k /\ \A v \in Tunes : KeyOf[v] = k => admitted[v] <= admitted[u]
        BY <2>4, <3>2 DEF PageNotMisled, NoStuckTuning
      <4> QED
        BY <2>1, <2>2, <2>5, <3>2, <4>1
    <3> QED
      BY <3>1, <3>2
  <2>7. EndedForgets'
    <3> SUFFICES ASSUME NEW k \in Keys, page'[k] = "ended"
                 PROVE  \/ bookmarks'[k] = None
                        \/ \E u \in playing' : KeyOf[u] = k /\ admitted'[bookmarks'[k]] < admitted'[u]
                        \/ \E u \in stuck' \ table' : KeyOf[u] = k
      BY DEF EndedForgets
    <3>1. KeyOf[t] # k
      BY <2>1, <2>2, KeysAssumption DEF Keyed
    <3>2. CASE bookmarks[k] # None /\ \E u \in playing : KeyOf[u] = k /\ admitted[bookmarks[k]] < admitted[u]
      <4>1. bookmarks[k] \in Tunes /\ KeyOf[bookmarks[k]] = k
        BY <2>2, <3>2 DEF Known, MarkedByItsOwn
      <4>2. bookmarks[k] # t /\ playing \subseteq playing'
        BY <2>1, <3>1, <4>1
      <4> QED
        BY <2>1, <2>2, <2>5, <3>1, <3>2, <4>1, <4>2
    <3>3. CASE \E u \in stuck \ table : KeyOf[u] = k
      BY <2>1, <3>1, <3>3
    <3> QED
      BY <2>1, <2>4, <3>1, <3>2, <3>3 DEF PageNotMisled, EndedForgets
  <2> QED
    BY <2>3, <2>6, <2>7 DEF PageNotMisled
<1>4. ASSUME NEW t \in Tunes, Forget(t) PROVE Known' /\ PageNotMisled'
  <2>1. /\ \A k \in Keys : bookmarks'[k] \in {bookmarks[k], None}
        /\ UNCHANGED <<page, playing, admitted, admissions, stuck, table, phase>>
    BY <1>4 DEF Forget, Forgotten, TypeOK
  <2> QED
    BY <2>1 DEF Known, Numbered, MarkedByItsOwn, StuckWasOpen, PageNotMisled, NoStuckTuning, EndedForgets
<1>5. ASSUME NEW t \in Tunes,
             PublishPlacement(t) \/ EngineReady(t) \/ EngineFails(t) \/ Cancel(t) \/ SettleKept(t)
               \/ EngineDies(t) \/ EndsQuietly(t)
      PROVE  Known' /\ PageNotMisled'
  <2>1. Quiet /\ UNCHANGED <<stuck, table>>
    BY <1>5 DEF PublishPlacement, EngineReady, EngineFails, Cancel, SettleKept, EngineDies,
       EndsQuietly, Quiet
  <2>2. phase' = phase \/ phase' = [phase EXCEPT ![t] = "relaying"]
    BY <1>5 DEF PublishPlacement, EngineReady, EngineFails, Cancel, SettleKept, EngineDies,
       EndsQuietly
  <2>3. StuckWasOpen'
    BY <2>1, <2>2 DEF Known, StuckWasOpen, TypeOK
  <2> QED
    BY <2>1, <2>3, QuietKeepsPage DEF StuckStays
<1>6. ASSUME NEW t \in Tunes, SettleFailed(t) PROVE Known' /\ PageNotMisled'
  <2>1. PICK fails \in BOOLEAN : AbandonStart(t, fails) /\ FeedEnded(t, FailureOf(t, fails))
    BY <1>6 DEF SettleFailed, StopOutcomes
  <2>2. /\ phase' = [phase EXCEPT ![t] = "over"] /\ table' = table \ {t}
        /\ UNCHANGED <<bookmarks, admitted, admissions>>
    BY <1>6 DEF SettleFailed
  <2>3. stuck' \in {stuck, stuck \cup {t}}
    BY <2>1 DEF AbandonStart
  <2>4. FailureOf(t, fails) \in Statuses \ {"tuning", "ended"}
    BY DEF FailureOf, Statuses
  <2>5. Known'
    BY <2>2, <2>3 DEF Known, Numbered, MarkedByItsOwn, StuckWasOpen, TypeOK
  <2>6. NoStuckTuning'
    BY <2>1, <2>2, <2>4, EndKeepsTuning DEF PageNotMisled
  <2>7. EndedForgets'
    <3>1. StuckStays
      BY <2>2, <2>3 DEF StuckStays
    <3>2. FailureOf(t, fails) \in Statuses /\ FailureOf(t, fails) # "ended"
      BY <2>4
    <3> QED
      BY <2>1, <2>2, <3>1, <3>2, EndKeepsForgetting DEF PageNotMisled
  <2> QED
    BY <2>5, <2>6, <2>7 DEF PageNotMisled
<1>7. ASSUME NEW t \in Tunes, Started(t) PROVE Known' /\ PageNotMisled'
  <2>1. Quiet /\ UNCHANGED <<lifecycle, table>>
    BY <1>7 DEF Started, Quiet
  <2>2. StuckStays /\ StuckWasOpen'
    BY <1>7, <2>1, StopFrozenStuck DEF Started, Known
  <2> QED
    BY <2>1, <2>2, QuietKeepsPage
<1>8. ASSUME NEW t \in Tunes, RelayEnds(t) PROVE Known' /\ PageNotMisled'
  <2>1. phase' = [phase EXCEPT ![t] = "over"]
    BY <1>8 DEF RelayEnds
  <2>2. CASE t \in table
    <3>1. PICK fails \in CloseOutcomes(t) : CloseSession(t, fails)
      BY <1>8, <2>2 DEF RelayEnds
    <3> QED
      BY <2>1, <2>2, <3>1, CloseKeepsPage DEF TypeOK
  <2>3. CASE t \notin table
    <3>1. Quiet /\ UNCHANGED <<stuck, table>>
      BY <1>8, <2>3 DEF RelayEnds, Quiet
    <3>2. StuckWasOpen'
      BY <2>1, <3>1 DEF Known, StuckWasOpen, TypeOK
    <3> QED
      BY <3>1, <3>2, QuietKeepsPage DEF StuckStays
  <2> QED
    BY <2>2, <2>3
<1>9. ASSUME NEW t \in Tunes, CloseNext(t) PROVE Known' /\ PageNotMisled'
  <2>1. PICK fails \in CloseOutcomes(t) : CloseSession(t, fails)
    BY <1>9 DEF CloseNext
  <2> QED
    BY <1>9, <2>1, CloseKeepsPage DEF CloseNext
<1>10. CASE FreezeTick
  <2>1. Quiet /\ UNCHANGED <<lifecycle, table>>
    BY <1>10 DEF FreezeTick, Quiet
  <2>2. StuckStays /\ StuckWasOpen'
    BY <1>10, <2>1, StopFrozenStuck DEF FreezeTick, Known
  <2> QED
    BY <2>1, <2>2, QuietKeepsPage
<1>11. CASE ShutDown \/ AllClosed \/ UNCHANGED vars
  <2>1. Quiet /\ UNCHANGED <<stuck, table, phase>>
    BY <1>11 DEF ShutDown, AllClosed, vars, Quiet
  <2> QED
    BY <2>1, QuietKeepsPage DEF StuckStays, StuckWasOpen, Known
<1> QED
  BY <1>1, <1>2, <1>3, <1>4, <1>5, <1>6, <1>7, <1>8, <1>9, <1>10, <1>11 DEF Next, TuneStep

LEMMA OwnedAlways == Spec => []EnginesOwned
<1>1. Init => EnginesOwned
  BY DEF Init, EnginesOwned, EngineOwned
<1> QED
  BY <1>1, OwnedInductive, TypeCorrect, PTL DEF Spec

(* For any tune-ins of any channels: a page on `tuning` waits for the newest stream, *)
(* which is still open, and one told `ended` is not followed by a bookmark once its   *)
(* channel's last stream is gone - in whichever order streams close, open or fail.    *)
(* Of what a page shows after a hand-back, when nothing is told, it says nothing      *)
(* (ListenerFeed.ended)   .                                                            *)
THEOREM PageFollowsStreams == Spec => []PageNotMisled
<1>1. Init => Known /\ PageNotMisled
  BY DEF Init, Known, Numbered, MarkedByItsOwn, StuckWasOpen, PageNotMisled, NoStuckTuning, EndedForgets
<1> QED
  BY <1>1, PageInductive, OwnedAlways, FeedFollowsTable, TypeCorrect, PTL DEF Spec

(* For any tune-ins: a bookmark goes only with a finished stream of its channel, or  *)
(* when the placement that read this very bookmark drops it.                         *)
THEOREM BookmarksKept == Spec => ForgetsOnlyWhatItRead
<1> DEFINE Forgets(k) ==
      bookmarks[k] # None /\ bookmarks'[k] = None =>
        \/ \E t \in table \ table' : KeyOf[t] = k /\ Finished(t)
        \/ \E t \in Tunes : saved[t] = bookmarks[k] /\ place'[t] # place[t]
<1>1. TypeOK /\ [Next]_vars => [\A k \in Keys : Forgets(k)]_vars
  <2> SUFFICES ASSUME TypeOK, [Next]_vars, NEW k \in Keys, bookmarks[k] # None, bookmarks'[k] = None
               PROVE  \/ \E t \in table \ table' : KeyOf[t] = k /\ Finished(t)
                      \/ \E t \in Tunes : saved[t] = bookmarks[k] /\ place'[t] # place[t]
    OBVIOUS
  <2> USE DEF lifecycle, engines, sessions, marks, feed
  <2>1. bookmarks \in [Keys -> Tunes \cup {None}] /\ place \in [Tunes -> Placements]
    BY DEF TypeOK
  <2>2. ASSUME NEW t \in Tunes, Forget(t)
        PROVE  saved[t] = bookmarks[k] /\ place'[t] # place[t]
    BY <2>1, <2>2 DEF Forget, Forgotten
  <2>3. ASSUME NEW t \in Tunes, t \in table, NEW fails, CloseSession(t, fails)
        PROVE  t \in table \ table' /\ KeyOf[t] = k /\ Finished(t)
    <3>1. table' = table \ {t} /\ ~fails
      BY <2>3 DEF CloseSession
    <3>2. LeaveBookmark(t)
      BY <2>3, <3>1 DEF CloseSession
    <3>3. Keyed(t) /\ KeyOf[t] = k /\ Finished(t)
      BY <2>1, <3>2, NoneAssumption DEF LeaveBookmark
    <3> QED
      BY <2>3, <3>1, <3>3
  <2>4. ASSUME NEW t \in Tunes, RelayEnds(t)
        PROVE  \E u \in table \ table' : KeyOf[u] = k /\ Finished(u)
    BY <2>3, <2>4 DEF RelayEnds
  <2>5. ASSUME NEW t \in Tunes, CloseNext(t)
        PROVE  \E u \in table \ table' : KeyOf[u] = k /\ Finished(u)
    BY <2>3, <2>5 DEF CloseNext
  <2>6. ASSUME NEW t \in Tunes, TuneStep(t), ~Forget(t), ~RelayEnds(t), ~CloseNext(t)
        PROVE  FALSE
    BY <2>6 DEF TuneStep, RequestListen, NotAdmitted, Refuse, AdmitWithoutPort, Admit,
       PublishPlacement, EngineReady, EngineFails, Cancel, SettleKept, SettleFailed, EngineDies,
       Started, EndsQuietly
  <2>7. CASE FreezeTick \/ ShutDown \/ AllClosed \/ UNCHANGED vars
    BY <2>7 DEF FreezeTick, ShutDown, AllClosed, vars
  <2> QED
    BY <2>2, <2>4, <2>5, <2>6, <2>7 DEF Next
<1> QED
  BY <1>1, TypeCorrect, PTL DEF Spec, ForgetsOnlyWhatItRead

=============================================================================
