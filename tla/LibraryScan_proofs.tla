------------------------- MODULE LibraryScan_proofs -------------------------
(***************************************************************************)
(* What the library's rows promise for any paths, folders, versions and    *)
(* row ids.  Each operator of LibraryRows is shown to keep the table       *)
(* sound: ids apart, a row what was last learnt of its file, fingerprints  *)
(* of the bytes they stand on.  The scans fold them over sets of files,    *)
(* and a task's step is one of them, between what other actors do.         *)
(***************************************************************************)
EXTENDS LibraryScan, FiniteSetTheorems, WellFoundedInduction, TLAPS

-----------------------------------------------------------------------------
(* What the table keeps by itself, and what a scan keeps of it. *)

Tables == [Paths -> Row \cup {None}]
Learns == [Paths -> Versions \cup {None, Unsure}]
Shows == [Paths -> Versions \cup {None}]
Matches == [Songs -> Ids \cup {None}]

Apart(table) == \A p, q \in Filled(table) : table[p].id = table[q].id => p = q

\* What a scan last learnt of a path is what its row says, or the path is told nothing.
ToldOf(table, learnt, p) ==
  \/ learnt[p] = Unsure
  \/ learnt[p] = None /\ p \notin Present(table)
  \/ learnt[p] \in Versions /\ p \in Present(table) /\ table[p].stat = learnt[p]
Told(table, learnt) == \A p \in Paths : ToldOf(table, learnt, p)

HashesTrue(table, sw) ==
  \A p \in Filled(table) :
    <<table[p].id, table[p].stat>> \in sw \/ table[p].hash \in {None, AudioOf[table[p].stat]}

Sound(table, learnt, sw) ==
  /\ table \in Tables /\ learnt \in Learns
  /\ Apart(table) /\ Told(table, learnt) /\ HashesTrue(table, sw)

\* Every match is to a row that is there.
Known(m, table) == \A s \in Songs : m[s] # None => m[s] \in IdsOf(table, Filled(table))

IdsKept(from, to) == IdsOf(from, Filled(from)) \subseteq IdsOf(to, Filled(to))

Scans == [rows : Tables, seen : Learns, failed : SUBSET Paths, entries : SUBSET Paths,
          written : SUBSET Paths]

\* A scan so far, begun on the table `from`.
Going(s, from, sw) == s \in Scans /\ Sound(s.rows, s.seen, sw) /\ IdsKept(from, s.rows)

(* What a task may still count on after what came between its steps. *)

Readings == [path : Paths, id : Ids, stat : Versions]
Jobs == [step : Steps, full : BOOLEAN, task : Tasks \cup {None},
         todo : SUBSET (Paths \cup Folders), prior : SUBSET (Paths \cup Folders),
         adopting : BOOLEAN, written : SUBSET Paths, walked : SUBSET Paths,
         failed : SUBSET Paths, plan : SUBSET ((Ids \X Ids) \cup Audios),
         row : Readings \cup {None}]

\* A planned move, if both rows are still there, is of one track.
OneTrack(table, v) ==
  \A p, c \in Filled(table) :
    table[p].id = v[1] /\ table[c].id = v[2] => IsSameTrack(table[p], table[c])
PlanHolds == job.plan \subseteq Ids \X Ids /\ \A v \in job.plan : OneTrack(rows, v)

\* Audio that was read is of the stat that was read, or the file does not have that stat
\* now, or it was swapped.
ReadingHolds ==
  /\ job.row \in Readings /\ job.plan \subseteq Audios
  /\ \A a \in job.plan : \/ a = AudioOf[job.row.stat]
                         \/ disk[job.row.path] # job.row.stat
                         \/ <<job.row.id, job.row.stat>> \in swapped

JobInv ==
  /\ job \in Jobs
  /\ job.step = "idle" => job = Idle
  /\ ~job.full => job.prior \subseteq Folders
  /\ job.step \in {"visit", "handOff"} => ~job.full /\ job.todo \subseteq Folders
  /\ job.step = "handOff" => job.task \in Tasks
  /\ job.step = "walk" => /\ job.full /\ job.todo \subseteq Paths
                          /\ Filled(rows) \cap job.todo \subseteq job.prior
  /\ job.step = "apply" => PlanHolds
  /\ job.step = "hash" => job.row \in Readings
  /\ job.step = "pin" => ReadingHolds

QueueInv ==
  queue \in Seq([full : BOOLEAN, task : Tasks \cup {None}, folders : SUBSET Folders])

StorageInv == disk \in Shows /\ dark \subseteq Folders /\ mounted \in BOOLEAN
TablesInv ==
  /\ Sound(rows, seen, swapped) /\ match \in Matches /\ Known(match, rows)
  /\ quarantine \subseteq Paths
StagedHashes(fs) == [folder : fs, hash : SUBSET (Paths \X Versions), task : Tasks, old : BOOLEAN]
FoldersInv ==
  /\ known \subseteq Folders /\ staged \subseteq StagedHashes(known)
  /\ \A f \in Folders : stored[f] # None => f \in known

Inv ==
  /\ StorageInv /\ TablesInv /\ FoldersInv /\ JobInv /\ QueueInv
  /\ lingering \subseteq Folders

-----------------------------------------------------------------------------
(* The operators of LibraryRows. *)

LEMMA Fields ==
  ASSUME NEW table \in Tables, NEW p \in Filled(table)
  PROVE  /\ p \in Paths /\ table[p] \in Row
         /\ table[p].id \in Ids /\ table[p].present \in BOOLEAN /\ table[p].stat \in Versions
         /\ table[p].hash \in Audios \cup {None} /\ table[p].grouped \in BOOLEAN
BY DEF Tables, Filled, Row

LEMMA FilledIs ==
  ASSUME NEW table \in Tables, NEW p \in Paths
  PROVE  /\ p \in Filled(table) <=> table[p] # None
         /\ table[p] \in Row => p \in Filled(table)
         /\ p \in Present(table) <=> table[p] # None /\ table[p].present
BY RowAssumption DEF Filled, Present

\* The only one of a set of paths is one of them.
LEMMA OnlyOneIs ==
  ASSUME NEW S, S \subseteq Paths
  PROVE  OnlyOne(S) \in S \cup {None}
<1>1. CASE Cardinality(S) = 1
  <2>1. IsFiniteSet(S)
    BY PathsAssumption, FS_Subset
  <2>2. PICK x : S = {x}
    BY <1>1, <2>1, FS_Singleton
  <2> QED BY <1>1, <2>2 DEF OnlyOne
<1>2. CASE Cardinality(S) # 1
  BY <1>2 DEF OnlyOne
<1> QED BY <1>1, <1>2

\* While a path has no row, an id is free.
LEMMA FreshIdIs ==
  ASSUME NEW table \in Tables, NEW p \in Paths, table[p] = None
  PROVE  FreshId(table) \in Ids /\ \A q \in Filled(table) : table[q].id # FreshId(table)
<1> DEFINE used == {table[q].id : q \in Filled(table)}
<1>1. Filled(table) \subseteq Paths \ {p}
  BY DEF Filled
<1>2. IsFiniteSet(Filled(table)) /\ IsFiniteSet(Paths \ {p})
  BY <1>1, PathsAssumption, FS_Subset
<1>3. Cardinality(Filled(table)) <= Cardinality(Paths \ {p})
  BY <1>1, <1>2, FS_Subset
<1>4. Cardinality(Paths \ {p}) = Cardinality(Paths) - 1 /\ Cardinality(Paths) \in Nat
  BY PathsAssumption, FS_RemoveElement, FS_CardinalityType
<1>5. IsFiniteSet(used) /\ Cardinality(used) <= Cardinality(Filled(table))
  <2> DEFINE ids == [q \in Filled(table) |-> table[q].id]
  <2>1. ids \in Surjection(Filled(table), used)
    BY DEF Surjection
  <2> QED BY <1>2, <2>1, FS_Surjection
<1>6. Cardinality(used) \in Nat /\ Cardinality(Filled(table)) \in Nat
  BY <1>2, <1>5, FS_CardinalityType
<1>7. ~(Paths \subseteq used)
  <2> SUFFICES ASSUME Paths \subseteq used PROVE FALSE
    OBVIOUS
  <2>1. Cardinality(Paths) <= Cardinality(used)
    BY <1>5, FS_Subset
  <2> QED BY <2>1, <1>3, <1>4, <1>5, <1>6
<1>8. PICK i \in Ids : \A q \in Filled(table) : table[q].id # i
  BY <1>7, IdsAssumption
<1> QED BY <1>8 DEF FreshId

\* The upsert gives the path a present row of the version that was read.
LEMMA UpsertedKeeps ==
  ASSUME NEW table \in Tables, Apart(table), NEW sw, HashesTrue(table, sw),
         NEW p \in Paths, NEW v \in Versions
  PROVE  LET e == Upserted(table, p, v) IN
         /\ e \in Tables /\ Apart(e) /\ HashesTrue(e, sw) /\ IdsKept(table, e)
         /\ \A q \in Paths \ {p} : e[q] = table[q]
         /\ p \in Present(e) /\ e[p].stat = v
<1> DEFINE e == Upserted(table, p, v)
<1>1. \A q \in Paths \ {p} : e[q] = table[q]
  BY DEF Upserted, Tables
<1>2. CASE table[p] = None
  <2>1. e[p] = [id |-> FreshId(table), present |-> TRUE, stat |-> v, hash |-> Fingerprint(v),
                grouped |-> FALSE]
    BY <1>2 DEF Upserted, Tables
  <2>2. FreshId(table) \in Ids /\ \A q \in Filled(table) : table[q].id # FreshId(table)
    BY <1>2, FreshIdIs
  <2>3. Fingerprint(v) \in {None, AudioOf[v]} /\ AudioOf[v] \in Audios
    BY DEF Fingerprint, Audios
  <2>4. e[p] \in Row
    BY <2>1, <2>2, <2>3 DEF Row
  <2>5. e \in Tables
    BY <2>4 DEF Upserted, Tables
  <2> HIDE DEF e
  <2>6. Filled(e) = Filled(table) \cup {p} /\ p \in Present(e)
    BY <1>1, <2>1, <2>4, RowAssumption DEF Filled, Present
  <2>7. Apart(e)
    <3>1. e[p].id = FreshId(table) /\ \A q \in Filled(table) : e[q] = table[q] /\ q # p
      BY <1>1, <1>2, <2>1 DEF Filled
    <3> QED BY <2>2, <2>6, <3>1 DEF Apart
  <2>8. HashesTrue(e, sw)
    <3> SUFFICES ASSUME NEW q \in Filled(e)
                 PROVE  <<e[q].id, e[q].stat>> \in sw \/ e[q].hash \in {None, AudioOf[e[q].stat]}
      BY DEF HashesTrue
    <3>1. CASE q = p
      BY <2>1, <2>3, <3>1
    <3>2. CASE q # p
      BY <1>1, <2>6, <3>2 DEF HashesTrue, Filled
    <3> QED BY <3>1, <3>2
  <2>9. IdsKept(table, e)
    BY <1>1, <1>2, <2>6 DEF IdsKept, IdsOf, Filled
  <2> QED BY <1>1, <2>1, <2>5, <2>6, <2>7, <2>8, <2>9 DEF e
<1>3. CASE table[p] # None
  <2> DEFINE old == table[p]
  <2>1. old \in Row /\ p \in Filled(table)
    BY <1>3, FilledIs, Fields
  <2> DEFINE kept == CASE v \in Tagged -> AudioOf[v]
                       [] v \notin Tagged /\ old.stat = v -> old.hash
                       [] OTHER -> None
  <2>2. /\ kept \in Audios \cup {None}
        /\ kept \in {None, AudioOf[v]} \/ (kept = old.hash /\ old.stat = v)
    <3>1. AudioOf[v] \in Audios
      BY DEF Audios
    <3>2. old.hash \in Audios \cup {None}
      BY <2>1 DEF Row
    <3>3. CASE v \in Tagged
      <4>1. kept = AudioOf[v]
        BY <3>3
      <4> HIDE DEF kept
      <4> QED BY <3>1, <4>1
    <3>4. CASE v \notin Tagged /\ old.stat = v
      BY <3>2, <3>4
    <3>5. CASE v \notin Tagged /\ old.stat # v
      <4>1. kept = None
        BY <3>5
      <4> HIDE DEF kept
      <4> QED BY <4>1
    <3> QED BY <3>3, <3>4, <3>5
  <2>3. e[p] = [old EXCEPT !.present = TRUE, !.stat = v, !.hash = kept]
    BY <1>3 DEF Upserted, Tables
  <2> HIDE DEF kept
  <2>4. /\ e[p] \in Row /\ e[p].id = old.id /\ e[p].present /\ e[p].stat = v /\ e[p].hash = kept
    BY <2>1, <2>2, <2>3 DEF Row
  <2>5. e \in Tables
    BY <2>4 DEF Upserted, Tables
  <2> HIDE DEF e
  <2>6. Filled(e) = Filled(table) /\ p \in Present(e)
    BY <1>1, <1>3, <2>4, RowAssumption DEF Filled, Present
  <2>7. \A q \in Filled(table) : e[q].id = table[q].id
    BY <1>1, <2>4 DEF Filled
  <2>8. Apart(e) /\ IdsKept(table, e)
    BY <2>6, <2>7 DEF Apart, IdsKept, IdsOf
  <2>9. HashesTrue(e, sw)
    <3> SUFFICES ASSUME NEW q \in Filled(e)
                 PROVE  <<e[q].id, e[q].stat>> \in sw \/ e[q].hash \in {None, AudioOf[e[q].stat]}
      BY DEF HashesTrue
    <3>1. CASE q = p
      BY <2>1, <2>2, <2>4, <3>1 DEF HashesTrue
    <3>2. CASE q # p
      BY <1>1, <2>6, <3>2 DEF HashesTrue, Filled
    <3> QED BY <3>1, <3>2
  <2> QED BY <1>1, <2>4, <2>5, <2>6, <2>8, <2>9 DEF e
<1> QED BY <1>2, <1>3

\* A relocated row is the row it was, under its new path.
LEMMA RelocatedKeeps ==
  ASSUME NEW table \in Tables, Apart(table), NEW sw, HashesTrue(table, sw),
         NEW p \in Paths, table[p] = None, NEW q \in Filled(table)
  PROVE  LET e == Relocated(table, q, p) IN
         /\ e \in Tables /\ Apart(e) /\ HashesTrue(e, sw) /\ IdsKept(table, e)
         /\ \A r \in Paths \ {p, q} : e[r] = table[r]
         /\ e[q] = None /\ p \in Present(e) /\ p # q
<1> DEFINE e == Relocated(table, q, p)
<1>1. q \in Paths /\ p # q /\ table[q] \in Row
  BY Fields DEF Filled
<1>2. /\ \A r \in Paths \ {p, q} : e[r] = table[r]
      /\ e[q] = None /\ e[p] = [table[q] EXCEPT !.present = TRUE]
  BY <1>1 DEF Relocated, Tables
<1>3. /\ e[p] \in Row /\ e[p].id = table[q].id /\ e[p].present /\ e[p].stat = table[q].stat
      /\ e[p].hash = table[q].hash
  BY <1>1, <1>2 DEF Row
<1>4. e \in Tables
  BY <1>1, <1>3 DEF Relocated, Tables
<1> HIDE DEF e
<1>5. Filled(e) = (Filled(table) \ {q}) \cup {p} /\ p \in Present(e)
  BY <1>1, <1>2, <1>3, RowAssumption DEF Filled, Present
<1>6. Apart(e)
  <2> SUFFICES ASSUME NEW r \in Filled(e), NEW s \in Filled(e), e[r].id = e[s].id PROVE r = s
    BY DEF Apart
  <2> DEFINE was(x) == IF x = p THEN q ELSE x
  <2>1. \A x \in Filled(e) : was(x) \in Filled(table) /\ e[x].id = table[was(x)].id
    BY <1>2, <1>3, <1>5 DEF Filled
  <2>2. was(r) = was(s)
    BY <2>1 DEF Apart
  <2> QED BY <1>1, <1>5, <2>2
<1>7. HashesTrue(e, sw)
  <2> SUFFICES ASSUME NEW r \in Filled(e)
               PROVE  <<e[r].id, e[r].stat>> \in sw \/ e[r].hash \in {None, AudioOf[e[r].stat]}
    BY DEF HashesTrue
  <2>1. CASE r = p
    BY <1>3, <2>1 DEF HashesTrue
  <2>2. CASE r # p
    BY <1>2, <1>5, <2>2 DEF HashesTrue, Filled
  <2> QED BY <2>1, <2>2
<1>8. IdsKept(table, e)
  <2> SUFFICES ASSUME NEW r \in Filled(table) PROVE \E s \in Filled(e) : e[s].id = table[r].id
    BY DEF IdsKept, IdsOf
  <2>1. CASE r = q
    BY <1>3, <1>5, <2>1
  <2>2. CASE r # q
    BY <1>1, <1>2, <1>5, <2>2 DEF Filled
  <2> QED BY <2>1, <2>2
<1> QED BY <1>1, <1>2, <1>4, <1>5, <1>6, <1>7, <1>8 DEF e

\* A row is adopted from a path whose file is gone.
LEMMA AdoptedIs ==
  ASSUME NEW table \in Tables, NEW shown, NEW p \in Paths, NEW v
  PROVE  \/ AdoptMovedRow(table, shown, p, v) = table
         \/ \E q \in Filled(table) \ {p} : /\ shown[q] = None
                                           /\ AdoptMovedRow(table, shown, p, v) = Relocated(table, q, p)
<1> DEFINE gone == {q \in MoveCandidates(table, v) \ {p} : shown[q] = None}
<1>1. gone \subseteq Filled(table) \ {p}
  BY DEF MoveCandidates
<1> DEFINE track == {q \in gone : TagsOf[table[q].stat] = TagsOf[v]}
           name == {q \in gone : NameOf[q] = NameOf[p]}
<1>2. /\ OnlyOne(gone) \in gone \cup {None} /\ OnlyOne(track) \in track \cup {None}
      /\ OnlyOne(name) \in name \cup {None}
  <2>1. gone \subseteq Paths /\ track \subseteq Paths /\ name \subseteq Paths
    BY <1>1 DEF Filled
  <2> HIDE DEF gone, track, name
  <2> QED BY <2>1, OnlyOneIs
<1>3. MovedFrom(table, shown, p, v) \in {OnlyOne(gone), OnlyOne(track), OnlyOne(name)}
  <2>1. MovedFrom(table, shown, p, v) = CASE Cardinality(gone) = 1 -> OnlyOne(gone)
          [] Cardinality(gone) # 1 /\ Cardinality(track) = 1 -> OnlyOne(track)
          [] OTHER -> OnlyOne(name)
    BY DEF MovedFrom, ChooseMoveOrigin
  <2> HIDE DEF gone, track, name
  <2> QED BY <2>1
<1>4. MovedFrom(table, shown, p, v) \in gone \cup {None}
  BY <1>2, <1>3
<1> QED BY <1>1, <1>4 DEF AdoptMovedRow

\* A table in which p may have adopted a row whose own file is gone.
Adopted(table, shown, p, a) ==
  \/ a = table
  \/ /\ table[p] = None
     /\ \E q \in Filled(table) \ {p} : shown[q] = None /\ a = Relocated(table, q, p)

LEMMA AdoptedKeeps ==
  ASSUME NEW table, NEW learnt, NEW sw, Sound(table, learnt, sw), NEW p \in Paths,
         NEW shown \in Shows, NEW a, Adopted(table, shown, p, a)
  PROVE  LET l == Learnt(learnt, shown, table, a) IN
         /\ a \in Tables /\ Apart(a) /\ HashesTrue(a, sw) /\ IdsKept(table, a)
         /\ Filled(a) \subseteq Filled(table) \cup {p}
         /\ l \in Learns /\ \A r \in Paths \ {p} : ToldOf(a, l, r)
         /\ a = table => ToldOf(a, l, p)
<1> DEFINE l == Learnt(learnt, shown, table, a)
<1>1. l \in Learns
  BY DEF Learnt, Learns, Sound, Shows
<1>2. CASE a = table
  <2>1. l = learnt
    BY <1>2 DEF Learnt, Learns, Sound
  <2> QED BY <1>1, <1>2, <2>1 DEF Sound, IdsKept, Told
<1>3. CASE a # table
  <2>1. PICK q \in Filled(table) \ {p} : shown[q] = None /\ a = Relocated(table, q, p)
    BY <1>3 DEF Adopted
  <2>2. table[p] = None
    BY <1>3 DEF Adopted
  <2>3. /\ a \in Tables /\ Apart(a) /\ HashesTrue(a, sw) /\ IdsKept(table, a)
        /\ \A r \in Paths \ {p, q} : a[r] = table[r]
        /\ a[q] = None /\ p \in Present(a) /\ p # q
    BY <2>1, <2>2, RelocatedKeeps DEF Sound
  <2>4. ASSUME NEW r \in Paths \ {p} PROVE ToldOf(a, l, r)
    <3>1. CASE r = q
      <4>1. l[r] = None /\ r \notin Present(a)
        BY <2>1, <2>3, <3>1 DEF Learnt, Filled, Present
      <4> QED BY <4>1 DEF ToldOf
    <3>2. CASE r # q
      <4>1. a[r] = table[r]
        BY <2>3, <3>2
      <4>2. l[r] = learnt[r] /\ (r \in Present(a) <=> r \in Present(table))
        BY <4>1 DEF Learnt, Filled, Present
      <4> QED BY <4>1, <4>2 DEF ToldOf, Sound, Told
    <3> QED BY <3>1, <3>2
  <2>5. Filled(a) \subseteq Filled(table) \cup {p}
    BY <2>3 DEF Filled
  <2> QED BY <1>1, <1>3, <2>3, <2>4, <2>5
<1> QED BY <1>2, <1>3

LEMMA AdoptIs ==
  ASSUME NEW table \in Tables, NEW shown, NEW p \in Paths, NEW v, NEW may \in BOOLEAN,
         may => table[p] = None
  PROVE  Adopted(table, shown, p, IF may THEN AdoptMovedRow(table, shown, p, v) ELSE table)
BY AdoptedIs DEF Adopted

\* What a scan stores of a file it read, after an adoption or without one.
LEMMA StoredKeeps ==
  ASSUME NEW from, NEW sw, NEW s, Going(s, from, sw), NEW p \in Paths,
         NEW shown \in Shows, shown[p] # None, NEW a, Adopted(s.rows, shown, p, a)
  PROVE  LET t == Stored(s, shown, p, a) IN
         /\ Going(t, from, sw) /\ Filled(t.rows) \subseteq Filled(s.rows) \cup {p}
         /\ t.failed = s.failed /\ t.entries = s.entries /\ t.written = s.written
<1> DEFINE t == Stored(s, shown, p, a)
           l == Learnt(s.seen, shown, s.rows, a)
           e == Upserted(a, p, shown[p])
<1>1. s \in Scans /\ Sound(s.rows, s.seen, sw) /\ shown[p] \in Versions
  BY DEF Going, Shows
<1>2. /\ a \in Tables /\ Apart(a) /\ HashesTrue(a, sw) /\ IdsKept(s.rows, a)
      /\ Filled(a) \subseteq Filled(s.rows) \cup {p}
      /\ l \in Learns /\ \A r \in Paths \ {p} : ToldOf(a, l, r)
  BY <1>1, AdoptedKeeps
<1>3. /\ e \in Tables /\ Apart(e) /\ HashesTrue(e, sw) /\ IdsKept(a, e)
      /\ \A q \in Paths \ {p} : e[q] = a[q]
      /\ p \in Present(e) /\ e[p].stat = shown[p]
  BY <1>1, <1>2, UpsertedKeeps
<1>4. t = [s EXCEPT !.rows = e, !.seen = [l EXCEPT ![p] = shown[p]]]
  BY DEF Stored
<1> HIDE DEF t, l, e
<1> DEFINE n == [l EXCEPT ![p] = shown[p]]
<1>5. n \in Learns /\ n[p] = shown[p] /\ \A r \in Paths \ {p} : n[r] = l[r]
  BY <1>1, <1>2 DEF Learns
<1> HIDE DEF n
<1>6. Told(e, n)
  <2> SUFFICES ASSUME NEW r \in Paths PROVE ToldOf(e, n, r)
    BY DEF Told
  <2>1. CASE r = p
    BY <1>1, <1>3, <1>5, <2>1 DEF ToldOf
  <2>2. CASE r # p
    BY <1>2, <1>3, <1>5, <2>2 DEF ToldOf, Present, Filled
  <2> QED BY <2>1, <2>2
<1>7. /\ t \in Scans /\ t.rows = e /\ t.seen = n
      /\ t.failed = s.failed /\ t.entries = s.entries /\ t.written = s.written
  BY <1>1, <1>3, <1>4, <1>5 DEF Scans, n
<1>8. IdsKept(from, e)
  BY <1>2, <1>3 DEF IdsKept, Going
<1>9. Filled(e) \subseteq Filled(s.rows) \cup {p}
  BY <1>2, <1>3 DEF Filled
<1> QED BY <1>3, <1>5, <1>6, <1>7, <1>8, <1>9 DEF Going, Sound, t

\* One file of a folder visit, whichever way it goes.
LEMMA VisitKeeps ==
  ASSUME NEW from, NEW sw, NEW s, Going(s, from, sw), NEW p \in Paths,
         NEW shown \in Shows, shown[p] # None
  PROVE  Going(VisitFile(s, shown, p), from, sw)
<1> DEFINE v == shown[p]
           unchanged == s.rows[p] # None /\ s.rows[p].stat = v
           a == IF s.rows[p] = None THEN AdoptMovedRow(s.rows, shown, p, v) ELSE s.rows
           l == Learnt(s.seen, shown, s.rows, a)
           n == [l EXCEPT ![p] = IF a = s.rows THEN @ ELSE Unsure]
           standing == [s EXCEPT !.rows = a, !.seen = n]
           t == VisitFile(s, shown, p)
<1>1. s \in Scans /\ Sound(s.rows, s.seen, sw) /\ s.rows \in Tables /\ v \in Versions
  BY DEF Going, Shows, Sound
<1>2. Adopted(s.rows, shown, p, a)
  BY <1>1, AdoptIs
<1>3. t = CASE unchanged -> Stored(s, shown, p, s.rows)
            [] ~unchanged /\ v \in Broken -> Fail(s, p)
            [] ~unchanged /\ v \notin Broken /\ v \in Refused -> Fail(standing, p)
            [] OTHER -> Stored(s, shown, p, a)
  BY <1>1 DEF VisitFile, Scans
<1>4. t \in {Stored(s, shown, p, s.rows), Fail(s, p), Fail(standing, p), Stored(s, shown, p, a)}
  <2> HIDE DEF v, unchanged, a, l, n, standing, t
  <2> QED BY <1>3
<1>5. Going(Stored(s, shown, p, s.rows), from, sw) /\ Going(Stored(s, shown, p, a), from, sw)
  <2>1. Adopted(s.rows, shown, p, s.rows)
    BY DEF Adopted
  <2> QED BY <1>2, <2>1, StoredKeeps
<1>6. Going(Fail(s, p), from, sw)
  BY <1>1 DEF Fail, Going, Scans
<1>7. Going(Fail(standing, p), from, sw)
  <2>1. /\ a \in Tables /\ Apart(a) /\ HashesTrue(a, sw) /\ IdsKept(s.rows, a)
        /\ l \in Learns /\ \A r \in Paths \ {p} : ToldOf(a, l, r)
        /\ a = s.rows => ToldOf(a, l, p)
    BY <1>1, <1>2, AdoptedKeeps
  <2> HIDE DEF a, l
  <2>2. n \in Learns /\ \A r \in Paths \ {p} : n[r] = l[r]
    BY <2>1 DEF Learns
  <2>3. n[p] = IF a = s.rows THEN l[p] ELSE Unsure
    BY <2>1 DEF Learns
  <2> HIDE DEF n
  <2>4. Told(a, n)
    BY <2>1, <2>2, <2>3 DEF Told, ToldOf
  <2>5. /\ Fail(standing, p) \in Scans /\ Fail(standing, p).rows = a
        /\ Fail(standing, p).seen = n
    BY <1>1, <2>1, <2>2 DEF Fail, Scans
  <2>6. IdsKept(from, a)
    BY <2>1 DEF IdsKept, Going
  <2> QED BY <2>1, <2>2, <2>4, <2>5, <2>6 DEF Going, Sound
<1> QED BY <1>4, <1>5, <1>6, <1>7

\* A chunk's table has rows only where it had them, or where it read a file.
Chunked(s, from, sw, read) == Going(s, from, sw) /\ Filled(s.rows) \subseteq Filled(from) \cup read

\* One file of a full scan's chunk: what it finds has no row yet, unless it had one when
\* the scan began.
LEMMA ChunkFileKeeps ==
  ASSUME NEW base, NEW sw, Chunked(base, base.rows, sw, {}), NEW read, NEW s, Chunked(s, base.rows, sw, read),
         NEW p \in Paths \ read, NEW shown \in Shows, NEW before, NEW adopting \in BOOLEAN,
         p \in Filled(base.rows) => p \in before
  PROVE  Chunked(ChunkFile(s, shown, p, before, adopting, base), base.rows, sw, read \cup {p})
<1> DEFINE v == shown[p]
           may == adopting /\ p \notin before
           a == IF may THEN AdoptMovedRow(s.rows, shown, p, v) ELSE s.rows
           unread == [s EXCEPT !.failed = @ \cup {p}, !.entries = @ \cup {p}]
           back == [s EXCEPT !.rows = base.rows, !.seen = base.seen,
                             !.entries = base.entries \cup {p}, !.failed = @ \cup {p}]
           t == ChunkFile(s, shown, p, before, adopting, base)
<1>1. /\ Going(s, base.rows, sw) /\ s \in Scans /\ Sound(s.rows, s.seen, sw) /\ s.rows \in Tables
      /\ Filled(s.rows) \subseteq Filled(base.rows) \cup read
      /\ base \in Scans /\ Sound(base.rows, base.seen, sw)
  BY DEF Chunked, Going, Sound
<1>2. Adopted(s.rows, shown, p, a)
  <2>1. may => s.rows[p] = None
    BY <1>1 DEF Filled
  <2> QED BY <1>1, <2>1, AdoptIs
<1>3. t = CASE v = None \/ v \in Broken -> unread
            [] v # None /\ v \notin Broken /\ v \in Refused -> back
            [] OTHER -> [Stored(s, shown, p, a) EXCEPT !.written = @ \cup {p}]
  BY DEF ChunkFile
<1>4. CASE v = None \/ v \in Broken
  <2>1. t = unread
    BY <1>3, <1>4
  <2>2. s.failed \cup {p} \in SUBSET Paths /\ s.entries \cup {p} \in SUBSET Paths
    BY <1>1 DEF Scans
  <2> HIDE DEF t
  <2>3. t \in Scans /\ t.rows = s.rows /\ t.seen = s.seen
    BY <1>1, <2>1, <2>2 DEF Scans
  <2> QED BY <1>1, <2>3 DEF Chunked, Going, t
<1>5. CASE v # None /\ v \notin Broken /\ v \in Refused
  <2>1. t = back
    BY <1>3, <1>5
  <2>2. s.failed \cup {p} \in SUBSET Paths /\ base.entries \cup {p} \in SUBSET Paths
    BY <1>1 DEF Scans
  <2> HIDE DEF t
  <2>3. t \in Scans /\ t.rows = base.rows /\ t.seen = base.seen
    BY <1>1, <2>1, <2>2 DEF Scans
  <2> QED BY <1>1, <2>3 DEF Chunked, Going, IdsKept, t
<1>6. CASE v # None /\ v \notin Broken /\ v \notin Refused
  <2> DEFINE w == Stored(s, shown, p, a)
  <2>1. t = [w EXCEPT !.written = @ \cup {p}]
    BY <1>3, <1>6
  <2>2. Going(w, base.rows, sw) /\ Filled(w.rows) \subseteq Filled(s.rows) \cup {p}
    BY <1>1, <1>2, <1>6, StoredKeeps
  <2> HIDE DEF w, t
  <2>3. t \in Scans /\ t.rows = w.rows /\ t.seen = w.seen
    BY <2>1, <2>2 DEF Scans, Going
  <2> QED BY <1>1, <2>2, <2>3 DEF Chunked, Going, t
<1> QED BY <1>4, <1>5, <1>6

-----------------------------------------------------------------------------
(* The folds.  A scan goes through a set of paths in their order, each file on what the
   others made; that the fold's function exists, and what it keeps, is shown for every set
   of paths by the least set for which it would not be so. *)


LEMMA LeastSubset ==
  ASSUME NEW S, IsFiniteSet(S), NEW C, C \subseteq SUBSET S, C # {}
  PROVE  \E c \in C : \A x \in c : c \ {x} \notin C
<1> DEFINE R == StrictSubsetOrdering(S)
<1>1. IsWellFoundedOn(R, FiniteSubsetsOf(S))
  BY FS_StrictSubsetOrderingWellFounded
<1>2. C \subseteq FiniteSubsetsOf(S)
  BY FS_Subset DEF FiniteSubsetsOf
<1>3. PICK c \in C : \A d \in C : ~(<<d, c>> \in R)
  <2> HIDE DEF R
  <2> QED BY <1>1, <1>2, WFMin
<1>4. ASSUME NEW x \in c, c \ {x} \in C PROVE FALSE
  BY <1>3, <1>4 DEF StrictSubsetOrdering
<1> QED BY <1>4

LEMMA LeastNat ==
  ASSUME NEW S, S \subseteq Nat, S # {}
  PROVE  \E n \in S : \A m \in S : n <= m
<1> DEFINE R == OpToRel(<, Nat)
<1>1. IsWellFoundedOn(R, Nat)
  BY NatLessThanWellFounded, Zenon
<1>2. \A g, f \in Nat : g < f => <<g, f>> \in R
  BY DEF OpToRel
<1> HIDE DEF R
<1>3. PICK f \in S : \A g \in S : ~(<<g, f>> \in R)
  BY <1>1, WFMin
<1>4. ASSUME NEW g \in S PROVE f <= g
  <2>1. ~(g < f)
    BY <1>2, <1>3
  <2> QED BY <2>1
<1> QED BY <1>4

\* The last of some paths is one of them.
Ranks(order, ps) == \A p \in ps : order[p] \in Nat

LEMMA RanksOf ==
  ASSUME NEW ps, NEW order, Ranks(order, ps), NEW s, s \subseteq ps
  PROVE  Ranks(order, s)
BY DEF Ranks

LEMMA PathsRanked ==
  ASSUME NEW ps, ps \subseteq Paths
  PROVE  Ranks(PathOrder, ps)
BY PathsAssumption DEF Ranks, PathOrder

LEMMA LastOf ==
  ASSUME NEW ps, ps \subseteq Paths, ps # {}, NEW order, Ranks(order, ps)
  PROVE  Last(ps, order) \in ps
<1> DEFINE Tops == {c \in SUBSET ps : c # {} /\ \A p \in c, q \in ps \ c : order[q] <= order[p]}
<1>1. PICK c \in Tops : \A x \in c : c \ {x} \notin Tops
  <2>1. ps \in Tops /\ Tops \subseteq SUBSET ps /\ IsFiniteSet(ps)
    BY PathsAssumption, FS_Subset
  <2> HIDE DEF Tops
  <2> QED BY <2>1, LeastSubset
<1>2. PICK p \in c : \A q \in c : order[p] <= order[q]
  <2> DEFINE ranks == {order[q] : q \in c}
  <2>1. ranks \subseteq Nat /\ ranks # {}
    BY <1>1 DEF Ranks
  <2>2. PICK n \in ranks : \A m \in ranks : n <= m
    <3> HIDE DEF ranks
    <3> QED BY <2>1, LeastNat
  <2> QED BY <2>2
<1>3. c \ {p} = {}
  <2>1. \A q \in ps \ (c \ {p}), r \in c \ {p} : order[q] <= order[r]
    BY <1>1, <1>2
  <2> QED BY <1>1, <2>1
<1>4. p \in ps /\ \A q \in ps : order[q] <= order[p]
  BY <1>1, <1>2, <1>3 DEF Ranks
<1> QED BY <1>4 DEF Last

\* What a scan of the kind k makes of one file: a visit's, or a chunk's.
Stepped(k, t, p) ==
  IF k.chunk THEN ChunkFile(t, k.shown, p, k.before, k.adopting, k.base) ELSE VisitFile(t, k.shown, p)

FoldOf(it, S, from, k) ==
  it = [s \in S |-> IF s = {} THEN from ELSE Stepped(k, it[s \ {Last(s, k.order)}], Last(s, k.order))]

LEMMA FoldExists ==
  ASSUME NEW ps, ps \subseteq Paths, NEW from, NEW k, Ranks(k.order, ps)
  PROVE  \E it : FoldOf(it, SUBSET ps, from, k)
<1> DEFINE Of(n) == {s \in SUBSET ps : Cardinality(s) <= n}
           Bad == {n \in Nat : ~\E it : FoldOf(it, Of(n), from, k)}
<1>1. \A s \in SUBSET ps : IsFiniteSet(s) /\ Cardinality(s) \in Nat /\ Cardinality(s) <= Cardinality(ps)
  BY PathsAssumption, FS_Subset, FS_CardinalityType
<1>2. ASSUME NEW s \in SUBSET ps, s # {}
      PROVE  /\ Last(s, k.order) \in s
             /\ Cardinality(s \ {Last(s, k.order)}) = Cardinality(s) - 1
  <2>1. Last(s, k.order) \in s
    BY <1>2, LastOf, RanksOf
  <2> QED BY <1>1, <2>1, FS_RemoveElement
<1>3. Bad = {}
  <2> SUFFICES ASSUME Bad # {} PROVE FALSE
    OBVIOUS
  <2>1. PICK n \in Bad : \A m \in Bad : n <= m
    BY LeastNat
  <2>2. n # 0
    <3>1. Of(0) = {{}}
      BY <1>1, <1>2, FS_EmptySet
    <3> DEFINE it == [s \in Of(0) |-> from]
    <3>2. FoldOf(it, Of(0), from, k)
      BY <3>1 DEF FoldOf
    <3> QED BY <3>2
  <2>3. n - 1 \in Nat /\ n - 1 \notin Bad
    <3>1. n \in Nat
      BY <2>1
    <3> HIDE DEF Bad
    <3> QED BY <2>1, <2>2, <3>1
  <2>4. PICK g : FoldOf(g, Of(n-1), from, k)
    <3> HIDE DEF Of
    <3>1. ASSUME NEW m \in Nat, m \notin Bad PROVE \E g : FoldOf(g, Of(m), from, k)
      BY <3>1
    <3> HIDE DEF Bad
    <3> QED BY <2>3, <3>1
  <2> DEFINE it == [s \in Of(n) |-> IF s = {} THEN from ELSE Stepped(k, g[s \ {Last(s, k.order)}], Last(s, k.order))]
  <2>5. ASSUME NEW s \in Of(n-1) PROVE s \in Of(n) /\ it[s] = g[s]
    <3>1. s \in Of(n)
      BY <1>1, <2>3
    <3>2. g[s] = IF s = {} THEN from ELSE Stepped(k, g[s \ {Last(s, k.order)}], Last(s, k.order))
      BY <2>4 DEF FoldOf
    <3> QED BY <3>1, <3>2
  <2>6. \A s \in Of(n) : s # {} => s \ {Last(s, k.order)} \in Of(n-1)
    BY <1>1, <1>2, <2>1
  <2>7. \A s \in Of(n) : s # {} => it[s \ {Last(s, k.order)}] = g[s \ {Last(s, k.order)}]
    BY <2>5, <2>6
  <2>8. FoldOf(it, Of(n), from, k)
    <3>1. \A s \in Of(n) :
            (IF s = {} THEN from ELSE Stepped(k, g[s \ {Last(s, k.order)}], Last(s, k.order)))
            = (IF s = {} THEN from ELSE Stepped(k, it[s \ {Last(s, k.order)}], Last(s, k.order)))
      BY <2>7
    <3> HIDE DEF Of
    <3>2. it = [s \in Of(n) |-> IF s = {} THEN from ELSE Stepped(k, it[s \ {Last(s, k.order)}], Last(s, k.order))]
      BY <3>1, Zenon
    <3> HIDE DEF it
    <3> QED BY <3>2 DEF FoldOf
  <2> QED BY <2>1, <2>8
<1>4. Cardinality(ps) \in Nat /\ SUBSET ps = Of(Cardinality(ps))
  BY <1>1
<1> QED BY <1>3, <1>4

Visiting(it, S, from, shown, order) ==
  it = [s \in S |-> IF s = {} THEN from ELSE VisitFile(it[s \ {Last(s, order)}], shown, Last(s, order))]

LEMMA VisitedIs ==
  ASSUME NEW listed, listed \subseteq Paths, NEW from, NEW shown, NEW order, Ranks(order, listed)
  PROVE  \E it : Visiting(it, SUBSET listed, from, shown, order) /\ Visited(from, shown, listed, order) = it[listed]
<1> DEFINE k == [chunk |-> FALSE, order |-> order, shown |-> shown]
<1>1. PICK it : FoldOf(it, SUBSET listed, from, k)
  BY FoldExists
<1>2. k.order = order /\ \A t, p : Stepped(k, t, p) = VisitFile(t, shown, p)
  BY DEF Stepped
<1>3. Visiting(it, SUBSET listed, from, shown, order)
  <2> HIDE DEF k
  <2>1. \A s \in SUBSET listed :
          (IF s = {} THEN from ELSE Stepped(k, it[s \ {Last(s, order)}], Last(s, order)))
          = (IF s = {} THEN from ELSE VisitFile(it[s \ {Last(s, order)}], shown, Last(s, order)))
    BY <1>2
  <2>2. it = [s \in SUBSET listed |-> IF s = {} THEN from
                ELSE Stepped(k, it[s \ {Last(s, order)}], Last(s, order))]
    BY <1>1, <1>2 DEF FoldOf
  <2>3. [s \in SUBSET listed |-> IF s = {} THEN from
            ELSE Stepped(k, it[s \ {Last(s, order)}], Last(s, order))]
        = [s \in SUBSET listed |-> IF s = {} THEN from
             ELSE VisitFile(it[s \ {Last(s, order)}], shown, Last(s, order))]
    BY <2>1, Zenon
  <2> QED BY <2>2, <2>3 DEF Visiting
<1> DEFINE that == CHOOSE i : Visiting(i, SUBSET listed, from, shown, order)
<1>4. Visiting(that, SUBSET listed, from, shown, order)
  BY <1>3
<1>5. Visited(from, shown, listed, order) = that[listed]
  BY DEF Visited, MapThenFoldSet, Visiting
<1> QED BY <1>4, <1>5

LEMMA VisitedKeeps ==
  ASSUME NEW table, NEW sw, NEW from, Going(from, table, sw), NEW shown \in Shows,
         NEW listed, listed \subseteq Paths, \A p \in listed : shown[p] # None,
         NEW order, Ranks(order, listed)
  PROVE  Going(Visited(from, shown, listed, order), table, sw)
<1>1. PICK it : Visiting(it, SUBSET listed, from, shown, order) /\ Visited(from, shown, listed, order) = it[listed]
  BY VisitedIs
<1>2. \A s \in SUBSET listed :
        it[s] = IF s = {} THEN from ELSE VisitFile(it[s \ {Last(s, order)}], shown, Last(s, order))
  BY <1>1 DEF Visiting
<1> DEFINE Bad == {s \in SUBSET listed : ~Going(it[s], table, sw)}
<1>3. Bad = {}
  <2> SUFFICES ASSUME Bad # {} PROVE FALSE
    OBVIOUS
  <2>1. PICK s \in Bad : \A x \in s : s \ {x} \notin Bad
    <3>1. IsFiniteSet(listed) /\ Bad \subseteq SUBSET listed
      BY PathsAssumption, FS_Subset
    <3> HIDE DEF Bad
    <3> QED BY <3>1, LeastSubset
  <2>2. s # {}
    BY <1>2, <2>1
  <2>3. Last(s, order) \in s /\ Last(s, order) \in Paths /\ shown[Last(s, order)] # None
    BY <2>1, <2>2, LastOf, RanksOf
  <2>4. Going(it[s \ {Last(s, order)}], table, sw)
    BY <2>1, <2>3
  <2>5. it[s] = VisitFile(it[s \ {Last(s, order)}], shown, Last(s, order))
    BY <1>2, <2>1, <2>2
  <2>6. Going(it[s], table, sw)
    BY <2>3, <2>4, <2>5, VisitKeeps
  <2> QED BY <2>1, <2>6
<1> QED BY <1>1, <1>3

Chunking(it, S, from, shown, before, adopting) ==
  it = [s \in S |-> IF s = {} THEN from
                    ELSE ChunkFile(it[s \ {Last(s, PathOrder)}], shown, Last(s, PathOrder), before, adopting, from)]

LEMMA ScanChunkIs ==
  ASSUME NEW chunk, chunk \subseteq Paths, NEW from, NEW shown, NEW before, NEW adopting
  PROVE  \E it : /\ Chunking(it, SUBSET chunk, from, shown, before, adopting)
                 /\ ScanChunk(from, shown, chunk, before, adopting) = it[chunk]
<1> DEFINE k == [chunk |-> TRUE, order |-> PathOrder, shown |-> shown, before |-> before,
                 adopting |-> adopting, base |-> from]
<1>1. PICK it : FoldOf(it, SUBSET chunk, from, k)
  BY FoldExists, PathsRanked
<1>2. k.order = PathOrder /\ \A t, p : Stepped(k, t, p) = ChunkFile(t, shown, p, before, adopting, from)
  BY DEF Stepped
<1>3. Chunking(it, SUBSET chunk, from, shown, before, adopting)
  <2> HIDE DEF k
  <2>1. \A s \in SUBSET chunk :
          (IF s = {} THEN from ELSE Stepped(k, it[s \ {Last(s, PathOrder)}], Last(s, PathOrder)))
          = (IF s = {} THEN from
             ELSE ChunkFile(it[s \ {Last(s, PathOrder)}], shown, Last(s, PathOrder), before, adopting, from))
    BY <1>2
  <2>2. it = [s \in SUBSET chunk |-> IF s = {} THEN from
                ELSE Stepped(k, it[s \ {Last(s, PathOrder)}], Last(s, PathOrder))]
    BY <1>1, <1>2 DEF FoldOf
  <2>3. [s \in SUBSET chunk |-> IF s = {} THEN from
            ELSE Stepped(k, it[s \ {Last(s, PathOrder)}], Last(s, PathOrder))]
        = [s \in SUBSET chunk |->
             IF s = {} THEN from
             ELSE ChunkFile(it[s \ {Last(s, PathOrder)}], shown, Last(s, PathOrder), before, adopting, from)]
    BY <2>1, Zenon
  <2> QED BY <2>2, <2>3 DEF Chunking
<1> DEFINE that == CHOOSE i : Chunking(i, SUBSET chunk, from, shown, before, adopting)
<1>4. Chunking(that, SUBSET chunk, from, shown, before, adopting)
  BY <1>3
<1>5. ScanChunk(from, shown, chunk, before, adopting) = that[chunk]
  BY DEF ScanChunk, MapThenFoldSet, Chunking
<1> QED BY <1>4, <1>5

LEMMA ScanChunkKeeps ==
  ASSUME NEW sw, NEW from, Chunked(from, from.rows, sw, {}), NEW shown \in Shows,
         NEW chunk, chunk \subseteq Paths, NEW before, NEW adopting \in BOOLEAN,
         Filled(from.rows) \cap chunk \subseteq before
  PROVE  Chunked(ScanChunk(from, shown, chunk, before, adopting), from.rows, sw, chunk)
<1>1. PICK it : /\ Chunking(it, SUBSET chunk, from, shown, before, adopting)
                /\ ScanChunk(from, shown, chunk, before, adopting) = it[chunk]
  BY ScanChunkIs
<1>2. \A s \in SUBSET chunk :
        it[s] = IF s = {} THEN from
                ELSE ChunkFile(it[s \ {Last(s, PathOrder)}], shown, Last(s, PathOrder), before, adopting, from)
  BY <1>1 DEF Chunking
<1> DEFINE Bad == {s \in SUBSET chunk : ~Chunked(it[s], from.rows, sw, s)}
<1>3. Bad = {}
  <2> SUFFICES ASSUME Bad # {} PROVE FALSE
    OBVIOUS
  <2>1. PICK s \in Bad : \A x \in s : s \ {x} \notin Bad
    <3>1. IsFiniteSet(chunk) /\ Bad \subseteq SUBSET chunk
      BY PathsAssumption, FS_Subset
    <3> HIDE DEF Bad
    <3> QED BY <3>1, LeastSubset
  <2>2. s # {}
    BY <1>2, <2>1
  <2>3. Last(s, PathOrder) \in s /\ Last(s, PathOrder) \in Paths \ (s \ {Last(s, PathOrder)})
    BY <2>1, <2>2, LastOf, PathsRanked
  <2>4. Chunked(it[s \ {Last(s, PathOrder)}], from.rows, sw, s \ {Last(s, PathOrder)})
    BY <2>1, <2>3
  <2>5. it[s] = ChunkFile(it[s \ {Last(s, PathOrder)}], shown, Last(s, PathOrder), before, adopting, from)
    BY <1>2, <2>1, <2>2
  <2>6. Last(s, PathOrder) \in Filled(from.rows) => Last(s, PathOrder) \in before
    BY <2>1, <2>3
  <2>7. Chunked(it[s], from.rows, sw, (s \ {Last(s, PathOrder)}) \cup {Last(s, PathOrder)})
    <3> DEFINE p == Last(s, PathOrder)
               read == s \ {p}
               t == it[read]
    <3>1. /\ p \in Paths \ read /\ Chunked(t, from.rows, sw, read)
          /\ it[s] = ChunkFile(t, shown, p, before, adopting, from)
          /\ p \in Filled(from.rows) => p \in before
      BY <2>3, <2>4, <2>5, <2>6
    <3> HIDE DEF p, read, t
    <3>2. Chunked(ChunkFile(t, shown, p, before, adopting, from), from.rows, sw, read \cup {p})
      BY <3>1, ChunkFileKeeps, Zenon
    <3>3. Chunked(it[s], from.rows, sw, read \cup {p})
      BY <3>1, <3>2
    <3> QED BY <3>3 DEF p, read
  <2>8. (s \ {Last(s, PathOrder)}) \cup {Last(s, PathOrder)} = s
    BY <2>3
  <2> QED BY <2>1, <2>7, <2>8
<1> QED BY <1>1, <1>3

-----------------------------------------------------------------------------
(* What a visit, a walk, a reconciliation and a purge make of the rows. *)

\* Dropping missing rows, marking rows missing and giving rows a work moves no row and
\* changes no id, stat and fingerprint.
LEMMA EditedKeeps ==
  ASSUME NEW table, NEW learnt, NEW sw, Sound(table, learnt, sw), NEW e \in Tables, NEW n \in Learns,
         \A p \in Filled(e) : /\ p \in Filled(table) /\ e[p].id = table[p].id
                              /\ e[p].stat = table[p].stat /\ e[p].hash = table[p].hash,
         \A p \in Paths : \/ n[p] = learnt[p] /\ (p \in Present(e) <=> p \in Present(table))
                          \/ n[p] = None /\ p \notin Present(e)
  PROVE  Sound(e, n, sw)
<1>1. Apart(e)
  BY DEF Apart, Sound
<1>2. HashesTrue(e, sw)
  BY DEF HashesTrue, Sound
<1>3. Told(e, n)
  <2> SUFFICES ASSUME NEW p \in Paths PROVE ToldOf(e, n, p)
    BY DEF Told
  <2>1. CASE n[p] = None /\ p \notin Present(e)
    BY <2>1 DEF ToldOf
  <2>2. CASE n[p] = learnt[p] /\ (p \in Present(e) <=> p \in Present(table))
    <3>1. ToldOf(table, learnt, p)
      BY DEF Sound, Told
    <3>2. p \in Present(e) => e[p].stat = table[p].stat
      BY DEF Present
    <3> QED BY <2>2, <3>1, <3>2 DEF ToldOf
  <2> QED BY <2>1, <2>2
<1> QED BY <1>1, <1>2, <1>3 DEF Sound

LEMMA MarkedKeeps ==
  ASSUME NEW from, NEW sw, NEW s, Going(s, from, sw), NEW gone, gone \subseteq Paths
  PROVE  LET t == MarkMissing(s, gone) IN
         Going(t, from, sw) /\ t.failed = s.failed /\ Filled(t.rows) = Filled(s.rows)
<1> DEFINE e == [p \in Paths |-> IF p \in gone \cap Present(s.rows)
                                 THEN [s.rows[p] EXCEPT !.present = FALSE] ELSE s.rows[p]]
           n == [p \in Paths |-> IF p \in gone THEN None ELSE s.seen[p]]
           t == MarkMissing(s, gone)
<1>1. s \in Scans /\ Sound(s.rows, s.seen, sw) /\ s.rows \in Tables /\ s.seen \in Learns
  BY DEF Going, Sound
<1>2. \A p \in Paths :
        \/ p \in gone \cap Present(s.rows) /\ e[p] = [s.rows[p] EXCEPT !.present = FALSE]
        \/ p \notin gone \cap Present(s.rows) /\ e[p] = s.rows[p]
  OBVIOUS
<1>3. n \in Learns
  BY <1>1 DEF Learns
<1>4. t = [s EXCEPT !.rows = e, !.seen = n]
  BY <1>1 DEF MarkMissing, Scans
<1>5. \A p \in gone \cap Present(s.rows) :
        /\ e[p] \in Row /\ ~e[p].present /\ e[p].id = s.rows[p].id
        /\ e[p].stat = s.rows[p].stat /\ e[p].hash = s.rows[p].hash
  <2> TAKE p \in gone \cap Present(s.rows)
  <2>1. s.rows[p] \in Row /\ e[p] = [s.rows[p] EXCEPT !.present = FALSE]
    BY <1>1, <1>2, Fields DEF Present
  <2> QED BY <2>1 DEF Row
<1>6. e \in Tables
  BY <1>1, <1>2, <1>5 DEF Tables
<1>7. \A p \in Paths : n[p] = IF p \in gone THEN None ELSE s.seen[p]
  OBVIOUS
<1> HIDE DEF e, n
<1>8. Filled(e) = Filled(s.rows)
  BY <1>2, <1>5, RowAssumption DEF Filled, Present
<1>9. \A p \in Paths : IF p \in gone THEN p \notin Present(e)
                       ELSE (p \in Present(e) <=> p \in Present(s.rows))
  BY <1>2, <1>5, <1>8 DEF Present
<1>10. \A p \in Filled(e) : /\ p \in Filled(s.rows) /\ e[p].id = s.rows[p].id
                            /\ e[p].stat = s.rows[p].stat /\ e[p].hash = s.rows[p].hash
  BY <1>2, <1>5, <1>8 DEF Filled
<1>11. Sound(e, n, sw)
  BY <1>1, <1>3, <1>6, <1>7, <1>9, <1>10, EditedKeeps
<1>12. IdsKept(from, e)
  <2>1. IdsOf(s.rows, Filled(s.rows)) \subseteq IdsOf(e, Filled(e))
    BY <1>8, <1>10 DEF IdsOf
  <2>2. IdsOf(from, Filled(from)) \subseteq IdsOf(s.rows, Filled(s.rows))
    BY DEF Going, IdsKept
  <2> QED BY <2>1, <2>2 DEF IdsKept
<1> HIDE DEF t
<1>13. t \in Scans /\ t.rows = e /\ t.seen = n /\ t.failed = s.failed
  BY <1>1, <1>3, <1>4, <1>6 DEF Scans
<1> QED BY <1>8, <1>11, <1>12, <1>13 DEF Going, t

LEMMA ScanFolderKeeps ==
  ASSUME NEW table, NEW sw, NEW from, Going(from, table, sw), NEW shown \in Shows, NEW f,
         NEW listed, listed \subseteq Files(f), \A p \in listed : shown[p] # None,
         NEW order \in Listings(listed)
  PROVE  Going(ScanFolder(from, shown, f, listed, order), table, sw)
<1>1. Files(f) \subseteq Paths /\ Ranks(order, listed)
  BY PathsAssumption DEF Files, Ranks, Listings
<1>2. Going(Visited(from, shown, listed, order), table, sw)
  BY <1>1, VisitedKeeps
<1> QED BY <1>1, <1>2, MarkedKeeps DEF ScanFolder

Grouped(table, given) ==
  [p \in Paths |-> IF p \in given THEN [table[p] EXCEPT !.grouped = TRUE] ELSE table[p]]

LEMMA GroupedKeeps ==
  ASSUME NEW table, NEW learnt, NEW sw, Sound(table, learnt, sw), NEW given, given \subseteq Filled(table)
  PROVE  /\ Sound(Grouped(table, given), learnt, sw) /\ IdsKept(table, Grouped(table, given))
         /\ Filled(Grouped(table, given)) = Filled(table)
<1> DEFINE e == Grouped(table, given)
<1>1. table \in Tables /\ learnt \in Learns
  BY DEF Sound
<1>2. \A p \in given : /\ e[p] \in Row /\ e[p].id = table[p].id /\ e[p].present = table[p].present
                       /\ e[p].stat = table[p].stat /\ e[p].hash = table[p].hash
  <2> TAKE p \in given
  <2>1. p \in Paths /\ table[p] \in Row
    BY <1>1, Fields
  <2>2. e[p] = [table[p] EXCEPT !.grouped = TRUE]
    BY <2>1 DEF Grouped
  <2> QED BY <2>1, <2>2 DEF Row
<1>3. \A p \in Paths \ given : e[p] = table[p]
  BY DEF Grouped
<1>4. e \in Tables
  BY <1>1, <1>2, <1>3 DEF Tables, Grouped
<1> HIDE DEF e
<1>5. Filled(e) = Filled(table) /\ Present(e) = Present(table)
  BY <1>2, <1>3, RowAssumption DEF Filled, Present
<1>6. \A p \in Filled(e) : /\ p \in Filled(table) /\ e[p].id = table[p].id
                           /\ e[p].stat = table[p].stat /\ e[p].hash = table[p].hash
  BY <1>2, <1>3, <1>5 DEF Filled
<1>7. Sound(e, learnt, sw)
  BY <1>1, <1>4, <1>5, <1>6, EditedKeeps
<1>8. IdsKept(table, e)
  BY <1>5, <1>6 DEF IdsKept, IdsOf
<1> QED BY <1>5, <1>7, <1>8 DEF e

\* Rows are dropped by id, and only missing ones.
AllMissing(table, ids) == \A p \in Filled(table) : table[p].id \in ids => p \notin Present(table)

LEMMA WithoutKeeps ==
  ASSUME NEW table, NEW learnt, NEW sw, Sound(table, learnt, sw), NEW ids, AllMissing(table, ids)
  PROVE  LET e == Without(table, ids) IN
         /\ Sound(e, learnt, sw)
         /\ Filled(e) = {p \in Filled(table) : table[p].id \notin ids}
         /\ \A p \in Filled(e) : e[p] = table[p]
<1> DEFINE e == Without(table, ids)
<1>1. table \in Tables /\ learnt \in Learns
  BY DEF Sound
<1>2. \A p \in Paths : e[p] = IF table[p] # None /\ table[p].id \in ids THEN None ELSE table[p]
  BY DEF Without
<1>3. e \in Tables
  BY <1>1 DEF Without, Tables
<1> HIDE DEF e
<1>4. Filled(e) = {p \in Filled(table) : table[p].id \notin ids} /\ \A p \in Filled(e) : e[p] = table[p]
  BY <1>2 DEF Filled
<1>5. \A p \in Paths : p \in Present(e) <=> p \in Present(table)
  BY <1>4 DEF Present, AllMissing
<1>6. Sound(e, learnt, sw)
  BY <1>1, <1>3, <1>4, <1>5, EditedKeeps
<1> QED BY <1>4, <1>6 DEF e

\* The ids of missing rows are those of missing rows only.
LEMMA MissingIds ==
  ASSUME NEW table, Apart(table), NEW S, S \subseteq Missing(table)
  PROVE  AllMissing(table, IdsOf(table, S))
BY DEF AllMissing, IdsOf, Missing, Apart

(* The songs' matches. *)

LEMMA KnownKept ==
  ASSUME NEW m, NEW table, NEW e, Known(m, table), IdsKept(table, e)
  PROVE  Known(m, e)
BY DEF Known, IdsKept

LEMMA ReleasedKeeps ==
  ASSUME NEW m \in Matches, NEW table, NEW learnt, NEW sw, Sound(table, learnt, sw),
         Known(m, table), NEW ids, AllMissing(table, ids)
  PROVE  Released(m, ids) \in Matches /\ Known(Released(m, ids), Without(table, ids))
<1> DEFINE r == Released(m, ids)
           e == Without(table, ids)
<1>1. r = [s \in Songs |-> IF m[s] \in ids THEN None ELSE m[s]]
  BY DEF Released, Matches
<1>2. r \in Matches
  BY <1>1 DEF Matches
<1>3. /\ Filled(e) = {p \in Filled(table) : table[p].id \notin ids}
      /\ \A p \in Filled(e) : e[p] = table[p]
  BY WithoutKeeps
<1> HIDE DEF e
<1>4. ASSUME NEW s \in Songs, r[s] # None PROVE r[s] \in IdsOf(e, Filled(e))
  <2>1. r[s] = m[s] /\ m[s] \notin ids
    BY <1>1, <1>4
  <2>2. PICK p \in Filled(table) : table[p].id = m[s]
    BY <1>4, <2>1 DEF Known, IdsOf
  <2> QED BY <1>3, <2>1, <2>2 DEF IdsOf
<1> QED BY <1>2, <1>4 DEF Known, e

\* A song follows a move from a missing row to a present one.
LEMMA RepointedKeeps ==
  ASSUME NEW m \in Matches, NEW table, NEW learnt, NEW sw, Sound(table, learnt, sw),
         Known(m, table), NEW moves, \A v \in moves : Foldable(table, v)
  PROVE  LET ids == {v[1] : v \in moves}
             r == Repointed(m, moves)
         IN  /\ AllMissing(table, ids)
             /\ r \in Matches /\ Known(r, Without(table, ids))
<1> DEFINE ids == {v[1] : v \in moves}
           r == Repointed(m, moves)
           e == Without(table, ids)
<1>1. table \in Tables /\ Apart(table)
  BY DEF Sound
<1>2. AllMissing(table, ids)
  BY <1>1 DEF AllMissing, Foldable, IdsOf, Missing, Apart
<1>3. /\ Filled(e) = {p \in Filled(table) : table[p].id \notin ids}
      /\ \A p \in Filled(e) : e[p] = table[p]
  <2> HIDE DEF ids
  <2> QED BY <1>2, WithoutKeeps
<1>4. \A s \in Songs : \/ \E v \in moves : v[1] = m[s] /\ r[s] = v[2]
                       \/ (\A v \in moves : v[1] # m[s]) /\ r[s] = m[s]
  BY DEF Repointed, Matches
<1>5. r \in [Songs -> Ids \cup {None}]
  <2>1. \A v \in moves : v[2] \in Ids
    BY <1>1, Fields DEF Foldable, IdsOf, Present
  <2>2. \A s \in Songs : r[s] \in Ids \cup {None}
    BY <1>4, <2>1 DEF Matches
  <2>3. DOMAIN r = Songs /\ r = [s \in DOMAIN r |-> r[s]]
    BY DEF Repointed, Matches
  <2> HIDE DEF r
  <2> QED BY <2>2, <2>3
<1> HIDE DEF e, r
<1>6. ASSUME NEW s \in Songs, r[s] # None PROVE r[s] \in IdsOf(e, Filled(e))
  <2>1. CASE \E v \in moves : v[1] = m[s] /\ r[s] = v[2]
    <3>1. PICK c \in Present(table) : table[c].id = r[s]
      BY <2>1 DEF Foldable, IdsOf
    <3>2. c \in Filled(e) /\ e[c].id = r[s]
      BY <1>2, <1>3, <3>1 DEF AllMissing, Present
    <3> QED BY <3>2 DEF IdsOf
  <2>2. CASE (\A v \in moves : v[1] # m[s]) /\ r[s] = m[s]
    <3>1. PICK p \in Filled(table) : table[p].id = m[s]
      BY <1>6, <2>2 DEF Known, IdsOf
    <3>2. p \in Filled(e) /\ e[p].id = r[s]
      BY <1>3, <2>2, <3>1
    <3> QED BY <3>2 DEF IdsOf
  <2> QED BY <1>4, <2>1, <2>2
<1> QED BY <1>2, <1>4, <1>5, <1>6 DEF Known, Matches, e, r

-----------------------------------------------------------------------------
(* Plans and purges. *)

LEMMA SuccessorIs ==
  ASSUME NEW table \in Tables, NEW m
  PROVE  ChooseSuccessor(table, m) \in ReadySuccessors(table, m) \cup {None}
<1> DEFINE ready == ReadySuccessors(table, m)
           audio == {c \in ready : SameAudio(table[m], table[c])}
<1>1. ready \subseteq Paths
  BY DEF ReadySuccessors, Present, Filled
<1>2. \A S : S \subseteq ready => Pick(m, S) \in S \cup {None}
  <2> HIDE DEF ready
  <2> TAKE S
  <2> HAVE S \subseteq ready
  <2> DEFINE N == {c \in S : NameOf[c] = NameOf[m]}
  <2>1. OnlyOne(S) \in S \cup {None}
    BY <1>1, OnlyOneIs
  <2>2. OnlyOne(N) \in N \cup {None}
    <3>1. N \subseteq Paths
      BY <1>1
    <3> HIDE DEF N
    <3> QED BY <3>1, OnlyOneIs
  <2> QED BY <2>1, <2>2 DEF Pick
<1>3. ChooseSuccessor(table, m) \in {None, Pick(m, audio), Pick(m, ready)}
  BY DEF ChooseSuccessor
<1>4. audio \subseteq ready
  OBVIOUS
<1> HIDE DEF ready, audio
<1> QED BY <1>2, <1>3, <1>4 DEF ready

LEMMA PlannedHolds ==
  ASSUME NEW table \in Tables, Apart(table)
  PROVE  PlanMoves(table) \subseteq Ids \X Ids /\ \A v \in PlanMoves(table) : OneTrack(table, v)
<1> SUFFICES ASSUME NEW v \in PlanMoves(table) PROVE v \in Ids \X Ids /\ OneTrack(table, v)
  OBVIOUS
<1>1. PICK m \in Missing(table) : /\ ChooseSuccessor(table, m) # None
                                  /\ v = <<table[m].id, table[ChooseSuccessor(table, m)].id>>
  BY DEF PlanMoves
<1> DEFINE c == ChooseSuccessor(table, m)
<1>2. /\ c \in Filled(table) /\ m \in Filled(table) /\ IsSameTrack(table[m], table[c])
      /\ v = <<table[m].id, table[c].id>>
  BY <1>1, SuccessorIs DEF ReadySuccessors, Present, Missing
<1> HIDE DEF c
<1>3. v \in Ids \X Ids
  BY <1>2, Fields
<1>4. OneTrack(table, v)
  <2> SUFFICES ASSUME NEW p \in Filled(table), NEW q \in Filled(table),
                      table[p].id = v[1], table[q].id = v[2]
               PROVE  IsSameTrack(table[p], table[q])
    BY DEF OneTrack
  <2>1. p = m /\ q = c
    BY <1>2 DEF Apart
  <2> QED BY <1>2, <2>1
<1> QED BY <1>3, <1>4

LEMMA OneTrackKept ==
  ASSUME NEW table, NEW e, NEW v, OneTrack(table, v),
         \A p \in Filled(e) : p \in Filled(table) /\ e[p] = table[p]
  PROVE  OneTrack(e, v)
BY DEF OneTrack

LEMMA LockIs ==
  ASSUME NEW fs, fs \subseteq Folders, fs # {}
  PROVE  LockOf(fs) \in fs
<1>1. PICK f \in fs : \A g \in fs : f <= g
  BY LocksAssumption, LeastNat
<1> QED BY <1>1 DEF LockOf

LEMMA ShownIs ==
  ASSUME StorageInv
  PROVE  OnDisk \in Shows /\ \A p \in Paths : OnDisk[p] # None => mounted /\ OnDisk[p] = disk[p]
BY DEF StorageInv, OnDisk, Shows

LEMMA HashIs ==
  ASSUME StorageInv, NEW f
  PROVE  Hash(f) \in SUBSET (Paths \X Versions) /\ Listed(f) \subseteq Files(f)
BY ShownIs DEF StorageInv, Hash, Listed, Files, Shows

LEMMA SoundMore ==
  ASSUME NEW table, NEW learnt, NEW sw, NEW more, Sound(table, learnt, sw), sw \subseteq more
  PROVE  Sound(table, learnt, more)
BY DEF Sound, HashesTrue

-----------------------------------------------------------------------------
(* The steps.  Each part of the invariant is kept by whatever leaves its variables alone. *)

LEMMA Parts ==
  ASSUME Inv
  PROVE  /\ UNCHANGED storage => StorageInv'
         /\ UNCHANGED <<tables, swapped>> => TablesInv'
         /\ UNCHANGED folders => FoldersInv'
         /\ UNCHANGED queue => QueueInv'
         /\ UNCHANGED lingering => (lingering \subseteq Folders)'
         /\ UNCHANGED <<job, rows, disk, swapped>> => JobInv'
<1>1. UNCHANGED storage => StorageInv'
  BY DEF Inv, StorageInv, storage
<1>2. UNCHANGED <<tables, swapped>> => TablesInv'
  BY DEF Inv, TablesInv, tables
<1>3. UNCHANGED folders => FoldersInv'
  BY DEF Inv, FoldersInv, folders
<1>4. UNCHANGED queue => QueueInv'
  BY DEF Inv, QueueInv
<1>5. UNCHANGED lingering => (lingering \subseteq Folders)'
  BY DEF Inv
<1>6. UNCHANGED <<job, rows, disk, swapped>> => JobInv'
  BY DEF Inv, JobInv, PlanHolds, ReadingHolds
<1> QED BY <1>1, <1>2, <1>3, <1>4, <1>5, <1>6

LEMMA IdleIs == Idle \in Jobs /\ ~Idle.full /\ Idle.prior = {} /\ Idle.step = "idle"
BY DEF Idle, Jobs, Steps

LEMMA IdleKeeps ==
  ASSUME job' = Idle
  PROVE  JobInv'
BY IdleIs DEF JobInv

\* The task is all that changes.
LEMMA JobOnly ==
  ASSUME Inv, UNCHANGED <<storage, tables, folders, queue, lingering>>, JobInv'
  PROVE  Inv'
<1>1. UNCHANGED swapped
  BY DEF storage
<1> QED BY <1>1, Parts DEF Inv

\* Other programs change a file: what was read of it is noted as swapped if it was away.
LEMMA EditKeeps ==
  ASSUME Inv, NEW d \in Shows, Edit(d)
  PROVE  Inv'
<1>1. StorageInv'
  BY DEF Inv, StorageInv, Edit
<1>2. TablesInv'
  <2>1. Sound(rows, seen, swapped')
    BY SoundMore DEF Inv, TablesInv, Edit
  <2> QED BY <2>1 DEF Inv, TablesInv, Edit, tables
<1>3. JobInv'
  <2>1. UNCHANGED <<job, rows>>
    BY DEF Edit, tables
  <2>2. job.step = "pin" => ReadingHolds'
    <3> SUFFICES ASSUME job.step = "pin" PROVE ReadingHolds'
      OBVIOUS
    <3>1. ReadingHolds
      BY DEF Inv, JobInv
    <3>2. /\ disk' = d /\ swapped \subseteq swapped'
          /\ disk[job.row.path] # job.row.stat /\ d[job.row.path] = job.row.stat
               => <<job.row.id, job.row.stat>> \in swapped'
      BY DEF Edit
    <3> QED BY <2>1, <3>1, <3>2 DEF ReadingHolds
  <2>3. PlanHolds => PlanHolds'
    BY <2>1 DEF PlanHolds
  <2> QED BY <2>1, <2>2, <2>3 DEF Inv, JobInv
<1>4. FoldersInv' /\ QueueInv' /\ (lingering \subseteq Folders)'
  BY Parts DEF Edit
<1> QED BY <1>1, <1>2, <1>3, <1>4 DEF Inv

LEMMA StorageKeeps ==
  ASSUME Inv, Storage
  PROVE  Inv'
<1>1. disk \in Shows /\ dark \subseteq Folders
  BY DEF Inv, StorageInv
<1>2. CASE WriteFile
  <2>1. PICK p \in Paths, v \in Fresh : Edit([disk EXCEPT ![p] = v])
    BY <1>2 DEF WriteFile
  <2>2. [disk EXCEPT ![p] = v] \in Shows
    BY <1>1 DEF Shows, Fresh
  <2> QED BY <2>1, <2>2, EditKeeps
<1>3. CASE RemoveFile
  <2>1. PICK p \in Paths : Edit([disk EXCEPT ![p] = None])
    BY <1>3 DEF RemoveFile
  <2>2. [disk EXCEPT ![p] = None] \in Shows
    BY <1>1 DEF Shows
  <2> QED BY <2>1, <2>2, EditKeeps
<1>4. CASE MoveFile
  <2>1. PICK p \in Paths, q \in Paths : Edit([disk EXCEPT ![p] = None, ![q] = disk[p]])
    BY <1>4 DEF MoveFile
  <2>2. [disk EXCEPT ![p] = None, ![q] = disk[p]] \in Shows
    BY <1>1 DEF Shows
  <2> QED BY <2>1, <2>2, EditKeeps
<1>5. CASE CopyFile
  <2>1. PICK p \in Paths, q \in Paths : Edit([disk EXCEPT ![q] = disk[p]])
    BY <1>5 DEF CopyFile
  <2>2. [disk EXCEPT ![q] = disk[p]] \in Shows
    BY <1>1 DEF Shows
  <2> QED BY <2>1, <2>2, EditKeeps
<1>6. CASE DropFolder \/ Unplug
  <2>1. /\ StorageInv'
        /\ UNCHANGED <<disk, swapped, tables, folders, queue, job, lingering>>
    BY <1>1, <1>6 DEF DropFolder, Unplug, Inv, StorageInv
  <2>2. UNCHANGED rows
    BY <2>1 DEF tables
  <2> QED BY <2>1, <2>2, Parts DEF Inv
<1> QED BY <1>2, <1>3, <1>4, <1>5, <1>6 DEF Storage

\* Rows that are missing may go while a task is on the others.
LEMMA RowsGone ==
  ASSUME Inv, UNCHANGED <<storage, quarantine, seen, folders, queue, job, lingering>>,
         Sound(rows', seen, swapped), match' \in Matches, Known(match', rows'),
         \A p \in Filled(rows') : p \in Filled(rows) /\ rows'[p] = rows[p]
  PROVE  Inv'
<1>1. UNCHANGED <<disk, swapped>>
  BY DEF storage
<1>2. TablesInv'
  BY <1>1 DEF Inv, TablesInv
<1>3. JobInv'
  <2>1. PlanHolds => PlanHolds'
    BY OneTrackKept DEF PlanHolds
  <2>2. ReadingHolds => ReadingHolds'
    BY <1>1 DEF ReadingHolds
  <2>3. Filled(rows') \subseteq Filled(rows)
    OBVIOUS
  <2>4. Filled(rows)' = Filled(rows')
    BY DEF Filled
  <2> QED BY <2>1, <2>2, <2>3, <2>4 DEF Inv, JobInv
<1>4. StorageInv' /\ FoldersInv' /\ QueueInv' /\ (lingering \subseteq Folders)'
  BY Parts
<1> QED BY <1>2, <1>3, <1>4 DEF Inv

LEMMA UserKeeps ==
  ASSUME Inv, User
  PROVE  Inv'
<1>1. Sound(rows, seen, swapped) /\ Apart(rows) /\ match \in Matches /\ Known(match, rows)
  BY DEF Inv, TablesInv, Sound
<1>2. CASE RequestScan
  <2>1. QueueInv'
    <3>1. [full |-> TRUE, task |-> None, folders |-> {}]
            \in [full : BOOLEAN, task : Tasks \cup {None}, folders : SUBSET Folders]
      OBVIOUS
    <3> QED BY <1>2, <3>1 DEF Inv, QueueInv, RequestScan
  <2>2. UNCHANGED <<disk, swapped, rows>>
    BY <1>2 DEF RequestScan, storage, tables
  <2> QED BY <1>2, <2>1, <2>2, Parts DEF Inv, RequestScan
<1>3. CASE RemapMissing
  <2>1. PICK m \in Missing(rows), t \in Present(rows) :
          /\ match' = Repointed(match, {<<rows[m].id, rows[t].id>>})
          /\ rows' = [rows EXCEPT ![m] = None]
    BY <1>3 DEF RemapMissing
  <2> DEFINE moves == {<<rows[m].id, rows[t].id>>}
             ids == {v[1] : v \in moves}
  <2>2. \A v \in moves : Foldable(rows, v)
    BY <2>1 DEF Foldable, IdsOf
  <2>3. ids = {rows[m].id}
    OBVIOUS
  <2>4. rows' = Without(rows, ids)
    <3>1. \A p \in Paths : rows'[p] = Without(rows, ids)[p]
      <4>1. m \in Filled(rows)
        BY <2>1 DEF Missing
      <4>2. \A p \in Paths : (rows[p] # None /\ rows[p].id \in ids) <=> p = m
        BY <1>1, <2>3, <4>1 DEF Apart, Filled
      <4>3. rows' = [p \in Paths |-> IF p = m THEN None ELSE rows[p]]
        BY <1>1, <2>1 DEF Sound, Tables
      <4> HIDE DEF ids
      <4> QED BY <4>2, <4>3 DEF Without
    <3>2. rows' = [p \in Paths |-> rows'[p]]
      BY <1>1, <2>1 DEF Sound, Tables
    <3> HIDE DEF ids
    <3> QED BY <3>1, <3>2 DEF Without
  <2>5. /\ AllMissing(rows, ids) /\ match' \in Matches /\ Known(match', Without(rows, ids))
    <3> HIDE DEF moves
    <3> QED BY <1>1, <2>1, <2>2, RepointedKeeps DEF moves
  <2> HIDE DEF ids, moves
  <2>6. /\ Sound(rows', seen, swapped)
        /\ \A p \in Filled(rows') : p \in Filled(rows) /\ rows'[p] = rows[p]
    BY <1>1, <2>4, <2>5, WithoutKeeps
  <2>7. Known(match', rows')
    BY <2>4, <2>5
  <2> QED BY <1>3, <2>5, <2>6, <2>7, RowsGone DEF RemapMissing
<1>4. CASE DeleteMissing
  <2>1. PICK S \in SUBSET Missing(rows) : /\ match' = Released(match, IdsOf(rows, S))
                                          /\ rows' = Without(rows, IdsOf(rows, S))
    BY <1>4 DEF DeleteMissing
  <2> DEFINE ids == IdsOf(rows, S)
  <2>2. AllMissing(rows, ids)
    BY <1>1, MissingIds
  <2> HIDE DEF ids
  <2>3. match' \in Matches /\ Known(match', rows')
    BY <1>1, <2>1, <2>2, ReleasedKeeps DEF ids
  <2>4. /\ Sound(rows', seen, swapped)
        /\ \A p \in Filled(rows') : p \in Filled(rows) /\ rows'[p] = rows[p]
    BY <1>1, <2>1, <2>2, WithoutKeeps DEF ids
  <2> QED BY <1>4, <2>3, <2>4, RowsGone DEF DeleteMissing
<1> QED BY <1>2, <1>3, <1>4 DEF User

LEMMA ClockKeeps ==
  ASSUME Inv, Clock
  PROVE  Inv'
<1>1. CASE HourPasses
  <2>1. FoldersInv'
    <3>1. \A s \in staged : [s EXCEPT !.old = TRUE] \in StagedHashes(known)
      BY DEF Inv, FoldersInv, StagedHashes
    <3> QED BY <1>1, <3>1 DEF HourPasses, Inv, FoldersInv
  <2>2. UNCHANGED <<disk, swapped, rows, storage, tables, queue, job, lingering>>
    BY <1>1 DEF HourPasses, storage, tables
  <2> QED BY <2>1, <2>2, Parts DEF Inv
<1>2. CASE SessionEnds
  <2>1. UNCHANGED <<disk, swapped, rows>> /\ lingering' = {}
    BY <1>2 DEF SessionEnds, storage, tables
  <2> QED BY <1>2, <2>1, Parts DEF Inv, SessionEnds
<1>3. CASE StorageReturns
  <2>1. /\ StorageInv' /\ UNCHANGED <<disk, swapped, tables, folders, queue, job, lingering>>
    BY <1>3 DEF StorageReturns, Inv, StorageInv
  <2>2. UNCHANGED rows
    BY <2>1 DEF tables
  <2> QED BY <2>1, <2>2, Parts DEF Inv
<1> QED BY <1>1, <1>2, <1>3 DEF Clock

\* The folders' hashes, whatever a poll stages of them.
LEMMA StagedMore ==
  ASSUME NEW fs, NEW gs, fs \subseteq gs, NEW S, S \subseteq StagedHashes(fs)
  PROVE  S \subseteq StagedHashes(gs)
BY DEF StagedHashes

LEMMA ClearStagedKeeps ==
  ASSUME Inv, NEW t, ClearStaged(t)
  PROVE  FoldersInv'
BY DEF Inv, FoldersInv, ClearStaged

LEMMA PollingKeeps ==
  ASSUME Inv, Polling
  PROVE  Inv'
<1>1. /\ known \subseteq Folders /\ staged \subseteq StagedHashes(known)
      /\ \A f \in Folders : stored[f] # None => f \in known
      /\ Walked \subseteq Folders /\ StagedLive \subseteq staged
  BY DEF Inv, FoldersInv, Walked, StagedLive
<1>2. CASE PollFirstRun
  <2>1. FoldersInv'
    <3>1. staged' \subseteq StagedHashes(known')
      BY <1>1, <1>2, StagedMore DEF PollFirstRun
    <3>2. \A f \in Folders : stored'[f] # None => f \in known'
      BY <1>2 DEF PollFirstRun
    <3> QED BY <1>1, <1>2, <3>1, <3>2 DEF FoldersInv, PollFirstRun
  <2>2. UNCHANGED <<disk, swapped, rows, storage, tables, queue, job, lingering>>
    BY <1>2 DEF PollFirstRun, storage, tables
  <2> QED BY <2>1, <2>2, Parts DEF Inv
<1>3. CASE Poll
  <2> DEFINE looked == Walked \ {s.folder : s \in StagedLive}
             changed == {f \in looked : f \notin known \/ stored[f] # Hash(f)}
             free == Tasks \ ({s.task : s \in StagedLive} \cup {queue[i].task : i \in DOMAIN queue})
             t == CHOOSE x \in free : TRUE
             new == {[folder |-> f, hash |-> Hash(f), task |-> t, old |-> FALSE] : f \in looked}
  <2>1. /\ known' = known \cup Walked /\ UNCHANGED <<stored, storage, tables, queue, lingering>>
        /\ \/ staged' = StagedLive /\ UNCHANGED job
           \/ /\ free # {} /\ staged' = StagedLive \cup new
              /\ job' = [Idle EXCEPT !.step = "handOff", !.task = t, !.todo = changed]
    BY <1>3 DEF Poll
  <2>2. looked \subseteq Walked /\ changed \subseteq Folders /\ (free # {} => t \in Tasks)
    BY <1>1
  <2>3. StagedLive \subseteq StagedHashes(known')
    BY <1>1, <2>1, StagedMore
  <2>4. free # {} => new \subseteq StagedHashes(known')
    <3> SUFFICES ASSUME free # {}, NEW f \in looked
                 PROVE  [folder |-> f, hash |-> Hash(f), task |-> t, old |-> FALSE] \in StagedHashes(known')
      OBVIOUS
    <3>1. Hash(f) \in SUBSET (Paths \X Versions) /\ f \in known' /\ t \in Tasks
      BY <2>1, <2>2, HashIs DEF Inv
    <3> HIDE DEF looked, t
    <3> QED BY <3>1 DEF StagedHashes
  <2> HIDE DEF new, free, t, changed, looked
  <2>5. FoldersInv'
    <3>1. known' \subseteq Folders /\ \A f \in Folders : stored'[f] # None => f \in known'
      BY <1>1, <2>1
    <3>2. staged' \subseteq StagedHashes(known')
      BY <2>1, <2>3, <2>4
    <3> QED BY <3>1, <3>2 DEF FoldersInv
  <2>6. UNCHANGED <<disk, swapped, rows>>
    BY <2>1 DEF storage, tables
  <2>7. JobInv'
    <3>1. CASE UNCHANGED job
      BY <2>6, <3>1, Parts
    <3>2. CASE free # {} /\ job' = [Idle EXCEPT !.step = "handOff", !.task = t, !.todo = changed]
      <4>1. /\ job' \in Jobs /\ job'.step = "handOff" /\ ~job'.full /\ job'.prior = {}
            /\ job'.todo = changed /\ job'.task = t
        BY <2>2, <3>2, IdleIs DEF Jobs, Steps
      <4> QED BY <2>2, <3>2, <4>1 DEF JobInv
    <3> QED BY <2>1, <3>1, <3>2
  <2> QED BY <2>1, <2>5, <2>6, <2>7, Parts DEF Inv
<1>4. CASE HandOff
  <2> DEFINE q == [full |-> FALSE, task |-> job.task, folders |-> job.todo]
  <2>1. q \in [full : BOOLEAN, task : Tasks \cup {None}, folders : SUBSET Folders]
    BY <1>4 DEF HandOff, Inv, JobInv
  <2>2. QueueInv'
    <3>1. queue' = Append(queue, q)
      BY <1>4 DEF HandOff
    <3> HIDE DEF q
    <3> QED BY <2>1, <3>1 DEF Inv, QueueInv
  <2>3. JobInv'
    BY <1>4, IdleKeeps DEF HandOff, Become
  <2>4. UNCHANGED <<storage, tables, folders, lingering, swapped>>
    BY <1>4 DEF HandOff, Become, storage
  <2> QED BY <2>2, <2>3, <2>4, Parts DEF Inv
<1> QED BY <1>2, <1>3, <1>4 DEF Polling

LEMMA FaultsKeep ==
  ASSUME Inv, Faults
  PROVE  Inv'
<1>1. CASE HandOffFails
  <2>1. FoldersInv' /\ JobInv'
    BY <1>1, ClearStagedKeeps, IdleKeeps DEF HandOffFails, Become
  <2>2. UNCHANGED <<storage, tables, queue, lingering, swapped>>
    BY <1>1 DEF HandOffFails, Become, storage
  <2> QED BY <2>1, <2>2, Parts DEF Inv
<1>2. CASE ScanRaises
  <2>1. FoldersInv' /\ JobInv'
    BY <1>2, ClearStagedKeeps, IdleKeeps DEF ScanRaises, Become
  <2>2. UNCHANGED <<storage, tables, queue, lingering, swapped>>
    BY <1>2 DEF ScanRaises, Become, storage
  <2> QED BY <2>1, <2>2, Parts DEF Inv
<1>3. CASE ReconcileFails
  <2>1. UNCHANGED <<storage, tables, folders, queue, lingering>>
    BY <1>3 DEF ReconcileFails, Become
  <2>2. job \in Jobs /\ (~job.full => job.prior \subseteq Folders)
    BY DEF Inv, JobInv
  <2>3. CASE job.full
    <3>1. JobInv'
      BY <1>3, <2>3, IdleKeeps DEF ReconcileFails, Become
    <3> QED BY <2>1, <3>1, JobOnly
  <2>4. CASE ~job.full
    <3>1. job' = [job EXCEPT !.step = "finish", !.plan = {}]
      BY <1>3, <2>4 DEF ReconcileFails, Become, AfterFolds
    <3>2. job' \in Jobs /\ job'.step = "finish" /\ job'.full = job.full /\ job'.prior = job.prior
      BY <2>2, <3>1 DEF Jobs, Steps
    <3>3. JobInv'
      BY <2>2, <3>2 DEF JobInv
    <3> QED BY <2>1, <3>3, JobOnly
  <2> QED BY <2>3, <2>4
<1>4. CASE Crash
  <2>1. JobInv'
    BY <1>4, IdleKeeps DEF Crash
  <2>2. lingering' \subseteq Folders
    <3>1. ~job.full => job.prior \subseteq Folders
      BY DEF Inv, JobInv
    <3> QED BY <1>4, <3>1, LockIs DEF Crash, Inv
  <2>3. UNCHANGED <<storage, tables, folders, queue, swapped>>
    BY <1>4 DEF Crash, storage
  <2> QED BY <2>1, <2>2, <2>3, Parts DEF Inv
<1> QED BY <1>1, <1>2, <1>3, <1>4 DEF Faults

\* What a scan starts from.
LEMMA ScanIs ==
  ASSUME Inv
  PROVE  /\ Scan.rows = rows /\ Scan.seen = seen /\ Scan.failed = {}
         /\ Going(Scan, rows, swapped) /\ Chunked(Scan, rows, swapped, {})
<1>1. Scan \in Scans /\ Scan.rows = rows /\ Scan.seen = seen /\ Scan.failed = {}
  BY DEF Inv, TablesInv, Sound, Scan, Scans
<1> QED BY <1>1 DEF Inv, TablesInv, Going, Chunked, IdsKept

\* What a grouping leaves in the tables.
LEMMA GroupKeeps ==
  ASSUME NEW table, NEW learnt, NEW sw, Sound(table, learnt, sw), NEW S, Group(table, Loose(table, S))
  PROVE  /\ Sound(rows', learnt, sw) /\ IdsKept(table, rows') /\ Filled(rows') = Filled(table)
<1>1. PICK refused : rows' = Grouped(table, Loose(table, S) \ refused)
  BY DEF Group, Grouped
<1>2. Loose(table, S) \ refused \subseteq Filled(table)
  BY DEF Loose
<1> QED BY <1>1, <1>2, GroupedKeeps

LEMMA KnownAfter ==
  ASSUME NEW m, NEW a, NEW b, NEW c, Known(m, a), IdsKept(a, b), IdsKept(b, c)
  PROVE  Known(m, c)
BY KnownKept

LEMMA VisitFolderKeeps ==
  ASSUME Inv, VisitFolder
  PROVE  Inv'
<1> DEFINE f == LockOf(job.todo)
           unreadable == mounted /\ f \in dark
           Made(order) ==
             IF unreadable THEN Scan ELSE ScanFolder(Scan, OnDisk, f, Listed(f), order)
<1>0. PICK order \in Listings(Listed(f)) :
        /\ Become([job EXCEPT !.todo = @ \ {f}])
        /\ Group(Made(order).rows, Loose(Made(order).rows, Files(f)))
        /\ seen' = Made(order).seen
        /\ quarantine' = IF unreadable THEN quarantine
                         ELSE (quarantine \ Files(f)) \cup Made(order).failed
  BY DEF VisitFolder
<1> DEFINE s == Made(order)
<1>1. /\ job' = [job EXCEPT !.todo = @ \ {f}]
      /\ Group(s.rows, Loose(s.rows, Files(f)))
      /\ seen' = s.seen
      /\ quarantine' = IF unreadable THEN quarantine ELSE (quarantine \ Files(f)) \cup s.failed
      /\ UNCHANGED <<storage, match, folders, queue, lingering>>
  BY <1>0 DEF VisitFolder, Become
<1>2. Going(s, rows, swapped)
  <2>1. \A p \in Listed(f) : OnDisk[p] # None
    BY DEF Listed
  <2>2. Going(ScanFolder(Scan, OnDisk, f, Listed(f), order), rows, swapped)
    <3> HIDE DEF f
    <3> QED BY <2>1, ScanIs, ShownIs, HashIs, ScanFolderKeeps DEF Inv
  <2> QED BY <2>2, ScanIs
<1> HIDE DEF s, f
<1>3. Sound(rows', s.seen, swapped) /\ IdsKept(s.rows, rows')
  BY <1>1, <1>2, GroupKeeps DEF Going
<1>4. UNCHANGED <<disk, swapped>>
  BY <1>1 DEF storage
<1>5. TablesInv'
  <2>1. Known(match, rows')
    BY <1>2, <1>3, KnownAfter DEF Going, Inv, TablesInv
  <2>2. quarantine' \subseteq Paths
    BY <1>1, <1>2 DEF Inv, TablesInv, Going, Scans
  <2> QED BY <1>1, <1>3, <1>4, <2>1, <2>2 DEF Inv, TablesInv
<1>6. JobInv'
  <2>1. job \in Jobs /\ job.step = "visit" /\ ~job.full /\ job.todo \subseteq Folders /\ job.prior \subseteq Folders
    BY DEF Inv, JobInv, VisitFolder
  <2>2. /\ job' \in Jobs /\ job'.step = "visit" /\ ~job'.full /\ job'.todo = job.todo \ {f}
        /\ job'.prior = job.prior
    BY <1>1, <2>1 DEF Jobs
  <2> QED BY <2>1, <2>2 DEF JobInv
<1> QED BY <1>1, <1>4, <1>5, <1>6, Parts DEF Inv

LEMMA QueueTaken ==
  ASSUME NEW S, NEW q \in Seq(S), q # <<>>
  PROVE  Head(q) \in S /\ Tail(q) \in Seq(S)
OBVIOUS

LEMMA FolderScanKeeps ==
  ASSUME Inv, FolderScan
  PROVE  Inv'
<1>1. CASE StartFolderScan
  <2> DEFINE q == Head(queue)
  <2>1. /\ q \in [full : BOOLEAN, task : Tasks \cup {None}, folders : SUBSET Folders]
        /\ Tail(queue) \in Seq([full : BOOLEAN, task : Tasks \cup {None}, folders : SUBSET Folders])
    BY <1>1, QueueTaken DEF StartFolderScan, Inv, QueueInv
  <2>2. /\ job' = [Idle EXCEPT !.step = "visit", !.task = q.task, !.todo = q.folders, !.prior = q.folders]
        /\ queue' = Tail(queue) /\ UNCHANGED <<storage, tables, folders, lingering>>
    BY <1>1 DEF StartFolderScan, Become
  <2> HIDE DEF q
  <2>3. /\ job' \in Jobs /\ job'.step = "visit" /\ ~job'.full /\ job'.prior = q.folders
        /\ job'.todo = q.folders
    BY <2>1, <2>2, IdleIs DEF Jobs, Steps
  <2>4. JobInv'
    BY <2>1, <2>3 DEF JobInv
  <2>5. QueueInv'
    BY <2>1, <2>2 DEF QueueInv
  <2>6. UNCHANGED swapped
    BY <2>2 DEF storage
  <2> QED BY <2>2, <2>4, <2>5, <2>6, Parts DEF Inv
<1>2. CASE ScanLockHeld
  <2>1. QueueInv'
    BY <1>2 DEF ScanLockHeld, Inv, QueueInv
  <2>2. FoldersInv'
    BY <1>2, ClearStagedKeeps DEF ScanLockHeld
  <2>3. UNCHANGED <<storage, tables, job, lingering, disk, swapped, rows>>
    BY <1>2 DEF ScanLockHeld, storage, tables
  <2> QED BY <2>1, <2>2, <2>3, Parts DEF Inv
<1>3. CASE VisitFolder
  BY <1>3, VisitFolderKeeps
<1>4. CASE CommitHashes
  <2>1. FoldersInv'
    <3>1. staged' \subseteq staged /\ UNCHANGED known
      BY <1>4 DEF CommitHashes
    <3>2. \A f \in Folders : stored'[f] # None => f \in known
      <4> TAKE f \in Folders
      <4>1. CASE \E s \in staged : s.folder = f /\ s.task = job.task
        BY <4>1 DEF Inv, FoldersInv, StagedHashes
      <4>2. CASE ~\E s \in staged : s.folder = f /\ s.task = job.task
        <5>1. stored'[f] = stored[f]
          BY <1>4, <4>2 DEF CommitHashes
        <5> QED BY <5>1 DEF Inv, FoldersInv
      <4> QED BY <4>1, <4>2
    <3> QED BY <3>1, <3>2 DEF Inv, FoldersInv
  <2>2. JobInv'
    BY <1>4, IdleKeeps DEF CommitHashes, Become
  <2>3. UNCHANGED <<storage, tables, queue, lingering, swapped>>
    BY <1>4 DEF CommitHashes, Become, storage
  <2> QED BY <2>1, <2>2, <2>3, Parts DEF Inv
<1> QED BY <1>1, <1>2, <1>3, <1>4 DEF FolderScan

LEMMA ReadChunkKeeps ==
  ASSUME Inv, ReadChunk
  PROVE  Inv'
<1> DEFINE chunk == {p \in job.todo : Cardinality({q \in job.todo : q < p}) < Chunk}
           s == ScanChunk(Scan, OnDisk, chunk, job.prior, job.adopting)
<1>1. /\ rows' = s.rows /\ seen' = s.seen /\ quarantine' = s.entries
      /\ job' = [job EXCEPT !.todo = @ \ chunk, !.failed = @ \cup s.failed,
                            !.written = @ \cup s.written]
      /\ job.step = "walk" /\ UNCHANGED <<storage, match, folders, queue, lingering>>
  BY DEF ReadChunk, Become
<1>2. /\ job \in Jobs /\ job.full /\ job.todo \subseteq Paths
      /\ Filled(rows) \cap job.todo \subseteq job.prior
  BY <1>1 DEF Inv, JobInv
<1>3. chunk \subseteq job.todo
  OBVIOUS
<1> HIDE DEF chunk
<1>4. Chunked(s, rows, swapped, chunk)
  <2>1. job.adopting \in BOOLEAN
    BY <1>2 DEF Jobs
  <2>2. /\ Chunked(Scan, Scan.rows, swapped, {}) /\ OnDisk \in Shows
        /\ Filled(Scan.rows) \cap chunk \subseteq job.prior
    BY <1>2, <1>3, ScanIs, ShownIs DEF Inv
  <2>3. Chunked(s, Scan.rows, swapped, chunk)
    BY <1>2, <1>3, <2>1, <2>2, ScanChunkKeeps
  <2> QED BY <2>3, ScanIs
<1> HIDE DEF s
<1>5. s \in Scans /\ Sound(s.rows, s.seen, swapped) /\ IdsKept(rows, s.rows)
      /\ Filled(s.rows) \subseteq Filled(rows) \cup chunk
  BY <1>4 DEF Chunked, Going
<1>6. UNCHANGED <<disk, swapped>>
  BY <1>1 DEF storage
<1>7. TablesInv'
  <2>1. Known(match, s.rows)
    BY <1>5, KnownKept DEF Inv, TablesInv
  <2>2. s.entries \subseteq Paths
    BY <1>5 DEF Scans
  <2> QED BY <1>1, <1>5, <1>6, <2>1, <2>2 DEF Inv, TablesInv
<1>8. JobInv'
  <2>1. s.failed \subseteq Paths /\ s.written \subseteq Paths
    BY <1>5 DEF Scans
  <2>2. /\ job' \in Jobs /\ job'.step = "walk" /\ job'.full /\ job'.todo = job.todo \ chunk
        /\ job'.prior = job.prior
    BY <1>1, <1>2, <2>1 DEF Jobs
  <2>3. Filled(rows)' \cap job'.todo \subseteq job'.prior
    <3>1. Filled(rows)' = Filled(s.rows)
      BY <1>1 DEF Filled
    <3> QED BY <1>2, <1>5, <2>2, <3>1
  <2> QED BY <1>2, <2>2, <2>3 DEF JobInv
<1> QED BY <1>1, <1>6, <1>7, <1>8, Parts DEF Inv

LEMMA FullScanKeeps ==
  ASSUME Inv, FullScan
  PROVE  Inv'
<1>1. CASE StartFullScan
  <2> DEFINE found == {p \in Paths : OnDisk[p] # None /\ FolderOf[p] \notin dark}
  <2>1. /\ job' = [Idle EXCEPT !.step = "walk", !.full = TRUE, !.todo = found, !.walked = found,
                               !.prior = Filled(rows), !.adopting = Filled(rows) # {}]
        /\ queue' = Tail(queue) /\ UNCHANGED <<storage, tables, folders, lingering>>
    BY <1>1 DEF StartFullScan, Become
  <2>2. QueueInv'
    BY <1>1, <2>1, QueueTaken DEF StartFullScan, Inv, QueueInv
  <2>3. found \subseteq Paths /\ Filled(rows) \subseteq Paths
    BY DEF Filled
  <2> HIDE DEF found
  <2>4. UNCHANGED <<rows, swapped>>
    BY <2>1 DEF storage, tables
  <2>5. JobInv'
    <3> DEFINE prior == Filled(rows)
    <3>1. /\ job' = [Idle EXCEPT !.step = "walk", !.full = TRUE, !.todo = found, !.walked = found,
                                 !.prior = prior, !.adopting = prior # {}]
          /\ prior \subseteq Paths /\ Filled(rows)' = prior
      BY <2>1, <2>3, <2>4 DEF Filled
    <3> HIDE DEF prior
    <3>2. /\ job' \in Jobs /\ job'.step = "walk" /\ job'.full /\ job'.todo = found
          /\ job'.prior = prior
      BY <2>3, <3>1, IdleIs DEF Jobs, Steps
    <3> QED BY <2>3, <3>1, <3>2 DEF JobInv
  <2> QED BY <2>1, <2>2, <2>4, <2>5, Parts DEF Inv
<1>2. CASE ReadChunk
  BY <1>2, ReadChunkKeeps
<1>3. CASE EndWalk
  <2> DEFINE s == MarkMissing(Scan, Paths \ job.walked)
  <2>1. /\ job' = [job EXCEPT !.step = "group"]
        /\ \/ UNCHANGED <<rows, seen, quarantine>>
           \/ rows' = s.rows /\ seen' = s.seen /\ quarantine' = quarantine \cap job.failed
        /\ \/ UNCHANGED <<known, stored>>
           \/ /\ known' = known \cup Walked
              /\ stored' = IF known = {} THEN [f \in Folders |-> IF f \in Walked THEN Hash(f) ELSE None]
                           ELSE stored
        /\ UNCHANGED <<storage, match, staged, queue, lingering>>
    BY <1>3 DEF EndWalk, Become
  <2>2. Going(s, rows, swapped)
    BY ScanIs, MarkedKeeps
  <2> HIDE DEF s
  <2>3. UNCHANGED <<disk, swapped>>
    BY <2>1 DEF storage
  <2>4. TablesInv'
    <3>1. CASE UNCHANGED <<rows, seen, quarantine>>
      BY <2>1, <2>3, <3>1, Parts DEF tables
    <3>2. CASE rows' = s.rows /\ seen' = s.seen /\ quarantine' = quarantine \cap job.failed
      <4>1. Known(match, s.rows)
        BY <2>2, KnownKept DEF Going, Inv, TablesInv
      <4> QED BY <2>1, <2>2, <2>3, <3>2, <4>1 DEF Inv, TablesInv, Going
    <3> QED BY <2>1, <3>1, <3>2
  <2>5. FoldersInv'
    <3>1. Walked \subseteq Folders
      BY DEF Walked
    <3>2. staged' \subseteq StagedHashes(known')
      BY <2>1, StagedMore DEF Inv, FoldersInv
    <3>3. \A f \in Folders : stored'[f] # None => f \in known'
      BY <2>1 DEF Inv, FoldersInv
    <3> QED BY <2>1, <3>1, <3>2, <3>3 DEF Inv, FoldersInv
  <2>6. JobInv'
    <3>1. job \in Jobs /\ job.full
      BY <1>3 DEF EndWalk, Inv, JobInv
    <3>2. job' \in Jobs /\ job'.step = "group" /\ job'.full
      BY <2>1, <3>1 DEF Jobs, Steps
    <3> QED BY <3>2 DEF JobInv
  <2> QED BY <2>1, <2>3, <2>4, <2>5, <2>6, Parts DEF Inv
<1>4. CASE GroupWritten
  <2>1. /\ job' = [job EXCEPT !.step = "plan"] /\ Group(rows, Loose(rows, job.written))
        /\ UNCHANGED <<storage, match, quarantine, seen, folders, queue, lingering>>
    BY <1>4 DEF GroupWritten, Become
  <2>2. UNCHANGED <<disk, swapped>>
    BY <2>1 DEF storage
  <2>3. TablesInv'
    <3>1. Sound(rows', seen, swapped) /\ IdsKept(rows, rows')
      BY <2>1, GroupKeeps DEF Inv, TablesInv
    <3>2. Known(match, rows')
      BY <3>1, KnownKept DEF Inv, TablesInv
    <3> QED BY <2>1, <2>2, <3>1, <3>2 DEF Inv, TablesInv
  <2>4. JobInv'
    <3>1. job \in Jobs /\ job.step = "group" /\ (~job.full => job.prior \subseteq Folders)
      BY <1>4 DEF GroupWritten, Inv, JobInv
    <3>2. job' \in Jobs /\ job'.step = "plan" /\ job'.full = job.full /\ job'.prior = job.prior
      BY <2>1, <3>1 DEF Jobs, Steps
    <3> QED BY <3>1, <3>2 DEF JobInv
  <2> QED BY <2>1, <2>2, <2>3, <2>4, Parts DEF Inv
<1> QED BY <1>1, <1>2, <1>3, <1>4 DEF FullScan

\* A finished reconciliation leaves nothing planned.
LEMMA FoldedKeeps ==
  ASSUME Inv, job' = AfterFolds
  PROVE  JobInv'
<1>1. job \in Jobs /\ (~job.full => job.prior \subseteq Folders)
  BY DEF Inv, JobInv
<1>2. /\ job' \in Jobs /\ job'.step \in {"purge", "finish"} /\ job'.full = job.full
      /\ job'.prior = job.prior
  BY <1>1 DEF AfterFolds, Jobs, Steps
<1> QED BY <1>1, <1>2 DEF JobInv

\* The purge takes rows that are missing.
LEMMA PurgedIs ==
  ASSUME NEW table, Apart(table), NEW shown, NEW unreadable
  PROVE  /\ SelectPurge(table, shown, unreadable) \subseteq UnreplacedRows(table)
         /\ AllMissing(table, IdsOf(table, SelectPurge(table, shown, unreadable)))
<1>1. SelectPurge(table, shown, unreadable) \subseteq UnreplacedRows(table)
  BY DEF SelectPurge
<1>2. UnreplacedRows(table) \subseteq Missing(table)
  BY DEF UnreplacedRows
<1> QED BY <1>1, <1>2, MissingIds

LEMMA ReconcileKeeps ==
  ASSUME Inv, Reconcile
  PROVE  Inv'
<1>1. /\ Sound(rows, seen, swapped) /\ rows \in Tables /\ Apart(rows)
      /\ match \in Matches /\ Known(match, rows)
  BY DEF Inv, TablesInv, Sound
<1>2. CASE Plan
  <2>1. /\ job' = [job EXCEPT !.step = "apply", !.plan = PlanMoves(rows)]
        /\ UNCHANGED <<storage, tables, folders, queue, lingering>>
    BY <1>2 DEF Plan, Become
  <2>2. job \in Jobs /\ (~job.full => job.prior \subseteq Folders)
    BY DEF Inv, JobInv
  <2>3. PlanMoves(rows) \subseteq Ids \X Ids /\ \A v \in PlanMoves(rows) : OneTrack(rows, v)
    BY <1>1, PlannedHolds
  <2>4. /\ job' \in Jobs /\ job'.step = "apply" /\ job'.full = job.full /\ job'.prior = job.prior
        /\ job'.plan = PlanMoves(rows)
    <3> DEFINE plan == PlanMoves(rows)
    <3>1. job' = [job EXCEPT !.step = "apply", !.plan = plan] /\ plan \subseteq Ids \X Ids
      BY <2>1, <2>3
    <3> HIDE DEF plan
    <3>2. /\ job' \in Jobs /\ job'.step = "apply" /\ job'.full = job.full /\ job'.prior = job.prior
          /\ job'.plan = plan
      BY <2>2, <3>1 DEF Jobs, Steps
    <3> QED BY <3>2 DEF plan
  <2>5. PlanHolds'
    <3>1. UNCHANGED rows
      BY <2>1 DEF tables
    <3> QED BY <2>3, <2>4, <3>1 DEF PlanHolds, OneTrack, Filled
  <2>6. JobInv'
    BY <2>2, <2>4, <2>5 DEF JobInv
  <2> QED BY <2>1, <2>6, JobOnly
<1>3. CASE ApplyMoves
  <2>1. job' = AfterFolds /\ UNCHANGED <<storage, quarantine, seen, folders, queue, lingering>>
    BY <1>3 DEF ApplyMoves, Become
  <2>2. PICK refused \in SUBSET job.plan :
          LET moves == {m \in job.plan \ refused : Foldable(rows, m)} IN
          rows' = Without(rows, {m[1] : m \in moves}) /\ match' = Repointed(match, moves)
    BY <1>3 DEF ApplyMoves
  <2> DEFINE moves == {m \in job.plan \ refused : Foldable(rows, m)}
             ids == {m[1] : m \in moves}
  <2>3. \A v \in moves : Foldable(rows, v)
    OBVIOUS
  <2>4. rows' = Without(rows, ids) /\ match' = Repointed(match, moves)
    BY <2>2
  <2>5. AllMissing(rows, ids) /\ match' \in Matches /\ Known(match', rows')
    <3> HIDE DEF moves
    <3> QED BY <1>1, <2>3, <2>4, RepointedKeeps
  <2> HIDE DEF ids, moves
  <2>6. Sound(rows', seen, swapped)
    BY <1>1, <2>4, <2>5, WithoutKeeps
  <2>7. UNCHANGED swapped
    BY <2>1 DEF storage
  <2>8. TablesInv'
    BY <2>1, <2>5, <2>6, <2>7 DEF Inv, TablesInv
  <2>9. JobInv'
    BY <2>1, FoldedKeeps
  <2> QED BY <2>1, <2>8, <2>9, Parts DEF Inv
<1>4. CASE SkipPurge
  <2>1. JobInv' /\ UNCHANGED <<storage, tables, folders, queue, lingering>>
    BY <1>4, IdleKeeps DEF SkipPurge, Become
  <2> QED BY <2>1, JobOnly
<1>5. CASE Purge
  <2> DEFINE ids == IdsOf(rows, SelectPurge(rows, OnDisk, IF mounted THEN dark ELSE {}))
  <2>1. /\ rows' = Without(rows, ids) /\ match' = Released(match, ids) /\ job' = Idle
        /\ UNCHANGED <<storage, quarantine, seen, folders, queue, lingering>>
    BY <1>5 DEF Purge, Become
  <2>2. AllMissing(rows, ids)
    BY <1>1, PurgedIs
  <2> HIDE DEF ids
  <2>3. /\ Sound(rows', seen, swapped) /\ match' \in Matches /\ Known(match', rows')
    BY <1>1, <2>1, <2>2, WithoutKeeps, ReleasedKeeps
  <2>4. UNCHANGED swapped
    BY <2>1 DEF storage
  <2>5. TablesInv'
    BY <2>1, <2>3, <2>4 DEF Inv, TablesInv
  <2>6. JobInv'
    BY <2>1, IdleKeeps
  <2> QED BY <2>1, <2>5, <2>6, Parts DEF Inv
<1> QED BY <1>2, <1>3, <1>4, <1>5 DEF Reconcile

\* A fingerprint is pinned to the row it was read for, as it was read.
LEMMA PinnedKeeps ==
  ASSUME Inv, job.step = "pin", MayPin, NEW audio \in job.plan
  PROVE  Sound(HashPinned(audio), seen, swapped) /\ IdsKept(rows, HashPinned(audio))
<1> DEFINE e == HashPinned(audio)
<1>1. Sound(rows, seen, swapped) /\ rows \in Tables /\ seen \in Learns /\ ReadingHolds
  BY DEF Inv, TablesInv, JobInv, Sound
<1>2. PICK q \in Filled(rows) : rows[q].id = job.row.id /\ rows[q].hash = None /\ rows[q].stat = job.row.stat
  BY DEF MayPin, StillUnhashed
<1>3. q \in Paths /\ rows[q] \in Row /\ audio \in Audios
  BY <1>1, Fields DEF ReadingHolds
<1>4. \A p \in Paths : (rows[p] # None /\ rows[p].id = job.row.id) <=> p = q
  BY <1>1, <1>2, <1>3 DEF Sound, Apart, Filled
<1>5. \A p \in Paths : e[p] = IF p = q THEN [rows[q] EXCEPT !.hash = audio] ELSE rows[p]
  BY <1>4 DEF HashPinned
<1>6. /\ e[q] \in Row /\ e[q].id = rows[q].id /\ e[q].stat = rows[q].stat /\ e[q].hash = audio
      /\ e[q].present = rows[q].present
  <2>1. e[q] = [rows[q] EXCEPT !.hash = audio]
    BY <1>3, <1>5
  <2> QED BY <1>3, <2>1 DEF Row
<1>7. e \in Tables
  <2>1. \A p \in Paths : e[p] \in Row \cup {None}
    BY <1>1, <1>5, <1>6 DEF Tables
  <2>2. e = [p \in Paths |-> e[p]]
    BY DEF HashPinned
  <2> HIDE DEF e
  <2> QED BY <2>1, <2>2 DEF Tables
<1> HIDE DEF e
<1>8. Filled(e) = Filled(rows) /\ Present(e) = Present(rows)
  BY <1>2, <1>5, <1>6, RowAssumption DEF Filled, Present
<1>9. \A p \in Filled(rows) : e[p].id = rows[p].id /\ e[p].stat = rows[p].stat
  BY <1>5, <1>6 DEF Filled
<1>10. Apart(e) /\ IdsKept(rows, e)
  BY <1>1, <1>8, <1>9 DEF Sound, Apart, IdsKept, IdsOf
<1>11. Told(e, seen)
  BY <1>1, <1>8, <1>9 DEF Sound, Told, ToldOf, Present
<1>12. HashesTrue(e, swapped)
  <2> SUFFICES ASSUME NEW p \in Filled(e)
               PROVE  <<e[p].id, e[p].stat>> \in swapped \/ e[p].hash \in {None, AudioOf[e[p].stat]}
    BY DEF HashesTrue
  <2>1. CASE p = q
    <3>1. disk[job.row.path] = job.row.stat
      <4>1. job.row.path \in Paths /\ job.row.stat \in Versions
        BY <1>1 DEF ReadingHolds, Readings
      <4> QED BY <4>1, NoneAssumption, ShownIs DEF MayPin, Inv
    <3>2. audio = AudioOf[job.row.stat] \/ <<job.row.id, job.row.stat>> \in swapped
      BY <1>1, <3>1 DEF ReadingHolds
    <3> QED BY <1>2, <1>6, <2>1, <3>2
  <2>2. CASE p # q
    BY <1>1, <1>5, <1>8, <2>2 DEF Sound, HashesTrue, Filled
  <2> QED BY <2>1, <2>2
<1> QED BY <1>1, <1>7, <1>10, <1>11, <1>12 DEF Sound, e

LEMMA BackfillKeeps ==
  ASSUME Inv, Backfill
  PROVE  Inv'
<1>1. /\ Sound(rows, seen, swapped) /\ rows \in Tables /\ Known(match, rows)
  BY DEF Inv, TablesInv, Sound
<1>2. CASE StartHash
  <2>1. PICK p \in Unhashed :
          job' = [Idle EXCEPT !.step = "hash",
                              !.row = [path |-> p, id |-> rows[p].id, stat |-> rows[p].stat]]
    BY <1>2 DEF StartHash, Become
  <2>2. UNCHANGED <<storage, tables, folders, queue, lingering>>
    BY <1>2 DEF StartHash, Become
  <2> DEFINE r == [path |-> p, id |-> rows[p].id, stat |-> rows[p].stat]
  <2>3. r \in Readings
    <3>1. p \in Filled(rows)
      BY DEF Unhashed, Present
    <3> QED BY <1>1, <3>1, Fields DEF Readings
  <2>4. job' = [Idle EXCEPT !.step = "hash", !.row = r]
    BY <2>1
  <2> HIDE DEF r
  <2>5. /\ job' \in Jobs /\ job'.step = "hash" /\ ~job'.full /\ job'.prior = {} /\ job'.row = r
    BY <2>3, <2>4, IdleIs DEF Jobs, Steps
  <2>6. JobInv'
    BY <2>3, <2>5 DEF JobInv
  <2> QED BY <2>2, <2>6, JobOnly
<1>3. CASE HashAudio
  <2>1. UNCHANGED <<storage, tables, folders, queue, lingering>>
    BY <1>3 DEF HashAudio, Become
  <2>2. job \in Jobs /\ job.row \in Readings /\ (~job.full => job.prior \subseteq Folders)
    BY <1>3 DEF HashAudio, Inv, JobInv
  <2> DEFINE v == OnDisk[job.row.path]
  <2>3. CASE v = None
    <3>1. JobInv'
      BY <1>3, <2>3, IdleKeeps DEF HashAudio, Become
    <3> QED BY <2>1, <3>1, JobOnly
  <2>4. CASE v # None
    <3>1. job' = [job EXCEPT !.step = "pin", !.plan = {AudioOf[v]}]
      BY <1>3, <2>4 DEF HashAudio, Become
    <3>2. v = disk[job.row.path] /\ v \in Versions
      <4>1. job.row.path \in Paths
        BY <2>2 DEF Readings
      <4> QED BY <2>4, <4>1, ShownIs DEF Inv, Shows
    <3> HIDE DEF v
    <3>3. AudioOf[v] \in Audios
      BY <3>2 DEF Audios
    <3>4. /\ job' \in Jobs /\ job'.step = "pin" /\ job'.full = job.full /\ job'.prior = job.prior
          /\ job'.row = job.row /\ job'.plan = {AudioOf[v]}
      BY <2>2, <3>1, <3>3 DEF Jobs, Steps
    <3>5. UNCHANGED <<disk, swapped>>
      BY <2>1 DEF storage
    <3>6. ReadingHolds'
      BY <2>2, <3>2, <3>3, <3>4, <3>5 DEF ReadingHolds
    <3>7. JobInv'
      BY <2>2, <3>4, <3>6 DEF JobInv
    <3> QED BY <2>1, <3>7, JobOnly
  <2> QED BY <2>3, <2>4
<1>4. CASE PinHash
  <2>1. /\ job.step = "pin" /\ job' = Idle
        /\ UNCHANGED <<storage, match, quarantine, seen, folders, queue, lingering>>
    BY <1>4 DEF PinHash, Become
  <2>2. PICK audio \in job.plan : rows' = IF MayPin THEN HashPinned(audio) ELSE rows
    BY <1>4 DEF PinHash
  <2>3. Sound(rows', seen, swapped) /\ Known(match, rows')
    <3>1. CASE MayPin
      BY <1>1, <2>1, <2>2, <3>1, PinnedKeeps, KnownKept
    <3>2. CASE ~MayPin
      BY <1>1, <2>2, <3>2
    <3> QED BY <3>1, <3>2
  <2>4. UNCHANGED swapped
    BY <2>1 DEF storage
  <2>5. TablesInv' /\ JobInv'
    BY <2>1, <2>3, <2>4, IdleKeeps DEF Inv, TablesInv
  <2> QED BY <2>1, <2>5, Parts DEF Inv
<1> QED BY <1>2, <1>3, <1>4 DEF Backfill

-----------------------------------------------------------------------------
(* The theorems. *)

LEMMA InitInv ==
  ASSUME Init
  PROVE  Inv
<1>1. disk \in Shows /\ StorageInv
  BY DiskAssumption DEF Init, StorageInv, Shows
<1>2. JobInv
  BY IdleIs DEF Init, JobInv
<1>3. QueueInv /\ lingering \subseteq Folders
  BY DEF Init, QueueInv
<1>4. CASE /\ rows = [p \in Paths |-> IF Disk0[p] = None THEN None ELSE Indexed(p)]
           /\ match \in [Songs -> {p \in Paths : Disk0[p] # None}]
           /\ seen = Disk0
           /\ known = {f \in Folders : \E p \in Files(f) : Disk0[p] # None}
           /\ stored = [f \in Folders |-> IF f \in known THEN Hash(f) ELSE None]
  <2>1. \A p \in Paths : Disk0[p] # None =>
          /\ Indexed(p) \in Row /\ Indexed(p).id = p /\ Indexed(p).present
          /\ Indexed(p).stat = Disk0[p] /\ Indexed(p).hash = AudioOf[Disk0[p]]
    BY DiskAssumption, IdsAssumption DEF Indexed, Row, Audios
  <2>2. rows \in Tables
    BY <1>4, <2>1 DEF Tables
  <2>3. \A p \in Paths : rows[p] = IF Disk0[p] = None THEN None ELSE Indexed(p)
    BY <1>4
  <2>4. Filled(rows) = {p \in Paths : Disk0[p] # None} /\ Present(rows) = Filled(rows)
    BY <2>1, <2>3, RowAssumption DEF Filled, Present
  <2>5. Apart(rows)
    BY <2>1, <2>3, <2>4 DEF Apart
  <2>6. seen \in Learns
    BY <1>4, DiskAssumption DEF Learns
  <2>7. Told(rows, seen)
    <3> SUFFICES ASSUME NEW p \in Paths PROVE ToldOf(rows, seen, p)
      BY DEF Told
    <3> QED BY <1>4, <2>1, <2>3, <2>4, DiskAssumption DEF ToldOf
  <2>8. HashesTrue(rows, swapped)
    BY <2>1, <2>3, <2>4 DEF HashesTrue
  <2>9. match \in Matches /\ Known(match, rows)
    <3>1. \A p \in Filled(rows) : rows[p].id = p
      BY <2>1, <2>3, <2>4
    <3> QED BY <1>4, <2>4, <3>1, IdsAssumption DEF Matches, Known, IdsOf
  <2>10. TablesInv
    BY <2>2, <2>5, <2>6, <2>7, <2>8, <2>9 DEF TablesInv, Sound, Init
  <2>11. FoldersInv
    BY <1>4 DEF FoldersInv, Init, StagedHashes
  <2> QED BY <1>1, <1>2, <1>3, <2>10, <2>11 DEF Inv
<1>5. CASE /\ rows = [p \in Paths |-> None] /\ seen = rows
           /\ match = [s \in Songs |-> None]
           /\ known = {} /\ stored = [f \in Folders |-> None]
  <2>1. Filled(rows) = {}
    BY <1>5 DEF Filled
  <2>2. Sound(rows, seen, swapped)
    BY <1>5, <2>1 DEF Sound, Tables, Learns, Apart, Told, ToldOf, HashesTrue, Present
  <2>3. TablesInv
    BY <1>5, <2>2 DEF TablesInv, Matches, Known, Init
  <2>4. FoldersInv
    BY <1>5 DEF FoldersInv, Init, StagedHashes
  <2> QED BY <1>1, <1>2, <1>3, <2>3, <2>4 DEF Inv
<1> QED BY <1>4, <1>5 DEF Init

LEMMA StepInv ==
  ASSUME Inv, [Next]_vars
  PROVE  Inv'
<1>1. CASE UNCHANGED vars
  <2>1. UNCHANGED <<storage, tables, folders, queue, lingering, job, rows, disk, swapped>>
    BY <1>1 DEF vars, storage, tables
  <2> QED BY <2>1, Parts DEF Inv
<1>2. CASE Worker
  BY <1>2, PollingKeeps, FolderScanKeeps, FullScanKeeps, ReconcileKeeps, BackfillKeeps DEF Worker
<1>3. CASE Faults \/ User \/ Storage \/ Clock
  BY <1>3, FaultsKeep, UserKeeps, StorageKeeps, ClockKeeps
<1> QED BY <1>1, <1>2, <1>3 DEF Next

LEMMA InvHolds == Spec => []Inv
<1>1. Init => Inv
  BY InitInv
<1>2. Inv /\ [Next]_vars => Inv'
  BY StepInv
<1> QED BY <1>1, <1>2, PTL DEF Spec

(* library_files, the matches and the folders' hashes keep their types, whatever the disk,
   the user and the faults do between the steps of a task: no two rows share an id, also
   after a relocation that was refused, and no match names a row that was folded or deleted
   (_UPSERT_SQL and relocate in library_files.py, merge_into, _release_matches). *)
THEOREM TypeCorrect == Spec => []TypeOK
<1>1. Inv => TypeOK
  BY DEF Inv, StorageInv, TablesInv, FoldersInv, JobInv, Sound, TypeOK, Shows, Tables, Matches,
         Known, Apart, StagedHashes, Jobs
<1> QED BY <1>1, InvHolds, PTL

(* A path that is as a scan last found it has the row that scan gave it, through moves that
   hand rows from path to path, refused rows, chunks that roll back, folds and purges
   (scan_folder_incrementally, adopt_moved_row, _run_scan, apply_missing_file_moves). *)
THEOREM RowsAgree == Spec => []RowsAgreeWithLastScan
<1>1. Inv => RowsAgreeWithLastScan
  <2> SUFFICES ASSUME Inv, NEW p \in Paths, seen[p] = disk[p] PROVE RowAgrees(p)
    BY DEF RowsAgreeWithLastScan
  <2>1. ToldOf(rows, seen, p) /\ disk[p] \in Versions \cup {None}
    BY DEF Inv, TablesInv, Sound, Told, StorageInv, Shows
  <2> QED BY <2>1, NoneAssumption DEF ToldOf, RowAgrees
<1> QED BY <1>1, InvHolds, PTL

(* A stored fingerprint is that of the bytes whose size and mtime its row holds, unless the
   file was away when its audio was read and came back as it was: _backfill_one's second
   stat and set_audio_hash's guard suffice for everything else. *)
THEOREM HashesFollowFiles == Spec => []HashIsOfItsFile
<1>1. Inv => HashIsOfItsFile
  BY DEF Inv, TablesInv, Sound, HashesTrue, HashIsOfItsFile, Swapped
<1> QED BY <1>1, InvHolds, PTL

\* The worker changes matches in two places.
LEMMA MatchesMove ==
  ASSUME Next, job' # job
  PROVE  UNCHANGED match \/ ApplyMoves \/ Purge
<1>1. CASE Polling
  BY <1>1 DEF Polling, PollFirstRun, Poll, HandOff, tables
<1>2. CASE FolderScan
  BY <1>2 DEF FolderScan, StartFolderScan, ScanLockHeld, VisitFolder, CommitHashes, tables
<1>3. CASE FullScan
  BY <1>3 DEF FullScan, StartFullScan, ReadChunk, EndWalk, GroupWritten, tables
<1>4. CASE Reconcile
  BY <1>4 DEF Reconcile, Plan, SkipPurge, tables
<1>5. CASE Backfill
  BY <1>5 DEF Backfill, StartHash, HashAudio, PinHash, tables
<1>6. CASE Faults
  BY <1>6 DEF Faults, HandOffFails, ScanRaises, ReconcileFails, Crash, tables
<1>7. CASE User
  BY <1>7 DEF User, RequestScan, RemapMissing, DeleteMissing
<1>8. CASE Storage \/ Clock
  BY <1>8 DEF Storage, WriteFile, RemoveFile, MoveFile, CopyFile, Edit, DropFolder, Unplug,
              Clock, HourPasses, SessionEnds, StorageReturns, tables
<1> QED BY <1>1, <1>2, <1>3, <1>4, <1>5, <1>6, <1>7, <1>8 DEF Next, Worker

\* A match's row is the one with its id.
LEMMA LostIs ==
  ASSUME NEW table, Apart(table), NEW p \in Filled(table), NEW id, table[p].id = id
  PROVE  (CHOOSE q \in Filled(table) : table[q].id = id) = p
BY DEF Apart

Follows(s) ==
  LET lost == CHOOSE p \in Filled(rows) : rows[p].id = match[s] IN
  IF match'[s] # None
  THEN \E c \in Present(rows) : rows[c].id = match'[s] /\ IsSameTrack(rows[lost], rows[c])
  ELSE \A c \in Present(rows) :
         /\ TagsOf[rows[c].stat] # TagsOf[rows[lost].stat]
         /\ rows[lost].hash # None /\ ~Swapped(c) => AudioOf[rows[c].stat] # rows[lost].hash

LEMMA FoldFollows ==
  ASSUME Inv, ApplyMoves, NEW s \in Songs, match'[s] # match[s]
  PROVE  Follows(s)
<1>1. /\ Sound(rows, seen, swapped) /\ rows \in Tables /\ Apart(rows)
      /\ match \in Matches /\ Known(match, rows)
  BY DEF Inv, TablesInv, Sound
<1>2. PICK refused \in SUBSET job.plan :
        match' = Repointed(match, {m \in job.plan \ refused : Foldable(rows, m)})
  BY DEF ApplyMoves
<1> DEFINE moves == {m \in job.plan \ refused : Foldable(rows, m)}
<1>3. \E v \in moves : v[1] = match[s] /\ match'[s] = v[2]
  <2>1. match' = Repointed(match, moves)
    BY <1>2
  <2> HIDE DEF moves
  <2>2. \A t \in Songs : Repointed(match, moves)[t] # match[t] =>
          \E v \in moves : v[1] = match[t] /\ Repointed(match, moves)[t] = v[2]
    BY <1>1 DEF Repointed, Matches
  <2> QED BY <2>1, <2>2
<1>4. PICK v \in job.plan : Foldable(rows, v) /\ v[1] = match[s] /\ match'[s] = v[2]
  BY <1>3
<1>5. PICK p \in Missing(rows), c \in Present(rows) : rows[p].id = v[1] /\ rows[c].id = v[2]
  BY <1>4 DEF Foldable, IdsOf
<1>6. p \in Filled(rows) /\ c \in Filled(rows)
  BY DEF Missing, Present
<1>7. IsSameTrack(rows[p], rows[c])
  BY <1>4, <1>5, <1>6 DEF ApplyMoves, Inv, JobInv, PlanHolds, OneTrack
<1>8. (CHOOSE q \in Filled(rows) : rows[q].id = match[s]) = p
  BY <1>1, <1>4, <1>5, <1>6, LostIs
<1>9. match'[s] # None
  BY <1>1, <1>4, <1>5, <1>6, Fields, NoneAssumption
<1> QED BY <1>4, <1>5, <1>7, <1>8, <1>9 DEF Follows

LEMMA PurgeFollows ==
  ASSUME Inv, Purge, NEW s \in Songs, match'[s] # match[s]
  PROVE  Follows(s)
<1>1. /\ Sound(rows, seen, swapped) /\ rows \in Tables /\ Apart(rows)
      /\ match \in Matches /\ Known(match, rows) /\ HashesTrue(rows, swapped)
  BY DEF Inv, TablesInv, Sound
<1> DEFINE unreadable == IF mounted THEN dark ELSE {}
           S == SelectPurge(rows, OnDisk, unreadable)
<1>2. match' = Released(match, IdsOf(rows, S))
  BY DEF Purge
<1>3. match'[s] = None /\ match[s] \in IdsOf(rows, S)
  <2> HIDE DEF S
  <2> QED BY <1>1, <1>2 DEF Released, Matches
<1>4. PICK p \in S : rows[p].id = match[s]
  BY <1>3 DEF IdsOf
<1>5. p \in Filled(rows) /\ p \in UnreplacedRows(rows)
  BY <1>4 DEF SelectPurge, UnreplacedRows, Missing
<1>6. (CHOOSE q \in Filled(rows) : rows[q].id = match[s]) = p
  BY <1>1, <1>4, <1>5, LostIs
<1>7. ASSUME NEW c \in Present(rows)
      PROVE  /\ TagsOf[rows[c].stat] # TagsOf[rows[p].stat]
             /\ rows[p].hash # None /\ ~Swapped(c) => AudioOf[rows[c].stat] # rows[p].hash
  <2>1. ~IsSameTrack(rows[p], rows[c])
    BY <1>5 DEF UnreplacedRows
  <2>2. ASSUME rows[p].hash # None, ~Swapped(c) PROVE AudioOf[rows[c].stat] # rows[p].hash
    <3>1. rows[c].hash # None
      BY <1>4, <2>2 DEF SelectPurge
    <3>2. rows[c].hash = AudioOf[rows[c].stat]
      BY <1>1, <2>2, <3>1 DEF HashesTrue, Swapped, Present
    <3> QED BY <2>1, <2>2, <3>2 DEF IsSameTrack, SameAudio
  <2> QED BY <2>1, <2>2 DEF IsSameTrack
<1> QED BY <1>3, <1>6, <1>7 DEF Follows

(* A scan's task moves a match only to a present row of the same track, although the plan
   was made before the disk and the user went on; and it releases one only when no present
   file holds the track (plan_missing_file_moves, lock_fold_pair, select_purge). *)
THEOREM MatchesFollowTracks == Spec => MatchFollowsTrack
<1>1. Inv /\ [Next]_vars => (job' # job => \A s \in Songs : match'[s] # match[s] => Follows(s))
  <2> SUFFICES ASSUME Inv, [Next]_vars, job' # job, NEW s \in Songs, match'[s] # match[s]
               PROVE  Follows(s)
    OBVIOUS
  <2>1. Next
    BY DEF vars
  <2>2. ApplyMoves \/ Purge
    BY <2>1, MatchesMove
  <2> QED BY <2>2, FoldFollows, PurgeFollows
<1>2. Inv /\ [Next]_vars =>
        [job' # job =>
           \A s \in Songs : match'[s] # match[s] =>
             LET lost == CHOOSE p \in Filled(rows) : rows[p].id = match[s] IN
             IF match'[s] # None
             THEN \E c \in Present(rows) : rows[c].id = match'[s] /\ IsSameTrack(rows[lost], rows[c])
             ELSE \A c \in Present(rows) :
                    /\ TagsOf[rows[c].stat] # TagsOf[rows[lost].stat]
                    /\ rows[lost].hash # None /\ ~Swapped(c) => AudioOf[rows[c].stat] # rows[lost].hash]_vars
  BY <1>1 DEF Follows
<1> QED BY <1>2, InvHolds, PTL DEF Spec, MatchFollowsTrack
=============================================================================
