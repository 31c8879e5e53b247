-------------------------- MODULE Catalog_proofs --------------------------
(***************************************************************************)
(* What the catalog's tables promise for any files, works, recordings and  *)
(* songs.  Each operation of CatalogRows is shown to keep the tables sound *)
(* and to leave no match astray and no master off its work but where the   *)
(* operation says so; an action of Catalog is then one operation, or two   *)
(* in a row, and the histories strayed and raced name the exceptions.      *)
(***************************************************************************)
EXTENDS Catalog, FiniteSetTheorems, WellFoundedInduction, TLAPS

-----------------------------------------------------------------------------
(* What the tables keep by themselves, and what an operation keeps of them. *)

\* A work has one recording at most.
RecsApart(d) ==
  \A r, q \in Recs : d.rec[r] # None /\ d.rec[q] # None /\ r # q
                     /\ d.rec[r].work = d.rec[q].work => d.rec[r].work = None

\* A row names works and recordings that exist; a deleted one names none.
FilesPlaced(d) ==
  \A f \in Files :
    /\ f \notin Rows(d) => d.file[f].work = None /\ d.file[f].rec = None
    /\ d.file[f].work \in Existing(d) \cup {None}
    /\ d.file[f].rec # None => d.rec[d.file[f].rec] # None

\* So does a recording, and one made here is always of a work.
RecsPlaced(d) ==
  \A r \in Recs : d.rec[r] # None =>
    /\ d.rec[r].work \in Existing(d) \cup {None}
    /\ r \in LocalRecs => d.rec[r].work # None

OneEach(d) == \A w, v \in Works : d.work[w] = d.work[v] /\ d.work[w] \in MbWorks => w = v

MatchesKnown(d) == \A s \in Songs : d.match[s] # None => d.file[d.match[s].file].status # "none"

Sound(d) ==
  d \in Db /\ RecsApart(d) /\ FilesPlaced(d) /\ RecsPlaced(d) /\ OneEach(d) /\ MatchesKnown(d)

\* What a write of e over d leaves as it was: where the files are, that a file was once
\* found, and a manual pick whose file stays a present file of its work.
SamePlaces(d, e) ==
  \A f \in Files : e.file[f].work = d.file[f].work /\ e.file[f].status = d.file[f].status

Stays(d, e) ==
  \A f \in Files : d.file[f].status # "none" => e.file[f].status # "none"

PickKept(d, e, w) ==
  LET m == d.master[w] IN
  m # None /\ m.manual /\ m.file \in PresentOn(d, w) \cap PresentOn(e, w) => e.master[w] = m
Kept(d, e) == \A w \in Works : PickKept(d, e, w)

\* What every operation keeps; only OffWork differs from one to the next.
After(d, e) == Sound(e) /\ Stays(d, e) /\ Astray(e) \subseteq Astray(d)

LEMMA Fields ==
  ASSUME NEW d \in Db
  PROVE  /\ d.file \in [Files -> FileRow]
         /\ d.work \in [Works -> {"unmade", "gone", "local"} \cup MbWorks]
         /\ d.rec \in [Recs -> RecRow \cup {None}]
         /\ d.master \in [Works -> [file : Files, manual : BOOLEAN] \cup {None}]
         /\ d.override \in [Works -> Files \cup {None}]
         /\ d.match \in [Songs -> [file : Files, work : Works \cup {None}] \cup {None}]
BY DEF Db

LEMMA KeptAfter ==
  ASSUME NEW d, NEW e, NEW c, Kept(d, e), Kept(e, c), SamePlaces(d, e) \/ SamePlaces(e, c)
  PROVE  Kept(d, c)
<1> SUFFICES ASSUME NEW w \in Works, d.master[w] # None, d.master[w].manual,
                    d.master[w].file \in PresentOn(d, w), d.master[w].file \in PresentOn(c, w)
             PROVE  c.master[w] = d.master[w]
  BY DEF Kept, PickKept
<1>1. d.master[w].file \in PresentOn(e, w)
  BY DEF SamePlaces, PresentOn, FilesOn, Rows
<1>2. e.master[w] = d.master[w]
  BY <1>1 DEF Kept, PickKept
<1> QED BY <1>1, <1>2 DEF Kept, PickKept

\* Induction on files and sets of files is by a least counterexample.
LEMMA LeastSubset ==
  ASSUME NEW S, IsFiniteSet(S), NEW C, C \subseteq SUBSET S, C # {}
  PROVE  \E c \in C : \A x \in c : c \ {x} \notin C
<1> DEFINE R == StrictSubsetOrdering(S)
<1>1. IsWellFoundedOn(R, FiniteSubsetsOf(S))
  BY FS_StrictSubsetOrderingWellFounded
<1>2. C \subseteq FiniteSubsetsOf(S)
  BY FS_Subset DEF FiniteSubsetsOf
<1>3. PICK c \in C : \A d \in C : ~(<<d, c>> \in R)
  <2> HIDE DEF R
  <2> QED BY <1>1, <1>2, WFMin
<1>4. ASSUME NEW x \in c, c \ {x} \in C PROVE FALSE
  BY <1>3, <1>4 DEF StrictSubsetOrdering
<1> QED BY <1>4

LEMMA LeastNat ==
  ASSUME NEW S, S \subseteq Nat, S # {}
  PROVE  \E n \in S : \A m \in S : n <= m
<1> DEFINE R == OpToRel(<, Nat)
<1>1. IsWellFoundedOn(R, Nat)
  BY NatLessThanWellFounded, Zenon
<1>2. \A g, f \in Nat : g < f => <<g, f>> \in R
  BY DEF OpToRel
<1> HIDE DEF R
<1>3. PICK f \in S : \A g \in S : ~(<<g, f>> \in R)
  BY <1>1, WFMin
<1>4. ASSUME NEW g \in S PROVE f <= g
  <2>1. ~(g < f)
    BY <1>2, <1>3
  <2> QED BY <2>1
<1> QED BY <1>4

\* The best of some files is one of them.
LEMMA BestOf ==
  ASSUME NEW fs, fs \subseteq Files, fs # {}
  PROVE  Best(fs) \in fs
<1> DEFINE Tops == {c \in SUBSET fs : c # {} /\ \A f \in c, g \in fs \ c : g <= f}
<1>1. PICK c \in Tops : \A x \in c : c \ {x} \notin Tops
  <2>1. fs \in Tops /\ Tops \subseteq SUBSET fs /\ IsFiniteSet(fs)
    BY FilesAssumption, FS_Subset
  <2> HIDE DEF Tops
  <2> QED BY <2>1, LeastSubset
<1>2. PICK f \in c : \A g \in c : f <= g
  <2>1. c \subseteq Nat /\ c # {}
    BY <1>1, FilesAssumption
  <2> QED BY <2>1, LeastNat
<1>3. c \ {f} = {}
  <2>1. \A g \in fs \ (c \ {f}), h \in c \ {f} : g <= h
    BY <1>1, <1>2
  <2> QED BY <1>1, <2>1
<1>4. f \in fs /\ \A g \in fs : g <= f
  BY <1>1, <1>2, <1>3
<1> QED BY <1>4 DEF Best

\* _decide_master picks a file of the work.
LEMMA PickedIs ==
  ASSUME NEW d \in Db, NEW w \in Works
  PROVE  /\ Picked(d, w) \in [file : Files, manual : BOOLEAN] \cup {None}
         /\ Picked(d, w) # None => Picked(d, w).file \in FilesOn(d, w)
         /\ Picked(d, w) # None /\ d.master[w] = None => Picked(d, w).file \in PresentOn(d, w)
<1>1. PresentOn(d, w) \subseteq FilesOn(d, w) /\ FilesOn(d, w) \subseteq Files
  BY DEF PresentOn, FilesOn, Rows
<1>2. PresentOn(d, w) # {} => Best(PresentOn(d, w)) \in PresentOn(d, w)
  BY <1>1, BestOf
<1>3. CASE d.master[w] # None /\ d.master[w].manual /\ d.master[w].file \in PresentOn(d, w)
  BY <1>1, <1>3, Fields DEF Picked
<1>4. CASE ~(d.master[w] # None /\ d.master[w].manual /\ d.master[w].file \in PresentOn(d, w))
  BY <1>1, <1>2, <1>4, Fields DEF Picked, AutoMaster
<1> QED BY <1>3, <1>4

LEMMA ReselectedFields ==
  ASSUME NEW d \in Db, NEW w \in Works
  PROVE  LET e == Reselected(d, w) IN
         /\ e \in Db
         /\ e.file = d.file /\ e.work = d.work /\ e.rec = d.rec /\ e.override = d.override /\ e.match = d.match
         /\ e.master = [d.master EXCEPT ![w] = Picked(d, w)]
<1>1. Picked(d, w) \in [file : Files, manual : BOOLEAN] \cup {None}
  BY PickedIs
<1> QED BY <1>1, Fields DEF Reselected, Db

LEMMA RehomedFields ==
  ASSUME NEW d \in Db, NEW f \in Files, NEW w \in Works \cup {None}
  PROVE  LET e == Rehomed(d, f, w) IN
         /\ e \in Db
         /\ e.work = d.work /\ e.rec = d.rec /\ e.override = d.override /\ e.master = d.master
         /\ e.file = IF f \in Rows(d) THEN [d.file EXCEPT ![f].work = w] ELSE d.file
         /\ \A s \in Songs : e.match[s] # None =>
              /\ d.match[s] # None /\ e.match[s].file = d.match[s].file
              /\ e.match[s].work = IF f \in Rows(d) /\ d.match[s].file = f THEN w ELSE d.match[s].work
<1> DEFINE e == Rehomed(d, f, w)
<1>1. CASE f \in Rows(d)
  <2> DEFINE nm == [s \in Songs |-> IF s \in MatchesOf(d, f) THEN [d.match[s] EXCEPT !.work = w]
                                     ELSE d.match[s]]
             nf == [d.file EXCEPT ![f].work = w]
  <2>1. e = [d EXCEPT !.file = nf, !.match = nm]
    BY <1>1, Fields DEF Rehomed
  <2>2. nm \in [Songs -> [file : Files, work : Works \cup {None}] \cup {None}]
    BY Fields DEF MatchesOf
  <2>3. nf \in [Files -> FileRow]
    BY Fields DEF FileRow
  <2>4. \A s \in Songs : nm[s] # None =>
              /\ d.match[s] # None /\ nm[s].file = d.match[s].file
              /\ nm[s].work = IF d.match[s].file = f THEN w ELSE d.match[s].work
    BY Fields DEF MatchesOf
  <2> HIDE DEF nm, nf
  <2>5. /\ e \in Db
        /\ e.work = d.work /\ e.rec = d.rec /\ e.override = d.override /\ e.master = d.master
        /\ e.file = nf /\ e.match = nm
    BY <2>1, <2>2, <2>3 DEF Db
  <2> QED BY <1>1, <2>4, <2>5 DEF nf
<1>2. CASE f \notin Rows(d)
  BY <1>2 DEF Rehomed
<1> QED BY <1>1, <1>2

-----------------------------------------------------------------------------
(* Moving a file: the master is picked again, the matches follow, the work left is settled. *)

\* A write that changes masters only.
LEMMA MastersOnly ==
  ASSUME NEW d, Sound(d), NEW e \in Db,
         e.file = d.file, e.work = d.work, e.rec = d.rec, e.match = d.match
  PROVE  /\ After(d, e) /\ SamePlaces(d, e) /\ Existing(e) = Existing(d) /\ Unmade(e) = Unmade(d)
         /\ \A w \in Works : FilesOn(e, w) = FilesOn(d, w) /\ PresentOn(e, w) = PresentOn(d, w)
         /\ Rows(e) = Rows(d)
<1>1. Existing(e) = Existing(d) /\ Unmade(e) = Unmade(d) /\ Rows(e) = Rows(d) /\ Astray(e) = Astray(d)
  BY DEF Existing, Unmade, Rows, Astray
<1>2. \A w \in Works : FilesOn(e, w) = FilesOn(d, w) /\ PresentOn(e, w) = PresentOn(d, w)
  BY <1>1 DEF FilesOn, PresentOn
<1>3. Sound(e)
  BY <1>1 DEF Sound, RecsApart, FilesPlaced, RecsPlaced, OneEach, MatchesKnown
<1> QED BY <1>1, <1>2, <1>3 DEF After, SamePlaces, Stays

\* reselect: the master it writes is on its work, so the work is no longer off.
LEMMA ReselectedKeeps ==
  ASSUME NEW d, Sound(d), NEW w \in Works
  PROVE  LET e == Reselected(d, w) IN
         /\ After(d, e) /\ SamePlaces(d, e) /\ Kept(d, e)
         /\ Existing(e) = Existing(d) /\ Unmade(e) = Unmade(d)
         /\ OffWork(e) \subseteq OffWork(d) \ {w}
<1> DEFINE e == Reselected(d, w)
<1> USE DEF Sound
<1>1. /\ e \in Db
      /\ e.file = d.file /\ e.work = d.work /\ e.rec = d.rec /\ e.match = d.match
      /\ e.master = [d.master EXCEPT ![w] = Picked(d, w)]
  BY ReselectedFields
<1>2. \A v \in Works : e.master[v] = IF v = w THEN Picked(d, w) ELSE d.master[v]
  BY <1>1, Fields
<1> HIDE DEF e
<1>3. /\ After(d, e) /\ SamePlaces(d, e) /\ Existing(e) = Existing(d) /\ Unmade(e) = Unmade(d)
      /\ \A v \in Works : FilesOn(e, v) = FilesOn(d, v) /\ PresentOn(e, v) = PresentOn(d, v)
  BY <1>1, MastersOnly
<1>4. Kept(d, e)
  BY <1>2, <1>3 DEF Kept, PickKept, Picked
<1>5. Picked(d, w) # None => Picked(d, w).file \in FilesOn(d, w)
  BY PickedIs
<1>6. OffWork(e) \subseteq OffWork(d) \ {w}
  BY <1>2, <1>3, <1>5 DEF OffWork
<1> QED BY <1>3, <1>4, <1>6 DEF e

\* update_work_id with move_to_work: the file's matches follow, the master of the work it
\* left may be off, the master of the work it comes to is not.
LEMMA RehomedKeeps ==
  ASSUME NEW d, Sound(d), NEW f \in Files, NEW w \in Existing(d) \cup {None}
  PROVE  LET e == Rehomed(d, f, w) IN
         /\ After(d, e) /\ Kept(d, e)
         /\ Existing(e) = Existing(d) /\ Unmade(e) = Unmade(d)
         /\ OffWork(e) \subseteq OffWork(d) \cup ({d.file[f].work} \ {w})
         /\ f \in Rows(d) /\ d.master[w] # None /\ d.master[w].file = f => w \notin OffWork(e)
         /\ \A s \in Astray(e) : d.match[s].file = e.match[s].file /\ (f \in Rows(d) => e.match[s].file # f)
         /\ \A g \in Files : e.file[g] = IF g = f /\ f \in Rows(d) THEN [d.file[g] EXCEPT !.work = w]
                                         ELSE d.file[g]
         /\ e.master = d.master /\ e.override = d.override /\ e.rec = d.rec /\ e.work = d.work
<1> DEFINE e == Rehomed(d, f, w)
<1> USE DEF Sound
<1>0. w \in Works \cup {None}
  BY DEF Existing
<1>1. /\ e \in Db
      /\ e.work = d.work /\ e.rec = d.rec /\ e.override = d.override /\ e.master = d.master
      /\ e.file = IF f \in Rows(d) THEN [d.file EXCEPT ![f].work = w] ELSE d.file
      /\ \A s \in Songs : e.match[s] # None =>
           /\ d.match[s] # None /\ e.match[s].file = d.match[s].file
           /\ e.match[s].work = IF f \in Rows(d) /\ d.match[s].file = f THEN w ELSE d.match[s].work
  BY <1>0, RehomedFields
<1> HIDE DEF e
<1>2. \A g \in Files :
        /\ e.file[g].status = d.file[g].status /\ e.file[g].rec = d.file[g].rec
        /\ e.file[g].work = IF g = f /\ f \in Rows(d) THEN w ELSE d.file[g].work
        /\ e.file[g] = IF g = f /\ f \in Rows(d) THEN [d.file[g] EXCEPT !.work = w] ELSE d.file[g]
  BY <1>1, <1>0, Fields DEF FileRow
<1>3. Existing(e) = Existing(d) /\ Unmade(e) = Unmade(d) /\ Rows(e) = Rows(d)
  BY <1>1, <1>2 DEF Existing, Unmade, Rows
<1>4. \A s \in Songs : d.match[s] # None => d.match[s].file \in Files
  BY Fields
<1>5. Sound(e)
  <2>1. RecsApart(e) /\ RecsPlaced(e) /\ OneEach(e)
    BY <1>1, <1>3 DEF RecsApart, RecsPlaced, OneEach
  <2>2. FilesPlaced(e)
    BY <1>1, <1>2, <1>3 DEF FilesPlaced
  <2>3. MatchesKnown(e)
    BY <1>1, <1>2, <1>4 DEF MatchesKnown
  <2> QED BY <2>1, <2>2, <2>3, <1>1
<1>6. Stays(d, e)
  BY <1>2 DEF Stays
<1>7. Astray(e) \subseteq Astray(d)
  BY <1>1, <1>2, <1>3, <1>4 DEF Astray
<1>8. Kept(d, e)
  BY <1>1 DEF Kept, PickKept
<1>9. OffWork(e) \subseteq OffWork(d) \cup ({d.file[f].work} \ {w})
  BY <1>1, <1>2, <1>3 DEF OffWork, FilesOn
<1>10. f \in Rows(d) /\ d.master[w] # None /\ d.master[w].file = f => w \notin OffWork(e)
  BY <1>1, <1>2, <1>3 DEF OffWork, FilesOn
<1>11. \A s \in Astray(e) : d.match[s].file = e.match[s].file /\ (f \in Rows(d) => e.match[s].file # f)
  BY <1>1, <1>2 DEF Astray
<1> QED BY <1>1, <1>2, <1>3, <1>5, <1>6, <1>7, <1>8, <1>9, <1>10, <1>11 DEF After, e

\* delete_if_empty leaves nothing that names the work.
LEMMA DeletedIfEmptyKeeps ==
  ASSUME NEW d, Sound(d), NEW w \in Works
  PROVE  LET e == DeletedIfEmpty(d, w) IN
         /\ After(d, e) /\ Kept(d, e) /\ e.file = d.file /\ e.rec = d.rec
         /\ Unmade(e) = Unmade(d) /\ Existing(d) \ {w} \subseteq Existing(e)
         /\ OffWork(e) \subseteq OffWork(d)
         /\ w \in Existing(d) /\ Unreferenced(d, w) => w \notin OffWork(e)
<1> DEFINE e == DeletedIfEmpty(d, w)
<1> USE DEF Sound
<1>1. CASE w \in Existing(d) /\ Unreferenced(d, w)
  <2> DEFINE works == [d.work EXCEPT ![w] = "gone"]
             masters == [d.master EXCEPT ![w] = None]
  <2>1. e = [d EXCEPT !.work = works, !.master = masters]
    BY <1>1 DEF DeletedIfEmpty
  <2>2. /\ e \in Db
        /\ e.file = d.file /\ e.rec = d.rec /\ e.match = d.match
        /\ e.work = [d.work EXCEPT ![w] = "gone"] /\ e.master = [d.master EXCEPT ![w] = None]
    <3>1. /\ works \in [Works -> {"unmade", "gone", "local"} \cup MbWorks]
          /\ masters \in [Works -> [file : Files, manual : BOOLEAN] \cup {None}]
      BY Fields
    <3> HIDE DEF works, masters
    <3>2. e \in Db /\ e.file = d.file /\ e.rec = d.rec /\ e.match = d.match
          /\ e.work = works /\ e.master = masters
      BY <2>1, <3>1 DEF Db
    <3> QED BY <3>2 DEF works, masters
  <2>3. \A v \in Works : /\ e.work[v] = IF v = w THEN "gone" ELSE d.work[v]
                         /\ e.master[v] = IF v = w THEN None ELSE d.master[v]
    BY <2>2, Fields
  <2> HIDE DEF e
  <2>4. /\ Rows(e) = Rows(d) /\ Unmade(e) = Unmade(d) /\ Existing(e) = Existing(d) \ {w}
        /\ Astray(e) = Astray(d)
        /\ \A v \in Works : FilesOn(e, v) = FilesOn(d, v) /\ PresentOn(e, v) = PresentOn(d, v)
    <3>1. Rows(e) = Rows(d) /\ Astray(e) = Astray(d)
      BY <2>2 DEF Rows, Astray
    <3>2. Unmade(e) = Unmade(d) /\ Existing(e) = Existing(d) \ {w}
      BY <1>1, <2>3 DEF Unmade, Existing
    <3>3. \A v \in Works : FilesOn(e, v) = FilesOn(d, v) /\ PresentOn(e, v) = PresentOn(d, v)
      BY <2>2, <3>1 DEF FilesOn, PresentOn
    <3> QED BY <3>1, <3>2, <3>3
  <2>5. FilesOn(d, w) = {} /\ RecsOf(d, w) = {}
    BY <1>1 DEF Unreferenced
  <2>6. Sound(e)
    <3>1. RecsApart(e) /\ MatchesKnown(e)
      BY <2>2 DEF RecsApart, MatchesKnown
    <3>2. OneEach(e)
      BY <2>3, KindsAssumption DEF OneEach
    <3>3. FilesPlaced(e)
      BY <2>2, <2>4, <2>5 DEF FilesPlaced, FilesOn
    <3>4. RecsPlaced(e)
      BY <2>2, <2>4, <2>5 DEF RecsPlaced, RecsOf
    <3> QED BY <2>2, <3>1, <3>2, <3>3, <3>4
  <2>7. Kept(d, e)
    BY <2>3, <2>4, <2>5 DEF Kept, PickKept, PresentOn
  <2>8. OffWork(e) \subseteq OffWork(d) \ {w}
    BY <2>3, <2>4 DEF OffWork
  <2> QED BY <2>2, <2>4, <2>6, <2>7, <2>8 DEF e, After, Stays
<1>2. CASE ~(w \in Existing(d) /\ Unreferenced(d, w))
  <2>1. e = d
    BY <1>2 DEF DeletedIfEmpty
  <2> QED BY <1>2, <2>1 DEF After, Stays, Kept, PickKept
<1> QED BY <1>1, <1>2

LEMMA SettledKeeps ==
  ASSUME NEW d, Sound(d), NEW w \in Works
  PROVE  LET e == Settled(d, w) IN
         /\ After(d, e) /\ Kept(d, e) /\ e.file = d.file /\ e.rec = d.rec
         /\ Unmade(e) = Unmade(d) /\ Existing(d) \ {w} \subseteq Existing(e)
         /\ OffWork(e) \subseteq OffWork(d)
         /\ w \in Existing(d) => w \notin OffWork(e)
<1>1. Reselected(d, w).file = d.file /\ Reselected(d, w).rec = d.rec
  BY ReselectedFields DEF Sound
<1>2. CASE Unreferenced(d, w)
  BY <1>2, DeletedIfEmptyKeeps DEF Settled
<1>3. CASE ~Unreferenced(d, w)
  BY <1>1, <1>3, ReselectedKeeps DEF Settled
<1> QED BY <1>2, <1>3

LEMMA AfterAfter ==
  ASSUME NEW d, NEW e, NEW c, After(d, e), After(e, c)
  PROVE  After(d, c)
BY DEF After, Stays

\* move_file_to_work settles the work the file was read on: the only work that may be off
\* afterwards is the one the file was really on, if that is another.
LEMMA MovedKeeps ==
  ASSUME NEW d, Sound(d), NEW f \in Files, NEW prev \in Works \cup {None}, NEW w \in Existing(d)
  PROVE  LET e == Moved(d, f, prev, w) IN
         /\ After(d, e) /\ Kept(d, e) /\ Unmade(e) = Unmade(d) /\ w \in Existing(e)
         /\ \A g \in Files :
              e.file[g] = IF g = f /\ f \in Rows(d) /\ prev # w THEN [d.file[g] EXCEPT !.work = w]
                          ELSE d.file[g]
         /\ e.rec = d.rec
         /\ OffWork(e) \subseteq OffWork(d) \cup ({d.file[f].work} \ {prev})
<1> DEFINE h == Rehomed(d, f, w)
           r == Reselected(h, w)
           e == Moved(d, f, prev, w)
<1>0. w \in Works
  BY DEF Existing
<1>1. /\ After(d, h) /\ Kept(d, h) /\ Existing(h) = Existing(d) /\ Unmade(h) = Unmade(d)
      /\ OffWork(h) \subseteq OffWork(d) \cup {d.file[f].work}
      /\ \A g \in Files : h.file[g] = IF g = f /\ f \in Rows(d) THEN [d.file[g] EXCEPT !.work = w]
                                      ELSE d.file[g]
      /\ h.rec = d.rec
  BY RehomedKeeps
<1>2. Sound(h)
  BY <1>1 DEF After
<1> HIDE DEF h
<1>3. /\ After(h, r) /\ SamePlaces(h, r) /\ Kept(h, r)
      /\ Existing(r) = Existing(h) /\ Unmade(r) = Unmade(h) /\ OffWork(r) \subseteq OffWork(h)
  BY <1>0, <1>2, ReselectedKeeps
<1>4. r.file = h.file /\ r.rec = h.rec
  BY <1>0, <1>2, ReselectedFields DEF Sound
<1> HIDE DEF r
<1>5. After(d, r) /\ Kept(d, r) /\ Sound(r)
  BY <1>1, <1>3, AfterAfter, KeptAfter DEF After
<1>6. CASE prev = w
  BY <1>6 DEF Moved, After, Kept, PickKept, Stays
<1>7. CASE prev # w /\ prev = None
  <2>1. e = r
    BY <1>7 DEF Moved, h, r
  <2> QED BY <1>1, <1>3, <1>4, <1>5, <1>7, <2>1, NoneAssumption DEF OffWork
<1>8. CASE prev # w /\ prev # None
  <2>1. e = Settled(r, prev) /\ prev \in Works
    BY <1>8 DEF Moved, h, r
  <2>2. /\ After(r, e) /\ Kept(r, e) /\ e.file = r.file /\ e.rec = r.rec
        /\ Unmade(e) = Unmade(r) /\ Existing(r) \ {prev} \subseteq Existing(e)
        /\ OffWork(e) \subseteq OffWork(r)
        /\ prev \in Existing(r) => prev \notin OffWork(e)
    BY <2>1, <1>5, SettledKeeps
  <2>3. d.file[f].work = prev => prev \in Existing(r)
    BY <1>1, <1>3, <2>1, NoneAssumption DEF Sound, FilesPlaced
  <2>4. OffWork(e) \subseteq OffWork(d) \cup ({d.file[f].work} \ {prev})
    BY <1>1, <1>3, <2>2, <2>3
  <2>5. After(d, e) /\ Kept(d, e)
    BY <1>5, <2>2, AfterAfter, KeptAfter DEF SamePlaces
  <2> HIDE DEF e
  <2>6. w \in Existing(e)
    BY <1>1, <1>3, <1>8, <2>2
  <2>7. \A g \in Files : e.file[g] = h.file[g]
    BY <1>4, <2>2
  <2>8. Unmade(e) = Unmade(d) /\ e.rec = d.rec
    BY <1>1, <1>3, <1>4, <2>2
  <2> QED BY <1>1, <1>8, <2>4, <2>5, <2>6, <2>7, <2>8 DEF e
<1> QED BY <1>6, <1>7, <1>8

-----------------------------------------------------------------------------
(* Grouping and enrichment: recordings and links, which move no file. *)

\* A write that moves no file, and sets neither a match nor a master.
Aside(d, e) == SamePlaces(d, e) /\ e.match = d.match /\ e.master = d.master

LEMMA AsideKeeps ==
  ASSUME NEW d, d \in Db, NEW e, Aside(d, e)
  PROVE  /\ Stays(d, e) /\ Astray(e) = Astray(d) /\ OffWork(e) = OffWork(d) /\ Kept(d, e)
         /\ Rows(e) = Rows(d)
<1>1. Rows(e) = Rows(d)
  BY DEF Aside, SamePlaces, Rows
<1>2. Stays(d, e) /\ Kept(d, e)
  BY DEF Aside, SamePlaces, Stays, Kept, PickKept
<1>3. \A w \in Works : FilesOn(e, w) = FilesOn(d, w)
  BY <1>1 DEF Aside, SamePlaces, FilesOn, Rows
<1>4. OffWork(e) = OffWork(d)
  BY <1>3 DEF Aside, OffWork
<1>5. Astray(e) = Astray(d)
  BY <1>1 DEF Aside, Astray, SamePlaces, Rows
<1> QED BY <1>1, <1>2, <1>4, <1>5

LEMMA LinkedKeeps ==
  ASSUME NEW d, Sound(d), NEW f \in Files, NEW r \in Recs \cup {None}, r # None => d.rec[r] # None,
         NEW status \in {"pending", "enriched", "failed"}
  PROVE  LET e == Linked(d, f, r, status) IN
         Sound(e) /\ Aside(d, e) /\ e.work = d.work /\ e.rec = d.rec
<1> DEFINE e == Linked(d, f, r, status)
<1> USE DEF Sound
<1>1. CASE f \in Rows(d)
  <2> DEFINE files == [d.file EXCEPT ![f].rec = r, ![f].enriched = status]
  <2>1. e = [d EXCEPT !.file = files]
    BY <1>1, Fields DEF Linked
  <2>2. files \in [Files -> FileRow]
    BY Fields DEF FileRow
  <2>3. \A g \in Files : /\ files[g].work = d.file[g].work /\ files[g].status = d.file[g].status
                         /\ files[g].rec = IF g = f THEN r ELSE d.file[g].rec
    BY Fields DEF FileRow
  <2> HIDE DEF files
  <2>4. /\ e \in Db /\ e.file = files
        /\ e.work = d.work /\ e.rec = d.rec /\ e.match = d.match /\ e.master = d.master
    BY <2>1, <2>2 DEF Db
  <2> HIDE DEF e
  <2>5. Aside(d, e) /\ Rows(e) = Rows(d) /\ Existing(e) = Existing(d)
    BY <2>3, <2>4 DEF Aside, SamePlaces, Rows, Existing
  <2>6. RecsApart(e) /\ RecsPlaced(e) /\ OneEach(e)
    BY <2>4, <2>5 DEF RecsApart, RecsPlaced, OneEach
  <2>7. FilesPlaced(e)
    BY <1>1, <2>3, <2>4, <2>5 DEF FilesPlaced
  <2>8. MatchesKnown(e)
    BY <2>3, <2>4, Fields DEF MatchesKnown
  <2> QED BY <2>4, <2>5, <2>6, <2>7, <2>8 DEF e
<1>2. CASE f \notin Rows(d)
  BY <1>2 DEF Linked, Aside, SamePlaces
<1> QED BY <1>1, <1>2

\* A work without a recording leaves an id for one.
LEMMA FreeRec ==
  ASSUME NEW d, Sound(d), NEW w \in Works, RecsOf(d, w) = {}
  PROVE  NewRec(d) \in LocalRecs /\ d.rec[NewRec(d)] = None
<1>1. SUFFICES ASSUME \A r \in LocalRecs : d.rec[r] # None PROVE FALSE
  BY DEF NewRec
<1> DEFINE on == [r \in LocalRecs |-> d.rec[r].work]
<1>2. \A r \in LocalRecs : on[r] \in Works \ {w}
  <2> TAKE r \in LocalRecs
  <2>1. r \in Recs /\ d.rec[r] # None
    BY <1>1 DEF Recs
  <2>2. d.rec[r].work \in Existing(d) /\ d.rec[r].work # w
    BY <2>1 DEF Sound, RecsPlaced, RecsOf
  <2> QED BY <2>2 DEF Existing
<1>3. ASSUME NEW r \in LocalRecs, NEW q \in LocalRecs, on[r] = on[q] PROVE r = q
  <2>1. r \in Recs /\ q \in Recs /\ d.rec[r] # None /\ d.rec[q] # None
    BY <1>1 DEF Recs
  <2>2. d.rec[r].work = d.rec[q].work /\ d.rec[r].work # None
    BY <1>2, <1>3, NoneAssumption
  <2> QED BY <2>1, <2>2 DEF Sound, RecsApart
<1>4. on \in Injection(LocalRecs, Works \ {w})
  <2>1. on \in [LocalRecs -> Works \ {w}]
    BY <1>2
  <2> HIDE DEF on
  <2> QED BY <2>1, <1>3 DEF Injection, IsInjective
<1>5. IsFiniteSet(Works \ {w}) /\ Cardinality(Works \ {w}) = Cardinality(Works) - 1
  BY IdsAssumption, FS_RemoveElement
<1>6. Cardinality(LocalRecs) <= Cardinality(Works \ {w})
  BY <1>4, <1>5, FS_Injection
<1>7. Cardinality(Works) \in Nat /\ Cardinality(LocalRecs) \in Nat
  BY IdsAssumption, FS_CardinalityType
<1> QED BY <1>5, <1>6, <1>7, IdsAssumption

\* What a write of the recordings must keep.
LEMMA RecsOnly ==
  ASSUME NEW d, Sound(d), NEW rows, rows \in [Recs -> RecRow \cup {None}],
         \A r, q \in Recs : rows[r] # None /\ rows[q] # None /\ r # q /\ rows[r].work = rows[q].work
                            => rows[r].work = None,
         \A r \in Recs : rows[r] # None => /\ rows[r].work \in Existing(d) \cup {None}
                                           /\ r \in LocalRecs => rows[r].work # None,
         \A f \in Files : d.file[f].rec # None => rows[d.file[f].rec] # None
  PROVE  LET e == [d EXCEPT !.rec = rows] IN
         /\ Sound(e) /\ Aside(d, e) /\ e.file = d.file /\ e.work = d.work /\ e.override = d.override
         /\ e.rec = rows
<1> DEFINE e == [d EXCEPT !.rec = rows]
<1>1. /\ e \in Db /\ e.file = d.file /\ e.work = d.work /\ e.override = d.override
      /\ e.rec = rows /\ e.match = d.match /\ e.master = d.master
  BY DEF Db, Sound
<1> HIDE DEF e
<1>2. Aside(d, e) /\ Rows(e) = Rows(d) /\ Existing(e) = Existing(d)
  BY <1>1 DEF Aside, SamePlaces, Rows, Existing
<1>3. RecsApart(e) /\ RecsPlaced(e) /\ FilesPlaced(e)
  BY <1>1, <1>2 DEF Sound, RecsApart, RecsPlaced, FilesPlaced
<1>4. OneEach(e) /\ MatchesKnown(e)
  BY <1>1 DEF Sound, OneEach, MatchesKnown
<1> QED BY <1>1, <1>2, <1>3, <1>4 DEF e, Sound

LEMMA LocalRecKeeps ==
  ASSUME NEW d, Sound(d), NEW w \in Existing(d)
  PROVE  LET e == WithLocalRec(d, w) IN
         /\ Sound(e) /\ Aside(d, e) /\ e.file = d.file /\ e.work = d.work /\ e.override = d.override
         /\ LocalRec(d, w) \in Recs /\ e.rec[LocalRec(d, w)] # None
         /\ RecsOf(d, w) = {} => LocalRec(d, w) = NewRec(d)
<1> DEFINE e == WithLocalRec(d, w)
<1>1. CASE RecsOf(d, w) # {}
  <2>1. LocalRec(d, w) \in RecsOf(d, w)
    BY <1>1 DEF LocalRec
  <2> QED BY <1>1, <2>1 DEF WithLocalRec, RecsOf, Aside, SamePlaces
<1>2. CASE RecsOf(d, w) = {}
  <2> DEFINE n == NewRec(d)
             row == [work |-> w, todo |-> FALSE]
             rows == [d.rec EXCEPT ![n] = row]
  <2>1. n \in LocalRecs /\ n \in Recs /\ d.rec[n] = None /\ w \in Works
    BY <1>2, FreeRec DEF Existing, Recs
  <2>2. row \in RecRow /\ row # None /\ row.work = w
    <3>1. row \in RecRow /\ row.work = w
      BY <2>1 DEF RecRow
    <3> QED BY <3>1, RowAssumption
  <2>3. e = [d EXCEPT !.rec = rows] /\ LocalRec(d, w) = n
    BY <1>2 DEF WithLocalRec, LocalRec
  <2> HIDE DEF n, row
  <2>4. /\ rows \in [Recs -> RecRow \cup {None}]
        /\ \A r \in Recs : rows[r] = IF r = n THEN row ELSE d.rec[r]
    BY <2>1, <2>2, Fields DEF Sound
  <2> HIDE DEF rows
  <2>5. \A r \in Recs : d.rec[r] # None => d.rec[r].work # w
    BY <1>2 DEF RecsOf
  <2>6. \A r, q \in Recs : rows[r] # None /\ rows[q] # None /\ r # q /\ rows[r].work = rows[q].work
                            => rows[r].work = None
    BY <2>2, <2>4, <2>5 DEF Sound, RecsApart
  <2>7. \A r \in Recs : rows[r] # None => /\ rows[r].work \in Existing(d) \cup {None}
                                          /\ r \in LocalRecs => rows[r].work # None
    BY <2>1, <2>2, <2>4, NoneAssumption DEF Sound, RecsPlaced
  <2>8. \A f \in Files : d.file[f].rec # None => rows[d.file[f].rec] # None
    BY <2>1, <2>2, <2>4, Fields DEF Sound, FilesPlaced, FileRow
  <2> QED BY <2>1, <2>2, <2>3, <2>4, <2>6, <2>7, <2>8, RecsOnly DEF n
<1> QED BY <1>1, <1>2

LEMMA NewWorkIs ==
  ASSUME NEW d, Unmade(d) # {}
  PROVE  NewWork(d) \in Works /\ d.work[NewWork(d)] = "unmade"
<1>1. NewWork(d) \in Unmade(d)
  BY DEF NewWork
<1> QED BY <1>1 DEF Unmade

LEMMA Placed ==
  ASSUME NEW d, Sound(d), NEW w \in Works, w \notin Existing(d)
  PROVE  FilesOn(d, w) = {} /\ PresentOn(d, w) = {} /\ RecsOf(d, w) = {}
BY NoneAssumption DEF Sound, FilesPlaced, RecsPlaced, FilesOn, PresentOn, RecsOf, Rows

\* _create_local_work: the new work has a master before its file is there.
LEMMA LocalWorkKeeps ==
  ASSUME NEW d, Sound(d), NEW f \in Files, Unmade(d) # {}
  PROVE  LET e == WithLocalWork(d, f)
             w == NewWork(d) IN
         /\ Sound(e) /\ SamePlaces(d, e) /\ Stays(d, e) /\ Kept(d, e) /\ Astray(e) = Astray(d)
         /\ w \in Existing(e) /\ Existing(d) \subseteq Existing(e) \ {w} /\ Unmade(e) = Unmade(d) \ {w}
         /\ OffWork(e) \subseteq OffWork(d) \cup {w}
         /\ e.master[w].file = f /\ e.file = d.file /\ e.rec = d.rec
         /\ RecsOf(e, w) = {} /\ e.work[w] = "local"
<1> DEFINE e == WithLocalWork(d, f)
           w == NewWork(d)
           works == [d.work EXCEPT ![w] = "local"]
           masters == [d.master EXCEPT ![w] = AutoMaster(f)]
<1> USE DEF Sound
<1>1. w \in Works /\ d.work[w] = "unmade"
  BY NewWorkIs
<1>2. e = [d EXCEPT !.work = works, !.master = masters]
  BY DEF WithLocalWork
<1> HIDE DEF w
<1>3. /\ works \in [Works -> {"unmade", "gone", "local"} \cup MbWorks]
      /\ masters \in [Works -> [file : Files, manual : BOOLEAN] \cup {None}]
      /\ \A v \in Works : /\ works[v] = IF v = w THEN "local" ELSE d.work[v]
                          /\ masters[v] = IF v = w THEN AutoMaster(f) ELSE d.master[v]
  BY <1>1, Fields DEF AutoMaster
<1> HIDE DEF works, masters
<1>4. /\ e \in Db /\ e.file = d.file /\ e.rec = d.rec /\ e.match = d.match
      /\ e.work = works /\ e.master = masters
  BY <1>2, <1>3 DEF Db
<1> HIDE DEF e
<1>5. Existing(e) = Existing(d) \cup {w} /\ w \notin Existing(d)
  BY <1>1, <1>3, <1>4 DEF Existing
<1>6. Unmade(e) = Unmade(d) \ {w}
  BY <1>3, <1>4 DEF Unmade
<1>7. Rows(e) = Rows(d) /\ Astray(e) = Astray(d) /\ SamePlaces(d, e) /\ Stays(d, e)
  BY <1>4 DEF Rows, Astray, SamePlaces, Stays
<1>8. FilesOn(d, w) = {} /\ PresentOn(d, w) = {} /\ RecsOf(d, w) = {}
  BY <1>1, <1>5, Placed
<1>9. /\ \A v \in Works : FilesOn(e, v) = FilesOn(d, v) /\ PresentOn(e, v) = PresentOn(d, v)
      /\ RecsOf(e, w) = {}
  BY <1>4, <1>7, <1>8 DEF FilesOn, PresentOn, RecsOf
<1>10. Kept(d, e)
  BY <1>3, <1>4, <1>8 DEF Kept, PickKept
<1>11. OffWork(e) \subseteq OffWork(d) \cup {w}
  BY <1>3, <1>4, <1>9 DEF OffWork
<1>12. Sound(e)
  <2>1. RecsApart(e) /\ MatchesKnown(e)
    BY <1>4 DEF RecsApart, MatchesKnown
  <2>2. OneEach(e)
    BY <1>3, <1>4, KindsAssumption DEF OneEach
  <2>3. FilesPlaced(e) /\ RecsPlaced(e)
    BY <1>4, <1>5, <1>7 DEF FilesPlaced, RecsPlaced
  <2> QED BY <1>4, <2>1, <2>2, <2>3
<1>13. e.master[w].file = f /\ e.work[w] = "local"
  BY <1>1, <1>3, <1>4 DEF AutoMaster
<1> QED BY <1>4, <1>5, <1>6, <1>7, <1>9, <1>10, <1>11, <1>12, <1>13 DEF e, w

\* upsert_from_mb names a work once.
LEMMA MbWorkKeeps ==
  ASSUME NEW d, Sound(d), NEW m \in MbWorks, Unmade(d) # {}
  PROVE  LET e == WithMbWork(d, m)
             w == MbWork(d, m) IN
         /\ Sound(e) /\ Aside(d, e) /\ e.file = d.file /\ e.rec = d.rec
         /\ w \in Existing(e)
         /\ d.work[w] = m \/ RecsOf(d, w) = {}
<1> DEFINE e == WithMbWork(d, m)
           w == MbWork(d, m)
           works == [d.work EXCEPT ![w] = m]
<1> USE DEF Sound
<1>1. w \in Works /\ \/ d.work[w] = m
                     \/ d.work[w] = "unmade" /\ \A v \in Works : d.work[v] # m
  <2>1. CASE \E v \in Works : d.work[v] = m
    BY <2>1 DEF MbWork
  <2>2. CASE ~\E v \in Works : d.work[v] = m
    BY <2>2, NewWorkIs DEF MbWork
  <2> QED BY <2>1, <2>2
<1>2. e = [d EXCEPT !.work = works]
  BY DEF WithMbWork
<1> HIDE DEF w
<1>3. /\ works \in [Works -> {"unmade", "gone", "local"} \cup MbWorks]
      /\ \A v \in Works : works[v] = IF v = w THEN m ELSE d.work[v]
  BY <1>1, Fields
<1> HIDE DEF works
<1>4. /\ e \in Db /\ e.file = d.file /\ e.rec = d.rec /\ e.match = d.match
      /\ e.work = works /\ e.master = d.master
  BY <1>2, <1>3 DEF Db
<1> HIDE DEF e
<1>5. Existing(e) = Existing(d) \cup {w} /\ Rows(e) = Rows(d)
  <2>1. m # "unmade" /\ m # "gone"
    BY KindsAssumption
  <2> QED BY <1>1, <1>3, <1>4, <2>1 DEF Existing, Rows
<1>6. Aside(d, e)
  BY <1>4 DEF Aside, SamePlaces
<1>7. d.work[w] = m \/ RecsOf(d, w) = {}
  BY <1>1, Placed DEF Existing
<1>8. Sound(e)
  <2>1. RecsApart(e) /\ MatchesKnown(e)
    BY <1>4 DEF RecsApart, MatchesKnown
  <2>2. OneEach(e)
    BY <1>1, <1>3, <1>4 DEF OneEach
  <2>3. FilesPlaced(e) /\ RecsPlaced(e)
    BY <1>4, <1>5 DEF FilesPlaced, RecsPlaced
  <2> QED BY <1>4, <2>1, <2>2, <2>3
<1> QED BY <1>4, <1>5, <1>6, <1>7, <1>8 DEF e, w

\* recordings.upsert, when the place of the version is free.
LEMMA RecordingKeeps ==
  ASSUME NEW d, Sound(d), NEW r \in MbRecs, NEW w \in Existing(d) \cup {None},
         w # None => ~SlotTaken(d, r, w)
  PROVE  LET e == WithRecording(d, r, w) IN
         Sound(e) /\ Aside(d, e) /\ e.file = d.file /\ e.work = d.work /\ e.rec[r] # None
<1> DEFINE e == WithRecording(d, r, w)
           row == IF d.rec[r] = None THEN [work |-> w, todo |-> TRUE]
                  ELSE [d.rec[r] EXCEPT !.work = IF w = None THEN d.rec[r].work ELSE w]
           rows == [d.rec EXCEPT ![r] = row]
<1>1. r \in Recs /\ r \notin LocalRecs /\ w \in Works \cup {None}
  BY KindsAssumption DEF Recs, Existing
<1>2. /\ row \in RecRow
      /\ row.work = IF w = None /\ d.rec[r] # None THEN d.rec[r].work ELSE w
  <2>1. d.rec[r] # None => d.rec[r] \in RecRow
    BY <1>1, Fields DEF Sound
  <2> QED BY <1>1, <2>1 DEF RecRow
<1>3. row # None
  BY <1>2, RowAssumption
<1>4. e = [d EXCEPT !.rec = rows]
  BY DEF WithRecording
<1> HIDE DEF row
<1>5. rows \in [Recs -> RecRow \cup {None}] /\ \A q \in Recs : rows[q] = IF q = r THEN row ELSE d.rec[q]
  BY <1>1, <1>2, Fields DEF Sound
<1> HIDE DEF rows
<1>6. w # None => \A q \in Recs : d.rec[q] # None /\ d.rec[q].work = w => q = r
  BY DEF SlotTaken, RecsOf
<1>7. \A p, q \in Recs : rows[p] # None /\ rows[q] # None /\ p # q /\ rows[p].work = rows[q].work
                         => rows[p].work = None
  BY <1>2, <1>5, <1>6 DEF Sound, RecsApart
<1>8. \A q \in Recs : rows[q] # None => /\ rows[q].work \in Existing(d) \cup {None}
                                        /\ q \in LocalRecs => rows[q].work # None
  BY <1>1, <1>2, <1>5 DEF Sound, RecsPlaced
<1>9. \A f \in Files : d.file[f].rec # None => rows[d.file[f].rec] # None
  BY <1>3, <1>5, Fields DEF Sound, FilesPlaced, FileRow
<1>10. rows[r] # None
  BY <1>1, <1>3, <1>5
<1> QED BY <1>4, <1>5, <1>7, <1>8, <1>9, <1>10, RecsOnly

-----------------------------------------------------------------------------
(* The files of a looked-up recording follow it one by one: the fold's function exists for
   every finite set of files, by the least set for which it would not. *)

\* The files still to follow, and the tables once they have.
Follows(it, S, base, w) ==
  it = [s \in S |-> IF s = {} THEN base
                    ELSE Moved(it[s \ {Best(s)}], Best(s), it[s \ {Best(s)}].file[Best(s)].work, w)]

LEMMA FollowExists ==
  ASSUME NEW off, off \subseteq Files, NEW base, NEW w
  PROVE  \E it : Follows(it, SUBSET off, base, w)
<1> DEFINE Of(n) == {s \in SUBSET off : Cardinality(s) <= n}
           Bad == {n \in Nat : ~\E it : Follows(it, Of(n), base, w)}
<1>1. \A s \in SUBSET off : IsFiniteSet(s) /\ Cardinality(s) \in Nat /\ Cardinality(s) <= Cardinality(off)
  BY FilesAssumption, FS_Subset, FS_CardinalityType
<1>2. \A s \in SUBSET off : s # {} => /\ Best(s) \in s
                                      /\ Cardinality(s \ {Best(s)}) = Cardinality(s) - 1
  BY <1>1, BestOf, FS_RemoveElement
<1>3. Bad = {}
  <2> SUFFICES ASSUME Bad # {} PROVE FALSE
    OBVIOUS
  <2>1. PICK n \in Bad : \A m \in Bad : n <= m
    BY LeastNat
  <2>2. n # 0
    <3>1. Of(0) = {{}}
      BY <1>1, <1>2, FS_EmptySet
    <3> DEFINE it == [s \in Of(0) |-> base]
    <3>2. Follows(it, Of(0), base, w)
      BY <3>1 DEF Follows
    <3> QED BY <3>2
  <2>3. n - 1 \in Nat /\ n - 1 \notin Bad
    <3>1. n \in Nat
      BY <2>1
    <3> HIDE DEF Bad
    <3> QED BY <2>1, <2>2, <3>1
  <2>4. PICK g : Follows(g, Of(n-1), base, w)
    <3> HIDE DEF Of
    <3>1. ASSUME NEW m \in Nat, m \notin Bad PROVE \E g : Follows(g, Of(m), base, w)
      BY <3>1
    <3> HIDE DEF Bad
    <3> QED BY <2>3, <3>1
  <2> DEFINE it == [s \in Of(n) |-> IF s = {} THEN base
                       ELSE Moved(g[s \ {Best(s)}], Best(s), g[s \ {Best(s)}].file[Best(s)].work, w)]
  <2>5. ASSUME NEW s \in Of(n-1) PROVE s \in Of(n) /\ it[s] = g[s]
    <3>1. s \in Of(n)
      BY <1>1, <2>3
    <3>2. g[s] = IF s = {} THEN base
                 ELSE Moved(g[s \ {Best(s)}], Best(s), g[s \ {Best(s)}].file[Best(s)].work, w)
      BY <2>4 DEF Follows
    <3> QED BY <3>1, <3>2
  <2>6. \A s \in Of(n) : s # {} => s \ {Best(s)} \in Of(n-1)
    BY <1>1, <1>2, <2>1
  <2>7. \A s \in Of(n) : s # {} => it[s \ {Best(s)}] = g[s \ {Best(s)}]
    BY <2>5, <2>6
  <2>8. Follows(it, Of(n), base, w)
    <3>1. \A s \in Of(n) :
            (IF s = {} THEN base
             ELSE Moved(g[s \ {Best(s)}], Best(s), g[s \ {Best(s)}].file[Best(s)].work, w))
            = (IF s = {} THEN base
               ELSE Moved(it[s \ {Best(s)}], Best(s), it[s \ {Best(s)}].file[Best(s)].work, w))
      BY <2>7
    <3> HIDE DEF Of
    <3>2. it = [s \in Of(n) |->
                  IF s = {} THEN base
                  ELSE Moved(it[s \ {Best(s)}], Best(s), it[s \ {Best(s)}].file[Best(s)].work, w)]
      BY <3>1, Zenon
    <3> HIDE DEF it
    <3> QED BY <3>2 DEF Follows
  <2> QED BY <2>1, <2>8
<1>4. Cardinality(off) \in Nat /\ SUBSET off = Of(Cardinality(off))
  BY <1>1
<1> QED BY <1>3, <1>4

LEMMA FollowIs ==
  ASSUME NEW off, off \subseteq Files, NEW base, NEW w
  PROVE  \E it : Follows(it, SUBSET off, base, w) /\ Followed(base, off, w) = it[off]
<1> DEFINE it == CHOOSE it : Follows(it, SUBSET off, base, w)
<1>1. Follows(it, SUBSET off, base, w)
  BY FollowExists
<1>2. Followed(base, off, w) = it[off]
  BY DEF Followed, MapThenFoldSet, Follows
<1> QED BY <1>1, <1>2

\* What holds all along while the files follow.
Led(base, d, w) ==
  /\ After(base, d) /\ Kept(base, d) /\ w \in Existing(d)
  /\ OffWork(d) \subseteq OffWork(base) /\ d.rec = base.rec
  /\ \A g \in Files : /\ d.file[g].status = base.file[g].status
                      /\ d.file[g].work \in {base.file[g].work, w}

LEMMA LedOn ==
  ASSUME NEW base, Sound(base), NEW w, NEW d, Led(base, d, w), NEW f \in Files
  PROVE  Led(base, Moved(d, f, d.file[f].work, w), w)
<1> DEFINE e == Moved(d, f, d.file[f].work, w)
<1>1. Sound(d) /\ w \in Existing(d) /\ w \in Works
  BY DEF Led, After, Existing
<1>2. d.file[f].work \in Works \cup {None}
  BY <1>1 DEF Sound, FilesPlaced, Existing
<1>3. /\ After(d, e) /\ Kept(d, e) /\ w \in Existing(e) /\ e.rec = d.rec
      /\ \A g \in Files :
           e.file[g] = IF g = f /\ f \in Rows(d) /\ d.file[f].work # w THEN [d.file[g] EXCEPT !.work = w]
                       ELSE d.file[g]
      /\ OffWork(e) \subseteq OffWork(d)
  BY <1>1, <1>2, MovedKeeps
<1> HIDE DEF e
<1>4. \A g \in Files : /\ e.file[g].status = d.file[g].status
                       /\ e.file[g].work \in {d.file[g].work, w}
  <2>1. \A g \in Files : d.file[g] \in FileRow
    BY <1>1, Fields DEF Sound
  <2> QED BY <1>3, <2>1 DEF FileRow
<1>5. Kept(base, e)
  <2> SUFFICES ASSUME NEW v \in Works, base.master[v] # None, base.master[v].manual,
                      base.master[v].file \in PresentOn(base, v), base.master[v].file \in PresentOn(e, v)
               PROVE  e.master[v] = base.master[v]
    BY DEF Kept, PickKept
  <2>1. base.master[v].file \in PresentOn(d, v)
    BY <1>4 DEF PresentOn, FilesOn, Rows, Led
  <2>2. d.master[v] = base.master[v]
    BY <2>1 DEF Led, Kept, PickKept
  <2> QED BY <1>3, <2>1, <2>2 DEF Kept, PickKept
<1>6. After(base, e)
  BY <1>3, AfterAfter DEF Led
<1>7. \A g \in Files : /\ e.file[g].status = base.file[g].status
                       /\ e.file[g].work \in {base.file[g].work, w}
  BY <1>4 DEF Led
<1> QED BY <1>3, <1>5, <1>6, <1>7 DEF Led, e

LEMMA FollowersLed ==
  ASSUME NEW base, Sound(base), NEW w \in Existing(base), NEW off, off \subseteq Files
  PROVE  Led(base, Followed(base, off, w), w)
<1>1. PICK it : Follows(it, SUBSET off, base, w) /\ Followed(base, off, w) = it[off]
  BY FollowIs
<1>2. \A s \in SUBSET off :
        it[s] = IF s = {} THEN base
                ELSE Moved(it[s \ {Best(s)}], Best(s), it[s \ {Best(s)}].file[Best(s)].work, w)
  BY <1>1 DEF Follows
<1> DEFINE Bad == {s \in SUBSET off : ~Led(base, it[s], w)}
<1>3. Bad = {}
  <2> SUFFICES ASSUME Bad # {} PROVE FALSE
    OBVIOUS
  <2>1. PICK s \in Bad : \A x \in s : s \ {x} \notin Bad
    <3>1. IsFiniteSet(off) /\ Bad \subseteq SUBSET off
      BY FilesAssumption, FS_Subset
    <3> HIDE DEF Bad
    <3> QED BY <3>1, LeastSubset
  <2>2. s # {}
    <3>1. Led(base, base, w)
      BY DEF Led, After, Kept, PickKept, Stays
    <3> QED BY <1>2, <2>1, <3>1
  <2>3. Best(s) \in s /\ Best(s) \in Files
    BY <2>1, <2>2, BestOf
  <2>4. Led(base, it[s \ {Best(s)}], w)
    BY <2>1, <2>3
  <2>5. Led(base, it[s], w)
    <3> DEFINE f == Best(s)
               d == it[s \ {f}]
    <3>1. it[s] = Moved(d, f, d.file[f].work, w)
      BY <1>2, <2>1, <2>2
    <3>2. f \in Files /\ Led(base, d, w)
      BY <2>3, <2>4
    <3> HIDE DEF f, d
    <3> QED BY <3>1, <3>2, LedOn
  <2> QED BY <2>1, <2>5
<1> QED BY <1>1, <1>3

LEMMA RecsOnlyAfter ==
  ASSUME NEW d, Sound(d), NEW e, Sound(e), Aside(d, e)
  PROVE  After(d, e) /\ Kept(d, e) /\ OffWork(e) = OffWork(d)
BY AsideKeeps DEF Sound, After

\* apply_recording_lookup
LEMMA LookupKeeps ==
  ASSUME NEW d, Sound(d), NEW r \in MbRecs, NEW known, NEW w \in Existing(d)
  PROVE  LET e == LookupApplied(d, r, known, w) IN
         After(d, e) /\ Kept(d, e) /\ OffWork(e) \subseteq OffWork(d)
<1> DEFINE linked == IF d.rec[r] = None \/ known = w \/ SlotTaken(d, r, w) THEN d
                     ELSE [d EXCEPT !.rec[r].work = w]
           off == {f \in UsersOf(linked, r) : linked.file[f].work # w}
           e == LookupApplied(d, r, known, w)
<1>1. Sound(linked) /\ Aside(d, linked) /\ linked.work = d.work
  <2>1. CASE d.rec[r] = None \/ known = w \/ SlotTaken(d, r, w)
    BY <2>1 DEF Aside, SamePlaces
  <2>2. CASE ~(d.rec[r] = None \/ known = w \/ SlotTaken(d, r, w))
    <3>0. r \in Recs /\ r \notin LocalRecs /\ w \in Works /\ w # None
      BY KindsAssumption, NoneAssumption DEF Recs, Existing
    <3> DEFINE row == [d.rec[r] EXCEPT !.work = w]
               rows == [d.rec EXCEPT ![r] = row]
    <3>1. linked = [d EXCEPT !.rec = rows]
      BY <2>2
    <3>2. row \in RecRow /\ row.work = w
      <4>1. d.rec[r] \in RecRow
        BY <2>2, <3>0, Fields DEF Sound
      <4> QED BY <3>0, <4>1 DEF RecRow
    <3>3. row # None
      BY <3>2, RowAssumption
    <3> HIDE DEF row, linked
    <3>4. rows \in [Recs -> RecRow \cup {None}] /\ \A q \in Recs : rows[q] = IF q = r THEN row ELSE d.rec[q]
      BY <3>0, <3>2, Fields DEF Sound
    <3> HIDE DEF rows
    <3>5. \A q \in Recs : d.rec[q] # None /\ d.rec[q].work = w => q = r
      BY <2>2 DEF SlotTaken, RecsOf
    <3>6. \A p, q \in Recs : rows[p] # None /\ rows[q] # None /\ p # q /\ rows[p].work = rows[q].work
                             => rows[p].work = None
      BY <3>2, <3>4, <3>5 DEF Sound, RecsApart
    <3>7. \A q \in Recs : rows[q] # None => /\ rows[q].work \in Existing(d) \cup {None}
                                            /\ q \in LocalRecs => rows[q].work # None
      BY <3>0, <3>2, <3>4 DEF Sound, RecsPlaced
    <3>8. \A f \in Files : d.file[f].rec # None => rows[d.file[f].rec] # None
      BY <3>3, <3>4, Fields DEF Sound, FilesPlaced, FileRow
    <3> QED BY <3>1, <3>4, <3>6, <3>7, <3>8, RecsOnly
  <2> QED BY <2>1, <2>2
<1>2. off \subseteq Files /\ w \in Existing(linked)
  BY <1>1 DEF UsersOf, Rows, Existing
<1>3. e = Followed(linked, off, w)
  BY DEF LookupApplied
<1> HIDE DEF linked, off, e
<1>4. Led(linked, e, w)
  BY <1>1, <1>2, <1>3, FollowersLed
<1>5. After(d, linked) /\ Kept(d, linked) /\ OffWork(linked) = OffWork(d) /\ SamePlaces(d, linked)
  BY <1>1, RecsOnlyAfter DEF Aside
<1> QED BY <1>4, <1>5, AfterAfter, KeptAfter DEF Led, e

-----------------------------------------------------------------------------
(* The marks of the enrichment, the clean-up, the grouping pass and the recalculation. *)

LEMMA EnhancedKeeps ==
  ASSUME NEW d, Sound(d), NEW r \in MbRecs
  PROVE  Sound(Enhanced(d, r)) /\ Aside(d, Enhanced(d, r))
<1>1. CASE d.rec[r] = None
  BY <1>1 DEF Enhanced, Aside, SamePlaces
<1>2. CASE d.rec[r] # None
  <2>0. r \in Recs
    BY DEF Recs
  <2> DEFINE row == [d.rec[r] EXCEPT !.todo = FALSE]
             rows == [d.rec EXCEPT ![r] = row]
  <2>1. Enhanced(d, r) = [d EXCEPT !.rec = rows]
    BY <1>2 DEF Enhanced
  <2>2. row \in RecRow /\ row.work = d.rec[r].work
    <3>1. d.rec[r] \in RecRow
      BY <1>2, <2>0, Fields DEF Sound
    <3> QED BY <3>1 DEF RecRow
  <2>3. row # None
    BY <2>2, RowAssumption
  <2> HIDE DEF row
  <2>4. rows \in [Recs -> RecRow \cup {None}] /\ \A q \in Recs : rows[q] = IF q = r THEN row ELSE d.rec[q]
    BY <2>0, <2>2, Fields DEF Sound
  <2> HIDE DEF rows
  <2>5. \A q \in Recs : (rows[q] # None <=> d.rec[q] # None) /\ (rows[q] # None => rows[q].work = d.rec[q].work)
    BY <1>2, <2>2, <2>3, <2>4
  <2>6. \A p, q \in Recs : rows[p] # None /\ rows[q] # None /\ p # q /\ rows[p].work = rows[q].work
                           => rows[p].work = None
    BY <2>5 DEF Sound, RecsApart
  <2>7. \A q \in Recs : rows[q] # None => /\ rows[q].work \in Existing(d) \cup {None}
                                          /\ q \in LocalRecs => rows[q].work # None
    BY <2>5 DEF Sound, RecsPlaced
  <2>8. \A f \in Files : d.file[f].rec # None => rows[d.file[f].rec] # None
    BY <2>3, <2>4, Fields DEF Sound, FilesPlaced, FileRow
  <2> QED BY <2>1, <2>4, <2>6, <2>7, <2>8, RecsOnly
<1> QED BY <1>1, <1>2

LEMMA OrphansKeeps ==
  ASSUME NEW d, Sound(d)
  PROVE  Sound(WithoutOrphans(d)) /\ Aside(d, WithoutOrphans(d))
<1> DEFINE rows == [r \in Recs |-> IF r \in LocalRecs /\ UsersOf(d, r) = {} THEN None ELSE d.rec[r]]
<1>1. WithoutOrphans(d) = [d EXCEPT !.rec = rows]
  BY DEF WithoutOrphans
<1>2. rows \in [Recs -> RecRow \cup {None}]
  BY Fields DEF Sound
<1>3. \A r \in Recs : rows[r] # None => d.rec[r] # None /\ rows[r] = d.rec[r]
  OBVIOUS
<1>4. \A f \in Files : d.file[f].rec # None => rows[d.file[f].rec] # None
  BY Fields DEF Sound, FilesPlaced, FileRow, UsersOf
<1> HIDE DEF rows
<1>5. \A p, q \in Recs : rows[p] # None /\ rows[q] # None /\ p # q /\ rows[p].work = rows[q].work
                         => rows[p].work = None
  BY <1>3 DEF Sound, RecsApart
<1>6. \A q \in Recs : rows[q] # None => /\ rows[q].work \in Existing(d) \cup {None}
                                        /\ q \in LocalRecs => rows[q].work # None
  BY <1>3 DEF Sound, RecsPlaced
<1> QED BY <1>1, <1>2, <1>4, <1>5, <1>6, RecsOnly

LEMMA GroupedKeeps ==
  ASSUME NEW d, Sound(d), NEW f \in Rows(d), NEW w \in Existing(d),
         NEW r \in Recs \cup {None}, r # None => d.rec[r] # None
  PROVE  LET e == Grouped(d, f, w, r) IN
         /\ After(d, e) /\ Kept(d, e)
         /\ OffWork(e) \subseteq OffWork(d) \cup {d.file[f].work}
         /\ d.master[w].file = f => w \notin OffWork(e)
<1> DEFINE h == Rehomed(d, f, w)
           e == Grouped(d, f, w, r)
<1>0. f \in Files
  BY DEF Rows
<1>1. /\ After(d, h) /\ Kept(d, h)
      /\ OffWork(h) \subseteq OffWork(d) \cup {d.file[f].work}
      /\ f \in Rows(d) /\ d.master[w] # None /\ d.master[w].file = f => w \notin OffWork(h)
      /\ h.master = d.master /\ h.rec = d.rec
  BY <1>0, RehomedKeeps
<1>2. Sound(h)
  BY <1>1 DEF After
<1>3. d.master[w].file = f => w \notin OffWork(h)
  BY <1>1 DEF OffWork
<1> HIDE DEF h
<1>5. CASE r = None
  BY <1>1, <1>3, <1>5 DEF Grouped, h
<1>6. CASE r # None
  <2>1. e = Linked(h, f, r, "pending")
    BY <1>6 DEF Grouped, h
  <2>2. Sound(e) /\ Aside(h, e)
    BY <1>0, <1>1, <1>2, <2>1, LinkedKeeps
  <2>3. After(h, e) /\ Kept(h, e) /\ OffWork(e) = OffWork(h) /\ SamePlaces(h, e)
    BY <1>2, <2>2, RecsOnlyAfter DEF Aside
  <2> QED BY <1>1, <1>3, <2>3, AfterAfter, KeptAfter
<1> QED BY <1>5, <1>6

\* recalculate_song_masters may set the master of its own work from elsewhere.
LEMMA RecalculatedKeeps ==
  ASSUME NEW d, Sound(d), NEW w \in Works
  PROVE  LET e == RecalculatedByRecordings(d, w) IN
         /\ After(d, e) /\ Kept(d, e) /\ Unmade(e) = Unmade(d)
         /\ OffWork(e) \subseteq OffWork(d) \cup {w}
<1> DEFINE e == RecalculatedByRecordings(d, w)
           fs == {f \in UNION {UsersOf(d, r) : r \in RecsOf(d, w)} : d.file[f].status = "there"}
<1>1. CASE (d.master[w] # None /\ d.master[w].manual) \/ fs = {}
  BY <1>1 DEF RecalculatedByRecordings, After, Kept, PickKept, Stays
<1>2. CASE ~((d.master[w] # None /\ d.master[w].manual) \/ fs = {})
  <2>1. Best(fs) \in Files
    <3>1. fs \subseteq Files
      BY DEF UsersOf, Rows
    <3> HIDE DEF fs
    <3> QED BY <1>2, <3>1, BestOf
  <2> DEFINE masters == [d.master EXCEPT ![w] = AutoMaster(Best(fs))]
  <2>2. e = [d EXCEPT !.master = masters]
    BY <1>2 DEF RecalculatedByRecordings
  <2> HIDE DEF fs
  <2>3. /\ masters \in [Works -> [file : Files, manual : BOOLEAN] \cup {None}]
        /\ \A v \in Works \ {w} : masters[v] = d.master[v]
    BY <2>1, Fields DEF AutoMaster, Sound
  <2> HIDE DEF masters
  <2>4. /\ e \in Db /\ e.file = d.file /\ e.work = d.work /\ e.rec = d.rec /\ e.match = d.match
        /\ e.master = masters
    BY <2>2, <2>3 DEF Db, Sound
  <2> HIDE DEF e
  <2>5. /\ After(d, e) /\ SamePlaces(d, e) /\ Unmade(e) = Unmade(d)
        /\ \A v \in Works : FilesOn(e, v) = FilesOn(d, v) /\ PresentOn(e, v) = PresentOn(d, v)
    BY <2>4, MastersOnly
  <2>6. Kept(d, e)
    BY <1>2, <2>3, <2>4 DEF Kept, PickKept
  <2>7. OffWork(e) \subseteq OffWork(d) \cup {w}
    BY <2>3, <2>4, <2>5 DEF OffWork
  <2> QED BY <2>5, <2>6, <2>7 DEF e
<1> QED BY <1>1, <1>2

\* A pick that comes late may set the master of its own work to a file that has left it.
LEMMA PickedLateKeeps ==
  ASSUME NEW d, Sound(d), NEW w \in Works, NEW f \in Files
  PROVE  LET e == PickedLate(d, w, f) IN
         /\ After(d, e) /\ Kept(d, e)
         /\ OffWork(e) \subseteq OffWork(d) \cup {w}
<1> DEFINE e == PickedLate(d, w, f)
           stands == d.master[w] # None /\ d.master[w].manual /\ d.master[w].file \in PresentOn(d, w)
<1>1. CASE stands
  BY <1>1 DEF PickedLate, After, Kept, PickKept, Stays
<1>2. CASE ~stands
  <2> DEFINE masters == [d.master EXCEPT ![w] = AutoMaster(f)]
  <2>1. e = [d EXCEPT !.master = masters]
    BY <1>2 DEF PickedLate
  <2>2. /\ masters \in [Works -> [file : Files, manual : BOOLEAN] \cup {None}]
        /\ \A v \in Works \ {w} : masters[v] = d.master[v]
    BY Fields DEF AutoMaster, Sound
  <2> HIDE DEF masters
  <2>3. /\ e \in Db /\ e.file = d.file /\ e.work = d.work /\ e.rec = d.rec /\ e.match = d.match
        /\ e.master = masters
    BY <2>1, <2>2 DEF Db, Sound
  <2> HIDE DEF e
  <2>4. /\ After(d, e)
        /\ \A v \in Works : FilesOn(e, v) = FilesOn(d, v) /\ PresentOn(e, v) = PresentOn(d, v)
    BY <2>3, MastersOnly
  <2>5. Kept(d, e)
    BY <1>2, <2>2, <2>3 DEF Kept, PickKept
  <2>6. OffWork(e) \subseteq OffWork(d) \cup {w}
    BY <2>2, <2>3, <2>4 DEF OffWork
  <2> QED BY <2>4, <2>5, <2>6 DEF e
<1> QED BY <1>1, <1>2

-----------------------------------------------------------------------------
(* The curator's requests: set a master, leave a work, reassign, split and merge. *)

\* choose_master: the file moves first, so the manual master is on its work - if the file
\* was where it was read.
LEMMA WithMasterKeeps ==
  ASSUME NEW d, Sound(d), NEW w \in Existing(d), NEW f \in Rows(d), NEW p \in Works \cup {None}
  PROVE  LET e == WithMaster(d, w, f, p) IN
         /\ After(d, e)
         /\ OffWork(e) \subseteq OffWork(d) \cup (IF p = d.file[f].work THEN {} ELSE {w, d.file[f].work})
         /\ \A v \in Works \ {w} : PickKept(d, e, v)
<1> DEFINE h == Moved(d, f, p, w)
           e == WithMaster(d, w, f, p)
           masters == [h.master EXCEPT ![w] = ManualMaster(f)]
<1>0. f \in Files /\ w \in Works
  BY DEF Rows, Existing
<1>1. /\ After(d, h) /\ Kept(d, h)
      /\ \A g \in Files :
           h.file[g] = IF g = f /\ f \in Rows(d) /\ p # w THEN [d.file[g] EXCEPT !.work = w]
                       ELSE d.file[g]
      /\ OffWork(h) \subseteq OffWork(d) \cup ({d.file[f].work} \ {p})
  BY <1>0, MovedKeeps
<1>2. e = [h EXCEPT !.master = masters]
  BY DEF WithMaster
<1> HIDE DEF h
<1>3. Sound(h)
  BY <1>1 DEF After
<1>4. /\ masters \in [Works -> [file : Files, manual : BOOLEAN] \cup {None}]
      /\ \A v \in Works : masters[v] = IF v = w THEN ManualMaster(f) ELSE h.master[v]
  BY <1>0, <1>3, Fields DEF Sound, ManualMaster
<1> HIDE DEF masters
<1>5. /\ e \in Db /\ e.file = h.file /\ e.work = h.work /\ e.rec = h.rec /\ e.match = h.match
      /\ e.master = masters
  BY <1>2, <1>3, <1>4 DEF Db, Sound
<1> HIDE DEF e
<1>6. /\ After(h, e)
      /\ \A v \in Works : FilesOn(e, v) = FilesOn(h, v) /\ PresentOn(e, v) = PresentOn(h, v)
  BY <1>3, <1>5, MastersOnly
<1>7. p = d.file[f].work => f \in FilesOn(h, w)
  <2> SUFFICES ASSUME p = d.file[f].work PROVE f \in FilesOn(h, w)
    OBVIOUS
  <2>1. d.file[f] \in FileRow
    BY <1>0, Fields DEF Sound
  <2>2. h.file[f].work = w /\ h.file[f].status = d.file[f].status
    BY <1>0, <1>1, <2>1 DEF FileRow
  <2> QED BY <1>0, <2>2 DEF FilesOn, Rows
<1>8. OffWork(e) \subseteq OffWork(h) \cup {w} /\ (p = d.file[f].work => OffWork(e) \subseteq OffWork(h))
  BY <1>4, <1>5, <1>6, <1>7 DEF OffWork, ManualMaster
<1>9. ASSUME NEW v \in Works \ {w} PROVE PickKept(d, e, v)
  <2>1. PickKept(d, h, v) /\ e.master[v] = h.master[v] /\ PresentOn(e, v) = PresentOn(h, v)
    BY <1>1, <1>4, <1>5, <1>6 DEF Kept
  <2> QED BY <2>1 DEF PickKept
<1> QED BY <1>1, <1>6, <1>8, <1>9, AfterAfter DEF e

\* The work a split or reassign emptied: its matches go where their files are.
LEMMA EmptiedKeeps ==
  ASSUME NEW d, Sound(d), NEW w \in Existing(d), FilesOn(d, w) = {}, CanEmpty(d, w)
  PROVE  LET e == Emptied(d, w) IN
         /\ After(d, e) /\ Kept(d, e) /\ SamePlaces(d, e) /\ Unmade(e) = Unmade(d)
         /\ OffWork(e) \subseteq OffWork(d) \ {w}
<1> DEFINE e == Emptied(d, w)
           matches == [s \in Songs |-> IF s \in MatchesOn(d, w)
                                       THEN [d.match[s] EXCEPT !.work = d.file[d.match[s].file].work]
                                       ELSE d.match[s]]
           rows == [r \in Recs |-> IF r \in RecsOf(d, w) THEN None ELSE d.rec[r]]
           works == [d.work EXCEPT ![w] = "gone"]
           masters == [d.master EXCEPT ![w] = None]
           overrides == [d.override EXCEPT ![w] = None]
<1> USE DEF Sound
<1>0. w \in Works /\ w # None
  BY NoneAssumption DEF Existing
<1>1. e = [d EXCEPT !.match = matches, !.master = masters, !.override = overrides,
                    !.work = works, !.rec = rows]
  BY DEF Emptied
<1>2. \A s \in Songs : d.match[s] # None =>
        /\ d.match[s] \in [file : Files, work : Works \cup {None}] /\ d.match[s].file \in Files
        /\ d.file[d.match[s].file].work \in Works \cup {None}
  BY Fields DEF FileRow
<1>3. /\ matches \in [Songs -> [file : Files, work : Works \cup {None}] \cup {None}]
      /\ \A s \in Songs : matches[s] # None =>
           /\ d.match[s] # None /\ matches[s].file = d.match[s].file
           /\ matches[s].work = IF d.match[s].work = w THEN d.file[d.match[s].file].work ELSE d.match[s].work
  <2>1. \A s \in Songs : matches[s] \in [file : Files, work : Works \cup {None}] \cup {None}
    BY <1>2, Fields DEF MatchesOn
  <2>2. ASSUME NEW s \in Songs, matches[s] # None
        PROVE  /\ d.match[s] # None /\ matches[s].file = d.match[s].file
               /\ matches[s].work = IF d.match[s].work = w THEN d.file[d.match[s].file].work
                                    ELSE d.match[s].work
    BY <1>2, <2>2 DEF MatchesOn
  <2> QED BY <2>1, <2>2
<1>4. /\ rows \in [Recs -> RecRow \cup {None}]
      /\ \A r \in Recs : rows[r] # None => d.rec[r] # None /\ rows[r] = d.rec[r] /\ d.rec[r].work # w
      /\ \A r \in Recs : d.rec[r] # None /\ d.rec[r].work # w => rows[r] = d.rec[r]
  BY Fields DEF RecsOf
<1>5. /\ works \in [Works -> {"unmade", "gone", "local"} \cup MbWorks]
      /\ masters \in [Works -> [file : Files, manual : BOOLEAN] \cup {None}]
      /\ overrides \in [Works -> Files \cup {None}]
      /\ \A v \in Works : /\ works[v] = IF v = w THEN "gone" ELSE d.work[v]
                          /\ masters[v] = IF v = w THEN None ELSE d.master[v]
  BY <1>0, Fields
<1> HIDE DEF matches, rows, works, masters, overrides
<1>6. /\ e \in Db /\ e.file = d.file /\ e.match = matches /\ e.rec = rows
      /\ e.work = works /\ e.master = masters
  BY <1>1, <1>3, <1>4, <1>5 DEF Db
<1> HIDE DEF e
<1>7. Unmade(e) = Unmade(d) /\ Existing(e) = Existing(d) \ {w}
  BY <1>5, <1>6 DEF Unmade, Existing
<1>8. Rows(e) = Rows(d) /\ SamePlaces(d, e) /\ Stays(d, e)
  BY <1>6 DEF Rows, SamePlaces, Stays
<1>9. \A v \in Works : FilesOn(e, v) = FilesOn(d, v) /\ PresentOn(e, v) = PresentOn(d, v)
  BY <1>6, <1>8 DEF FilesOn, PresentOn
<1>10. Astray(e) \subseteq Astray(d)
  BY <1>3, <1>6, <1>8 DEF Astray
<1>11. OffWork(e) \subseteq OffWork(d) \ {w}
  BY <1>5, <1>6, <1>9 DEF OffWork
<1>12. Kept(d, e)
  BY <1>5, <1>6, <1>9 DEF Kept, PickKept, PresentOn
<1>13. RecsApart(e) /\ RecsPlaced(e)
  BY <1>4, <1>6, <1>7 DEF RecsApart, RecsPlaced
<1>14. OneEach(e)
  BY <1>5, <1>6, KindsAssumption DEF OneEach
<1>15. MatchesKnown(e)
  BY <1>3, <1>6 DEF MatchesKnown
<1>16. FilesPlaced(e)
  <2> SUFFICES ASSUME NEW f \in Files
               PROVE  /\ f \notin Rows(e) => e.file[f].work = None /\ e.file[f].rec = None
                      /\ e.file[f].work \in Existing(e) \cup {None}
                      /\ e.file[f].rec # None => e.rec[e.file[f].rec] # None
    BY DEF FilesPlaced
  <2>1. f \notin Rows(e) => e.file[f].work = None /\ e.file[f].rec = None
    BY <1>6, <1>8 DEF FilesPlaced
  <2>2. e.file[f].work \in Existing(e) \cup {None}
    BY <1>0, <1>6, <1>7 DEF FilesPlaced, FilesOn
  <2>3. e.file[f].rec # None => e.rec[e.file[f].rec] # None
    <3> SUFFICES ASSUME d.file[f].rec # None PROVE rows[d.file[f].rec] # None
      BY <1>6
    <3>1. f \in Rows(d) /\ d.rec[d.file[f].rec] # None /\ d.file[f].rec \in Recs
      BY Fields DEF FilesPlaced, FileRow
    <3>2. d.rec[d.file[f].rec].work # w
      BY <3>1 DEF CanEmpty, UsersOf, RecsOf
    <3> QED BY <1>4, <3>1, <3>2
  <2> QED BY <2>1, <2>2, <2>3
<1> QED BY <1>6, <1>7, <1>8, <1>10, <1>11, <1>12, <1>13, <1>14, <1>15, <1>16 DEF After, e

LEMMA LeftKeeps ==
  ASSUME NEW d, Sound(d), NEW w \in Existing(d), CanLeave(d, w)
  PROVE  LET e == Left(d, w) IN
         /\ After(d, e) /\ Kept(d, e) /\ SamePlaces(d, e) /\ Unmade(e) = Unmade(d)
         /\ OffWork(e) \subseteq OffWork(d) \ {w}
<1>1. CASE FilesOn(d, w) = {}
  BY <1>1, EmptiedKeeps DEF Left, CanLeave
<1>2. CASE FilesOn(d, w) # {}
  <2>1. w \in Works
    BY DEF Existing
  <2> QED BY <1>2, <2>1, ReselectedKeeps DEF Left
<1> QED BY <1>1, <1>2

LEMMA FileRecKeeps ==
  ASSUME NEW d, Sound(d), NEW f \in Rows(d), NEW r \in Recs, d.rec[r] # None
  PROVE  LET e == [d EXCEPT !.file[f].rec = r] IN
         Sound(e) /\ Aside(d, e) /\ e.work = d.work /\ e.rec = d.rec
<1> DEFINE files == [d.file EXCEPT ![f].rec = r]
           e == [d EXCEPT !.file[f].rec = r]
<1> USE DEF Sound
<1>0. f \in Files
  BY DEF Rows
<1>1. e = [d EXCEPT !.file = files]
  BY Fields
<1>2. files \in [Files -> FileRow]
  BY <1>0, Fields DEF FileRow
<1>3. \A g \in Files : /\ files[g].work = d.file[g].work /\ files[g].status = d.file[g].status
                       /\ files[g].rec = IF g = f THEN r ELSE d.file[g].rec
  BY <1>0, Fields DEF FileRow
<1> HIDE DEF files
<1>4. /\ e \in Db /\ e.file = files
      /\ e.work = d.work /\ e.rec = d.rec /\ e.match = d.match /\ e.master = d.master
  BY <1>1, <1>2 DEF Db
<1> HIDE DEF e
<1>5. Aside(d, e) /\ Rows(e) = Rows(d) /\ Existing(e) = Existing(d)
  BY <1>3, <1>4 DEF Aside, SamePlaces, Rows, Existing
<1>6. RecsApart(e) /\ RecsPlaced(e) /\ OneEach(e)
  BY <1>4, <1>5 DEF RecsApart, RecsPlaced, OneEach
<1>7. FilesPlaced(e)
  BY <1>0, <1>3, <1>4, <1>5 DEF FilesPlaced
<1>8. MatchesKnown(e)
  BY <1>3, <1>4, Fields DEF MatchesKnown
<1> QED BY <1>4, <1>5, <1>6, <1>7, <1>8 DEF e

LEMMA AsideAside ==
  ASSUME NEW d, NEW e, NEW c, Aside(d, e), Aside(e, c)
  PROVE  Aside(d, c)
BY DEF Aside, SamePlaces

\* _repoint_recording
LEMMA RepointedKeeps ==
  ASSUME NEW d, Sound(d), NEW f \in Rows(d), NEW w \in Existing(d)
  PROVE  LET e == Repointed(d, f, w) IN Sound(e) /\ Aside(d, e) /\ e.work = d.work
<1> DEFINE r == d.file[f].rec
           e == Repointed(d, f, w)
           h == WithLocalRec(d, w)
<1>0. f \in Files /\ w \in Works /\ w # None
  BY NoneAssumption DEF Rows, Existing
<1>1. CASE r = None
  BY <1>1 DEF Repointed, Aside, SamePlaces
<1>2. CASE r # None /\ RecsOf(d, w) # {}
  <2>1. e = [d EXCEPT !.file[f].rec = LocalRec(d, w)]
    BY <1>2 DEF Repointed
  <2>2. LocalRec(d, w) \in Recs /\ d.rec[LocalRec(d, w)] # None
    BY <1>2 DEF LocalRec, RecsOf
  <2> QED BY <2>1, <2>2, FileRecKeeps
<1>3. CASE r # None /\ RecsOf(d, w) = {} /\ UsersOf(d, r) # {f}
  <2>1. e = [h EXCEPT !.file[f].rec = NewRec(d)]
    BY <1>3 DEF Repointed
  <2>2. /\ Sound(h) /\ Aside(d, h) /\ h.file = d.file /\ h.work = d.work
        /\ NewRec(d) \in Recs /\ h.rec[NewRec(d)] # None
    BY <1>3, LocalRecKeeps
  <2>3. f \in Rows(h)
    BY <2>2 DEF Rows
  <2> HIDE DEF h
  <2>4. Sound(e) /\ Aside(h, e) /\ e.work = h.work
    BY <2>1, <2>2, <2>3, FileRecKeeps
  <2> QED BY <2>2, <2>4, AsideAside
<1>4. CASE r # None /\ RecsOf(d, w) = {} /\ UsersOf(d, r) = {f}
  <2> DEFINE row == [d.rec[r] EXCEPT !.work = w]
             rows == [d.rec EXCEPT ![r] = row]
  <2>1. e = [d EXCEPT !.rec = rows]
    BY <1>4 DEF Repointed
  <2>2. r \in Recs /\ d.rec[r] # None
    BY <1>0, <1>4, Fields DEF Sound, FilesPlaced, FileRow
  <2> HIDE DEF r
  <2>3. row \in RecRow /\ row.work = w
    <3>1. d.rec[r] \in RecRow
      BY <2>2, Fields DEF Sound
    <3> QED BY <1>0, <3>1 DEF RecRow
  <2>4. row # None
    BY <2>3, RowAssumption
  <2> HIDE DEF row
  <2>5. rows \in [Recs -> RecRow \cup {None}] /\ \A q \in Recs : rows[q] = IF q = r THEN row ELSE d.rec[q]
    BY <2>2, <2>3, Fields DEF Sound
  <2> HIDE DEF rows
  <2>6. \A q \in Recs : d.rec[q] # None => d.rec[q].work # w
    BY <1>4 DEF RecsOf
  <2>7. \A p, q \in Recs : rows[p] # None /\ rows[q] # None /\ p # q /\ rows[p].work = rows[q].work
                           => rows[p].work = None
    BY <2>3, <2>5, <2>6 DEF Sound, RecsApart
  <2>8. \A q \in Recs : rows[q] # None => /\ rows[q].work \in Existing(d) \cup {None}
                                          /\ q \in LocalRecs => rows[q].work # None
    BY <1>0, <2>3, <2>5 DEF Sound, RecsPlaced
  <2>9. \A g \in Files : d.file[g].rec # None => rows[d.file[g].rec] # None
    BY <2>4, <2>5, Fields DEF Sound, FilesPlaced, FileRow
  <2> QED BY <2>1, <2>5, <2>7, <2>8, <2>9, RecsOnly
<1> QED BY <1>1, <1>2, <1>3, <1>4

LEMMA ReassignedKeeps ==
  ASSUME NEW d, Sound(d), NEW f \in Rows(d), NEW w \in Existing(d)
  PROVE  LET e == Reassigned(d, f, w) IN
         /\ After(d, e) /\ Kept(d, e) /\ Existing(e) = Existing(d) /\ Unmade(e) = Unmade(d)
         /\ OffWork(e) \subseteq OffWork(d) \cup {d.file[f].work}
<1> DEFINE p == Repointed(d, f, w)
           h == Rehomed(p, f, w)
           e == Reassigned(d, f, w)
<1>0. f \in Files /\ w \in Works
  BY DEF Rows, Existing
<1>1. Sound(p) /\ Aside(d, p) /\ p.work = d.work
  BY RepointedKeeps
<1>2. /\ After(d, p) /\ Kept(d, p) /\ OffWork(p) = OffWork(d) /\ SamePlaces(d, p)
      /\ Existing(p) = Existing(d) /\ Unmade(p) = Unmade(d) /\ p.file[f].work = d.file[f].work
  BY <1>0, <1>1, RecsOnlyAfter DEF Aside, SamePlaces, Existing, Unmade
<1> HIDE DEF p
<1>3. /\ After(p, h) /\ Kept(p, h) /\ Existing(h) = Existing(p) /\ Unmade(h) = Unmade(p)
      /\ OffWork(h) \subseteq OffWork(p) \cup {p.file[f].work}
  BY <1>0, <1>1, <1>2, RehomedKeeps
<1> HIDE DEF h
<1>4. After(d, h) /\ Kept(d, h) /\ Sound(h)
  BY <1>2, <1>3, AfterAfter, KeptAfter DEF After
<1>5. e = Reselected(h, w)
  BY DEF Reassigned, h, p
<1>6. /\ After(h, e) /\ SamePlaces(h, e) /\ Kept(h, e)
      /\ Existing(e) = Existing(h) /\ Unmade(e) = Unmade(h) /\ OffWork(e) \subseteq OffWork(h)
  BY <1>0, <1>4, <1>5, ReselectedKeeps
<1> HIDE DEF e
<1> QED BY <1>2, <1>3, <1>4, <1>6, AfterAfter, KeptAfter DEF e

\* split_work
LEMMA SplitOffKeeps ==
  ASSUME NEW d, Sound(d), NEW f \in Rows(d), Unmade(d) # {}
  PROVE  LET e == SplitOff(d, f) IN
         /\ After(d, e) /\ Kept(d, e) /\ Existing(d) \subseteq Existing(e)
         /\ Unmade(e) = Unmade(d) \ {NewWork(d)}
         /\ OffWork(e) \subseteq OffWork(d) \cup {d.file[f].work}
<1> DEFINE w == NewWork(d)
           made == WithLocalWork(d, f)
           local == WithLocalRec(made, w)
           own == IF d.file[f].rec = None THEN made ELSE [local EXCEPT !.file[f].rec = NewRec(made)]
           e == SplitOff(d, f)
<1>0. f \in Files
  BY DEF Rows
<1>1. /\ Sound(made) /\ SamePlaces(d, made) /\ Stays(d, made) /\ Kept(d, made) /\ Astray(made) = Astray(d)
      /\ w \in Existing(made) /\ Existing(d) \subseteq Existing(made) /\ Unmade(made) = Unmade(d) \ {w}
      /\ OffWork(made) \subseteq OffWork(d) \cup {w}
      /\ made.master[w].file = f /\ made.file = d.file /\ RecsOf(made, w) = {}
  BY <1>0, LocalWorkKeeps
<1>2. w \in Works /\ e = Rehomed(own, f, w)
  BY NewWorkIs DEF SplitOff
<1> HIDE DEF w, made
<1>3. Sound(own) /\ Aside(made, own) /\ own.work = made.work
  <2>1. CASE d.file[f].rec = None
    BY <1>1, <2>1 DEF Aside, SamePlaces
  <2>2. CASE d.file[f].rec # None
    <3>1. /\ Sound(local) /\ Aside(made, local) /\ local.file = made.file /\ local.work = made.work
          /\ NewRec(made) \in Recs /\ local.rec[NewRec(made)] # None
      BY <1>1, LocalRecKeeps
    <3>2. own = [local EXCEPT !.file[f].rec = NewRec(made)] /\ f \in Rows(local)
      BY <1>1, <2>2, <3>1 DEF Rows
    <3> HIDE DEF local, own
    <3>3. Sound(own) /\ Aside(local, own) /\ own.work = local.work
      BY <3>1, <3>2, FileRecKeeps
    <3> QED BY <3>1, <3>3, AsideAside
  <2> QED BY <2>1, <2>2
<1> HIDE DEF own, e
<1>4. /\ After(made, own) /\ Kept(made, own) /\ OffWork(own) = OffWork(made) /\ SamePlaces(made, own)
      /\ own.master = made.master /\ Rows(own) = Rows(made)
      /\ Existing(own) = Existing(made) /\ Unmade(own) = Unmade(made)
  BY <1>1, <1>3, RecsOnlyAfter, AsideKeeps DEF Aside, Existing, Unmade, Sound
<1>5. f \in Rows(own) /\ own.file[f].work = d.file[f].work
  BY <1>0, <1>1, <1>4 DEF Rows, SamePlaces
<1>6. /\ After(own, e) /\ Kept(own, e) /\ Existing(e) = Existing(own) /\ Unmade(e) = Unmade(own)
      /\ OffWork(e) \subseteq OffWork(own) \cup {own.file[f].work}
      /\ f \in Rows(own) /\ own.master[w] # None /\ own.master[w].file = f => w \notin OffWork(e)
      /\ e.master = own.master
  BY <1>0, <1>1, <1>2, <1>3, <1>4, RehomedKeeps
<1>7. w \notin OffWork(e)
  BY <1>1, <1>4, <1>5, <1>6 DEF OffWork
<1>8. After(d, e)
  BY <1>1, <1>4, <1>6, AfterAfter DEF After
<1>9. Kept(d, own) /\ SamePlaces(d, own)
  BY <1>1, <1>4, KeptAfter DEF SamePlaces
<1>10. Kept(d, e)
  BY <1>6, <1>9, KeptAfter
<1> QED BY <1>1, <1>4, <1>5, <1>6, <1>7, <1>8, <1>10 DEF e, w

\* merge_works
LEMMA MergedKeeps ==
  ASSUME NEW d, Sound(d), NEW t \in Existing(d), NEW s \in Existing(d), t # s
  PROVE  LET e == Merged(d, t, s) IN
         /\ After(d, e) /\ Kept(d, e) /\ Unmade(e) = Unmade(d)
         /\ OffWork(e) \subseteq OffWork(d)
<1> DEFINE files == [f \in Files |-> IF f \in FilesOn(d, s) THEN [d.file[f] EXCEPT !.work = t] ELSE d.file[f]]
           rehomed == [d EXCEPT !.file = files,
                                !.override[t] = IF d.override[t] = None THEN d.override[s] ELSE d.override[t],
                                !.override[s] = None]
           recs == MergedRecs(rehomed, t, s)
           matches == [x \in Songs |-> IF x \in MatchesOn(d, s) THEN [d.match[x] EXCEPT !.work = t]
                                       ELSE d.match[x]]
           masters == [d.master EXCEPT ![s] = None]
           works == [d.work EXCEPT ![s] = "gone"]
           moved == [recs EXCEPT !.match = matches, !.master[s] = None, !.work[s] = "gone"]
           e == Merged(d, t, s)
<1>0. t \in Works /\ s \in Works /\ t # None /\ s # None
  BY NoneAssumption DEF Existing
<1>1. e = Reselected(moved, t)
  BY DEF Merged
<1>2. /\ files \in [Files -> FileRow]
      /\ \A f \in Files : /\ files[f].status = d.file[f].status /\ files[f].rec = d.file[f].rec
                          /\ files[f].work = IF f \in Rows(d) /\ d.file[f].work = s THEN t ELSE d.file[f].work
  BY <1>0, Fields DEF FileRow, Sound, FilesOn
<1> HIDE DEF files
<1>3. /\ rehomed \in Db /\ rehomed.file = files
      /\ rehomed.work = d.work /\ rehomed.rec = d.rec /\ rehomed.match = d.match /\ rehomed.master = d.master
  <2> DEFINE overrides == [d.override EXCEPT ![t] = IF d.override[t] = None THEN d.override[s]
                                                    ELSE d.override[t],
                                             ![s] = None]
  <2>1. rehomed = [d EXCEPT !.file = files, !.override = overrides]
    BY DEF Sound, Db
  <2>2. overrides \in [Works -> Files \cup {None}]
    BY <1>0, Fields DEF Sound
  <2> HIDE DEF overrides
  <2> QED BY <1>2, <2>1, <2>2 DEF Sound, Db
<1> HIDE DEF rehomed
<1> DEFINE old == RecsOf(d, s)
<1>4. old \subseteq Recs /\ RecsOf(rehomed, s) = old /\ RecsOf(rehomed, t) = RecsOf(d, t)
  BY <1>3 DEF RecsOf
<1>5. /\ recs \in Db /\ recs.work = d.work /\ recs.match = d.match /\ recs.master = d.master
      /\ \A f \in Files : /\ recs.file[f].status = d.file[f].status
                          /\ recs.file[f].work = files[f].work
                          /\ recs.file[f].rec # None =>
                               d.file[f].rec # None /\ recs.rec[recs.file[f].rec] # None
      /\ \A p, q \in Recs : recs.rec[p] # None /\ recs.rec[q] # None /\ p # q
                            /\ recs.rec[p].work = recs.rec[q].work => recs.rec[p].work = None
      /\ \A r \in Recs : recs.rec[r] # None =>
           /\ recs.rec[r].work \in (Existing(d) \ {s}) \cup {None}
           /\ r \in LocalRecs => recs.rec[r].work # None
  <2>1. CASE RecsOf(d, t) = {}
    <3> DEFINE rows == [r \in Recs |-> IF r \in old THEN [rehomed.rec[r] EXCEPT !.work = t] ELSE rehomed.rec[r]]
    <3>1. recs = [rehomed EXCEPT !.rec = rows]
      BY <1>4, <2>1 DEF MergedRecs
    <3>2. \A r \in old : /\ [d.rec[r] EXCEPT !.work = t] \in RecRow
                         /\ [d.rec[r] EXCEPT !.work = t].work = t
      <4>1. \A r \in old : d.rec[r] \in RecRow
        BY Fields DEF RecsOf, Sound
      <4> QED BY <1>0, <4>1 DEF RecRow
    <3>3. \A r \in Recs : rows[r] = IF r \in old THEN [d.rec[r] EXCEPT !.work = t] ELSE d.rec[r]
      BY <1>3
    <3>4. rows \in [Recs -> RecRow \cup {None}]
      BY <1>3, <3>2, Fields DEF Sound
    <3> HIDE DEF rows
    <3>5. \A r \in Recs : /\ rows[r] # None <=> d.rec[r] # None
                          /\ rows[r] # None => rows[r].work = IF d.rec[r].work = s THEN t ELSE d.rec[r].work
      <4> TAKE r \in Recs
      <4>1. CASE r \in old
        BY <3>2, <3>3, <4>1, RowAssumption DEF RecsOf
      <4>2. CASE r \notin old
        BY <3>3, <4>2 DEF RecsOf
      <4> QED BY <4>1, <4>2
    <3>6. /\ recs \in Db /\ recs.work = d.work /\ recs.match = d.match /\ recs.master = d.master
          /\ recs.file = files /\ recs.rec = rows
      BY <1>3, <3>1, <3>4 DEF Db
    <3> HIDE DEF recs, old
    <3>7. \A p, q \in Recs : rows[p] # None /\ rows[q] # None /\ p # q /\ rows[p].work = rows[q].work
                             => rows[p].work = None
      BY <1>0, <2>1, <3>5 DEF Sound, RecsApart, RecsOf
    <3>8. \A r \in Recs : rows[r] # None =>
           /\ rows[r].work \in (Existing(d) \ {s}) \cup {None}
           /\ r \in LocalRecs => rows[r].work # None
      BY <1>0, <3>5 DEF Sound, RecsPlaced
    <3>9. \A f \in Files : files[f].rec # None => d.file[f].rec # None /\ rows[files[f].rec] # None
      BY <1>2, <3>5, Fields DEF Sound, FilesPlaced, FileRow
    <3> QED BY <1>2, <3>6, <3>7, <3>8, <3>9
  <2>2. CASE RecsOf(d, t) # {}
    <3> DEFINE kept == LocalRec(rehomed, t)
               files2 == [f \in Files |-> IF rehomed.file[f].rec \in old
                                          THEN [rehomed.file[f] EXCEPT !.rec = kept] ELSE rehomed.file[f]]
               rows == [r \in Recs |-> IF r \in old THEN None ELSE rehomed.rec[r]]
    <3>1. recs = [rehomed EXCEPT !.file = files2, !.rec = rows]
      BY <1>4, <2>2 DEF MergedRecs
    <3>2. kept \in RecsOf(d, t)
      BY <1>4, <2>2 DEF LocalRec
    <3>3. kept \in Recs /\ d.rec[kept] # None /\ kept \notin old
      BY <3>2 DEF RecsOf
    <3> HIDE DEF kept
    <3>4. /\ files2 \in [Files -> FileRow]
          /\ \A f \in Files : /\ files2[f].status = files[f].status /\ files2[f].work = files[f].work
                              /\ files2[f].rec = IF files[f].rec \in old THEN kept ELSE files[f].rec
      BY <1>2, <1>3, <3>3 DEF FileRow
    <3>5. /\ rows \in [Recs -> RecRow \cup {None}]
          /\ \A r \in Recs : rows[r] = IF r \in old THEN None ELSE d.rec[r]
      BY <1>3, Fields DEF Sound
    <3> HIDE DEF rows, files2
    <3>6. /\ recs \in Db /\ recs.work = d.work /\ recs.match = d.match /\ recs.master = d.master
          /\ recs.file = files2 /\ recs.rec = rows
      BY <1>3, <3>1, <3>4, <3>5 DEF Db
    <3> HIDE DEF recs
    <3>7. \A p, q \in Recs : rows[p] # None /\ rows[q] # None /\ p # q /\ rows[p].work = rows[q].work
                             => rows[p].work = None
      BY <3>5 DEF Sound, RecsApart
    <3>8. \A r \in Recs : rows[r] # None =>
           /\ rows[r].work \in (Existing(d) \ {s}) \cup {None}
           /\ r \in LocalRecs => rows[r].work # None
      BY <1>0, <3>5 DEF Sound, RecsPlaced, RecsOf
    <3>9. \A f \in Files : files2[f].rec # None => d.file[f].rec # None /\ rows[files2[f].rec] # None
      <4> TAKE f \in Files
      <4>1. d.file[f].rec # None => d.file[f].rec \in Recs /\ d.rec[d.file[f].rec] # None
        BY Fields DEF Sound, FilesPlaced, FileRow
      <4>2. None \notin old
        BY <1>4, NoneAssumption DEF Recs
      <4> HIDE DEF old
      <4> QED BY <1>2, <3>3, <3>4, <3>5, <4>1, <4>2
    <3> QED BY <1>2, <3>4, <3>6, <3>7, <3>8, <3>9
  <2> QED BY <2>1, <2>2
<1> HIDE DEF recs, old
<1>6. /\ matches \in [Songs -> [file : Files, work : Works \cup {None}] \cup {None}]
      /\ \A x \in Songs : matches[x] # None =>
           /\ d.match[x] # None /\ matches[x].file = d.match[x].file
           /\ matches[x].work = IF d.match[x].work = s THEN t ELSE d.match[x].work
  BY <1>0, Fields DEF MatchesOn, Sound
<1>7. /\ works \in [Works -> {"unmade", "gone", "local"} \cup MbWorks]
      /\ masters \in [Works -> [file : Files, manual : BOOLEAN] \cup {None}]
      /\ \A v \in Works : /\ works[v] = IF v = s THEN "gone" ELSE d.work[v]
                          /\ masters[v] = IF v = s THEN None ELSE d.master[v]
  BY <1>0, Fields DEF Sound
<1>8. moved = [recs EXCEPT !.match = matches, !.master = masters, !.work = works]
  BY <1>5
<1> HIDE DEF matches, works, masters
<1>9. /\ moved \in Db /\ moved.file = recs.file /\ moved.rec = recs.rec /\ moved.match = matches
      /\ moved.master = masters /\ moved.work = works
  BY <1>5, <1>6, <1>7, <1>8 DEF Db
<1> HIDE DEF moved
<1>10. /\ Existing(moved) = Existing(d) \ {s} /\ Unmade(moved) = Unmade(d)
       /\ Rows(moved) = Rows(d)
  <2>1. Existing(moved) = Existing(d) \ {s}
    BY <1>7, <1>9 DEF Existing
  <2>2. Unmade(moved) = Unmade(d)
    BY <1>7, <1>9 DEF Unmade, Existing
  <2>3. Rows(moved) = Rows(d)
    BY <1>5, <1>9 DEF Rows
  <2> QED BY <2>1, <2>2, <2>3
<1>11. \A f \in Files : /\ moved.file[f].status = d.file[f].status
                        /\ moved.file[f].work = IF d.file[f].work = s THEN t ELSE d.file[f].work
  BY <1>0, <1>2, <1>5, <1>9 DEF Sound, FilesPlaced
<1>12. Sound(moved)
  <2>1. RecsApart(moved) /\ RecsPlaced(moved)
    BY <1>5, <1>9, <1>10 DEF RecsApart, RecsPlaced
  <2>2. FilesPlaced(moved)
    <3> SUFFICES ASSUME NEW f \in Files
                 PROVE  /\ f \notin Rows(moved) => moved.file[f].work = None /\ moved.file[f].rec = None
                        /\ moved.file[f].work \in Existing(moved) \cup {None}
                        /\ moved.file[f].rec # None => moved.rec[moved.file[f].rec] # None
      BY DEF FilesPlaced
    <3> QED BY <1>0, <1>5, <1>9, <1>10, <1>11 DEF Sound, FilesPlaced
  <2>3. OneEach(moved)
    BY <1>7, <1>9, KindsAssumption DEF Sound, OneEach
  <2>4. MatchesKnown(moved)
    BY <1>6, <1>9, <1>11, Fields DEF Sound, MatchesKnown
  <2> QED BY <1>9, <2>1, <2>2, <2>3, <2>4 DEF Sound
<1>13. Astray(moved) \subseteq Astray(d)
  BY <1>6, <1>9, <1>10, <1>11, Fields DEF Astray, Sound
<1>14. After(d, moved)
  BY <1>11, <1>12, <1>13 DEF After, Stays
<1>15. OffWork(moved) \subseteq OffWork(d) \cup {t}
  BY <1>7, <1>9, <1>10, <1>11 DEF OffWork, FilesOn
<1>16. Kept(d, moved)
  <2> SUFFICES ASSUME NEW v \in Works, d.master[v].file \in PresentOn(moved, v)
               PROVE  moved.master[v] = d.master[v]
    BY DEF Kept, PickKept
  <2>1. v # s
    BY <1>0, <1>11 DEF PresentOn, FilesOn, Rows
  <2> QED BY <1>7, <1>9, <2>1
<1>17. /\ After(moved, e) /\ SamePlaces(moved, e) /\ Kept(moved, e)
       /\ Unmade(e) = Unmade(moved) /\ OffWork(e) \subseteq OffWork(moved) \ {t}
  BY <1>0, <1>1, <1>12, ReselectedKeeps
<1> HIDE DEF e
<1>18. After(d, e) /\ Kept(d, e)
  BY <1>14, <1>16, <1>17, AfterAfter, KeptAfter
<1>19. Unmade(e) = Unmade(d) /\ OffWork(e) \subseteq OffWork(d)
  BY <1>10, <1>15, <1>17
<1> QED BY <1>18, <1>19 DEF e

-----------------------------------------------------------------------------
(* Missing rows: a row deleted, a row folded into another. *)

\* _delete_missing_row
LEMMA DeletedRowKeeps ==
  ASSUME NEW d, Sound(d), NEW f \in Rows(d), d.file[f].status = "missing"
  PROVE  LET e == DeletedRow(d, f) IN
         /\ After(d, e) /\ Kept(d, e) /\ Unmade(e) = Unmade(d)
         /\ OffWork(e) \subseteq OffWork(d)
<1> DEFINE crowned == {w \in Works : d.master[w] # None /\ d.master[w].file = f}
           matches == [s \in Songs |-> IF s \in MatchesOf(d, f) THEN None ELSE d.match[s]]
           overrides == [w \in Works |-> IF d.override[w] = f THEN None ELSE d.override[w]]
           cleared == [w \in Works |-> IF w \in crowned THEN None ELSE d.master[w]]
           freed == [d EXCEPT !.match = matches, !.override = overrides, !.master = cleared]
           masters == [w \in Works |-> IF w \in crowned THEN Picked(freed, w) ELSE freed.master[w]]
           row == [d.file[f] EXCEPT !.status = "deleted", !.work = None, !.rec = None]
           files == [d.file EXCEPT ![f] = row]
           picked == [freed EXCEPT !.master = masters,
                                   !.file[f] = [@ EXCEPT !.status = "deleted", !.work = None, !.rec = None]]
           e == DeletedRow(d, f)
<1>0. f \in Files /\ d.file[f].work \in Existing(d) \cup {None}
  BY DEF Rows, Sound, FilesPlaced
<1>1. e = IF d.file[f].work = None THEN picked ELSE DeletedIfEmpty(picked, d.file[f].work)
  BY DEF DeletedRow
<1>2. /\ matches \in [Songs -> [file : Files, work : Works \cup {None}] \cup {None}]
      /\ \A s \in Songs : matches[s] # None =>
           d.match[s] # None /\ matches[s] = d.match[s] /\ d.match[s].file # f
      /\ overrides \in [Works -> Files \cup {None}]
      /\ cleared \in [Works -> [file : Files, manual : BOOLEAN] \cup {None}]
  BY Fields DEF Sound, MatchesOf
<1>3. \A w \in Works : cleared[w] = IF w \in crowned THEN None ELSE d.master[w]
  OBVIOUS
<1> HIDE DEF matches, overrides, cleared
<1>4. /\ freed \in Db /\ freed.file = d.file /\ freed.work = d.work /\ freed.rec = d.rec
      /\ freed.match = matches /\ freed.master = cleared /\ freed.override = overrides
  BY <1>2 DEF Sound, Db
<1> HIDE DEF freed
<1>5. /\ masters \in [Works -> [file : Files, manual : BOOLEAN] \cup {None}]
      /\ \A w \in Works \ crowned : masters[w] = d.master[w]
      /\ \A w \in crowned : masters[w] # None => masters[w].file \in PresentOn(freed, w)
  <2>1. \A w \in Works : Picked(freed, w) \in [file : Files, manual : BOOLEAN] \cup {None}
    BY <1>4, PickedIs
  <2>2. \A w \in crowned : Picked(freed, w) # None => Picked(freed, w).file \in PresentOn(freed, w)
    BY <1>3, <1>4, PickedIs
  <2>3. cleared \in [Works -> [file : Files, manual : BOOLEAN] \cup {None}]
    BY <1>2
  <2> QED BY <1>3, <1>4, <2>1, <2>2, <2>3
<1>6. /\ files \in [Files -> FileRow]
      /\ \A g \in Files : /\ files[g].status = IF g = f THEN "deleted" ELSE d.file[g].status
                          /\ files[g].work = IF g = f THEN None ELSE d.file[g].work
                          /\ files[g].rec = IF g = f THEN None ELSE d.file[g].rec
  <2>1. row \in FileRow /\ row.status = "deleted" /\ row.work = None /\ row.rec = None
    <3>1. d.file[f] \in FileRow
      BY <1>0, Fields DEF Sound
    <3> QED BY <3>1 DEF FileRow
  <2> HIDE DEF row
  <2> QED BY <1>0, <2>1, Fields DEF Sound
<1>7. picked = [freed EXCEPT !.master = masters, !.file = files]
  BY <1>4
<1> HIDE DEF masters, files, row
<1>8. /\ picked \in Db /\ picked.file = files /\ picked.work = d.work /\ picked.rec = d.rec
      /\ picked.match = matches /\ picked.master = masters
  BY <1>4, <1>5, <1>6, <1>7 DEF Db
<1> HIDE DEF picked
<1>9. Existing(picked) = Existing(d) /\ Unmade(picked) = Unmade(d) /\ Rows(picked) = Rows(d) \ {f}
  BY <1>6, <1>8 DEF Existing, Unmade, Rows, Stored
<1>10. Sound(picked)
  <2>1. RecsApart(picked) /\ RecsPlaced(picked) /\ OneEach(picked)
    BY <1>8, <1>9 DEF Sound, RecsApart, RecsPlaced, OneEach
  <2>2. FilesPlaced(picked)
    <3> SUFFICES ASSUME NEW g \in Files
                 PROVE  /\ g \notin Rows(picked) => picked.file[g].work = None /\ picked.file[g].rec = None
                        /\ picked.file[g].work \in Existing(picked) \cup {None}
                        /\ picked.file[g].rec # None => picked.rec[picked.file[g].rec] # None
      BY DEF FilesPlaced
    <3> QED BY <1>6, <1>8, <1>9 DEF Sound, FilesPlaced
  <2>3. MatchesKnown(picked)
    BY <1>2, <1>6, <1>8, Fields DEF Sound, MatchesKnown
  <2> QED BY <1>8, <2>1, <2>2, <2>3 DEF Sound
<1>11. Astray(picked) \subseteq Astray(d)
  BY <1>2, <1>6, <1>8, <1>9 DEF Astray
<1>12. After(d, picked)
  BY <1>6, <1>8, <1>10, <1>11 DEF After, Stays
<1>13. Kept(d, picked)
  <2> SUFFICES ASSUME NEW w \in Works, d.master[w] # None, d.master[w].file \in PresentOn(picked, w)
               PROVE  picked.master[w] = d.master[w]
    BY DEF Kept, PickKept
  <2>1. d.master[w].file # f
    BY <1>9 DEF PresentOn, FilesOn
  <2> QED BY <1>5, <1>8, <2>1
<1>14. OffWork(picked) \subseteq OffWork(d)
  <2> SUFFICES ASSUME NEW w \in Works, picked.master[w] # None, w \notin OffWork(d)
               PROVE  picked.master[w].file \in FilesOn(picked, w)
    BY DEF OffWork
  <2>1. CASE w \in crowned
    <3>1. picked.master[w].file \in PresentOn(d, w)
      BY <1>4, <1>5, <1>8, <2>1 DEF PresentOn, FilesOn, Rows
    <3>2. picked.master[w].file # f
      BY <3>1 DEF PresentOn
    <3> QED BY <1>6, <1>8, <1>9, <3>1, <3>2 DEF PresentOn, FilesOn, Rows
  <2>2. CASE w \notin crowned
    <3>1. picked.master[w] = d.master[w] /\ d.master[w].file # f
      BY <1>5, <1>8, <2>2
    <3>2. d.master[w].file \in FilesOn(d, w)
      BY <3>1 DEF OffWork
    <3> QED BY <1>6, <1>8, <1>9, <3>1, <3>2 DEF FilesOn, Rows
  <2> QED BY <2>1, <2>2
<1>15. CASE d.file[f].work = None
  BY <1>1, <1>9, <1>12, <1>13, <1>14, <1>15
<1>16. CASE d.file[f].work # None
  <2> DEFINE w == d.file[f].work
  <2>1. w \in Works /\ e = DeletedIfEmpty(picked, w)
    BY <1>0, <1>1, <1>16 DEF Existing
  <2> HIDE DEF w, e
  <2>2. /\ After(picked, e) /\ Kept(picked, e) /\ e.file = picked.file
        /\ Unmade(e) = Unmade(picked) /\ OffWork(e) \subseteq OffWork(picked)
    BY <1>10, <2>1, DeletedIfEmptyKeeps
  <2>3. After(d, e) /\ Kept(d, e)
    BY <1>12, <1>13, <2>2, AfterAfter, KeptAfter DEF SamePlaces
  <2> QED BY <1>9, <1>14, <2>2, <2>3 DEF e
<1> QED BY <1>15, <1>16

\* What a write promises to the histories: beyond what was astray or off before, only what
\* it names.
Good(d, e, elsewhere, late) ==
  /\ Sound(e) /\ Stays(d, e)
  /\ Astray(e) \subseteq Astray(d) \cup late
  /\ OffWork(e) \subseteq OffWork(d) \cup elsewhere

\* merge_into: the master and the matches of f are g's now, whichever work g is on.
LEMMA MergedIntoKeeps ==
  ASSUME NEW d, Sound(d), NEW f \in Rows(d), d.file[f].status = "missing",
         NEW g \in Rows(d), d.file[g].status = "there"
  PROVE  LET e == MergedInto(d, f, g)
             a == d.file[f].work
             b == d.file[g].work IN
         /\ Sound(e) /\ Stays(d, e) /\ Kept(d, e)
         /\ Rows(e) = Rows(d) \ {f} /\ Existing(e) = Existing(d) /\ e.file[g].work = b
         /\ OffWork(e) \subseteq OffWork(d) \cup ({a} \ {b})
         /\ MatchesOf(e, g) \subseteq MatchesOf(d, f) \cup MatchesOf(d, g)
         /\ \A s \in Astray(e) : s \in Astray(d) \/ (s \in MatchesOf(e, g) /\ a # b)
<1> DEFINE a == d.file[f].work
           b == d.file[g].work
           At(x) == IF x = f THEN g ELSE x
           row == [d.file[f] EXCEPT !.status = "deleted", !.work = None, !.rec = None]
           files == [d.file EXCEPT ![f] = row]
           matches == [s \in Songs |-> IF d.match[s] = None THEN None ELSE [d.match[s] EXCEPT !.file = At(@)]]
           masters == [x \in Works |-> IF d.master[x] = None THEN None ELSE [d.master[x] EXCEPT !.file = At(@)]]
           overrides == [x \in Works |-> At(d.override[x])]
           merged == MergedInto(d, f, g)
<1>0. f \in Files /\ g \in Files /\ f # g
  BY DEF Rows
<1>2. /\ files \in [Files -> FileRow]
      /\ \A h \in Files : /\ files[h].status = IF h = f THEN "deleted" ELSE d.file[h].status
                          /\ files[h].work = IF h = f THEN None ELSE d.file[h].work
                          /\ files[h].rec = IF h = f THEN None ELSE d.file[h].rec
  <2>1. row \in FileRow /\ row.status = "deleted" /\ row.work = None /\ row.rec = None
    <3>1. d.file[f] \in FileRow
      BY <1>0, Fields DEF Sound
    <3> QED BY <3>1 DEF FileRow
  <2> HIDE DEF row
  <2> QED BY <1>0, <2>1, Fields DEF Sound
<1>3. /\ matches \in [Songs -> [file : Files, work : Works \cup {None}] \cup {None}]
      /\ \A s \in Songs : matches[s] # None =>
           /\ d.match[s] # None /\ matches[s].file = IF d.match[s].file = f THEN g ELSE d.match[s].file
           /\ matches[s].work = d.match[s].work
  BY <1>0, Fields DEF Sound
<1>4. /\ masters \in [Works -> [file : Files, manual : BOOLEAN] \cup {None}]
      /\ \A x \in Works : masters[x] # None =>
           /\ d.master[x] # None /\ masters[x].file = IF d.master[x].file = f THEN g ELSE d.master[x].file
      /\ \A x \in Works : d.master[x] # None /\ d.master[x].file # f => masters[x] = d.master[x]
  <2>1. \A x \in Works : d.master[x] # None =>
          /\ d.master[x] \in [file : Files, manual : BOOLEAN]
          /\ d.master[x].file # f => [d.master[x] EXCEPT !.file = d.master[x].file] = d.master[x]
    BY Fields DEF Sound
  <2> QED BY <1>0, <2>1
<1>5. overrides \in [Works -> Files \cup {None}]
  BY <1>0, Fields DEF Sound
<1>6. merged = [d EXCEPT !.file = files, !.match = matches, !.master = masters, !.override = overrides]
  BY DEF MergedInto
<1> HIDE DEF files, row, matches, masters, overrides
<1>7. /\ merged \in Db /\ merged.file = files /\ merged.work = d.work /\ merged.rec = d.rec
      /\ merged.match = matches /\ merged.master = masters
  <2> HIDE DEF merged
  <2> QED BY <1>2, <1>3, <1>4, <1>5, <1>6 DEF Db, Sound
<1> HIDE DEF merged
<1>8. /\ Existing(merged) = Existing(d) /\ Unmade(merged) = Unmade(d) /\ Rows(merged) = Rows(d) \ {f}
  BY <1>2, <1>7 DEF Existing, Unmade, Rows, Stored
<1>9. Sound(merged)
  <2>1. RecsApart(merged) /\ RecsPlaced(merged) /\ OneEach(merged)
    BY <1>7, <1>8 DEF Sound, RecsApart, RecsPlaced, OneEach
  <2>2. FilesPlaced(merged)
    <3> SUFFICES ASSUME NEW h \in Files
                 PROVE  /\ h \notin Rows(merged) =>
                             merged.file[h].work = None /\ merged.file[h].rec = None
                        /\ merged.file[h].work \in Existing(merged) \cup {None}
                        /\ merged.file[h].rec # None => merged.rec[merged.file[h].rec] # None
      BY DEF FilesPlaced
    <3> QED BY <1>2, <1>7, <1>8 DEF Sound, FilesPlaced
  <2>3. MatchesKnown(merged)
    <3> SUFFICES ASSUME NEW s \in Songs, matches[s] # None
                 PROVE  files[matches[s].file].status # "none"
      BY <1>7 DEF MatchesKnown
    <3>1. d.match[s] # None /\ d.match[s].file \in Files
      BY <1>3, Fields DEF Sound
    <3> QED BY <1>0, <1>2, <1>3, <3>1 DEF Sound, MatchesKnown
  <2> QED BY <1>7, <2>1, <2>2, <2>3 DEF Sound
<1>10. Stays(d, merged)
  BY <1>2, <1>7 DEF Stays
<1>11. Kept(d, merged)
  <2> SUFFICES ASSUME NEW x \in Works, d.master[x] # None, d.master[x].file \in PresentOn(merged, x)
               PROVE  merged.master[x] = d.master[x]
    BY DEF Kept, PickKept
  <2>1. d.master[x].file # f
    BY <1>8 DEF PresentOn, FilesOn
  <2> QED BY <1>4, <1>7, <2>1
<1>12. OffWork(merged) \subseteq OffWork(d) \cup ({a} \ {b})
  <2> SUFFICES ASSUME NEW x \in Works, merged.master[x] # None, x \notin OffWork(d), x \notin {a} \ {b}
               PROVE  merged.master[x].file \in FilesOn(merged, x)
    BY DEF OffWork
  <2>1. d.master[x] # None /\ d.master[x].file \in FilesOn(d, x)
    BY <1>4, <1>7 DEF OffWork
  <2>2. CASE d.master[x].file = f
    <3>1. x = a /\ x = b
      BY <2>1, <2>2 DEF FilesOn
    <3> QED BY <1>0, <1>2, <1>4, <1>7, <1>8, <2>2, <3>1 DEF FilesOn
  <2>3. CASE d.master[x].file # f
    BY <1>2, <1>4, <1>7, <1>8, <2>1, <2>3 DEF FilesOn
  <2> QED BY <2>2, <2>3
<1>13. \A s \in Astray(merged) : s \in Astray(d) \/ (merged.match[s].file = g /\ a # b)
  <2> TAKE s \in Astray(merged)
  <2>1. /\ s \in Songs /\ matches[s] # None /\ matches[s].file \in Rows(d) /\ matches[s].file # f
        /\ matches[s].work # files[matches[s].file].work
    BY <1>7, <1>8 DEF Astray
  <2>2. /\ d.match[s] # None /\ matches[s].file = IF d.match[s].file = f THEN g ELSE d.match[s].file
        /\ matches[s].work = d.match[s].work
    BY <1>3, <2>1
  <2>3. matches[s].file \in Files
    BY <2>1 DEF Rows
  <2>4. CASE d.match[s].file = f
    <3>1. matches[s].file = g /\ files[g].work = b
      BY <1>0, <1>2, <2>2, <2>4
    <3>2. d.match[s].work # b
      BY <2>1, <2>2, <3>1
    <3>3. d.match[s].work # a => s \in Astray(d)
      BY <2>1, <2>2, <2>4 DEF Astray
    <3> QED BY <1>7, <3>1, <3>2, <3>3
  <2>5. CASE d.match[s].file # f
    <3>1. matches[s].file = d.match[s].file
      BY <2>2, <2>5
    <3>2. files[d.match[s].file].work = d.file[d.match[s].file].work
      BY <1>2, <2>3, <2>5, <3>1
    <3> QED BY <2>1, <2>2, <3>1, <3>2 DEF Astray
  <2> QED BY <2>4, <2>5
<1>14. MatchesOf(merged, g) \subseteq MatchesOf(d, f) \cup MatchesOf(d, g)
  BY <1>3, <1>7 DEF MatchesOf
<1>15. \A s \in Astray(merged) : s \in Astray(d) \/ (s \in MatchesOf(merged, g) /\ a # b)
  BY <1>13 DEF Astray, MatchesOf
<1>16. merged.file[g].work = b
  BY <1>0, <1>2, <1>7
<1> QED BY <1>8, <1>9, <1>10, <1>11, <1>12, <1>14, <1>15, <1>16 DEF merged

\* remap or fold: what the plan's works do not tell, the histories do.
LEMMA FoldedKeeps ==
  ASSUME NEW d, Sound(d), NEW f \in Rows(d), d.file[f].status = "missing",
         NEW g \in Rows(d), d.file[g].status = "there",
         NEW left \in Works \cup {None}, NEW w \in Works
  PROVE  LET e == Folded(d, f, g, left, w)
             overtaken == left # d.file[f].work \/ w # d.file[g].work IN
         /\ Good(d, e, IF overtaken THEN {d.file[f].work} ELSE {},
                       IF overtaken THEN MatchesOf(d, f) \cup MatchesOf(d, g) ELSE {})
         /\ Kept(d, e)
<1> DEFINE a == d.file[f].work
           b == d.file[g].work
           overtaken == left # a \/ w # b
           elsewhere == IF overtaken THEN {a} ELSE {}
           late == IF overtaken THEN MatchesOf(d, f) \cup MatchesOf(d, g) ELSE {}
           merged == MergedInto(d, f, g)
           e == Folded(d, f, g, left, w)
<1>1. /\ Sound(merged) /\ Stays(d, merged) /\ Kept(d, merged)
      /\ Rows(merged) = Rows(d) \ {f} /\ Existing(merged) = Existing(d) /\ merged.file[g].work = b
      /\ OffWork(merged) \subseteq OffWork(d) \cup ({a} \ {b})
      /\ MatchesOf(merged, g) \subseteq MatchesOf(d, f) \cup MatchesOf(d, g)
      /\ \A s \in Astray(merged) : s \in Astray(d) \/ (s \in MatchesOf(merged, g) /\ a # b)
  BY MergedIntoKeeps
<1>2. g \in Files /\ f \in Files
  BY DEF Rows
<1> HIDE DEF merged, a, b
<1>3. CASE left = w
  <2>1. e = merged
    BY <1>3 DEF Folded, merged
  <2>2. OffWork(merged) \subseteq OffWork(d) \cup elsewhere
    BY <1>1, <1>3
  <2>3. Astray(merged) \subseteq Astray(d) \cup late
    BY <1>1, <1>3
  <2> HIDE DEF elsewhere, late, e
  <2>4. Good(d, e, elsewhere, late) /\ Kept(d, e)
    BY <1>1, <2>1, <2>2, <2>3 DEF Good
  <2> QED BY <2>4 DEF elsewhere, late, e, a, b
<1>4. CASE left # w
  <2> DEFINE matches == [s \in Songs |-> IF s \in MatchesOf(merged, g)
                                         THEN [merged.match[s] EXCEPT !.work = w] ELSE merged.match[s]]
             moved == [merged EXCEPT !.match = matches]
             settled == IF None \in {left, w} \/ moved.override[left] # g THEN moved
                        ELSE [moved EXCEPT !.override[left] = None,
                                !.override[w] = IF moved.override[w] = None THEN g ELSE moved.override[w]]
  <2>1. e = IF left = None THEN settled ELSE DeletedIfEmpty(Reselected(settled, left), left)
    BY <1>4 DEF Folded, SettledAcross, merged
  <2>2. /\ matches \in [Songs -> [file : Files, work : Works \cup {None}] \cup {None}]
        /\ \A s \in Songs : /\ matches[s] # None => merged.match[s] # None /\ matches[s].file = merged.match[s].file
                            /\ s \in MatchesOf(merged, g) => matches[s].work = w /\ matches[s].file = g
                            /\ s \notin MatchesOf(merged, g) => matches[s] = merged.match[s]
    BY <1>1, Fields DEF Sound, MatchesOf
  <2> HIDE DEF matches
  <2>3. /\ moved \in Db /\ moved.file = merged.file /\ moved.work = merged.work /\ moved.rec = merged.rec
        /\ moved.match = matches /\ moved.master = merged.master /\ moved.override = merged.override
    BY <1>1, <2>2 DEF Db, Sound
  <2> HIDE DEF moved, e
  <2>4. /\ Rows(moved) = Rows(merged) /\ Existing(moved) = Existing(merged) /\ Stays(d, moved)
        /\ Kept(d, moved)
    BY <1>1, <2>3 DEF Rows, Existing, Stays, Kept, PickKept, PresentOn, FilesOn
  <2>5. Sound(moved)
    <3>1. MatchesKnown(moved)
      BY <1>1, <2>2, <2>3 DEF Sound, MatchesKnown
    <3> QED BY <1>1, <2>3, <2>4, <3>1 DEF Sound, RecsApart, RecsPlaced, FilesPlaced, OneEach
  <2>6. OffWork(moved) \subseteq OffWork(d) \cup ({a} \ {b})
    BY <1>1, <2>3, <2>4 DEF OffWork, FilesOn
  <2>7. Astray(moved) \subseteq Astray(d) \cup late
    <3> SUFFICES ASSUME NEW s \in Astray(moved) PROVE s \in Astray(d) \cup late
      OBVIOUS
    <3>1. /\ s \in Songs /\ matches[s] # None /\ matches[s].file \in Rows(merged)
          /\ matches[s].work # merged.file[matches[s].file].work
      BY <2>3, <2>4 DEF Astray
    <3>2. CASE s \in MatchesOf(merged, g)
      BY <1>1, <2>2, <3>1, <3>2
    <3>3. CASE s \notin MatchesOf(merged, g)
      BY <1>1, <2>2, <3>1, <3>3 DEF Astray
    <3> QED BY <3>2, <3>3
  <2>8. Sound(settled) /\ Aside(moved, settled)
    <3>1. CASE None \in {left, w} \/ moved.override[left] # g
      BY <2>5, <3>1 DEF Aside, SamePlaces
    <3>2. CASE ~(None \in {left, w} \/ moved.override[left] # g)
      <4> DEFINE over == [moved.override EXCEPT ![left] = None,
                            ![w] = IF moved.override[w] = None THEN g ELSE moved.override[w]]
      <4>1. settled = [moved EXCEPT !.override = over]
        BY <3>2, <2>5 DEF Sound, Db
      <4>2. over \in [Works -> Files \cup {None}]
        BY <1>2, <2>5, <3>2, Fields DEF Sound
      <4> HIDE DEF over, settled
      <4>3. /\ settled \in Db /\ settled.file = moved.file /\ settled.work = moved.work
            /\ settled.rec = moved.rec /\ settled.match = moved.match /\ settled.master = moved.master
        BY <2>5, <4>1, <4>2 DEF Sound, Db
      <4>4. Rows(settled) = Rows(moved) /\ Existing(settled) = Existing(moved) /\ Aside(moved, settled)
        BY <4>3 DEF Rows, Existing, Aside, SamePlaces
      <4> QED BY <2>5, <4>3, <4>4 DEF Sound, RecsApart, RecsPlaced, FilesPlaced, OneEach, MatchesKnown
    <3> QED BY <3>1, <3>2
  <2> HIDE DEF settled
  <2>9. After(moved, settled) /\ Kept(moved, settled) /\ OffWork(settled) = OffWork(moved)
    BY <2>5, <2>8, RecsOnlyAfter
  <2>10. /\ Sound(settled) /\ Stays(d, settled) /\ Kept(d, settled)
         /\ Astray(settled) \subseteq Astray(d) \cup late
         /\ OffWork(settled) \subseteq OffWork(d) \cup ({a} \ {b})
    <3>1. Kept(d, settled)
      BY <2>4, <2>8, <2>9, KeptAfter DEF Aside
    <3> HIDE DEF late
    <3> QED BY <2>4, <2>6, <2>7, <2>9, <3>1 DEF After, Stays
  <2>11. CASE left = None
    <3>1. OffWork(settled) \subseteq OffWork(d) \cup elsewhere
      BY <2>10, <2>11, NoneAssumption DEF OffWork
    <3>2. e = settled
      BY <2>1, <2>11
    <3> HIDE DEF elsewhere, late
    <3>3. Good(d, e, elsewhere, late) /\ Kept(d, e)
      BY <2>10, <3>1, <3>2 DEF Good
    <3> QED BY <3>3 DEF elsewhere, late, e, a, b
  <2>12. CASE left # None
    <3> DEFINE sel == Reselected(settled, left)
    <3>1. left \in Works /\ e = DeletedIfEmpty(sel, left)
      BY <2>1, <2>12
    <3>2. /\ After(settled, sel) /\ SamePlaces(settled, sel) /\ Kept(settled, sel)
          /\ OffWork(sel) \subseteq OffWork(settled) \ {left}
      BY <2>10, <3>1, ReselectedKeeps
    <3> HIDE DEF sel
    <3>3. Sound(sel) /\ Kept(d, sel)
      BY <2>10, <3>2, KeptAfter DEF After
    <3>4. /\ After(sel, e) /\ Kept(sel, e) /\ e.file = sel.file /\ OffWork(e) \subseteq OffWork(sel)
      BY <3>1, <3>3, DeletedIfEmptyKeeps
    <3>5. OffWork(e) \subseteq OffWork(d) \cup elsewhere
      BY <2>10, <3>2, <3>4
    <3>6. Kept(d, e)
      BY <3>3, <3>4, KeptAfter DEF SamePlaces
    <3> HIDE DEF elsewhere, late
    <3>7. Sound(e) /\ Stays(d, e) /\ Astray(e) \subseteq Astray(d) \cup late
      BY <2>10, <3>2, <3>4 DEF After, Stays
    <3>8. Good(d, e, elsewhere, late)
      BY <3>5, <3>7 DEF Good
    <3> QED BY <3>6, <3>8 DEF elsewhere, late, e, a, b
  <2> QED BY <2>11, <2>12
<1> QED BY <1>3, <1>4

-----------------------------------------------------------------------------
(* The writes as the actions make them. *)

LEMMA OverrideKeeps ==
  ASSUME NEW d, Sound(d), NEW w \in Works, NEW x \in Files \cup {None}
  PROVE  LET e == [d EXCEPT !.override[w] = x] IN
         Good(d, e, {}, {}) /\ Kept(d, e) /\ Unmade(e) = Unmade(d)
<1> DEFINE e == [d EXCEPT !.override[w] = x]
           over == [d.override EXCEPT ![w] = x]
<1>1. e = [d EXCEPT !.override = over] /\ over \in [Works -> Files \cup {None}]
  BY Fields DEF Sound
<1> HIDE DEF over
<1>2. /\ e \in Db /\ e.file = d.file /\ e.work = d.work /\ e.rec = d.rec /\ e.match = d.match
      /\ e.master = d.master
  BY <1>1 DEF Sound, Db
<1> HIDE DEF e
<1>3. Rows(e) = Rows(d) /\ Existing(e) = Existing(d) /\ Unmade(e) = Unmade(d) /\ Aside(d, e)
  BY <1>2 DEF Rows, Existing, Unmade, Aside, SamePlaces
<1>4. Sound(e)
  BY <1>2, <1>3 DEF Sound, RecsApart, RecsPlaced, FilesPlaced, OneEach, MatchesKnown
<1>5. After(d, e) /\ Kept(d, e) /\ OffWork(e) = OffWork(d)
  BY <1>3, <1>4, RecsOnlyAfter
<1> QED BY <1>3, <1>4, <1>5 DEF Good, After, e

LEMMA MatchKeeps ==
  ASSUME NEW d, Sound(d), NEW s \in Songs,
         NEW m \in [file : Files, work : Works \cup {None}] \cup {None},
         m # None => d.file[m.file].status # "none"
  PROVE  LET e == [d EXCEPT !.match[s] = m] IN
         /\ Good(d, e, {}, {s}) /\ Kept(d, e) /\ Unmade(e) = Unmade(d)
         /\ m = None \/ m.work = d.file[m.file].work => Good(d, e, {}, {})
<1> DEFINE e == [d EXCEPT !.match[s] = m]
           matches == [d.match EXCEPT ![s] = m]
<1>1. /\ e = [d EXCEPT !.match = matches]
      /\ matches \in [Songs -> [file : Files, work : Works \cup {None}] \cup {None}]
      /\ \A x \in Songs : matches[x] = IF x = s THEN m ELSE d.match[x]
  BY Fields DEF Sound
<1> HIDE DEF matches
<1>2. /\ e \in Db /\ e.file = d.file /\ e.work = d.work /\ e.rec = d.rec /\ e.match = matches
      /\ e.master = d.master
  BY <1>1 DEF Sound, Db
<1> HIDE DEF e
<1>3. /\ Rows(e) = Rows(d) /\ Existing(e) = Existing(d) /\ Unmade(e) = Unmade(d)
      /\ Stays(d, e) /\ Kept(d, e)
  BY <1>2 DEF Rows, Existing, Unmade, Stays, Kept, PickKept
<1>4. Sound(e)
  <2>1. MatchesKnown(e)
    BY <1>1, <1>2 DEF Sound, MatchesKnown
  <2> QED BY <1>2, <1>3, <2>1 DEF Sound, RecsApart, RecsPlaced, FilesPlaced, OneEach
<1>5. OffWork(e) = OffWork(d)
  BY <1>2, <1>3 DEF OffWork, FilesOn
<1>6. Astray(e) \subseteq Astray(d) \cup {s}
  BY <1>1, <1>2, <1>3 DEF Astray
<1>7. m = None \/ m.work = d.file[m.file].work => Astray(e) \subseteq Astray(d)
  BY <1>1, <1>2, <1>3 DEF Astray
<1> QED BY <1>3, <1>4, <1>5, <1>6, <1>7 DEF Good, e

LEMMA ClearedKeeps ==
  ASSUME NEW d, Sound(d), NEW w \in Works
  PROVE  LET e == [d EXCEPT !.master[w] = None] IN
         /\ Good(d, e, {}, {}) /\ Unmade(e) = Unmade(d)
         /\ \A v \in Works \ {w} : PickKept(d, e, v)
<1> DEFINE e == [d EXCEPT !.master[w] = None]
           masters == [d.master EXCEPT ![w] = None]
<1>1. /\ e = [d EXCEPT !.master = masters]
      /\ masters \in [Works -> [file : Files, manual : BOOLEAN] \cup {None}]
      /\ \A v \in Works : masters[v] = IF v = w THEN None ELSE d.master[v]
  BY Fields DEF Sound
<1> HIDE DEF masters
<1>2. /\ e \in Db /\ e.file = d.file /\ e.work = d.work /\ e.rec = d.rec /\ e.match = d.match
      /\ e.master = masters
  BY <1>1 DEF Sound, Db
<1> HIDE DEF e
<1>3. /\ After(d, e) /\ Unmade(e) = Unmade(d)
      /\ \A v \in Works : FilesOn(e, v) = FilesOn(d, v)
  BY <1>2, MastersOnly
<1>4. OffWork(e) \subseteq OffWork(d) /\ \A v \in Works \ {w} : PickKept(d, e, v)
  BY <1>1, <1>2, <1>3 DEF OffWork, PickKept
<1> QED BY <1>3, <1>4 DEF Good, After, e

\* A scan's write of the statuses, or a reset of the enrichment.
LEMMA TouchedKeeps ==
  ASSUME NEW d, Sound(d), NEW files \in [Files -> FileRow],
         \A f \in Files : /\ files[f].work = d.file[f].work /\ files[f].rec = d.file[f].rec
                          /\ files[f].status = "none" => d.file[f].status = "none"
                          /\ f \in Rows(d) => files[f].status \in Stored
                          /\ d.file[f].status = "deleted" => files[f].status = "deleted"
  PROVE  LET e == [d EXCEPT !.file = files] IN Good(d, e, {}, {}) /\ Kept(d, e)
<1> DEFINE e == [d EXCEPT !.file = files]
<1>1. /\ e \in Db /\ e.file = files /\ e.work = d.work /\ e.rec = d.rec /\ e.match = d.match
      /\ e.master = d.master
  BY DEF Sound, Db
<1> HIDE DEF e
<1>2. Rows(d) \subseteq Rows(e) /\ Existing(e) = Existing(d) /\ Stays(d, e) /\ Kept(d, e)
  BY <1>1 DEF Rows, Existing, Stays, Kept, PickKept
<1>3. Sound(e)
  <2>1. RecsApart(e) /\ RecsPlaced(e) /\ OneEach(e)
    BY <1>1, <1>2 DEF Sound, RecsApart, RecsPlaced, OneEach
  <2>2. FilesPlaced(e)
    BY <1>1, <1>2 DEF Sound, FilesPlaced
  <2>3. MatchesKnown(e)
    BY <1>1, Fields DEF Sound, MatchesKnown
  <2> QED BY <1>1, <2>1, <2>2, <2>3 DEF Sound
<1>4. OffWork(e) \subseteq OffWork(d)
  <2>1. \A w \in Works : FilesOn(d, w) \subseteq FilesOn(e, w)
    BY <1>1, <1>2 DEF FilesOn, Rows
  <2> QED BY <1>1, <2>1 DEF OffWork
<1>5. Astray(e) \subseteq Astray(d)
  <2> SUFFICES ASSUME NEW s \in Astray(e) PROVE s \in Astray(d)
    OBVIOUS
  <2>1. s \in Songs /\ d.match[s] # None /\ d.match[s].file \in Files
        /\ files[d.match[s].file].status \in Stored
        /\ d.match[s].work # files[d.match[s].file].work
    BY <1>1 DEF Astray, Rows
  <2>2. d.file[d.match[s].file].status \in {"none", "deleted"} \cup Stored
    BY <2>1, Fields DEF Sound, FileRow
  <2>3. d.match[s].file \in Rows(d)
    BY <2>1, <2>2 DEF Sound, MatchesKnown, Rows, Stored
  <2> QED BY <2>1, <2>3 DEF Astray
<1> QED BY <1>2, <1>3, <1>4, <1>5 DEF Good, e

LEMMA GoodAfter ==
  ASSUME NEW d, NEW e, After(d, e), OffWork(e) \subseteq OffWork(d)
  PROVE  Good(d, e, {}, {})
BY DEF Good, After

\* A write that went by the work p of a file that is on x.
LEMMA GoodBehind ==
  ASSUME NEW d, NEW e, After(d, e), NEW x, NEW p, OffWork(e) \subseteq OffWork(d) \cup ({x} \ {p})
  PROVE  Good(d, e, IF p = x THEN {} ELSE {x}, {})
BY DEF Good, After

LEMMA AsideGood ==
  ASSUME NEW d, Sound(d), NEW e, Sound(e), Aside(d, e)
  PROVE  Good(d, e, {}, {}) /\ Kept(d, e)
BY RecsOnlyAfter, GoodAfter

LEMMA BatchLinkKeeps ==
  ASSUME NEW d, Sound(d), NEW f \in Files, NEW r \in MbRecs
  PROVE  LET e == Linked(WithRecording(d, r, None), f, r, "enriched") IN
         Good(d, e, {}, {}) /\ Kept(d, e)
<1> DEFINE h == WithRecording(d, r, None)
           e == Linked(h, f, r, "enriched")
<1>1. Sound(h) /\ Aside(d, h) /\ h.rec[r] # None
  BY RecordingKeeps
<1> HIDE DEF h
<1>2. Sound(e) /\ Aside(h, e)
  BY <1>1, LinkedKeeps DEF Recs
<1> HIDE DEF e
<1>3. Aside(d, e)
  BY <1>1, <1>2, AsideAside
<1> QED BY <1>2, <1>3, AsideGood DEF e, h

LEMMA LinkLookedUp ==
  ASSUME NEW d, Sound(d), NEW f \in Files, NEW r \in MbRecs, NEW m \in MbWorks, Unmade(d) # {},
         NEW prev \in Works \cup {None},
         ~\E w \in Works : d.work[w] = m /\ SlotTaken(d, r, w)
  PROVE  LET w == MbWork(d, m)
             e == Moved(Linked(WithRecording(WithMbWork(d, m), r, w), f, r, "enriched"), f, prev, w) IN
         Good(d, e, IF prev = d.file[f].work THEN {} ELSE {d.file[f].work}, {}) /\ Kept(d, e)
<1> DEFINE w == MbWork(d, m)
           a == WithMbWork(d, m)
           b == WithRecording(a, r, w)
           c == Linked(b, f, r, "enriched")
           e == Moved(c, f, prev, w)
<1>1. /\ Sound(a) /\ Aside(d, a) /\ a.file = d.file /\ a.rec = d.rec
      /\ w \in Existing(a)
      /\ d.work[w] = m \/ RecsOf(d, w) = {}
  BY MbWorkKeeps
<1> HIDE DEF a, w
<1>2. ~SlotTaken(a, r, w)
  <2>1. ~SlotTaken(d, r, w)
    BY <1>1 DEF SlotTaken, Existing
  <2> QED BY <1>1, <2>1 DEF SlotTaken, RecsOf
<1>3. Sound(b) /\ Aside(a, b) /\ b.file = a.file /\ b.work = a.work /\ b.rec[r] # None
  BY <1>1, <1>2, RecordingKeeps
<1> HIDE DEF b
<1>4. Sound(c) /\ Aside(b, c) /\ c.work = b.work
  BY <1>3, LinkedKeeps DEF Recs
<1> HIDE DEF c
<1>5. Aside(d, c)
  BY <1>1, <1>3, <1>4, AsideAside
<1>6. /\ After(d, c) /\ Kept(d, c) /\ OffWork(c) = OffWork(d) /\ SamePlaces(d, c)
      /\ c.file[f].work = d.file[f].work
  BY <1>4, <1>5, RecsOnlyAfter DEF Aside, SamePlaces
<1>7. w \in Existing(c)
  BY <1>1, <1>3, <1>4 DEF Existing
<1>8. After(c, e) /\ Kept(c, e) /\ OffWork(e) \subseteq OffWork(c) \cup ({c.file[f].work} \ {prev})
  BY <1>4, <1>7, MovedKeeps
<1> HIDE DEF e
<1>9. After(d, e) /\ Kept(d, e)
  BY <1>6, <1>8, AfterAfter, KeptAfter
<1>10. OffWork(e) \subseteq OffWork(d) \cup ({d.file[f].work} \ {prev})
  BY <1>6, <1>8
<1> QED BY <1>9, <1>10, GoodBehind DEF a, b, c, e, w

LEMMA RecordingLookedUp ==
  ASSUME NEW d, Sound(d), NEW r \in MbRecs, NEW m \in MbWorks \cup {None}, Unmade(d) # {}, NEW known,
         NEW new \in {d, IF m = None THEN d ELSE LookupApplied(WithMbWork(d, m), r, known, MbWork(d, m))}
  PROVE  Good(d, Enhanced(new, r), {}, {}) /\ Kept(d, Enhanced(new, r))
<1>1. After(d, new) /\ Kept(d, new) /\ OffWork(new) \subseteq OffWork(d)
  <2>1. CASE new = d
    BY <2>1 DEF After, Kept, PickKept, Stays
  <2>2. CASE m # None /\ new = LookupApplied(WithMbWork(d, m), r, known, MbWork(d, m))
    <3> DEFINE a == WithMbWork(d, m)
               w == MbWork(d, m)
    <3>1. Sound(a) /\ Aside(d, a) /\ w \in Existing(a)
      BY <2>2, MbWorkKeeps
    <3>2. new = LookupApplied(a, r, known, w)
      BY <2>2
    <3> HIDE DEF a, w
    <3>3. After(a, new) /\ Kept(a, new) /\ OffWork(new) \subseteq OffWork(a)
      BY <3>1, <3>2, LookupKeeps
    <3>4. After(d, a) /\ Kept(d, a) /\ OffWork(a) = OffWork(d) /\ SamePlaces(d, a)
      BY <3>1, RecsOnlyAfter DEF Aside
    <3> QED BY <3>3, <3>4, AfterAfter, KeptAfter
  <2> QED BY <2>1, <2>2
<1>2. Sound(new)
  BY <1>1 DEF After
<1> DEFINE e == Enhanced(new, r)
<1>3. Sound(e) /\ Aside(new, e)
  BY <1>2, EnhancedKeeps
<1> HIDE DEF e
<1>4. After(new, e) /\ Kept(new, e) /\ OffWork(e) = OffWork(new) /\ SamePlaces(new, e)
  BY <1>2, <1>3, RecsOnlyAfter DEF Aside
<1>5. After(d, e) /\ Kept(d, e) /\ OffWork(e) \subseteq OffWork(d)
  BY <1>1, <1>4, AfterAfter, KeptAfter
<1> QED BY <1>5, GoodAfter DEF e

LEMMA TitledKeeps ==
  ASSUME NEW d, Sound(d), NEW f \in Rows(d), NEW w \in Existing(d)
  PROVE  LET e == Grouped(WithLocalRec(d, w), f, w, LocalRec(d, w)) IN
         /\ After(d, e) /\ Kept(d, e) /\ OffWork(e) \subseteq OffWork(d) \cup {d.file[f].work}
         /\ d.master[w].file = f => w \notin OffWork(e)
<1> DEFINE h == WithLocalRec(d, w)
           r == LocalRec(d, w)
           e == Grouped(h, f, w, r)
<1>1. /\ Sound(h) /\ Aside(d, h) /\ h.file = d.file /\ h.work = d.work
      /\ r \in Recs /\ h.rec[r] # None
  BY LocalRecKeeps
<1> HIDE DEF h, r
<1>2. f \in Rows(h) /\ w \in Existing(h) /\ h.master = d.master /\ h.file[f].work = d.file[f].work
  BY <1>1 DEF Rows, Existing, Aside
<1>3. /\ After(h, e) /\ Kept(h, e) /\ OffWork(e) \subseteq OffWork(h) \cup {d.file[f].work}
      /\ h.master[w].file = f => w \notin OffWork(e)
  BY <1>1, <1>2, GroupedKeeps
<1> HIDE DEF e
<1>4. After(d, h) /\ Kept(d, h) /\ OffWork(h) = OffWork(d) /\ SamePlaces(d, h)
  BY <1>1, RecsOnlyAfter DEF Aside
<1>5. After(d, e) /\ Kept(d, e)
  BY <1>3, <1>4, AfterAfter, KeptAfter
<1> QED BY <1>2, <1>3, <1>4, <1>5 DEF e, h, r

LEMMA NewTitledKeeps ==
  ASSUME NEW d, Sound(d), NEW f \in Rows(d), Unmade(d) # {}
  PROVE  LET made == WithLocalWork(d, f)
             w == NewWork(d)
             e == Grouped(WithLocalRec(made, w), f, w, LocalRec(made, w)) IN
         After(d, e) /\ Kept(d, e) /\ OffWork(e) \subseteq OffWork(d) \cup {d.file[f].work}
<1> DEFINE made == WithLocalWork(d, f)
           w == NewWork(d)
           e == Grouped(WithLocalRec(made, w), f, w, LocalRec(made, w))
<1>0. f \in Files
  BY DEF Rows
<1>1. /\ Sound(made) /\ SamePlaces(d, made) /\ Stays(d, made) /\ Kept(d, made) /\ Astray(made) = Astray(d)
      /\ w \in Existing(made) /\ OffWork(made) \subseteq OffWork(d) \cup {w}
      /\ made.master[w].file = f /\ made.file = d.file
  BY <1>0, LocalWorkKeeps
<1> HIDE DEF made, w
<1>2. f \in Rows(made) /\ made.file[f].work = d.file[f].work
  BY <1>1 DEF Rows
<1>3. /\ After(made, e) /\ Kept(made, e) /\ OffWork(e) \subseteq OffWork(made) \cup {d.file[f].work}
      /\ w \notin OffWork(e)
  BY <1>1, <1>2, TitledKeeps
<1> HIDE DEF e
<1>4. After(d, made)
  BY <1>1 DEF After
<1>5. After(d, e) /\ Kept(d, e) /\ OffWork(e) \subseteq OffWork(d) \cup {d.file[f].work}
  BY <1>1, <1>3, <1>4, AfterAfter, KeptAfter
<1> QED BY <1>5 DEF e, made, w

-----------------------------------------------------------------------------
(* The invariant, and the requests that keep it. *)

\* Where the worker is says what its item holds.
JobInv ==
  /\ job \in Jobs
  /\ job.step = "draft" => job.file \in Files /\ db.file[job.file].status # "none"

\* The inductive invariant.
IInv ==
  /\ Sound(db) /\ JobInv
  /\ facts \in Facts /\ seen \in [Files -> SUBSET (Works \cup {None})]
  /\ due \subseteq Works /\ strayed \subseteq Works /\ raced \subseteq Songs
  /\ MatchFollowsFile /\ MasterOnItsWork

\* What a write leaves of the invariant.
Written ==
  /\ Sound(db') /\ Stays(db, db')
  /\ facts' \in Facts /\ seen' \in [Files -> SUBSET (Works \cup {None})]
  /\ strayed' \subseteq Works /\ raced' \subseteq Songs
  /\ MatchFollowsFile' /\ MasterOnItsWork'

LEMMA WriteKeeps ==
  ASSUME IInv, NEW new, NEW elsewhere, NEW late, Write(new, elsewhere, late), Good(db, new, elsewhere, late)
  PROVE  Written
<1>1. db' = new /\ facts' = facts
  BY DEF Write
<1>2. /\ Astray(db') \subseteq raced' /\ OffWork(db') \subseteq strayed'
      /\ raced' \subseteq Astray(db') /\ strayed' \subseteq OffWork(db')
  BY <1>1 DEF Write, Good, IInv, MatchFollowsFile, MasterOnItsWork
<1>3. Astray(db') \subseteq Songs /\ OffWork(db') \subseteq Works
  BY DEF Astray, OffWork
<1>4. seen' \in [Files -> SUBSET (Works \cup {None})]
  <2>1. \A f \in Files : db'.file[f].work \in Works \cup {None}
    BY <1>1, Fields DEF Good, Sound, FileRow
  <2> QED BY <2>1 DEF Write, IInv
<1> QED BY <1>1, <1>2, <1>3, <1>4 DEF Written, Good, IInv, MatchFollowsFile, MasterOnItsWork

\* A step keeps the manual pick of w, or the curator set or cleared it.
PickStands(w) == PickKept(db, db', w) \/ DeleteMaster(w) \/ \E f \in Files : SetMaster(w, f)

\* What a request keeps: the item it overtakes still finds what it counts on.
Asked ==
  /\ Written /\ UNCHANGED job /\ due' \subseteq Works
  /\ \A w \in Works : PickStands(w)

LEMMA RequestKeeps ==
  ASSUME IInv, NEW new, NEW elsewhere, NEW late, RequestBy(new, elsewhere, late),
         Good(db, new, elsewhere, late), due' \subseteq Works,
         \A w \in Works : PickKept(db, new, w) \/ DeleteMaster(w) \/ \E f \in Files : SetMaster(w, f)
  PROVE  Asked
<1>1. db' = new /\ UNCHANGED job /\ Write(new, elsewhere, late)
  BY DEF RequestBy, Write
<1> QED BY <1>1, WriteKeeps DEF Asked, PickStands

LEMMA AsksStep ==
  ASSUME IInv, Asks
  PROVE  Asked
<1> USE DEF IInv
<1>0. /\ Sound(db) /\ due \subseteq Works
      /\ \A f \in Rows(db) : f \in Files /\ db.file[f].work \in Existing(db) \cup {None}
      /\ \A w \in Existing(db) : w \in Works
      /\ \A w \in Works : PresentOn(db, w) \subseteq Files
      /\ \A f \in Files : seen[f] \subseteq Works \cup {None}
  BY DEF Sound, FilesPlaced, Rows, Existing, PresentOn, FilesOn
<1>1. ASSUME NEW w \in Works, NEW f \in Files, SetMaster(w, f) PROVE Asked
  <2>1. PICK p \in seen[f] :
          RequestBy(WithMaster(db, w, f, p), IF p = db.file[f].work THEN {} ELSE {w, db.file[f].work}, {})
    BY <1>1 DEF SetMaster
  <2> DEFINE new == WithMaster(db, w, f, p)
             elsewhere == IF p = db.file[f].work THEN {} ELSE {w, db.file[f].work}
  <2>2. /\ After(db, new) /\ OffWork(new) \subseteq OffWork(db) \cup elsewhere
        /\ \A v \in Works \ {w} : PickKept(db, new, v)
    BY <1>0, <1>1, <2>1, WithMasterKeeps DEF SetMaster
  <2>3. RequestBy(new, elsewhere, {}) /\ due' \subseteq Works
    BY <1>0, <1>1, <2>1 DEF SetMaster
  <2> HIDE DEF new, elsewhere
  <2>4. Good(db, new, elsewhere, {})
    BY <2>2 DEF Good, After
  <2> QED BY <1>1, <2>2, <2>3, <2>4, RequestKeeps
<1>2. ASSUME NEW w \in Works, DeleteMaster(w) PROVE Asked
  <2> DEFINE new == [db EXCEPT !.master[w] = None]
  <2>1. Good(db, new, {}, {}) /\ \A v \in Works \ {w} : PickKept(db, new, v)
    BY <1>0, ClearedKeeps
  <2>2. RequestBy(new, {}, {}) /\ due' \subseteq Works
    BY <1>0, <1>2 DEF DeleteMaster, Request
  <2> HIDE DEF new
  <2> QED BY <1>2, <2>1, <2>2, RequestKeeps
<1>3. ASSUME NEW w \in Works, NEW f \in Files, CreateOverride(w, f) PROVE Asked
  <2> DEFINE new == [db EXCEPT !.override[w] = f]
  <2>1. Good(db, new, {}, {}) /\ Kept(db, new)
    BY <1>0, OverrideKeeps
  <2>2. RequestBy(new, {}, {}) /\ due' \subseteq Works
    BY <1>0, <1>3 DEF CreateOverride, Request
  <2> HIDE DEF new
  <2> QED BY <2>1, <2>2, RequestKeeps DEF Kept
<1>4. ASSUME NEW w \in Works, DeleteOverride(w) PROVE Asked
  <2> DEFINE new == [db EXCEPT !.override[w] = None]
  <2>1. Good(db, new, {}, {}) /\ Kept(db, new)
    BY <1>0, OverrideKeeps
  <2>2. RequestBy(new, {}, {}) /\ due' \subseteq Works
    BY <1>0, <1>4 DEF DeleteOverride, Request
  <2> HIDE DEF new
  <2> QED BY <2>1, <2>2, RequestKeeps DEF Kept
<1>5. ASSUME NEW t \in Works, NEW s \in Works, Merge(t, s) PROVE Asked
  <2> DEFINE new == Merged(db, t, s)
  <2>1. Good(db, new, {}, {}) /\ Kept(db, new)
    BY <1>0, <1>5, MergedKeeps, GoodAfter DEF Merge
  <2>2. RequestBy(new, {}, {}) /\ due' \subseteq Works
    BY <1>0, <1>5 DEF Merge, Request
  <2> HIDE DEF new
  <2> QED BY <2>1, <2>2, RequestKeeps DEF Kept
<1>6. ASSUME NEW w \in Works, NEW f \in Files, Split(w, f) PROVE Asked
  <2> DEFINE made == SplitOff(db, f)
             new == Left(made, w)
             x == db.file[f].work
  <2>1. /\ f \in Rows(db) /\ w \in Existing(db) /\ Unmade(db) # {} /\ CanLeave(made, w)
        /\ RequestBy(new, Behind(f, w), {}) /\ due' \subseteq Works
    BY <1>0, <1>6 DEF Split
  <2>2. /\ After(db, made) /\ Kept(db, made) /\ Existing(db) \subseteq Existing(made)
        /\ OffWork(made) \subseteq OffWork(db) \cup {x}
    BY <1>0, <2>1, SplitOffKeeps
  <2> HIDE DEF made
  <2>3. w \in Existing(made) /\ Sound(made)
    BY <2>1, <2>2 DEF After
  <2>4. /\ After(made, new) /\ Kept(made, new) /\ SamePlaces(made, new)
        /\ OffWork(new) \subseteq OffWork(made) \ {w}
    BY <2>1, <2>3, LeftKeeps
  <2> HIDE DEF new, x
  <2>5. After(db, new) /\ Kept(db, new) /\ OffWork(new) \subseteq OffWork(db) \cup ({x} \ {w})
    BY <2>2, <2>4, AfterAfter, KeptAfter
  <2>6. Good(db, new, Behind(f, w), {})
    BY <2>5, GoodBehind DEF Behind, x
  <2> QED BY <2>1, <2>5, <2>6, RequestKeeps DEF Kept
<1>7. ASSUME NEW f \in Files, NEW w \in Works, Reassign(f, w) PROVE Asked
  <2> DEFINE x == db.file[f].work
             moved == Reassigned(db, f, w)
  <2>1. PICK old \in seen[f] \ {w} :
          /\ old \in Existing(db) => CanLeave(moved, old)
          /\ RequestBy(IF old \in Existing(db) THEN Left(moved, old) ELSE moved, Behind(f, old), {})
    BY <1>7 DEF Reassign
  <2> DEFINE new == IF old \in Existing(db) THEN Left(moved, old) ELSE moved
  <2>2. /\ f \in Rows(db) /\ w \in Existing(db) /\ due' \subseteq Works
        /\ RequestBy(new, Behind(f, old), {})
    BY <1>0, <1>7, <2>1 DEF Reassign
  <2>3. /\ After(db, moved) /\ Kept(db, moved) /\ Existing(moved) = Existing(db)
        /\ OffWork(moved) \subseteq OffWork(db) \cup {x}
    BY <1>0, <2>2, ReassignedKeeps
  <2> HIDE DEF moved
  <2>4. CASE old \notin Existing(db)
    <3>1. new = moved /\ OffWork(moved) \subseteq OffWork(db) \cup ({x} \ {old})
      <4>1. x = old => OffWork(moved) \subseteq OffWork(db)
        BY <1>0, <2>2, <2>3, <2>4, NoneAssumption DEF OffWork
      <4> QED BY <2>3, <2>4, <4>1
    <3> HIDE DEF new, x
    <3>2. Good(db, new, Behind(f, old), {})
      BY <2>3, <3>1, GoodBehind DEF Behind, x
    <3> QED BY <2>2, <2>3, <3>1, <3>2, RequestKeeps DEF Kept
  <2>5. CASE old \in Existing(db)
    <3>1. new = Left(moved, old) /\ Sound(moved) /\ old \in Existing(moved) /\ CanLeave(moved, old)
      BY <2>1, <2>3, <2>5 DEF After
    <3> HIDE DEF new, x
    <3>2. /\ After(moved, new) /\ Kept(moved, new) /\ SamePlaces(moved, new)
          /\ OffWork(new) \subseteq OffWork(moved) \ {old}
      BY <3>1, LeftKeeps
    <3>3. After(db, new) /\ Kept(db, new) /\ OffWork(new) \subseteq OffWork(db) \cup ({x} \ {old})
      BY <2>3, <3>2, AfterAfter, KeptAfter
    <3>4. Good(db, new, Behind(f, old), {})
      BY <3>3, GoodBehind DEF Behind, x
    <3> QED BY <2>2, <3>3, <3>4, RequestKeeps DEF Kept
  <2> QED BY <2>4, <2>5
<1>8. ASSUME NEW s \in Songs, NEW f \in Files, Resolve(s, f) PROVE Asked
  <2>1. PICK p \in seen[f] \cap (Existing(db) \cup {None}) :
          /\ RequestBy([db EXCEPT !.match[s] = [file |-> f, work |-> p]], {},
                       IF p = db.file[f].work THEN {} ELSE {s})
          /\ due' = due \cup ({p} \ {None})
    BY <1>8 DEF Resolve
  <2> DEFINE m == [file |-> f, work |-> p]
             new == [db EXCEPT !.match[s] = m]
             late == IF p = db.file[f].work THEN {} ELSE {s}
  <2>2. f \in Rows(db) /\ RequestBy(new, {}, late) /\ due' \subseteq Works /\ p \in Works \cup {None}
    BY <1>0, <1>8, <2>1 DEF Resolve
  <2>3. /\ m \in [file : Files, work : Works \cup {None}] \cup {None} /\ db.file[m.file].status # "none"
        /\ p = db.file[f].work => m.work = db.file[m.file].work
    BY <1>0, <2>2 DEF Rows, Stored
  <2>4. Good(db, new, {}, late) /\ Kept(db, new)
    <3> HIDE DEF m
    <3> QED BY <1>0, <2>3, MatchKeeps
  <2> HIDE DEF new, late
  <2> QED BY <2>2, <2>4, RequestKeeps DEF Kept
<1>9. ASSUME NEW s \in Songs, Release(s) PROVE Asked
  <2> DEFINE new == [db EXCEPT !.match[s] = None]
  <2>1. RequestBy(new, {}, {}) /\ due' \subseteq Works
    BY <1>0, <1>9 DEF Release, Request
  <2>2. Good(db, new, {}, {}) /\ Kept(db, new)
    BY <1>0, MatchKeeps
  <2> HIDE DEF new
  <2> QED BY <2>1, <2>2, RequestKeeps DEF Kept
<1>10. ASSUME NEW f \in Files, DeleteMissing(f) PROVE Asked
  <2> DEFINE new == DeletedRow(db, f)
  <2>1. f \in Rows(db) /\ db.file[f].status = "missing" /\ RequestBy(new, {}, {}) /\ due' \subseteq Works
    BY <1>0, <1>10 DEF DeleteMissing, Request
  <2>2. Good(db, new, {}, {}) /\ Kept(db, new)
    BY <1>0, <2>1, DeletedRowKeeps, GoodAfter
  <2> HIDE DEF new
  <2> QED BY <2>1, <2>2, RequestKeeps DEF Kept
<1>11. ASSUME NEW w \in Works, NEW f \in Files, PickLate(w, f) PROVE Asked
  <2> DEFINE new == PickedLate(db, w, f)
  <2>1. RequestBy(new, {w}, {}) /\ due' \subseteq Works
    BY <1>0, <1>11 DEF PickLate
  <2>2. After(db, new) /\ Kept(db, new) /\ OffWork(new) \subseteq OffWork(db) \cup {w}
    BY <1>0, PickedLateKeeps
  <2> HIDE DEF new
  <2>3. Good(db, new, {w}, {})
    BY <2>2 DEF Good, After
  <2> QED BY <2>1, <2>2, <2>3, RequestKeeps DEF Kept
<1> QED BY <1>1, <1>2, <1>3, <1>4, <1>5, <1>6, <1>7, <1>8, <1>9, <1>10, <1>11 DEF Asks

LEMMA FoldStep ==
  ASSUME IInv, NEW f \in Files, NEW g \in Files, Fold(f, g)
  PROVE  Asked
<1> DEFINE Overtaken(left, w) == left # db.file[f].work \/ w # db.file[g].work
<1>1. PICK left \in seen[f], w \in seen[g] \ {None} :
        RequestBy(Folded(db, f, g, left, w), IF Overtaken(left, w) THEN {db.file[f].work} ELSE {},
                  IF Overtaken(left, w) THEN MatchesOf(db, f) \cup MatchesOf(db, g) ELSE {})
  BY DEF Fold
<1> DEFINE new == Folded(db, f, g, left, w)
           elsewhere == IF Overtaken(left, w) THEN {db.file[f].work} ELSE {}
           late == IF Overtaken(left, w) THEN MatchesOf(db, f) \cup MatchesOf(db, g) ELSE {}
<1>2. left \in Works \cup {None} /\ w \in Works
  BY DEF IInv
<1>3. Good(db, new, elsewhere, late) /\ Kept(db, new)
  <2>1. /\ Sound(db) /\ f \in Rows(db) /\ db.file[f].status = "missing"
        /\ g \in Rows(db) /\ db.file[g].status = "there"
    BY DEF Fold, IInv
  <2> QED BY <1>2, <2>1, FoldedKeeps
<1>4. RequestBy(new, elsewhere, late) /\ due' \subseteq Works
  BY <1>1 DEF Fold, IInv
<1> HIDE DEF new, elsewhere, late
<1> QED BY <1>3, <1>4, RequestKeeps DEF Kept

-----------------------------------------------------------------------------
(* The worker's steps. *)

\* A step of the worker, or a recalculation.
Worked == IInv' /\ \A w \in Works : PickStands(w)

LEMMA RestsKeeps ==
  ASSUME IInv, UNCHANGED <<db, facts, seen, strayed, raced>>, JobInv', due' \subseteq Works
  PROVE  Worked
<1>1. IInv'
  BY DEF IInv, MatchFollowsFile, MasterOnItsWork
<1>2. \A w \in Works : PickStands(w)
  BY DEF PickStands, PickKept
<1> QED BY <1>1, <1>2 DEF Worked

LEMMA WorkKeeps ==
  ASSUME IInv, NEW new, NEW elsewhere, NEW late, Write(new, elsewhere, late),
         Good(db, new, elsewhere, late), Kept(db, new), JobInv', due' \subseteq Works
  PROVE  Worked
<1>1. Written
  BY WriteKeeps
<1>2. db' = new
  BY DEF Write
<1>3. \A w \in Works : PickStands(w)
  BY <1>2 DEF PickStands, Kept
<1> QED BY <1>1, <1>3 DEF Worked, Written, IInv

LEMMA JobRests ==
  ASSUME IInv, job' = Idle \/ (job = Idle /\ UNCHANGED job)
  PROVE  JobInv'
BY DEF IInv, JobInv, Idle, Jobs, WorksRead, Unread

LEMMA RecalculateStep ==
  ASSUME IInv, NEW w \in Works, Recalculate(w)
  PROVE  Worked
<1> DEFINE new == RecalculatedByRecordings(db, w)
<1>1. Write(new, {w}, {}) /\ due' = due \ {w} /\ UNCHANGED job
  BY DEF Recalculate
<1>2. After(db, new) /\ Kept(db, new) /\ OffWork(new) \subseteq OffWork(db) \cup {w}
  BY RecalculatedKeeps DEF IInv
<1> HIDE DEF new
<1>3. Good(db, new, {w}, {})
  BY <1>2 DEF Good, After
<1>4. db' = new
  BY <1>1 DEF Write
<1>5. JobInv'
  BY <1>1, <1>2, <1>4 DEF IInv, JobInv, After, Stays
<1> QED BY <1>1, <1>2, <1>3, <1>5, WorkKeeps DEF IInv

LEMMA AskedStep ==
  ASSUME IInv, Asks \/ Folds
  PROVE  Worked
<1>1. Asked
  BY AsksStep, FoldStep DEF Folds
<1>2. JobInv'
  BY <1>1 DEF Asked, Written, IInv, JobInv, Stays
<1> QED BY <1>1, <1>2 DEF Asked, Written, Worked, IInv

LEMMA ScanStep ==
  ASSUME IInv, NEW f \in Files, Scan(f) \/ Flip(f)
  PROVE  Worked
<1> USE DEF IInv
<1>1. ASSUME Index(f) \/ Flip(f) PROVE Worked
  <2> DEFINE status == IF db.file[f].status = "none" THEN "there"
                       ELSE IF db.file[f].status = "there" THEN "missing" ELSE "there"
             files == [db.file EXCEPT ![f].status = status]
             new == [db EXCEPT !.file = files]
  <2>1. db.file \in [Files -> FileRow] /\ status \in Stored
    BY Fields DEF Sound, Stored
  <2>2. /\ Write(new, {}, {}) /\ UNCHANGED due /\ JobInv'
        /\ db.file[f].status = "none" \/ f \in Rows(db)
    <3>1. CASE Index(f)
      BY <2>1, <3>1 DEF Index, Work, JobInv, Idle, Jobs, WorksRead, Unread
    <3>2. CASE Flip(f)
      <4>1. /\ Write([db EXCEPT !.file[f].status = IF @ = "there" THEN "missing" ELSE "there"], {}, {})
            /\ UNCHANGED due /\ job = Idle /\ UNCHANGED job /\ f \in Rows(db)
        BY <3>2 DEF Flip, Work
      <4>2. db.file[f].status # "none"
        BY <4>1 DEF Rows, Stored
      <4>3. [db EXCEPT !.file[f].status = IF @ = "there" THEN "missing" ELSE "there"] = new
        BY <4>2
      <4> QED BY <4>1, <4>3, JobRests
    <3> QED BY <1>1, <3>1, <3>2
  <2> HIDE DEF status
  <2>3. /\ files \in [Files -> FileRow]
        /\ \A g \in Files : /\ files[g].work = db.file[g].work /\ files[g].rec = db.file[g].rec
                            /\ files[g].status = IF g = f THEN status ELSE db.file[g].status
    BY <2>1 DEF FileRow
  <2> HIDE DEF files
  <2>4. Good(db, new, {}, {}) /\ Kept(db, new)
    <3>1. \A g \in Files : /\ files[g].work = db.file[g].work /\ files[g].rec = db.file[g].rec
                           /\ files[g].status = "none" => db.file[g].status = "none"
                           /\ g \in Rows(db) => files[g].status \in Stored
                           /\ db.file[g].status = "deleted" => files[g].status = "deleted"
      BY <2>1, <2>2, <2>3 DEF Rows, Stored
    <3> QED BY <2>3, <3>1, TouchedKeeps
  <2> HIDE DEF new
  <2> QED BY <2>2, <2>4, WorkKeeps
<1> DEFINE behind == Behind(f, None)
<1>g. ASSUME NEW new, After(db, new), Kept(db, new),
             OffWork(new) \subseteq OffWork(db) \cup {db.file[f].work},
             Work(new, behind, {}), job' = Idle
      PROVE  Worked
  <2>1. OffWork(new) \subseteq OffWork(db) \cup ({db.file[f].work} \ {None})
    BY <1>g, NoneAssumption DEF OffWork
  <2>2. Good(db, new, behind, {})
    BY <1>g, <2>1, GoodBehind DEF Behind
  <2> HIDE DEF behind
  <2> QED BY <1>g, <2>2, JobRests, WorkKeeps DEF Work
<1>2. ASSUME NEW g \in Files, GroupWithTwin(f, g) PROVE Worked
  <2> DEFINE new == Grouped(db, f, db.file[g].work, db.file[g].rec)
  <2>1. /\ f \in Rows(db) /\ db.file[g].work # None /\ Work(new, behind, {}) /\ job' = Idle
    BY <1>2 DEF GroupWithTwin, Groups, Ungrouped, Twins
  <2>2. /\ db.file[g].work \in Existing(db) /\ db.file[g].rec \in Recs \cup {None}
        /\ db.file[g].rec # None => db.rec[db.file[g].rec] # None
    BY <2>1, Fields DEF Sound, FilesPlaced, FileRow
  <2>3. /\ After(db, new) /\ Kept(db, new)
        /\ OffWork(new) \subseteq OffWork(db) \cup {db.file[f].work}
    BY <2>1, <2>2, GroupedKeeps
  <2> HIDE DEF new, behind
  <2> QED BY <2>1, <2>3, <1>g
<1>3. ASSUME GroupByTag(f) PROVE Worked
  <2> DEFINE r == RecOf(f)
             new == Grouped(db, f, db.rec[r].work, r)
  <2>1. /\ f \in Rows(db) /\ r # None /\ db.rec[r] # None /\ db.rec[r].work # None
        /\ Work(new, behind, {}) /\ job' = Idle
    BY <1>3 DEF GroupByTag, Groups, Ungrouped, Known
  <2>2. r \in Recs
    BY <2>1, FactsAssumption DEF RecOf, Recs
  <2>3. db.rec[r].work \in Existing(db)
    BY <2>1, <2>2 DEF Sound, RecsPlaced
  <2> HIDE DEF r
  <2>4. /\ After(db, new) /\ Kept(db, new)
        /\ OffWork(new) \subseteq OffWork(db) \cup {db.file[f].work}
    BY <2>1, <2>2, <2>3, GroupedKeeps
  <2> HIDE DEF new, behind
  <2> QED BY <2>1, <2>4, <1>g
<1>4. ASSUME GroupByTitle(f) PROVE Worked
  <2>1. f \in Rows(db) /\ job' = Idle
    BY <1>4 DEF GroupByTitle, Ungrouped
  <2>2. ASSUME NEW w \in Existing(db), Work(Grouped(WithLocalRec(db, w), f, w, LocalRec(db, w)), behind, {})
        PROVE  Worked
    <3> DEFINE new == Grouped(WithLocalRec(db, w), f, w, LocalRec(db, w))
    <3>1. /\ After(db, new) /\ Kept(db, new)
          /\ OffWork(new) \subseteq OffWork(db) \cup {db.file[f].work}
      BY <2>1, TitledKeeps
    <3>2. Work(new, behind, {})
      BY <2>2
    <3> HIDE DEF new, behind
    <3> QED BY <2>1, <3>1, <3>2, <1>g
  <2>3. ASSUME Cardinality(Unmade(db)) > 1,
               Work(Grouped(WithLocalRec(WithLocalWork(db, f), NewWork(db)), f, NewWork(db),
                            LocalRec(WithLocalWork(db, f), NewWork(db))), behind, {})
        PROVE  Worked
    <3> DEFINE new == Grouped(WithLocalRec(WithLocalWork(db, f), NewWork(db)), f, NewWork(db),
                              LocalRec(WithLocalWork(db, f), NewWork(db)))
    <3>1. Unmade(db) # {}
      <4> SUFFICES ASSUME Unmade(db) = {} PROVE FALSE
        OBVIOUS
      <4>1. Cardinality(Unmade(db)) = 0
        BY FS_EmptySet
      <4> QED BY <2>3, <4>1
    <3>2. /\ After(db, new) /\ Kept(db, new)
          /\ OffWork(new) \subseteq OffWork(db) \cup {db.file[f].work}
      BY <2>1, <3>1, NewTitledKeeps
    <3>3. Work(new, behind, {})
      BY <2>3
    <3> HIDE DEF new, behind
    <3> QED BY <2>1, <3>2, <3>3, <1>g
  <2> QED BY <1>4, <2>2, <2>3 DEF GroupByTitle, Groups
<1>5. ASSUME GroupsNothing(f) PROVE Worked
  BY <1>5, JobRests, RestsKeeps DEF GroupsNothing, Waits
<1> QED BY <1>1, <1>2, <1>3, <1>4, <1>5 DEF Scan

LEMMA MatchedStep ==
  ASSUME IInv, NEW s \in Songs, Commit(s)
  PROVE  Worked
<1> DEFINE m == [file |-> job.file, work |-> job.work]
           new == [db EXCEPT !.match[s] = m]
<1>1. /\ job.file \in Files /\ job.work \in Works \cup {None} /\ db.file[job.file].status # "none"
      /\ Write(new, {}, {s}) /\ UNCHANGED due
      /\ job' = [Idle EXCEPT !.step = "matched", !.work = job.work]
  BY DEF IInv, JobInv, Jobs, Commit, Work
<1>2. m \in [file : Files, work : Works \cup {None}] \cup {None} /\ db.file[m.file].status # "none"
  BY <1>1
<1>3. Good(db, new, {}, {s}) /\ Kept(db, new)
  <2> HIDE DEF m
  <2> QED BY <1>2, MatchKeeps DEF IInv
<1>4. JobInv'
  BY <1>1 DEF JobInv, Jobs, Idle, WorksRead, Unread
<1> HIDE DEF new
<1> QED BY <1>1, <1>3, <1>4, WorkKeeps DEF IInv

LEMMA AnswerStep ==
  ASSUME IInv, NEW f \in Files, Answer(f)
  PROVE  Worked
<1> USE DEF IInv
<1>1. /\ job.read[f] \in Works \cup {None} /\ JobInv'
      /\ Sound(db) /\ due \subseteq Works
      /\ RecOf(f) # None => RecOf(f) \in MbRecs /\ PerformedBy[RecOf(f)] \in MbWorks \cup {None}
  <2>1. job' = Idle \/ (job.step = "pending" /\ job' = [job EXCEPT !.files = @ \ {f}, !.read[f] = None])
    BY DEF Answer, AnswerFor, ItemEnds, BatchLink, LookupLink, LookupNoWork, LookupRefused, LookupFails,
           LookupBreaks
  <2>2. RecOf(f) # None => RecOf(f) \in MbRecs
    BY FactsAssumption DEF RecOf
  <2>3. CASE job' = Idle
    BY <2>2, <2>3, PerformedAssumption, JobRests DEF JobInv, Jobs, WorksRead
  <2>4. CASE job.step = "pending" /\ job' = [job EXCEPT !.files = @ \ {f}, !.read[f] = None]
    <3>1. JobInv'
      BY <2>4 DEF JobInv, Jobs, WorksRead
    <3> QED BY <2>2, <3>1, PerformedAssumption DEF JobInv, Jobs, WorksRead
  <2> QED BY <2>1, <2>3, <2>4
<1>2. ASSUME BatchLink(f) \/ LookupNoWork(f) PROVE Worked
  <2> DEFINE new == Linked(WithRecording(db, RecOf(f), None), f, RecOf(f), "enriched")
  <2>1. RecOf(f) # None /\ Write(new, {}, {}) /\ UNCHANGED due
    BY <1>2 DEF BatchLink, LookupNoWork, Work
  <2>2. Good(db, new, {}, {}) /\ Kept(db, new)
    BY <1>1, <2>1, BatchLinkKeeps
  <2> HIDE DEF new
  <2> QED BY <1>1, <2>1, <2>2, WorkKeeps
<1>3. ASSUME LookupLink(f) PROVE Worked
  <2> DEFINE m == PerformedBy[RecOf(f)]
             w == MbWork(db, m)
             elsewhere == Behind(f, job.read[f])
             new == Moved(Linked(WithRecording(WithMbWork(db, m), RecOf(f), w), f, RecOf(f), "enriched"),
                          f, job.read[f], w)
  <2>1. /\ RecOf(f) # None /\ m # None /\ Unmade(db) # {}
        /\ ~\E v \in Works : db.work[v] = m /\ SlotTaken(db, RecOf(f), v)
        /\ Write(new, elsewhere, {}) /\ UNCHANGED due
    BY <1>3 DEF LookupLink, PerformedBySomeone, Refused, Work
  <2>2. Good(db, new, elsewhere, {}) /\ Kept(db, new)
    BY <1>1, <2>1, LinkLookedUp DEF Behind
  <2> HIDE DEF new, elsewhere
  <2> QED BY <1>1, <2>1, <2>2, WorkKeeps
<1>4. ASSUME LookupFails(f) PROVE Worked
  <2> DEFINE new == Linked(db, f, None, "failed")
  <2>1. Write(new, {}, {}) /\ UNCHANGED due
    BY <1>4 DEF LookupFails, Work
  <2>2. Sound(new) /\ Aside(db, new)
    BY <1>1, LinkedKeeps
  <2> HIDE DEF new
  <2> QED BY <1>1, <2>1, <2>2, AsideGood, WorkKeeps
<1>5. ASSUME LookupRefused(f) \/ LookupBreaks(f) PROVE Worked
  <2>1. UNCHANGED <<db, facts, seen, due, strayed, raced>>
    BY <1>5 DEF LookupRefused, LookupBreaks, ItemEnds, Waits
  <2> QED BY <1>1, <2>1, RestsKeeps
<1> QED BY <1>2, <1>3, <1>4, <1>5 DEF Answer

LEMMA RecordingStep ==
  ASSUME IInv, NEW r \in MbRecs, ReadRecording(r) \/ ApplyLookup(r)
  PROVE  Worked
<1> USE DEF IInv
<1>1. ASSUME ReadRecording(r) PROVE Worked
  <2>1. /\ job' = [Idle EXCEPT !.step = "recording", !.rec = r, !.work = db.rec[r].work]
        /\ UNCHANGED <<db, facts, seen, due, strayed, raced>> /\ db.rec[r] # None
    BY <1>1 DEF ReadRecording, Waits
  <2>2. db.rec[r].work \in Works \cup {None}
    BY <2>1, Fields DEF Sound, RecRow, Recs
  <2>3. JobInv'
    BY <2>1, <2>2 DEF JobInv, Idle, Jobs, WorksRead, Unread
  <2> QED BY <2>1, <2>3, RestsKeeps
<1>2. ASSUME ApplyLookup(r) PROVE Worked
  <2> DEFINE m == PerformedBy[r]
             looked == IF m = None THEN db
                       ELSE LookupApplied(WithMbWork(db, m), r, job.work, MbWork(db, m))
  <2>1. /\ job' = Idle /\ Unmade(db) # {} /\ m \in MbWorks \cup {None}
        /\ \E new \in {db, looked} : Work(Enhanced(new, r), {}, {})
    BY <1>2, PerformedAssumption DEF ApplyLookup
  <2>2. PICK new \in {db, looked} : Write(Enhanced(new, r), {}, {}) /\ UNCHANGED due
    BY <2>1 DEF Work
  <2>3. Good(db, Enhanced(new, r), {}, {}) /\ Kept(db, Enhanced(new, r))
    <3> HIDE DEF m
    <3> QED BY <2>1, <2>2, RecordingLookedUp
  <2> QED BY <2>1, <2>2, <2>3, JobRests, WorkKeeps
<1> QED BY <1>1, <1>2

LEMMA OtherStep ==
  ASSUME IInv, ReadPending \/ CleanUp \/ ResetFailed \/ StageDies \/ Masters \/ (\E w \in Works : Repick(w))
               \/ (\E s \in Songs, f \in Files : Draft(s, f))
  PROVE  Worked
<1> USE DEF IInv
<1>1. ASSUME CleanUp PROVE Worked
  <2> DEFINE new == WithoutOrphans(db)
  <2>1. Write(new, {}, {}) /\ UNCHANGED due /\ UNCHANGED job /\ job = Idle
    BY <1>1 DEF CleanUp, Work
  <2>2. Sound(new) /\ Aside(db, new)
    BY OrphansKeeps
  <2> HIDE DEF new
  <2> QED BY <2>1, <2>2, JobRests, AsideGood, WorkKeeps
<1>2. ASSUME ResetFailed PROVE Worked
  <2> DEFINE files == [f \in Files |-> IF db.file[f].enriched = "failed"
                                       THEN [db.file[f] EXCEPT !.enriched = "pending"] ELSE db.file[f]]
             new == [db EXCEPT !.file = files]
  <2>1. db.file \in [Files -> FileRow]
    BY Fields DEF Sound
  <2>2. Write(new, {}, {}) /\ UNCHANGED due /\ UNCHANGED job
    BY <1>2 DEF ResetFailed, Work
  <2>3. /\ files \in [Files -> FileRow]
        /\ \A f \in Files : /\ files[f].work = db.file[f].work /\ files[f].rec = db.file[f].rec
                            /\ files[f].status = db.file[f].status
    BY <2>1 DEF FileRow
  <2> HIDE DEF files
  <2>4. Good(db, new, {}, {}) /\ Kept(db, new) /\ Unmade(new) = Unmade(db)
    <3>1. \A f \in Files : /\ files[f].work = db.file[f].work /\ files[f].rec = db.file[f].rec
                           /\ files[f].status = "none" => db.file[f].status = "none"
                           /\ f \in Rows(db) => files[f].status \in Stored
                           /\ db.file[f].status = "deleted" => files[f].status = "deleted"
      BY <2>3 DEF Rows
    <3> QED BY <2>3, <3>1, TouchedKeeps DEF Unmade
  <2> HIDE DEF new
  <2>5. JobInv'
    <3>1. db' = new
      BY <2>2 DEF Write
    <3> QED BY <2>2, <2>4, <3>1 DEF JobInv, Good, Stays
  <2> QED BY <2>2, <2>4, <2>5, WorkKeeps
<1>3. ASSUME StageDies PROVE Worked
  BY <1>3, JobRests, RestsKeeps DEF StageDies, Waits
<1>4. ASSUME Masters PROVE Worked
  <2>1. job' = Idle /\ JobInv' /\ job.work \in Works \cup {None}
    BY <1>4, JobRests DEF Masters, JobInv, Jobs
  <2>2. CASE Waits
    BY <2>1, <2>2, RestsKeeps DEF Waits
  <2>3. CASE job.work # None /\ Work(RecalculatedByRecordings(db, job.work), {job.work}, {})
    <3> DEFINE new == RecalculatedByRecordings(db, job.work)
    <3>1. Write(new, {job.work}, {}) /\ UNCHANGED due
      BY <2>3 DEF Work
    <3>2. After(db, new) /\ Kept(db, new) /\ OffWork(new) \subseteq OffWork(db) \cup {job.work}
      BY <2>1, <2>3, RecalculatedKeeps
    <3> HIDE DEF new
    <3>3. Good(db, new, {job.work}, {})
      BY <3>2 DEF Good, After
    <3> QED BY <2>1, <3>1, <3>2, <3>3, WorkKeeps
  <2> QED BY <1>4, <2>2, <2>3 DEF Masters
<1>5. ASSUME NEW w \in Works, Repick(w) PROVE Worked
  <2> DEFINE new == Reselected(db, w)
  <2>1. Write(new, {}, {}) /\ UNCHANGED due /\ UNCHANGED job /\ job = Idle
    BY <1>5 DEF Repick, Work
  <2>2. After(db, new) /\ Kept(db, new) /\ OffWork(new) \subseteq OffWork(db)
    BY ReselectedKeeps
  <2> HIDE DEF new
  <2> QED BY <2>1, <2>2, GoodAfter, JobRests, WorkKeeps
<1>6. ASSUME NEW s \in Songs, NEW f \in Files, Draft(s, f) PROVE Worked
  <2>1. /\ job' = [Idle EXCEPT !.step = "draft", !.song = s, !.file = f, !.work = db.file[f].work]
        /\ UNCHANGED <<db, facts, seen, due, strayed, raced>> /\ f \in Rows(db)
    BY <1>6 DEF Draft, Waits
  <2>2. db.file[f].work \in Works \cup {None} /\ db.file[f].status # "none"
    BY <2>1, Fields DEF Sound, FileRow, Rows, Stored
  <2>3. JobInv'
    BY <2>1, <2>2 DEF JobInv, Idle, Jobs, WorksRead, Unread
  <2> QED BY <2>1, <2>3, RestsKeeps
<1>7. ASSUME ReadPending PROVE Worked
  <2>1. PICK fs \in SUBSET Files :
          job' = [Idle EXCEPT !.step = "pending", !.files = fs,
                              !.read = [f \in Files |-> IF f \in fs THEN db.file[f].work ELSE None]]
    BY <1>7 DEF ReadPending, Rows
  <2>2. \A f \in Files : db.file[f].work \in Works \cup {None}
    BY Fields DEF Sound, FileRow
  <2>3. JobInv'
    BY <2>1, <2>2 DEF JobInv, Idle, Jobs, WorksRead
  <2> QED BY <1>7, <2>3, RestsKeeps DEF ReadPending, Waits
<1> QED BY <1>1, <1>2, <1>3, <1>4, <1>5, <1>6, <1>7

LEMMA StepKeeps ==
  ASSUME IInv, [Next]_vars
  PROVE  Worked
<1>1. CASE Curator
  BY <1>1, AskedStep, RecalculateStep DEF Curator
<1>2. CASE Worker
  <2>1. ASSUME NEW f \in Files, Scan(f) \/ Flip(f) PROVE Worked
    BY <2>1, ScanStep
  <2>2. ASSUME NEW f \in Files, Answer(f) PROVE Worked
    BY <2>2, AnswerStep
  <2>3. ASSUME NEW r \in MbRecs, ReadRecording(r) \/ ApplyLookup(r) PROVE Worked
    BY <2>3, RecordingStep
  <2>4. ASSUME NEW s \in Songs, Commit(s) PROVE Worked
    BY <2>4, MatchedStep
  <2> QED BY <1>2, <2>1, <2>2, <2>3, <2>4, OtherStep DEF Worker
<1>3. CASE UNCHANGED vars
  <2>1. JobInv'
    BY <1>3 DEF vars, IInv, JobInv
  <2> QED BY <1>3, <2>1, RestsKeeps DEF vars, IInv
<1> QED BY <1>1, <1>2, <1>3 DEF Next

LEMMA InitHolds ==
  ASSUME Init
  PROVE  IInv
<1> USE DEF Init
<1>1. db \in Db
  BY RowAssumption DEF Db, FileRow
<1>2. Rows(db) = {} /\ Existing(db) = {} /\ OffWork(db) = {} /\ Astray(db) = {}
  BY DEF Rows, Stored, Existing, OffWork, Astray
<1>3. OneEach(db)
  <2>1. \A w \in Works : db.work[w] = "unmade"
    OBVIOUS
  <2> QED BY <2>1, KindsAssumption DEF OneEach
<1>4. Sound(db)
  BY <1>1, <1>2, <1>3 DEF Sound, RecsApart, FilesPlaced, RecsPlaced, MatchesKnown
<1>5. JobInv
  BY DEF JobInv, Jobs, Idle, WorksRead, Unread
<1> QED BY <1>2, <1>4, <1>5 DEF IInv, MatchFollowsFile, MasterOnItsWork

LEMMA Invariant == Spec => []IInv
<1>1. Init => IInv
  BY InitHolds
<1>2. IInv /\ [Next]_vars => IInv'
  BY StepKeeps DEF Worked
<1> QED BY <1>1, <1>2, PTL DEF Spec

-----------------------------------------------------------------------------
(* The promises. *)

(* Every row keeps its type, and the tables agree with each other: a work has  *)
(* one recording at most, a row names works and recordings that exist, and no  *)
(* two works are the same work of MusicBrainz, whatever the worker's items     *)
(* read before the curator merged, split or deleted (the foreign keys and the  *)
(* unique indexes of recordings and works).                                    *)
THEOREM TypeCorrect == Spec => []TypeOK
<1>1. ASSUME IInv PROVE TypeOK
  <2> USE <1>1 DEF IInv
  <2>1. \A m \in MbWorks : Cardinality({w \in Works : db.work[w] = m}) <= 1
    <3> TAKE m \in MbWorks
    <3> DEFINE named == {w \in Works : db.work[w] = m}
    <3>1. \A w \in named : named = {w}
      BY DEF Sound, OneEach
    <3> SUFFICES Cardinality(named) <= 1
      OBVIOUS
    <3> HIDE DEF named
    <3>2. CASE named = {}
      BY <3>2, FS_EmptySet
    <3>3. CASE named # {}
      <4>1. PICK w \in named : named = {w}
        BY <3>1, <3>3
      <4>2. Cardinality(named) = 1
        BY <4>1, FS_Singleton
      <4> QED BY <4>2
    <3> QED BY <3>2, <3>3
  <2>2. LET kept == {r \in Recs : db.rec[r] # None}
        IN \A r, q \in kept : r # q /\ db.rec[r].work = db.rec[q].work => db.rec[r].work = None
    BY DEF Sound, RecsApart
  <2>3. /\ \A f \in Rows(db) : db.file[f].work \in Existing(db) \cup {None}
        /\ \A f \in Rows(db) : db.file[f].rec # None => db.rec[db.file[f].rec] # None
    BY DEF Sound, FilesPlaced, Rows
  <2> QED BY <2>1, <2>2, <2>3 DEF TypeOK, JobInv, Sound
<1> QED BY <1>1, Invariant, PTL

(* A match names the work its file is on through every move, merge, split,     *)
(* fold and deletion, unless it was written by a reading of the file's work     *)
(* that a move has overtaken since: a draft of the song stage, a resolve, a     *)
(* fold by the works of its plan (_move_file_matches, move_to_work, the         *)
(* releases before a work is deleted; settle_fold_across_works).                *)
THEOREM MatchesFollow == Spec => []MatchFollowsFile
<1>1. IInv => MatchFollowsFile
  BY DEF IInv
<1> QED BY <1>1, Invariant, PTL

(* A master is a file of its work, whatever moved the file away, but for the    *)
(* recalculation by recordings and for a write by a reading that a move has     *)
(* overtaken since: of an enrichment item, a fold by the works of its plan, a   *)
(* file grouped as it was first read, a request (_settle_work, reselect,        *)
(* recalculate_song_masters, settle_fold_across_works).                         *)
THEOREM MastersOnTheirWork == Spec => []MasterOnItsWork
<1>1. IInv => MasterOnItsWork
  BY DEF IInv
<1> QED BY <1>1, Invariant, PTL

(* No step of the worker and no request but the curator's own replaces or      *)
(* clears a manual master while its file is a present file of the work         *)
(* (_decide_master, the guard of song_masters.upsert).                         *)
THEOREM PicksStand == Spec => ManualPickStands
<1> DEFINE Stand == \A w \in Works :
             LET m == db.master[w] IN
             m # None /\ m.manual /\ m.file \in PresentOn(db, w) \cap PresentOn(db', w) =>
               db'.master[w] = m \/ DeleteMaster(w) \/ \E f \in Files : SetMaster(w, f)
<1>1. IInv /\ [Next]_vars => [Stand]_vars
  BY StepKeeps DEF Worked, PickStands, PickKept
<1> QED BY <1>1, Invariant, PTL DEF Spec, ManualPickStands
=============================================================================
