CONSTANTS
  Files = {1, 2}
  Works = {w1, w2, w3}
  MbWorks = {mbw}
  MbRecs = {r1, r2, r3}
  LocalRecs = {l1, l2, l3}
  Songs = {s1}
  mbw = mbw
  r1 = r1
  r2 = r2
  r3 = r3
  a = a
  None = None
  PerformedBy <- MCPerformedBy
  Facts <- MCFacts
  MaxEvents <- MCMaxEvents
SPECIFICATION Spec
INVARIANTS TypeOK MatchFollowsFile MasterOnItsWork
PROPERTIES ManualPickStands
CHECK_DEADLOCK FALSE
