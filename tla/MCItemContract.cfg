SPECIFICATION FairSpec
CONSTANTS
  c1 = c1
  c2 = c2
  l1 = l1
  l2 = l2
  None = None
  Calls = {c1, c2}
  Songs = 3
  Cadence = 1
  Liners = {l1, l2}
INVARIANTS
  SameSeqSameItem
  RotationMatchesLog
  FinishedAfterLastSong
PROPERTIES
  ImplementsItemLog
  CallsAnswered
CHECK_DEADLOCK FALSE
