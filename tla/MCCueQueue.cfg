SPECIFICATION FairSpec
CONSTANTS
  a = a
  b = b
  c = c
  None = None
  Files = {1, 2, 3, 4}
  Liners = {1}
  Scheduled = {4}
  NoDuration = {2}
  Audios = {a, b, c}
  Stats = {0, 1, 2, 3}
  Audio0 <- MCAudio0
  BatchSize = 2
  Patience = 2
  MaxEvents = 2
INVARIANTS
  CuesOfTheirAudio
PROPERTIES
  KeptWhileUsed
  BacklogServed
CHECK_DEADLOCK FALSE
