SPECIFICATION Spec
CONSTANTS
  t1 = t1
  t2 = t2
  t3 = t3
  k1 = k1
  NoKey = NoKey
  None = None
  Tunes = {t1, t2, t3}
  Keys = {k1}
  KeyOf <- OneChannel
  Limits = {2, 3}
  MaxLimit = 3
  StopMayFail = TRUE
SYMMETRY TunesSymmetric
VIEW Fingerprint
INVARIANTS
  EngineAccounted
  FeedMirrorsTable
  PageNotMisled
PROPERTY
  ForgetsOnlyWhatItRead
CHECK_DEADLOCK FALSE
