SPECIFICATION FairSpec
CONSTANTS
  t1 = t1
  t2 = t2
  t3 = t3
  k1 = k1
  NoKey = NoKey
  None = None
  Tunes = {t1, t2}
  Keys = {k1}
  KeyOf <- KeyedAndKeyless
  Limits = {1}
  MaxLimit = 1
  StopMayFail = FALSE
INVARIANT
  SlotLimit
PROPERTY
  SlotsComeBack
CHECK_DEADLOCK FALSE
