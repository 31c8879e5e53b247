SPECIFICATION PlayerSpec
CONSTANTS
  OpenTime = 10
  TuneTime = 15
  GraceTime = 2
  StallTime = 10
  TapTime = 30
  Deadline = 60
  FirstWait = 1
  LongestWait = 30
  LastAttempt = 6
INVARIANTS
  HoldsItsPhase
  SettlesInTime
  NoStaleTitle
