SPECIFICATION Spec
CONSTANTS
  r1 = r1
  r2 = r2
  p1 = p1
  p2 = p2
  Runs = {r1}
  Playlists = {p1, p2}
  WritesMayDrop = FALSE
  WorkerMayCrash = FALSE
  CloseMayFail = TRUE
INVARIANT
  LastStageCloses
CHECK_DEADLOCK FALSE
