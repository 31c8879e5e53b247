SPECIFICATION FairIngestion
CONSTANTS
  r1 = r1
  p1 = p1
  p2 = p2
  u1 = u1
  u2 = u2
  NoUpload = NoUpload
  Runs = {r1}
  Uploads = {u1, u2}
  Playlists = {p1, p2}
  WritesMayDrop = TRUE
  WorkerMayCrash = TRUE
  CloseMayFail = FALSE
INVARIANTS
  LastStageCloses
  CleanRunMatchedAll
  UploadShown
PROPERTIES
  RunCompletes
  RecheckPicksUp
  ImplementsMatchingRun
CHECK_DEADLOCK FALSE
