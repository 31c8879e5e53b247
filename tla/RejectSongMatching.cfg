SPECIFICATION Spec
CONSTANTS
  a1 = a1
  a2 = a2
  s1 = s1
  s2 = s2
  f1 = f1
  f2 = f2
  p1 = p1
  None = None
  Artists = {a1, a2}
  Songs = {s1, s2}
  Files = {f1, f2}
  Playlists = {p1}
  ArtistOf <- TwoArtists
  Tag0 <- FirstTagged
  WorkOf <- OneWork
  Plays <- AllPlayed
  Library0 <- FirstMissing
  StalePages = FALSE
  MaxEvents = 2
  MaxChanges = 2
INVARIANT
  RejectionHolds
CHECK_DEADLOCK FALSE
