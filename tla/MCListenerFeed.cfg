SPECIFICATION FairSpec
CONSTANTS
  c1 = c1
  s1 = s1
  s2 = s2
  r1 = r1
  None = None
  Channels = {c1}
  Streams = {s1, s2}
  ChannelOf <- OneChannel
  Readers = {r1}
  Limit = 1
  PendingLimit = 2
  MaxTitles = 3
INVARIANTS
  FeedAccounted
PROPERTY
  WaitsEnd
  ToldOnTime
CHECK_DEADLOCK FALSE
