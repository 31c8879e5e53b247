SPECIFICATION FairSpec
CONSTANTS
  None = None
  Unsure = Unsure
  Paths <- MCPaths
  Folders = {1, 2}
  FolderOf <- MCFolderOf
  NameOf <- MCNameOf
  Versions = {1, 2, 3, 4, 5}
  AudioOf <- MCAudioOf
  TagsOf <- MCTagsOf
  Tagged = {2, 4}
  Broken = {5}
  Refused = {4}
  Ids = {1, 2, 3}
  Songs = {"s1"}
  Tasks = {1, 2}
  Disk0 <- MCDisk0
  Chunk = 2
  MaxEvents = 3
INVARIANTS TypeOK RowsAgreeWithLastScan HashIsOfItsFile
PROPERTIES MatchFollowsTrack HashesSettle
