SPECIFICATION ServicesSpec
CONSTANTS
  AssetIds <- MCAssetIds
  GlobalProject = p2
  Projects <- MCProjects
  AssetNames <- MCAssetNames
  TagNames <- MCTagNames
  EpisodeTag = episodeTag
  TagIds <- MCTagIds
  CollIds <- MCCollIds
  Calls <- MCCalls
  StartLibrary <- MCStart
  MaxIds = 2
  Users <- MCUsers
  System = system
  ProjectIds <- MCProjects
  Contracts <- MCContracts
  MaxTasks = 2
  Contents <- MCContents
  StartRows <- MCRows
  Overlap = FALSE
  Requests = {r1, r2}
  None = None
  p1 = p1
  p2 = p2
  n1 = n1
  n2 = n2
  episodeTag = episodeTag
  roleTag = roleTag
  a1 = a1
  a2 = a2
  a3 = a3
  a4 = a4
  t1 = t1
  t2 = t2
  t3 = t3
  t4 = t4
  t5 = t5
  c1 = c1
  c2 = c2
  c3 = c3
  b1 = b1
  b2 = b2
  b3 = b3
  u1 = u1
  u2 = u2
  system = system
  w1 = w1
  Bases <- MCBases
  DbScopes <- MCScopes
  OldDatabases <- MCOldDatabases
CHECK_DEADLOCK FALSE
SYMMETRY Overlapping
INVARIANTS NamesUnique ReferencesInScope SearchFindsAll
INVARIANTS FilesKept OwnersOnly
INVARIANTS MigrationWorks NothingLost
PROPERTIES MovesLoseNothing
