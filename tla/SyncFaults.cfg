CONSTANTS
  f1 = f1  f2 = f2
  p1 = p1  c1 = c1  c2 = c2
  i1 = i1  i2 = i2  i3 = i3  i4 = i4  i5 = i5  i6 = i6
  r1 = r1  r2 = r2  r3 = r3
  Folder = {f1}
  Item = {i1}
  Release = {r1}
  NoFolder = NoFolder
  NoState = NoState
  NoMessage = NoMessage
  Tombstone = Tombstone
  Uncategorized = f1
  ReleaseOf <- MCReleaseOf
  Poster = {p1}
  Conn = {c1, c2}
  Collection <- MCCollection
  PageOf <- MCPageOf
  Unidentified = {}
  LastPage <- MCLastPage
  InitialRows <- NoRows
  InitialFolders <- AllFolders
  InitialOwned <- NothingOwned
  EchoesSyncStateId = TRUE
  Faults = {"lost", "network", "http", "request", "url", "token", "db", "cache", "expire", "crash"}
  MaxRequests = 4
  MaxPosts = 1
  MaxPending = 1
  MaxReleases = 1
SPECIFICATION Spec
INVARIANTS TypeOK RowsReferToReleases
CHECK_DEADLOCK FALSE
