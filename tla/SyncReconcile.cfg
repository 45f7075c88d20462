CONSTANTS
  f1 = f1  f2 = f2
  p1 = p1  c1 = c1  c2 = c2
  i1 = i1  i2 = i2  i3 = i3  i4 = i4  i5 = i5  i6 = i6
  r1 = r1  r2 = r2  r3 = r3
  Folder = {f1, f2}
  Item = {i1, i2, i3, i4, i5, i6}
  Release = {r1, r2, r3}
  NoFolder = NoFolder
  NoState = NoState
  NoMessage = NoMessage
  Tombstone = Tombstone
  Uncategorized = f1
  ReleaseOf <- MCReleaseOf
  Poster = {p1}
  Conn = {c1}
  Collection <- MCCollection
  PageOf <- MCPageOf
  Unidentified = {i5}
  LastPage <- MCLastPage
  InitialRows <- AllRows
  InitialFolders <- StoredFolders
  InitialOwned <- EarlierSync
  EchoesSyncStateId = FALSE
  Faults = {"lost", "network", "request", "url"}
  MaxRequests = 7
  MaxPosts = 1
  MaxPending = 1
  MaxReleases = 3
SPECIFICATION Spec
INVARIANTS CompleteFoldersKeepReleases CompletionReconciles
CHECK_DEADLOCK FALSE
