SPECIFICATION Spec
CONSTANTS
  r1 = r1
  r2 = r2
  r3 = r3
  Req = {r1, r2, r3}
  Folder <- MCFolder
  All = All
  Crate = Crate
  p1 = p1
  p2 = p2
  c1 = c1
  c2 = c2
  s1 = s1
  s2 = s2
  Play = {p1, p2}
  Cleaning = {c1, c2}
  Stylus = {s1, s2}
  Used = {s1}
  Existing <- MCExisting
  None = None
  Workload <- MCWorkload
  MaxFaults = 1
  MaxExpiries = 1
SYMMETRY Symmetric
INVARIANTS TypeOK RowsOldOnlyByOverlap
PROPERTIES NoLostUpdate OnePrimary EntriesAreCacheAside
