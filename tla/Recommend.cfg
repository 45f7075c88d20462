SPECIFICATION Spec
CONSTANTS
  s1 = s1
  s2 = s2
  Session = {s1, s2}
  None = None
  Day = 4
  Window = 4
  ListenedWindow = 3
  TTL = 4
  History <- MCHistory
  MaxTime = 4
  MaxRequests = 4
  MaxFaults = 1
INVARIANTS TypeOK RecentIsLast StreakLagsBehind
PROPERTIES StreaksAreRuns OnePerWindow PlayedOnce
SYMMETRY Symmetric
CHECK_DEADLOCK FALSE
