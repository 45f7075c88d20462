CONSTANTS
  Caller = {c1, c2}
  RequestId = {1, 2, 3, 4, 5, 6}
  Limit = 1
  Window = 2
  DelayMedium = 1
  DelayHigh = 1
  MaxRetryWait = 1
  MaxLag = 1
  Faults = {"cache", "cancel", "expire"}
SPECIFICATION FairSpec
INVARIANTS TypeOK StoredBound WindowLimit
PROPERTIES WaitersProceed
