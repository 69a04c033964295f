SPECIFICATION LiveSpec
CONSTANTS
  d1 = d1
  d2 = d2
  Dest = {d1, d2}
  None = None
  Tracker = "consecutive"
  Readers <- FittingReaders
  PoolSize = 0
  MaxConns = 1
  FetchLimit = 2
  MaxMsgs = 3
  MaxReallocs = 0
  AckTypes = {"PROCESSED", "ABORTED", "SUSPENDED"}
  MayClose = FALSE
INVARIANT WindowConserved
INVARIANT BookmarkBehindInflight
INVARIANT NoLostWakeup
INVARIANT WindowAssertions
PROPERTY EveryMessageRead
PROPERTY BookmarkCatchesUp
CHECK_DEADLOCK FALSE
