SPECIFICATION Spec
CONSTANTS
  d1 = d1
  d2 = d2
  Dest = {d1, d2}
  None = None
  Tracker = "consecutive"
  Readers <- NarrowFile
  PoolSize = 0
  MaxConns = 1
  FetchLimit = 2
  MaxMsgs = 3
  MaxReallocs = 0
  AckTypes = {"PROCESSED"}
  MayClose = FALSE
INVARIANT WindowAssertions
CHECK_DEADLOCK FALSE
