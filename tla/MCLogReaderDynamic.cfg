SPECIFICATION Spec
CONSTANTS
  d1 = d1
  Dest = {d1}
  None = None
  Tracker = "instant"
  Readers <- Narrow
  PoolSize = 2
  MaxConns = 2
  FetchLimit = 2
  MaxMsgs = 4
  MaxReallocs = 3
  AckTypes = {"PROCESSED"}
  MayClose = TRUE
INVARIANT WindowConserved
CHECK_DEADLOCK FALSE
