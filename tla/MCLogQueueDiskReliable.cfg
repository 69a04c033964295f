SPECIFICATION Spec
CONSTANTS
  Start = 1
  Capacity = 7
  Sizes = {2, 3}
  Threshold = 2
  Prealloc = FALSE
  Reliable = TRUE
  FlowControlBytes = 3
  FrontCacheSize = 1
  ReaderKeepsUp = TRUE
  MaxMsgs = 6
  MaxStarts = 1
INVARIANTS
  NeverCorrupt AckedIsKept UnackedIsWaiting AccountsAgree
PROPERTY RefinesBacklogQueue
CHECK_DEADLOCK FALSE
