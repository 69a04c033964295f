SPECIFICATION Spec
CONSTANTS
  Start = 1
  Capacity = 7
  Sizes = {2, 3}
  Threshold = 2
  Prealloc = FALSE
  Reliable = TRUE
  FlowControlBytes = 3
  FrontCacheSize = 1
  ReaderKeepsUp = FALSE
  MaxMsgs = 5
  MaxStarts = 1
INVARIANT HeaderConsistent
CHECK_DEADLOCK FALSE
