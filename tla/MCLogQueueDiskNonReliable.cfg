SPECIFICATION Spec
CONSTANTS
  Start = 1
  Capacity = 5
  Sizes = {1, 3}
  Threshold = 2
  Prealloc = FALSE
  Reliable = FALSE
  FrontCacheSize = 2
  WindowSize = 2
  Guess = 2
  MaxMsgs = 6
  MaxStarts = 1
INVARIANTS
  NeverCorrupt AccountsAgree NeverStranded
PROPERTY RefinesBacklogQueue
CHECK_DEADLOCK FALSE
