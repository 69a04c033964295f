SPECIFICATION Spec
CONSTANTS
  w1 = w1
  f1 = f1
  Sources = {w1, f1}
  Fetchers = {f1}
  NumPartitions = 2
  Options <- MCOptions
  ThreadIndex <- MCThreadIndex
  Window = 2
  MaxMsgs = 3
  FetchResults = {"success", "try_again", "no_data", "error"}
INVARIANTS
  NothingLost
  NoStrandedBatch
  NoLostWakeup
  OverrunOnlyAtExit
