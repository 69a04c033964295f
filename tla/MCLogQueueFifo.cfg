CONSTANTS
  Workers = {w1}
  Feeders = {f1}
  FifoSize = 1
  Uint16Mod = 2
  Throttle = 1
  MaxMsgs = 2
  MaxRewinds = 1
  MaxStops = 1
  NoOne = NoOne
SPECIFICATION FairSpec
INVARIANTS NoLossNoDuplication FifoPerThread FifoSizeBound NoLostWakeup FreedWhenUnused
PROPERTY EveryMessageLeaves
CHECK_DEADLOCK FALSE
