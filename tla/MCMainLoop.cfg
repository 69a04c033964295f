SPECIFICATION FairSpec
CONSTANTS
  w1 = w1
  p1 = p1
  j1 = j1
  NoThread = NoThread
  Threads = {w1, p1}
  Workers = {w1}
  Pool = {p1}
  Jobs = {j1}
  Expiries = {0, 1}
  MaxReloads = 1
  MaxUpdates = 2
INVARIANTS
  AppliedAlone
  RefusedOnlyForAction
  CallRunsOnce
  NoLostWakeup
  TimerFollows
PROPERTY Ends
CHECK_DEADLOCK FALSE
