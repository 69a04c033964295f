CONSTANTS
  Route <- MCRoute
  Bias = 4
  CounterMod = 16
  Setups <- MCSetups
SPECIFICATION Spec
INVARIANTS FreedWhenFinished AckedWhenDelivered
CHECK_DEADLOCK FALSE
