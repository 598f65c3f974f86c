SPECIFICATION Spec
CONSTANTS
  c1 = c1
  c2 = c2
  k1 = k1
  u1 = u1
  w1 = w1
  Nothing = Nothing
  Controls <- MCControls
  ClientClosers <- MCClientClosers
  ControlClosers <- MCControlClosers
  Waiters <- MCWaiters
  Target <- MCTarget
CHECK_DEADLOCK FALSE
INVARIANT ClientCloseClosesControls
