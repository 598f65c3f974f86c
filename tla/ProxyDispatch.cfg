SPECIFICATION Spec
CONSTANTS
  t1 = t1
  t2 = t2
  NumRequests = 4
  Tunnels <- MCTunnels
  TunnelOf <- MCTunnelOf
  MaxActive = 1
  MaxQueued = 2
CHECK_DEADLOCK FALSE
INVARIANT TypeOK
INVARIANT PoolDiscipline
INVARIANT HandlersSettle
PROPERTY SilentAfterClose
PROPERTY EveryRequestSettled
PROPERTY StationSpec
