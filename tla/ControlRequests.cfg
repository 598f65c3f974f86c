SPECIFICATION Spec
CONSTANTS
  c1 = c1
  k1 = k1
  k2 = k2
  k3 = k3
  Nobody = Nobody
  Creators <- MCCreators
  Closers <- MCClosers
CHECK_DEADLOCK FALSE
INVARIANT TypeOK
INVARIANT NothingForgotten
INVARIANT AgreesWithEngine
INVARIANT OneCloseRequest
PROPERTY CallsEnd
