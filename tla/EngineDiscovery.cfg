SPECIFICATION Spec
CONSTANTS
  e1 = e1
  e2 = e2
  a1 = a1
  a2 = a2
  b1 = b1
  Nothing = Nothing
  MaxFlights = 2
  MaxLifetime = 2
  DefaultLifetime = 1
  LookupTime = 1
  Horizon = 4
  Callers <- MCCallers
  Engines <- MCEngines
  EngineOf <- MCEngineOf
  ProjectOf <- MCProjectOf
  Responses <- MCResponses
CHECK_DEADLOCK FALSE
INVARIANT TypeOK
INVARIANT SharedLookup
PROPERTY FreshTarget
PROPERTY CallersEnd
