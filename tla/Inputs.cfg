SPECIFICATION Spec
CONSTANTS
  None = None
  Blank = Blank
  DefaultApi = "io"
  Apis = {"io", "corp"}
  Canonical <- MCCanonical
  RegionForm <- MCRegions
  Expiring = {"old"}
  Inputs <- MCClientInputs
  Projects <- MCProjects
  Advertised = {"m"}
  Endpoints = {None, Blank, "e"}
  Secrets = {None, Blank, "secret"}
  DialTokens = {"dial"}
  Payloads <- MCPayloads
  Keys = {"k1", "k2"}
  BlankKey = "  "
  Horizon = 3
  MaxSigned = 2
  Tolerances <- MCTolerances
  TunnelCalls <- MCTunnelCalls
CHECK_DEADLOCK FALSE
INVARIANT TypeOK
INVARIANT StoredCredentialsStayHome
INVARIANT RequestsFollowOptions
INVARIANT WebhookVerdicts
INVARIANT TunnelAsAsked
