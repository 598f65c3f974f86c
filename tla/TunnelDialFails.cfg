SPECIFICATION Spec
CONSTANTS
  s1 = s1
  s2 = s2
  app = app
  fwd = fwd
  k1 = k1
  Streams <- MCStreams
  Acceptors <- MCAcceptors
  Forwarders <- MCForwarders
  Closers <- MCClosers
  Stalling <- MCStalling
CHECK_DEADLOCK FALSE
INVARIANT HardCloseClosesEveryForwarded
