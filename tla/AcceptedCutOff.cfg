SPECIFICATION Spec
CONSTANTS
  s1 = s1
  s2 = s2
  Streams <- MCStreams
  Deliveries <- MCDeliveries
  MaxBody = 1
  MaxPartial = 1
  Workers = 1
CHECK_DEADLOCK FALSE
INVARIANT LossSparesAccepted
