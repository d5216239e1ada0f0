SPECIFICATION BrokerSpec
CONSTANTS
  None = None
  r1 = r1
  r2 = r2
  r3 = r3
  r4 = r4
  Request <- MCRequest
INVARIANTS
  InOrder
