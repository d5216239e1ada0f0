SPECIFICATION Spec
CONSTANTS
  None = None
  a = a
  b = b
  a1 = a1
  a2 = a2
  a3 = a3
  b1 = b1
  b2 = b2
  Conv <- MCConv
  Turn <- MCTurn
  ConvOf <- MCConvOf
INVARIANTS
  EditRoundTrip
  QueueDistinct
  RestoreBetweenAnchors
  BlockingAgrees
PROPERTIES
  ImplementsTurnQueue
