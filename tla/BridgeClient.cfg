SPECIFICATION ClientFairSpec
CONSTANTS
  MaxRuns = 2
  MaxCalls = 2
  MaxSockets = 2
  None = None
  Failed = Failed
  Turn = Turn
  Other = Other
  Manager = Manager
INVARIANTS
  OneSocket
  SecondTryIsFresh
PROPERTIES
  StaysConnected
  EndNoticed
