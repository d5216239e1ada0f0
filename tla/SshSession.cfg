SPECIFICATION SshFairSpec
CONSTANTS
  None = None
  MaxConnections = 2
  MaxAttempts = 2
  Kind = {"bash"}
INVARIANTS
  TabsLive
PROPERTIES
  ConnectionsEnd
  LossNoticed
CHECK_DEADLOCK FALSE
