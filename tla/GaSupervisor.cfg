SPECIFICATION FairSpec
CONSTANTS
  MaxSpawns = 3
  MaxRestarts = 2
  None = None
  Error = Error
INVARIANTS
  OneOwnedRuntime
  StatusNamesProcess
PROPERTIES
  CrashNoticed
CHECK_DEADLOCK FALSE
