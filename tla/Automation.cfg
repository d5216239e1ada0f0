SPECIFICATION FairSpec
CONSTANTS
  p = p
  b = b
  None = None
  Task = {p, b}
  Prompt = {p}
  Pinned = {p}
  Expr = {"hourly", "daily", "bad"}
  Valid = {"hourly", "daily"}
  Row0 <- MCRow0
  Patches <- MCPatches
  MaxFires = 2
  MaxHappens = 1
  MaxFails = 1
INVARIANTS
  OneActiveRun
  ChargedOnce
PROPERTIES
  JobsCatchUp
  
CHECK_DEADLOCK FALSE
