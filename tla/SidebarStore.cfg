SPECIFICATION FairSpec
CONSTANTS
  w1 = w1
  w2 = w2
  None = None
  Failed = Failed
  Conv <- MCConv
  Scope <- MCScope
  ScopeOf <- MCScopeOf
  LastUsed <- MCLastUsed
  PageSize = 2
  Renamable = {3}
  Pinnable = {3}
  Draftable = {1}
  Deletable = {2}
  Runnable = {3}
  Stamps = TRUE
  MaxTitle = 1
  MaxChanges = 2
INVARIANTS
  ListedInScope
PROPERTIES
  RefreshKeepsRows
  Converges
CHECK_DEADLOCK FALSE
