SPECIFICATION FairSpec
CONSTANTS
  None = None
  r1 = r1
  r2 = r2
  r3 = r3
  t1 = t1
  t2 = t2
  Request <- MCRequest
  Target = {t1, t2}
  TargetOf <- MCTargetOf
  Risky = {t1, t2}
  MaxRestarts = 1
  MaxAudit = 6
INVARIANTS
  ConsentBeforeExecution
  DisplayMatchesBroker
  ApprovalLasts
PROPERTIES
  DisplayedSettles
  AnsweredUnlessStranded
CHECK_DEADLOCK FALSE
