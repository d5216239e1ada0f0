SPECIFICATION Spec
CONSTANTS
  None = None
  Observer = Observer
  a = a
  b = b
  t1 = t1
  t2 = t2
  t3 = t3
  s1 = s1
  s2 = s2
  s3 = s3
  Conv <- TwoConv
  Turn = {t1, t2, t3}
  ConvOf <- SameConvOf
  Send = {s1, s2, s3}
  Pasted = {t2}
  Command = {t2}
  CommandResult = {"control", "prompt", "failed"}
  Openable = {b}
  Recoverable = {}
  EarlyIdle = {}
INVARIANTS
  QueuesOwned
  OneDrainPerConversation
SYMMETRY AwaitSymmetry
