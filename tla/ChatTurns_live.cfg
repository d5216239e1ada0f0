SPECIFICATION FairSpec
CONSTANTS
  None = None
  Observer = Observer
  a = a
  b = b
  t1 = t1
  t2 = t2
  t3 = t3
  s1 = s1
  s2 = s2
  s3 = s3
  Conv <- OneConv
  Turn = {t1, t2, t3}
  ConvOf <- SameConvOf
  Send = {s1, s2}
  Pasted = {}
  Command = {}
  CommandResult = {}
  Openable = {}
  Recoverable = {a}
  EarlyIdle = {}
PROPERTIES
  QueueDrains
  RunEnds
CHECK_DEADLOCK FALSE
