SPECIFICATION FairSpec
CONSTANTS
  None = None
  Owner = Owner
  Emitters = {e1, e2}
  Metrics = {m1, m2, m3, m4}
  BatchSize = 2
INVARIANTS
  NeverPanics
  EachMetricOnce
  BatchesBounded
PROPERTIES
  Implements
  AcceptedIsSent
  ShutdownEnds
CHECK_DEADLOCK FALSE
