SPECIFICATION FairSpec
CONSTANTS
  Metrics = {m1, m2, m3}
  Protocols = {"file", "grpc"}
  ExportMayFail = TRUE
INVARIANTS
  EachMetricOnce
  ShutdownFlushes
PROPERTY WaitReturns
CHECK_DEADLOCK FALSE
