SPECIFICATION FairSpec
CONSTANTS
  Metrics = {m1, m2}
  Protocols = {"file", "grpc"}
  ExportMayFail = FALSE
INVARIANT WaitMeansFlushed
CHECK_DEADLOCK FALSE
