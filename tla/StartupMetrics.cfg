SPECIFICATION Spec
CONSTANTS
  None = None
  Files <- MCFiles
  Flags <- MCFlags
INVARIANTS
  ListedMetricsAccepted
CHECK_DEADLOCK FALSE
