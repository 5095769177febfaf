SPECIFICATION TelSpec
CONSTANTS
  None = None
  Files <- MCFiles
  Flags <- MCFlags
  Methods <- MCMethods
  MaxEmits = 4
INVARIANTS
  OnlyLogPanics
  FailedStartLeavesNoServer
  EnabledAsConfigured
  SeriesAsConfigured
  PointsInTheirSeries
PROPERTY NothingRefusedOnceStarted
CHECK_DEADLOCK FALSE
