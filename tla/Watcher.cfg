SPECIFICATION FairSpec
CONSTANTS
  RssEnabled = TRUE
  WaitMayFail = TRUE
  CallerListens = TRUE
INVARIANTS
  AtMostOneLateSample
PROPERTIES
  ExitIsReported
  TickerEnds
CHECK_DEADLOCK FALSE
