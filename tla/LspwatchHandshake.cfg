SPECIFICATION LspFairSpec
CONSTANTS
  None = None
  Ids <- MCIds
  Keys <- MCIds
  KeyOf <- MCKeyOf
  Methods <- MCMethods
  Metered = {"hover"}
  DurationEnabled = TRUE
  Modes = {"auto"}
  ClientMsgs <- MCClientMsgs
  Unsolicited <- MCOutput
  ClientMayClose = TRUE
  Outlets = {"ready"}
  MaxClient = 1
  MaxExits = 1
  MaxServer = 0
  MaxTraffic = 1
  StdinCap = 1
  RssEnabled = TRUE
  WaitMayFail = FALSE
  CallerListens = TRUE
  StartMayFail = FALSE
  WaitMayHang = FALSE
  MayBeKilled = FALSE
  MaxInterrupts = 0
PROPERTY AnyServerExitEndsLspwatch
CHECK_DEADLOCK FALSE
