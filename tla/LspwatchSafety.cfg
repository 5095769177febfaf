SPECIFICATION LspSpec
CONSTANTS
  None = None
  Ids <- MCIds
  Keys <- MCIds
  KeyOf <- MCKeyOf
  Methods <- MCMethods
  Metered = {"hover"}
  DurationEnabled = TRUE
  Modes = {"auto"}
  ClientMsgs <- MCTwoRequests
  Unsolicited <- MCOutput
  ClientMayClose = TRUE
  Outlets = {"ready", "gone"}
  MaxClient = 2
  MaxExits = 1
  MaxServer = 0
  MaxTraffic = 2
  StdinCap = 1
  RssEnabled = TRUE
  WaitMayFail = TRUE
  CallerListens = TRUE
  StartMayFail = TRUE
  WaitMayHang = TRUE
  MayBeKilled = TRUE
  MaxInterrupts = 1
INVARIANTS
  EmissionsMeetExporter
  NormalEndIsComplete
  NoOrphans
PROPERTY CallsProxyHandlerRight
CHECK_DEADLOCK FALSE
