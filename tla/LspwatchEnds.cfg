SPECIFICATION LspFairSpec
CONSTANTS
  None = None
  Ids <- MCIds
  Keys <- MCIds
  KeyOf <- MCKeyOf
  Methods <- MCMethods
  Metered = {"hover"}
  DurationEnabled = TRUE
  Modes = {"proxy", "auto", "command"}
  ClientMsgs <- MCNotes
  Unsolicited <- MCServerNote
  ClientMayClose = TRUE
  Outlets = {"ready", "stalled"}
  MaxClient = 2
  MaxExits = 2
  MaxServer = 1
  MaxTraffic = 2
  StdinCap = 1
  RssEnabled = FALSE
  WaitMayFail = FALSE
  CallerListens = TRUE
  StartMayFail = FALSE
  WaitMayHang = TRUE
  MayBeKilled = FALSE
  MaxInterrupts = 0
PROPERTIES
  ExitEndsLspwatch
  ServerExitEndsLspwatch
  
CHECK_DEADLOCK FALSE
