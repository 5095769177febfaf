SPECIFICATION Spec
CONSTANTS
  None = None
  Ids <- MCIds
  Keys <- MCIds
  KeyOf <- MCKeyOf
  Methods <- MCMethods
  Metered <- MCMetered
  DurationEnabled = TRUE
  Modes = {"auto"}
  ClientMsgs <- MCClientMsgs
  Unsolicited <- MCRequestsOfServer
  ClientMayClose = FALSE
  Outlets = {"ready"}
  MaxClient = 3
  MaxExits = 2
  MaxServer = 1
  MaxTraffic = 4
  StdinCap = 1
INVARIANTS
  ClientStreamPreserved
  ExitAwaitsShutdown
  ExitReachesServer
  BookmarksKept
  BookmarksOnlyForWaiting
  MetricsMatchResponses
  RaceNeedsTwoRequests
PROPERTY MetersAtomically
CHECK_DEADLOCK FALSE
