SPECIFICATION Spec
CONSTANTS
  None = None
  Ids <- MCIds
  Keys <- MCIds
  KeyOf <- MCKeyOf
  Methods <- MCMethods
  Metered <- MCMetered
  DurationEnabled = TRUE
  Modes = {"proxy", "command", "auto"}
  ClientMsgs <- MCClientMsgs
  Unsolicited <- MCOutput
  ClientMayClose = TRUE
  Outlets = {"ready", "gone"}
  MaxClient = 2
  MaxExits = 2
  MaxServer = 2
  MaxTraffic = 4
  StdinCap = 1
INVARIANTS
  TypeOK
  NoMisroute
  EmitOnlyWhenConfirmed
  ServerStreamPreserved
  AtMostOneLateChunk
CHECK_DEADLOCK FALSE
