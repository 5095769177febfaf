---------------------------- MODULE ProxyHandler ----------------------------
(***************************************************************************)
(* The proxy handler of lspwatch (internal/core/proxy.go) with the         *)
(* diverter pipe it reads the language server through (internal/io/io.go). *)
(*                                                                         *)
(* Goroutines, each with a program counter:                                *)
(*   lc  listenClient, together with its reader goroutine;                 *)
(*   ls  listenServer;  srHeld is the message its reader goroutine offers; *)
(*   dv  the loop started by SingleUseDiverterPipe.Start;                  *)
(*   pt  passThroughServerBytes.                                           *)
(* The caller (Run in internal/lspwatch.go), the client and the server are *)
(* the environment; module Lspwatch replaces the caller by the real one.   *)
(*                                                                         *)
(* A message is a record of the fields lspwatch looks at.  One read of the *)
(* server's stdout by the diverter is one message.  `ok' is FALSE when     *)
(* LSPReader.Read returns an error for it: of the client's messages those  *)
(* whose JSON is not valid, of the server's output what is no LSP message, *)
(* plain text for short.  The field `re' of a response is a ghost: the     *)
(* method of the request it answers.                                       *)
(***************************************************************************)
EXTENDS Integers, Sequences, FiniteSets, SequenceFilter

CONSTANTS
  Ids,             \* JSON-RPC ids, as the client tells them apart
  Keys,            \* ids after StringOrInt.UnmarshalJSON
  KeyOf,           \* the conversion, a function from Ids to Keys
  Methods,         \* LSP methods, "exit" among them
  Metered,         \* cfg.MeteredRequests, or the default list
  DurationEnabled, \* is request.duration enabled in the metrics registry?
  Modes,           \* --mode: "proxy", "command" or "auto" (the empty flag)
  ClientMsgs,      \* what the client may send
  Unsolicited,     \* what the server may say that answers no request
  ClientMayClose,  \* may the client close our stdin?
  Outlets,         \* what the pipe from our stdout to the client may be
  MaxClient,       \* bound: messages the client sends
  MaxExits,        \* bound: exit notifications among them (LSP asks for one)
  MaxServer,       \* bound: unsolicited messages of the server
  MaxTraffic,      \* bound: both together
  StdinCap,        \* messages the pipe to the server's stdin holds
  None             \* a field, message or bookmark that is absent

ClientMsg == [id : Ids \cup {None}, method : Methods \cup {None}, ok : BOOLEAN]
ServerMsg == [id : Ids \cup {None}, method : Methods \cup {None},
              ok : BOOLEAN, re : Methods \cup {None}]

IsRequest(m)  == m.id # None /\ m.method # None
IsResponse(m) == m.id # None /\ m.method = None
IsExit(m)     == m.id = None /\ m.method = "exit"

ASSUME ConversionAssumption == KeyOf \in [Ids -> Keys]
ASSUME NoneAssumption == None \notin Ids /\ None \notin Methods /\ None \notin ServerMsg
ASSUME MethodAssumption == "exit" \in Methods /\ Metered \subseteq Methods
ASSUME ModeAssumption == Modes \subseteq {"proxy", "command", "auto"}
ASSUME FlagAssumption == DurationEnabled \in BOOLEAN /\ ClientMayClose \in BOOLEAN
ASSUME OutletAssumption == "ready" \in Outlets /\ Outlets \subseteq {"ready", "stalled", "gone"}
ASSUME ClientAssumption == ClientMsgs \subseteq ClientMsg
ASSUME ServerAssumption ==
  Unsolicited \subseteq {m \in ServerMsg : ~IsResponse(m) /\ m.re = None}
ASSUME BoundAssumption ==
  /\ MaxClient \in Nat /\ MaxExits \in Nat /\ MaxServer \in Nat /\ MaxTraffic \in Nat
  /\ StdinCap \in Nat \ {0}

VARIABLES
  mode,        \* the mode flag, fixed at construction
  clientSent,  \* all the client has written to our stdin
  clientRead,  \* how many of them listenClient has received
  clientOpen,  \* the client has not closed our stdin
  outlet,      \* the client reads our stdout, has stopped to for good, or is gone
  lc, lcMsg,   \* listenClient: where it is, the message it works on
  exitHeld,    \* shutdownMessage # nil: the intercepted exit notification
  switchDone,  \* switchOnce has run to its end
  passOpen,    \* the pass-through pipe is open
  diverted,    \* switchCtx is done
  dv, dvMsg,   \* diverter: where it is, the bytes it carries
  torn,        \* the LSP reader's line has begun with what is no header
  pt, ptMsg,   \* pass-through: where it is, the bytes it carries
  srHeld,      \* message offered on serverReadResultChan, or None
  ls, lsMsg,   \* listenServer: where it is, the message it works on
  lsMethod,    \* method of the bookmark listenServer got
  buffer,      \* requestBuffer: the bookmarked method of a key, or None
  outgoing,    \* elements in the channel outgoingShutdown
  incoming,    \* incomingShutdown is closed
  raced,       \* requestBuffer was accessed by both listeners at once
  crashed,     \* the Go runtime ended lspwatch, see RuntimeAbort and BrokenPipe
  serverUp,    \* the server process is running
  toServer,    \* all that was written to the server's stdin
  taken,       \* how many of those messages the server has read
  owed,        \* requests the server has read and not answered
  serverOut,   \* what the server wrote and the diverter has not read
  said,        \* number of unsolicited messages of the server
  routed,      \* history: messages the diverter took for the LSP path
  passed,      \* history: those it took for the pass-through
  stdout,      \* history: who made each write to our stdout, "pass" or "lsp"
  passOut,     \* what the client received by pass-through
  lspOut,      \* what the client received from listenServer
  emitted      \* methods of the request.duration metrics emitted

clientVars == <<clientSent, clientOpen, outlet>>
flagVars   == <<exitHeld, switchDone, passOpen, diverted>>
lcVars     == <<clientRead, lc, lcMsg, flagVars>>
dvVars     == <<dv, dvMsg, torn, routed, passed>>
ptVars     == <<pt, ptMsg, passOut>>
lsVars     == <<ls, lsMsg, lsMethod, lspOut, emitted>>
chanVars   == <<outgoing, incoming>>
bufVars    == <<buffer, raced>>
serverVars == <<serverUp, taken, owed, said>>
vars == <<mode, clientVars, lcVars, dvVars, ptVars, srHeld, lsVars, bufVars,
          chanVars, crashed, serverVars, toServer, serverOut, stdout>>

-----------------------------------------------------------------------------
\* listenClient's deferred calls close the server's stdin, listenServer's the
\* server's stdout, our stdout and the pipe the LSP messages come through.
ServerStdinOpen == lc # "done"
ServerPipesOpen == ls # "done"

\* What Wait() blocks on: the wait group of the two listeners.
ListenersDone == lc \in {"off", "done"} /\ ls \in {"off", "done"}

\* The caller runs the body of the SwitchedToProxyMode case.
Handshaking == lc \in {"closePass", "divert", "awaitConfirm"}

\* requestBuffer is a plain Go map shared without a lock.  Where both listeners
\* are at an access, the two may overlap (MayMeet) or come one after the other:
\* a Set may also fall cleanly between Get and Delete.
MapRace == lc = "register" /\ ls \in {"lookup", "delete"}
MayMeet == raced' \in {raced, raced \/ MapRace}

LcPcs == {"off", "select", "offerSwitch", "closePass", "divert", "awaitConfirm",
          "register", "raise", "forward", "flushExit", "done"}
DvPcs == {"read", "route", "first", "second", "stopped"}
PtPcs == {"off", "read", "write", "done"}
LsPcs == {"off", "select", "lookup", "delete", "emit", "forward", "done"}

Init ==
  /\ mode \in Modes
  /\ clientSent = <<>> /\ clientRead = 0 /\ clientOpen = TRUE /\ outlet = "ready"
  /\ lc = (IF mode = "command" THEN "off" ELSE "select")
  /\ ls = (IF mode = "command" THEN "off" ELSE "select")
  /\ pt = (IF mode = "proxy" THEN "off" ELSE "read")
  /\ lcMsg = None /\ exitHeld = FALSE /\ switchDone = FALSE
  /\ passOpen = TRUE /\ diverted = FALSE
  /\ dv = "read" /\ dvMsg = None /\ torn = FALSE /\ ptMsg = None /\ srHeld = None
  /\ lsMsg = None /\ lsMethod = None
  /\ buffer = [k \in Keys |-> None] /\ raced = FALSE
  /\ outgoing = 0 /\ incoming = FALSE /\ crashed = FALSE
  /\ serverUp = TRUE /\ toServer = <<>> /\ taken = 0 /\ owed = {}
  /\ serverOut = <<>> /\ said = 0
  /\ routed = <<>> /\ passed = <<>> /\ passOut = <<>> /\ lspOut = <<>> /\ emitted = <<>>
  /\ stdout = <<>>

-----------------------------------------------------------------------------
(* The client.  As JSON-RPC asks, it uses an id again only after it has    *)
(* received the response.                                                  *)

Requests(id)  == {i \in DOMAIN clientSent : clientSent[i].id = id /\ IsRequest(clientSent[i])}
Responses(id) == {i \in DOMAIN lspOut : lspOut[i].id = id /\ IsResponse(lspOut[i])}

ClientSend(m) ==
  /\ clientOpen
  /\ Len(clientSent) < MaxClient /\ Len(clientSent) + said < MaxTraffic
  /\ IsRequest(m) => Cardinality(Requests(m.id)) = Cardinality(Responses(m.id))
  /\ IsExit(m) => Cardinality({i \in DOMAIN clientSent : IsExit(clientSent[i])}) < MaxExits
  /\ clientSent' = Append(clientSent, m)
  /\ UNCHANGED <<clientOpen, outlet>>

ClientClose ==
  /\ ClientMayClose
  /\ clientOpen
  /\ clientOpen' = FALSE
  /\ UNCHANGED <<clientSent, outlet>>

\* The client reads no more, so that the pipe is full, or has closed it.  Only a write
\* tells; one that waits a while for the client is one that takes long.
ClientStopsReading ==
  /\ outlet # "gone" /\ ServerPipesOpen
  /\ pt = "write" \/ ls = "forward"
  /\ outlet' \in Outlets \ {"ready", outlet}
  /\ UNCHANGED <<clientSent, clientOpen>>

Client ==
  /\ ClientClose \/ ClientStopsReading \/ \E m \in ClientMsgs : ClientSend(m)
  /\ UNCHANGED <<mode, lcVars, dvVars, ptVars, srHeld, lsVars, bufVars, chanVars,
                 crashed, serverVars, toServer, serverOut, stdout>>

-----------------------------------------------------------------------------
(* listenClient                                                            *)

\* Where listenClient goes with a message once in proxy mode: lines 356-377.
Dispatch(m) ==
  IF IsRequest(m) THEN "register" ELSE IF IsExit(m) THEN "raise" ELSE "forward"

\* A message is received; the first well-formed one starts the mode switch.
LcReceive ==
  /\ lc = "select"
  /\ clientRead < Len(clientSent)
  /\ clientRead' = clientRead + 1
  /\ LET m == clientSent[clientRead + 1] IN
       IF ~m.ok THEN UNCHANGED <<lc, lcMsg>>
       ELSE /\ lcMsg' = m
            /\ lc' = IF switchDone THEN Dispatch(m) ELSE "offerSwitch"
  /\ UNCHANGED <<flagVars, bufVars, chanVars, toServer>>

\* io.EOF: the listener ends without raising a shutdown request.
LcEof ==
  /\ lc = "select"
  /\ ~clientOpen
  /\ clientRead = Len(clientSent)
  /\ lc' = "done"
  /\ UNCHANGED <<clientRead, lcMsg, flagVars, bufVars, chanVars, toServer>>

LcClosePassThrough ==
  /\ lc = "closePass"
  /\ passOpen' = FALSE
  /\ lc' = "divert"
  /\ UNCHANGED <<clientRead, lcMsg, exitHeld, switchDone, diverted, bufVars, chanVars, toServer>>

\* Mutant: the confirmation of the caller is not waited for.
LcDivert_NoWait ==
  /\ lc = "divert"
  /\ diverted' = TRUE
  /\ lc' = Dispatch(lcMsg)
  /\ UNCHANGED <<clientRead, lcMsg, exitHeld, switchDone, passOpen, bufVars, chanVars, toServer>>

\* Mutant: the diverter is never switched.
LcDivert_NoSwitch ==
  /\ lc = "divert"
  /\ lc' = "awaitConfirm"
  /\ UNCHANGED <<clientRead, lcMsg, flagVars, bufVars, chanVars, toServer>>

LcDivert ==
  /\ lc = "divert"
  /\ diverted' = TRUE
  /\ lc' = "awaitConfirm"
  /\ UNCHANGED <<clientRead, lcMsg, exitHeld, switchDone, passOpen, bufVars, chanVars, toServer>>

\* requestBuffer.Set, which overwrites a bookmark with the same key.
LcRegister ==
  /\ lc = "register"
  /\ buffer' = [buffer EXCEPT ![KeyOf[lcMsg.id]] = lcMsg.method]
  /\ MayMeet
  /\ lc' = "forward"
  /\ UNCHANGED <<clientRead, lcMsg, flagVars, chanVars, toServer>>

\* Mutant: the exit notification is forwarded at once (no `continue').
LcRaise_Forwards ==
  /\ lc = "raise"
  /\ outgoing < 1
  /\ outgoing' = outgoing + 1
  /\ exitHeld' = TRUE
  /\ lc' = "forward"
  /\ UNCHANGED <<clientRead, lcMsg, switchDone, passOpen, diverted, bufVars, toServer>>

\* Mutant: the channel has room for more than one request.
LcRaise_Unbounded ==
  /\ lc = "raise"
  /\ outgoing' = outgoing + 1
  /\ exitHeld' = TRUE
  /\ lc' = "select"
  /\ UNCHANGED <<clientRead, lcMsg, switchDone, passOpen, diverted, bufVars, toServer>>

\* raiseShutdownRequest: a send on a channel that holds one element.
LcRaise ==
  /\ lc = "raise"
  /\ outgoing < 1
  /\ outgoing' = outgoing + 1
  /\ exitHeld' = TRUE
  /\ lc' = "select"
  /\ UNCHANGED <<clientRead, lcMsg, switchDone, passOpen, diverted, bufVars, toServer>>

\* Mutant: a message that does not fit the pipe is dropped.
WriteToServer_DropsWhenFull(m) ==
  toServer' = IF serverUp /\ Len(toServer) - taken < StdinCap
              THEN Append(toServer, m) ELSE toServer

\* A write to the server's stdin: it blocks on a full pipe, and it fails, which
\* is only logged, when the server is gone.
WriteToServer(m) ==
  IF serverUp THEN /\ Len(toServer) - taken < StdinCap
                   /\ toServer' = Append(toServer, m)
              ELSE UNCHANGED toServer

LcForward ==
  /\ lc = "forward"
  /\ WriteToServer(lcMsg)
  /\ lc' = "select"
  /\ UNCHANGED <<clientRead, lcMsg, flagVars, bufVars, chanVars>>

\* Mutant: the held exit notification is not written.
LcShutdown_DropsExit ==
  /\ lc = "select"
  /\ incoming
  /\ lc' = "done"
  /\ UNCHANGED <<clientRead, lcMsg, flagVars, bufVars, chanVars, toServer>>

\* incomingShutdown is seen; a held exit notification is still to be written.
LcShutdown ==
  /\ lc = "select"
  /\ incoming
  /\ lc' = IF exitHeld THEN "flushExit" ELSE "done"
  /\ UNCHANGED <<clientRead, lcMsg, flagVars, bufVars, chanVars, toServer>>

ExitMsg == [id |-> None, method |-> "exit", ok |-> TRUE]

LcFlushExit ==
  /\ lc = "flushExit"
  /\ WriteToServer(ExitMsg)
  /\ lc' = "done"
  /\ UNCHANGED <<clientRead, lcMsg, flagVars, bufVars, chanVars>>

ListenClient ==
  /\ ~crashed
  /\ \/ LcReceive \/ LcEof \/ LcClosePassThrough \/ LcDivert \/ LcRegister
     \/ LcRaise \/ LcForward \/ LcShutdown \/ LcFlushExit
  /\ UNCHANGED <<mode, clientVars, dvVars, ptVars, srHeld, lsVars, incoming, crashed,
                 serverVars, serverOut, stdout>>

-----------------------------------------------------------------------------
(* The diverter and the pass-through goroutine.  The pipes between them    *)
(* and to the LSP reader are io.Pipes: a write ends when it has been read, *)
(* or with an error, which is ignored, when the pipe is closed.            *)


DvRead ==
  /\ dv = "read"
  /\ ServerPipesOpen
  /\ serverOut # <<>>
  /\ dvMsg' = Head(serverOut)
  /\ serverOut' = Tail(serverOut)
  /\ dv' = "route"
  /\ UNCHANGED <<torn, routed, passed, ptVars, srHeld>>

\* End of the server's output, or our end of it was closed: the loop breaks and
\* closes neither destination, so listenServer never reads an io.EOF and its
\* branch for it (lines 221-225) is not reached.
DvStop ==
  /\ dv = "read"
  /\ ~ServerPipesOpen \/ (~serverUp /\ serverOut = <<>>)
  /\ dv' = "stopped"
  /\ UNCHANGED <<dvMsg, torn, routed, passed, ptVars, srHeld, serverOut>>

\* What the LSP reader will make of the bytes.  Text may leave it in a line that
\* has begun (torn), and is then read as one with the first header of the next
\* message: if that is Content-Length, the message is not recognised, and its
\* body, which no newline ends, is the next such beginning.
Recognise(m) ==
  IF ~m.ok THEN dvMsg' = m /\ torn' \in BOOLEAN
  ELSE \/ dvMsg' = m /\ torn' = FALSE
       \/ torn /\ dvMsg' = [m EXCEPT !.ok = FALSE] /\ UNCHANGED torn

DvRoute ==
  /\ dv = "route"
  /\ \/ /\ diverted
        /\ dv' = "second"
        /\ Recognise(dvMsg)
        /\ routed' = Append(routed, dvMsg')
        /\ UNCHANGED passed
     \/ /\ ~diverted
        /\ dv' = "first"
        /\ passed' = Append(passed, dvMsg)
        /\ UNCHANGED <<dvMsg, torn, routed>>
  /\ UNCHANGED <<ptVars, srHeld, serverOut>>

DvWriteFirst ==
  /\ dv = "first"
  /\ \/ ~passOpen /\ UNCHANGED <<pt, ptMsg>>
     \/ passOpen /\ pt = "read" /\ pt' = "write" /\ ptMsg' = dvMsg
  /\ dv' = "read"
  /\ UNCHANGED <<dvMsg, torn, routed, passed, srHeld, serverOut>>

\* Mutant: the write does not wait until the reader has taken the last message.
DvWriteSecond_Overwrites ==
  /\ dv = "second"
  /\ srHeld' = dvMsg
  /\ dv' = "read"
  /\ UNCHANGED <<dvMsg, torn, routed, passed, ptVars, serverOut>>

\* A text that does not end in a line without a colon yields no result of its
\* own.
DvWriteSecond ==
  /\ dv = "second"
  /\ \/ ~ServerPipesOpen /\ UNCHANGED srHeld
     \/ /\ ServerPipesOpen /\ srHeld = None
        /\ srHeld' = dvMsg \/ (~dvMsg.ok /\ UNCHANGED srHeld)
  /\ dv' = "read"
  /\ UNCHANGED <<dvMsg, torn, routed, passed, ptVars, serverOut>>

Diverter ==
  /\ ~crashed
  /\ DvRead \/ DvStop \/ DvRoute \/ DvWriteFirst \/ DvWriteSecond
  /\ UNCHANGED <<mode, clientVars, lcVars, passOut, lsVars, bufVars, chanVars, crashed,
                 serverVars, toServer, stdout>>

\* A write to our stdout waits while the pipe is full; one made after listenServer
\* has closed it fails at once.
CanWriteStdout == outlet = "ready" \/ ~ServerPipesOpen

\* Mutant: a chunk is written piece by piece.
PtWrite_Pieces ==
  /\ pt = "write"
  /\ passOut' = IF ServerPipesOpen THEN Append(passOut, ptMsg) ELSE passOut
  /\ stdout' = IF ServerPipesOpen THEN Append(stdout, "pass") ELSE stdout
  /\ pt' \in {"write", "read"}
  /\ UNCHANGED ptMsg

PtWrite ==
  /\ pt = "write"
  /\ CanWriteStdout
  /\ IF ServerPipesOpen
     THEN passOut' = Append(passOut, ptMsg) /\ stdout' = Append(stdout, "pass")
     ELSE UNCHANGED <<passOut, stdout>>
  /\ pt' = "read"
  /\ UNCHANGED ptMsg

PtStop ==
  /\ pt = "read"
  /\ ~passOpen
  /\ pt' = "done"
  /\ UNCHANGED <<ptMsg, passOut, stdout>>

PassThrough ==
  /\ ~crashed
  /\ PtWrite \/ PtStop
  /\ UNCHANGED <<mode, clientVars, lcVars, dvVars, srHeld, lsVars, bufVars, chanVars,
                 crashed, serverVars, toServer, serverOut>>

-----------------------------------------------------------------------------
(* listenServer                                                            *)

LsReceive ==
  /\ ls = "select"
  /\ srHeld # None
  /\ srHeld' = None
  /\ IF srHeld.ok
     THEN /\ lsMsg' = srHeld
          /\ ls' = IF IsResponse(srHeld) THEN "lookup" ELSE "forward"
     ELSE UNCHANGED <<ls, lsMsg>>
  /\ UNCHANGED <<lsMethod, lspOut, emitted, bufVars, stdout>>

\* Mutant: a response is forwarded before its bookmark is taken out.
LsLookup_ForwardsFirst ==
  /\ ls = "lookup"
  /\ MayMeet
  /\ lsMethod' = buffer[KeyOf[lsMsg.id]]
  /\ lspOut' = Append(lspOut, lsMsg)
  /\ ls' = IF lsMethod' = None THEN "select" ELSE "delete"
  /\ UNCHANGED <<srHeld, lsMsg, emitted, buffer, stdout>>

\* requestBuffer.Get and, in a step of its own, requestBuffer.Delete.  Once the
\* map has been raced on, Get may miss a bookmark that is there.
LsLookup ==
  /\ ls = "lookup"
  /\ MayMeet
  /\ lsMethod' \in {buffer[KeyOf[lsMsg.id]]} \cup {m \in {None} : raced'}
  /\ ls' = IF lsMethod' = None THEN "forward" ELSE "delete"
  /\ UNCHANGED <<srHeld, lsMsg, lspOut, emitted, buffer, stdout>>

\* Mutant: the bookmark stays in the buffer.
LsDelete_Keeps ==
  /\ ls = "delete"
  /\ MayMeet
  /\ ls' = IF lsMethod \in Metered /\ DurationEnabled THEN "emit" ELSE "forward"
  /\ UNCHANGED <<srHeld, lsMsg, lsMethod, lspOut, emitted, buffer, stdout>>

\* Mutant: all bookmarks are removed.
LsDelete_All ==
  /\ ls = "delete"
  /\ buffer' = [k \in Keys |-> None]
  /\ MayMeet
  /\ ls' = IF lsMethod \in Metered /\ DurationEnabled THEN "emit" ELSE "forward"
  /\ UNCHANGED <<srHeld, lsMsg, lsMethod, lspOut, emitted, stdout>>

\* Mutant: requests that are not to be metered are metered.
LsDelete_MetersAll ==
  /\ ls = "delete"
  /\ buffer' = [buffer EXCEPT ![KeyOf[lsMsg.id]] = None]
  /\ MayMeet
  /\ ls' = IF DurationEnabled THEN "emit" ELSE "forward"
  /\ UNCHANGED <<srHeld, lsMsg, lsMethod, lspOut, emitted, stdout>>

LsDelete ==
  /\ ls = "delete"
  /\ buffer' = [buffer EXCEPT ![KeyOf[lsMsg.id]] = None]
  /\ MayMeet
  /\ ls' = IF lsMethod \in Metered /\ DurationEnabled THEN "emit" ELSE "forward"
  /\ UNCHANGED <<srHeld, lsMsg, lsMethod, lspOut, emitted, stdout>>

LsEmit ==
  /\ ls = "emit"
  /\ emitted' = Append(emitted, lsMethod)
  /\ ls' = "forward"
  /\ UNCHANGED <<srHeld, lsMsg, lsMethod, lspOut, bufVars, stdout>>

LsForward ==
  /\ ls = "forward"
  /\ CanWriteStdout
  /\ lspOut' = Append(lspOut, lsMsg)
  /\ stdout' = Append(stdout, "lsp")
  /\ ls' = "select"
  /\ UNCHANGED <<srHeld, lsMsg, lsMethod, emitted, bufVars>>

LsShutdown ==
  /\ ls = "select"
  /\ incoming
  /\ ls' = "done"
  /\ UNCHANGED <<srHeld, lsMsg, lsMethod, lspOut, emitted, bufVars, stdout>>

ListenServer ==
  /\ ~crashed
  /\ LsReceive \/ LsLookup \/ LsDelete \/ LsEmit \/ LsForward \/ LsShutdown
  /\ UNCHANGED <<mode, clientVars, lcVars, dvVars, ptVars, chanVars, crashed,
                 serverVars, toServer, serverOut>>

\* The runtime may notice such a meeting and abort the whole process.
RuntimeAbort ==
  /\ ~crashed
  /\ MapRace
  /\ crashed' = TRUE /\ raced' = TRUE
  /\ UNCHANGED <<mode, clientVars, lcVars, dvVars, ptVars, srHeld, lsVars, buffer,
                 chanVars, serverVars, toServer, serverOut, stdout>>

\* A write to a stdout that nobody reads raises SIGPIPE, which lspwatch does not
\* catch and which the runtime ends a process with if it comes of descriptor 1.
BrokenPipe ==
  /\ ~crashed
  /\ outlet = "gone" /\ ServerPipesOpen
  /\ pt = "write" \/ ls = "forward"
  /\ crashed' = TRUE
  /\ UNCHANGED <<mode, clientVars, lcVars, dvVars, ptVars, srHeld, lsVars, bufVars,
                 chanVars, serverVars, toServer, serverOut, stdout>>

-----------------------------------------------------------------------------
(* The caller                                                              *)

\* The caller receives the first half of the handshake.
AcceptSwitch ==
  /\ lc = "offerSwitch"
  /\ lc' = "closePass"
  /\ UNCHANGED <<switchDone, chanVars>>

\* ConfirmProxyMode: the caller sends the second half, listenClient goes on
\* with the message that made it switch.
ConfirmProxyMode ==
  /\ lc = "awaitConfirm"
  /\ switchDone' = TRUE
  /\ lc' = Dispatch(lcMsg)
  /\ UNCHANGED chanVars

\* The receive of the ShutdownRequested case in Run.
TakeShutdownRequest ==
  /\ outgoing > 0
  /\ outgoing' = outgoing - 1
  /\ UNCHANGED <<lc, switchDone, incoming>>

\* Idempotent: the channel is closed once.
Shutdown ==
  /\ incoming' = TRUE
  /\ UNCHANGED <<lc, switchDone, outgoing>>

CallerFrame ==
  UNCHANGED <<mode, clientVars, clientRead, lcMsg, exitHeld, passOpen, diverted, dvVars,
              ptVars, srHeld, lsVars, bufVars, crashed, serverVars, toServer, serverOut,
              stdout>>

Caller ==
  /\ ~crashed
  /\ \/ AcceptSwitch
     \/ ConfirmProxyMode
     \/ ~Handshaking /\ (TakeShutdownRequest \/ Shutdown)
  /\ CallerFrame

-----------------------------------------------------------------------------
(* The language server, which answers each request at most once and only   *)
(* after it has read it.                                                   *)

ServerTake ==
  /\ serverUp
  /\ taken < Len(toServer)
  /\ taken' = taken + 1
  /\ owed' = owed \cup {m \in {toServer[taken + 1]} : IsRequest(m)}
  /\ UNCHANGED <<serverUp, said, serverOut>>

ServerReply(m) ==
  /\ serverUp /\ ServerPipesOpen
  /\ owed' = owed \ {m}
  /\ serverOut' = Append(serverOut,
                         [id |-> m.id, method |-> None, ok |-> TRUE, re |-> m.method])
  /\ UNCHANGED <<serverUp, taken, said>>

ServerSay(m) ==
  /\ serverUp /\ ServerPipesOpen
  /\ said < MaxServer /\ Len(clientSent) + said < MaxTraffic
  /\ said' = said + 1
  /\ serverOut' = Append(serverOut, m)
  /\ UNCHANGED <<serverUp, taken, owed>>

ServerExit ==
  /\ serverUp
  /\ serverUp' = FALSE
  /\ UNCHANGED <<taken, owed, said, serverOut>>

Server ==
  /\ \/ ServerTake \/ ServerExit
     \/ \E m \in owed : ServerReply(m)
     \/ \E m \in Unsolicited : ServerSay(m)
  /\ UNCHANGED <<mode, clientVars, lcVars, dvVars, ptVars, srHeld, lsVars, bufVars,
                 chanVars, crashed, toServer, stdout>>

Next ==
  \/ ListenClient \/ ListenServer \/ Diverter \/ PassThrough
  \/ RuntimeAbort \/ BrokenPipe \/ Caller \/ Client \/ Server

Spec == Init /\ [][Next]_vars

-----------------------------------------------------------------------------
(* Properties                                                              *)

ClientTypeOK ==
  /\ clientSent \in Seq(ClientMsg) /\ clientRead \in 0..Len(clientSent)
  /\ clientOpen \in BOOLEAN /\ outlet \in {"ready", "stalled", "gone"}
LcTypeOK ==
  /\ lc \in LcPcs /\ lcMsg \in ClientMsg \cup {None}
  /\ exitHeld \in BOOLEAN /\ switchDone \in BOOLEAN
  /\ passOpen \in BOOLEAN /\ diverted \in BOOLEAN
DvTypeOK ==
  /\ dv \in DvPcs /\ dvMsg \in ServerMsg \cup {None} /\ torn \in BOOLEAN
  /\ routed \in Seq(ServerMsg) /\ passed \in Seq(ServerMsg)
PtTypeOK == pt \in PtPcs /\ ptMsg \in ServerMsg \cup {None} /\ passOut \in Seq(ServerMsg)
LsTypeOK ==
  /\ ls \in LsPcs /\ lsMsg \in ServerMsg \cup {None} /\ lsMethod \in Methods \cup {None}
  /\ lspOut \in Seq(ServerMsg) /\ emitted \in Seq(Methods)
SharedTypeOK ==
  /\ buffer \in [Keys -> Methods \cup {None}] /\ raced \in BOOLEAN
  /\ outgoing \in 0..1 /\ incoming \in BOOLEAN /\ crashed \in BOOLEAN
  /\ srHeld \in ServerMsg \cup {None}
StdoutTypeOK == stdout \in Seq({"pass", "lsp"})
ServerTypeOK ==
  /\ serverUp \in BOOLEAN /\ toServer \in Seq(ClientMsg)
  /\ taken \in 0..Len(toServer) /\ owed \subseteq ClientMsg
  /\ serverOut \in Seq(ServerMsg) /\ said \in 0..MaxServer
TypeOK ==
  /\ mode \in Modes
  /\ ClientTypeOK /\ LcTypeOK /\ DvTypeOK /\ PtTypeOK /\ LsTypeOK
  /\ SharedTypeOK /\ StdoutTypeOK /\ ServerTypeOK

\* A response never goes the pass-through way: the diverter, which routes what
\* it has read by asking whether the switch has been made, never takes one for
\* the first destination, where its request would not be metered and where it
\* would be dropped if the pass-through pipe is closed.
NoMisroute == dv = "first" => ~IsResponse(dvMsg)

\* request.duration is emitted only after the caller has confirmed the mode
\* switch, that is, after it has started the metrics exporter.
EmitOnlyWhenConfirmed == ls = "emit" => switchDone

\* A well-formed message of the client other than exit is written to a live
\* server once and in the order received; only the message listenClient is
\* working on is missing, and exit, if it was written, comes last.
Forwardable == {m \in ClientMsg : m.ok /\ ~IsExit(m)}
ClientStreamPreserved ==
  LET due == Only(SubSeq(clientSent, 1, clientRead), Forwardable)
      now == IF lc \in {"offerSwitch", "closePass", "divert", "awaitConfirm", "register",
                        "forward"} /\ ~IsExit(lcMsg)
             THEN <<lcMsg>> ELSE <<>>
  IN serverUp => toServer \o now \in {due, Append(due, ExitMsg)}

\* The exit notification is kept from the server until the caller has shut the
\* proxy handler down, and nothing is written after it.
ExitAwaitsShutdown ==
  \A i \in DOMAIN toServer : IsExit(toServer[i]) => incoming /\ i = Len(toServer)

\* What the server writes reaches the client once and in order, by the way on which
\* the diverter took it: as LSP messages, but for those that could not be read,
\* among which a response only is if text has come before it on this way, until
\* listenServer ends; and through the pass-through while that is open, in
\* command mode until the end, so that the client never has more than a prefix of
\* what the server wrote, nor one with a gap.
Readable == {m \in ServerMsg : m.ok}
LspPathPreserved ==
  LET working  == IF ls \in {"lookup", "delete", "emit", "forward"} THEN <<lsMsg>> ELSE <<>>
      held     == IF srHeld # None THEN <<srHeld>> ELSE <<>>
      carried  == IF dv = "second" THEN <<dvMsg>> ELSE <<>>
  IN ls # "done" =>
       lspOut \o working \o Only(held \o carried, Readable) = Only(routed, Readable)
LostOnlyAfterText ==
  \A i \in DOMAIN routed :
    ~routed[i].ok /\ IsResponse(routed[i])
      => \E j \in 1..(i - 1) : ~routed[j].ok /\ ~IsResponse(routed[j])
PassThroughPreserved ==
  LET writing == IF pt = "write" THEN <<ptMsg>> ELSE <<>>
      carried == IF dv = "first" THEN <<dvMsg>> ELSE <<>>
  IN passOpen /\ pt # "off" /\ ls # "done" => passOut \o writing \o carried = passed
ServerStreamPreserved == LspPathPreserved /\ LostOnlyAfterText /\ PassThroughPreserved

\* The pass-through goroutine and listenServer both write to stdout.  Once the
\* latter has begun, at most one write of the former follows: the chunk it held
\* when the pipe was closed.
AtMostOneLateChunk ==
  \A i \in DOMAIN stdout :
    stdout[i] = "lsp" => Cardinality({j \in i..Len(stdout) : stdout[j] = "pass"}) <= 1

\* The listeners meet in the request buffer only if the client has two requests
\* under way: one that waits for its answer before it sends the next never runs
\* into the unlocked map.
RaceNeedsTwoRequests ==
  MapRace => \E a, b \in Ids :
               /\ a # b
               /\ \A id \in {a, b} : Cardinality(Requests(id)) > Cardinality(Responses(id))

\* Unless the map was raced on, a request the server may still answer, and a
\* response not yet looked up, has its bookmark in the buffer, so that the
\* branch for unbuffered responses is never taken.
AwaitingLookup ==
  {serverOut[i] : i \in DOMAIN serverOut}
    \cup (IF dv \in {"route", "second"} THEN {dvMsg} ELSE {})
    \cup (IF srHeld # None THEN {srHeld} ELSE {})
    \cup (IF ls = "lookup" THEN {lsMsg} ELSE {})
BookmarksKept ==
  ~raced =>
    /\ \A m \in owed : buffer[KeyOf[m.id]] = m.method
    /\ \A m \in AwaitingLookup : IsResponse(m) => buffer[KeyOf[m.id]] = m.re

\* Unless the map was raced on, the metrics emitted are those of the responses
\* handed on to the client: one for each metered request, under the method of
\* that request, in the order of the responses, and before the client has them.
Counted == {m \in ServerMsg : IsResponse(m) /\ m.re \in Metered /\ DurationEnabled}
MetricsMatchResponses ==
  LET handled == IF ls = "forward" THEN Append(lspOut, lsMsg) ELSE lspOut
      counted == Only(handled, Counted)
  IN ~raced => emitted = [i \in DOMAIN counted |-> counted[i].re]

\* Unless the map was raced on, a bookmark is in the buffer only while the
\* client waits for the response: an answered request leaves nothing behind.
BookmarksOnlyForWaiting ==
  ~raced => \A id \in Ids : buffer[KeyOf[id]] # None
                              => Cardinality(Requests(id)) > Cardinality(Responses(id))

\* The lookup, the delete and the emission of listenServer are three steps, with
\* listenClient at work in between; to the reader of the metrics they are one.
\* The proxy handler implements the ledger of RequestLedger: a request is never
\* entered over another that is under way, an answer strikes out its own request
\* only, and each answer to a metered request yields one metric under the method
\* of that request, unless the listeners have met in the map.
Ledger == INSTANCE RequestLedger WITH
  Ids       <- Keys,
  Enabled   <- DurationEnabled,
  waiting   <- buffer,
  durations <- IF ls = "emit" THEN Append(emitted, lsMethod) ELSE emitted
MetersAtomically == Ledger!Spec

\* An intercepted exit notification has been written when listenClient ends, to
\* a server that lives, if the client keeps our stdin open: after a close
\* listenClient may take io.EOF before it takes the shutdown.
ExitReachesServer ==
  lc = "done" /\ exitHeld /\ serverUp /\ clientOpen
    => \E i \in DOMAIN toServer : IsExit(toServer[i])

=============================================================================
