--------------------------- MODULE LspwatchProofs ---------------------------
(***************************************************************************)
(* Theorems about the composed process.  Run is shown to be one of the     *)
(* callers ProxyHandler allows, so that the theorems of ProxyHandlerProofs *)
(* hold of the proxy handler inside lspwatch.                              *)
(***************************************************************************)
EXTENDS Lspwatch, ProxyHandlerProofs

Stopping   == {"stop", "waitProxy", "waitWatcher", "stopExporter", "waitExporter", "ended"}
PastProxy  == {"waitWatcher", "stopExporter", "waitExporter", "ended"}
PastTicker == {"stopExporter", "waitExporter", "ended"}

\* Where the main goroutine is says how far its components have come.
MainInv ==
  /\ exporter \in {"new", "running", "closed", "hung"}
  /\ Handshaking <=> main \in {"startExporter", "confirm"}
  /\ main = "confirm" => exporter = "running"
  /\ switchDone => exporter # "new"
  /\ exporter = "closed" => main \in {"waitExporter", "ended"}
  /\ exporter = "hung" => main = "waitExporter"
  /\ exporter = "running" => main \notin {"waitExporter", "ended"}
  /\ main \in PastProxy => ListenersDone
  /\ main \in PastTicker => tk = "done"
  /\ main \in Stopping => wt \in {"unlock", "done"}
  /\ wt \notin {"wait", "fatal"} => ~serverUp
  /\ result = "server" => main = "ended"
  /\ result = "one" /\ serverUp => main = "startExporter" \/ wt = "fatal"
  /\ result \in {"none", "server", "one", "signal"}

LInv == TypeInv /\ Confirmed /\ MainInv

LEMMA InitLInv == LspInit => LInv
<1> SUFFICES ASSUME LspInit PROVE LInv
  OBVIOUS
<1>1. Init
  BY DEF LspInit
<1>2. lc \in {"off", "select"} /\ switchDone = FALSE
  BY <1>1 DEF Init
<1>3. main = "run" /\ exporter = "new" /\ result = "none" /\ wt = "wait"
  BY DEF LspInit, SW!WatcherInit
<1>4. MainInv
  BY <1>2, <1>3 DEF MainInv, Handshaking, PastProxy, PastTicker, Stopping
<1> QED
  BY <1>1, <1>4, InitTypeInv, InitConfirmed DEF LInv

\* A signal of lspwatch to the server ends it or changes nothing it keeps.
LEMMA SignalIsServerStep ==
  ASSUME TypeInv, NEW kill \in BOOLEAN, SignalServer(kill), ~crashed,
         UNCHANGED <<mode, clientVars, lcVars, dvVars, ptVars, srHeld, lsVars,
                     bufVars, chanVars, crashed, taken, owed, said, toServer, serverOut,
                     stdout>>
  PROVE  Server \/ UNCHANGED vars
<1>1. serverUp \in BOOLEAN
  BY DEF TypeInv, TypeOK, ServerTypeOK
<1>2. CASE serverUp /\ ~serverUp'
  BY <1>2 DEF Server, ServerExit
<1>3. CASE serverUp' = serverUp
  BY <1>3 DEF vars, serverVars
<1> QED
  BY <1>1, <1>2, <1>3 DEF SignalServer

LEMMA StepIsProxyStep == LInv /\ [LspNext]_lspVars => [Next]_vars
<1> SUFFICES ASSUME LInv, [LspNext]_lspVars PROVE Next \/ UNCHANGED vars
  OBVIOUS
<1> USE DEF LInv
<1>1. CASE UNCHANGED lspVars
  BY <1>1 DEF lspVars
<1>2. CASE MainStep
  <2>1. ~crashed
    BY <1>2 DEF MainStep, Ended
  <2>2. CASE OnModeSwitch \/ Confirm
    BY <2>1, <2>2 DEF OnModeSwitch, Confirm, ProxyCall, Caller, Next
  <2>3. CASE OnShutdownRequest \/ ShutdownProxy
    <3>1. ~Handshaking
      BY <2>3 DEF OnShutdownRequest, ShutdownProxy, Main, MainInv
    <3> QED
      BY <2>1, <2>3, <3>1 DEF OnShutdownRequest, ShutdownProxy, ProxyCall, Caller, Next
  <2>4. CASE StopProxyAndWatcher
    <3>1. ~Handshaking
      BY <2>4 DEF StopProxyAndWatcher, Main, MainInv
    <3> QED
      BY <2>1, <2>4, <3>1 DEF StopProxyAndWatcher, Shutdown, Caller, Next
  <2>5. CASE OnTimer
    BY <2>1, <2>5, SignalIsServerStep DEF OnTimer, Next
  <2>6. CASE \/ StartExporter \/ StartFails \/ OnProcessExited \/ WaitProxy \/ WaitWatcher
             \/ StopExporter \/ Exit
    BY <2>6 DEF StartExporter, StartFails, OnProcessExited, WaitProxy, WaitWatcher,
       StopExporter, Exit
  <2> QED
    BY <1>2, <2>2, <2>3, <2>4, <2>5, <2>6 DEF MainStep
<1>3. CASE Interrupt
  <2>1. ~crashed
    BY <1>3 DEF Interrupt, Ended
  <2> QED
    BY <1>3, <2>1, SignalIsServerStep DEF Interrupt, Next
<1>4. CASE Watching(SW!Waiter) \/ Watching(SW!Ticker)
  BY <1>4 DEF Watching
<1>5. CASE Killed
  BY <1>5 DEF Killed
<1> QED
  BY <1>1, <1>2, <1>3, <1>4, <1>5 DEF LspNext, Component, Next

LEMMA NextMainInv == LInv /\ [LspNext]_lspVars => MainInv'
<1> SUFFICES ASSUME LInv, [LspNext]_lspVars PROVE MainInv'
  OBVIOUS
<1> USE DEF LInv, MainInv, PastProxy, PastTicker, Stopping
<1>1. CASE UNCHANGED lspVars
  <2>1. UNCHANGED <<lc, ls, switchDone, serverUp, main, exporter, result, tk, wt>>
    BY <1>1 DEF lspVars, vars, lcVars, flagVars, lsVars, serverVars, mainVars, watcherVars
  <2> QED
    BY <2>1 DEF Handshaking, ListenersDone
<1>2. CASE MainStep
  <2>1. CASE OnModeSwitch
    <3>1. UNCHANGED <<ls, switchDone, serverUp, exporter, result, tk, wt>>
      BY <2>1 DEF OnModeSwitch, ProxyCall, AcceptSwitch, CallerFrame, lsVars, serverVars,
         watcherVars
    <3> QED
      BY <2>1, <3>1 DEF OnModeSwitch, Main, ProxyCall, AcceptSwitch, Handshaking
  <2>2. CASE Confirm
    <3>1. UNCHANGED <<ls, serverUp, exporter, result, tk, wt>>
      BY <2>2 DEF Confirm, ProxyCall, CallerFrame, lsVars, serverVars, watcherVars
    <3> QED
      BY <2>2, <3>1 DEF Confirm, Main, ProxyCall, ConfirmProxyMode, Dispatch, Handshaking
  <2>3. CASE OnShutdownRequest \/ ShutdownProxy \/ StopProxyAndWatcher
    <3>1. UNCHANGED <<lc, ls, switchDone, serverUp, exporter, result, tk, wt>>
      BY <2>3 DEF OnShutdownRequest, ShutdownProxy, StopProxyAndWatcher, ProxyCall, Shutdown,
         TakeShutdownRequest, CallerFrame, lsVars, serverVars, watcherVars
    <3> QED
      BY <2>3, <3>1 DEF OnShutdownRequest, ShutdownProxy, StopProxyAndWatcher, Main, Handshaking
  <2>4. CASE OnTimer
    <3>1. UNCHANGED <<lc, ls, switchDone, main, exporter, tk, wt>>
      BY <2>4 DEF OnTimer, lcVars, flagVars, lsVars, watcherVars
    <3>2. /\ serverUp' => serverUp
          /\ result' = result \/ (result' = "one" /\ ~serverUp')
      BY <1>2, <2>4 DEF OnTimer, SignalServer, MainStep, Ended
    <3> QED
      BY <3>1, <3>2 DEF Handshaking, ListenersDone
  <2>5. CASE \/ StartExporter \/ StartFails \/ OnProcessExited \/ WaitProxy \/ WaitWatcher
             \/ StopExporter \/ Exit
    <3>1. UNCHANGED <<lc, ls, switchDone, serverUp, tk>>
      BY <2>5 DEF StartExporter, StartFails, OnProcessExited, WaitProxy, WaitWatcher,
         StopExporter, Exit, SW!ReceiveExit, vars, lcVars, flagVars, lsVars, serverVars,
         watcherVars
    <3>2. CASE StartExporter \/ StartFails \/ StopExporter \/ Exit
      <4>1. result = "none"
        BY <1>2 DEF MainStep, Ended
      <4>2. CASE StartExporter \/ StartFails \/ Exit
        BY <3>1, <4>1, <4>2 DEF StartExporter, StartFails, Exit, Main, Handshaking,
           ListenersDone, watcherVars, mainVars
      <4>3. CASE StopExporter
        <5>1. /\ main = "stopExporter" /\ main' = "waitExporter" /\ UNCHANGED <<wt, result>>
              /\ exporter' \in {"new", "closed", "hung"}
              /\ exporter' = "new" => exporter = "new"
          BY <4>3 DEF StopExporter, Main, watcherVars
        <5> QED
          BY <3>1, <4>1, <5>1 DEF Handshaking, ListenersDone
      <4> QED
        BY <3>2, <4>2, <4>3
    <3>3. CASE OnProcessExited \/ WaitProxy \/ WaitWatcher
      <4>1. result = "none" /\ result' = result
        BY <1>2, <3>3 DEF MainStep, Ended, OnProcessExited, WaitProxy, WaitWatcher
      <4> QED
        BY <2>5, <3>1, <3>3, <4>1 DEF OnProcessExited, WaitProxy, WaitWatcher, Main,
           Handshaking, ListenersDone, SW!ReceiveExit, watcherVars
    <3> QED
      BY <2>5, <3>2, <3>3
  <2> QED
    BY <1>2, <2>1, <2>2, <2>3, <2>4, <2>5 DEF MainStep
<1>3. CASE Interrupt
  <2>1. UNCHANGED <<lc, ls, switchDone, main, exporter, tk, wt>>
    BY <1>3 DEF Interrupt, lcVars, flagVars, lsVars, watcherVars
  <2>2. /\ serverUp' => serverUp
        /\ result' = result \/ (result' = "one" /\ ~serverUp')
    BY <1>3 DEF Interrupt, SignalServer, Ended
  <2> QED
    BY <2>1, <2>2 DEF Handshaking, ListenersDone
<1>4. CASE Component(ListenClient)
  <2>1. ListenClient /\ UNCHANGED <<ls, serverUp, main, exporter, result, tk, wt>>
    BY <1>4 DEF Component, ListenClient, lsVars, serverVars, mainVars, watcherVars
  <2>2. UNCHANGED switchDone /\ (Handshaking' <=> Handshaking) /\ lc \notin {"off", "done"}
    BY <2>1 DEF ListenClient, LcReceive, LcEof, LcClosePassThrough, LcDivert, LcRegister,
       LcRaise, LcForward, LcShutdown, LcFlushExit, Dispatch, Handshaking, flagVars
  <2> QED
    BY <2>1, <2>2 DEF ListenersDone
<1>5. CASE Component(ListenServer)
  <2>1. /\ ListenServer
        /\ UNCHANGED <<lc, switchDone, serverUp, main, exporter, result, tk, wt>>
    BY <1>5 DEF Component, ListenServer, lcVars, flagVars, serverVars, mainVars, watcherVars
  <2>2. ls \notin {"off", "done"}
    BY <2>1 DEF ListenServer, LsReceive, LsLookup, LsDelete, LsEmit, LsForward, LsShutdown
  <2> QED
    BY <2>1, <2>2 DEF ListenersDone, Handshaking
<1>6. CASE \/ Component(Diverter) \/ Component(PassThrough) \/ Component(RuntimeAbort)
           \/ Component(BrokenPipe) \/ Component(Client) \/ Component(Server)
  <2>1. UNCHANGED <<lc, ls, switchDone, main, exporter, result, tk, wt>>
    BY <1>6 DEF Component, Diverter, PassThrough, RuntimeAbort, BrokenPipe, Client, Server, lcVars,
       flagVars, lsVars, mainVars, watcherVars
  <2>2. serverUp' => serverUp
    BY <1>6 DEF Component, Diverter, PassThrough, RuntimeAbort, BrokenPipe, Client, Server, serverVars,
       ServerTake, ServerExit, ServerReply, ServerSay
  <2> QED
    BY <2>1, <2>2 DEF ListenersDone, Handshaking
<1>7. CASE Watching(SW!Waiter)
  <2>1. UNCHANGED <<lc, ls, switchDone, serverUp, main, exporter, result>>
    BY <1>7 DEF Watching, vars, lcVars, flagVars, lsVars, serverVars, mainVars
  <2>2. UNCHANGED tk
    BY <1>7 DEF Watching, SW!Waiter, SW!WtWait, SW!WtLock, SW!WtFlag, SW!WtUnlock
  <2>3. wt \in {"unlock", "done"} => wt' \in {"unlock", "done"}
    BY <1>7 DEF Watching, SW!Waiter, SW!WtWait, SW!WtLock, SW!WtFlag, SW!WtUnlock
  <2>4. /\ wt' \notin {"wait", "fatal"} => ~serverUp
        /\ result = "none"
    BY <1>7 DEF Watching, Ended, SW!Waiter, SW!WtWait, SW!WtLock, SW!WtFlag, SW!WtUnlock
  <2>5. wt = "fatal" => wt' = "fatal"
    BY <1>7 DEF Watching, SW!Waiter, SW!WtWait, SW!WtLock, SW!WtFlag, SW!WtUnlock
  <2> QED
    BY <2>1, <2>2, <2>3, <2>4, <2>5 DEF ListenersDone, Handshaking
<1>8. CASE Watching(SW!Ticker)
  <2>1. UNCHANGED <<lc, ls, switchDone, serverUp, main, exporter, result>>
    BY <1>8 DEF Watching, vars, lcVars, flagVars, lsVars, serverVars, mainVars
  <2>2. UNCHANGED wt /\ tk # "done"
    BY <1>8 DEF Watching, SW!Ticker, SW!TkStop, SW!TkTick, SW!TkLock, SW!TkCheck, SW!TkSample,
       SW!TkEmit
  <2> QED
    BY <2>1, <2>2 DEF ListenersDone, Handshaking
<1>9. CASE Killed
  <2>1. UNCHANGED <<lc, ls, switchDone, serverUp, main, exporter, tk, wt>> /\ result' = "signal"
    BY <1>9 DEF Killed, vars, lcVars, flagVars, lsVars, serverVars, watcherVars
  <2> QED
    BY <2>1 DEF Handshaking, ListenersDone
<1> QED
  BY <1>1, <1>2, <1>3, <1>4, <1>5, <1>6, <1>7, <1>8, <1>9 DEF LspNext

LEMMA NextLInv == LInv /\ [LspNext]_lspVars => LInv'
  BY NextMainInv, StepIsProxyStep, NextTypeInv, NextConfirmed DEF LInv

LEMMA LInvInvariant == LspSpec => []LInv
  BY InitLInv, NextLInv, PTL DEF LspSpec

\* Run drives the proxy handler as ProxyHandler's caller does: every behaviour
\* of the process is one of ProxyHandler.
THEOREM RunIsCaller == LspSpec => CallsProxyHandlerRight
<1>1. LspInit => Init
  BY DEF LspInit
<1> QED
  BY <1>1, StepIsProxyStep, LInvInvariant, PTL DEF LspSpec, Spec, CallsProxyHandlerRight

\* In the running process the exporter runs whenever listenServer emits a
\* metric, and it is shut down only when nobody can emit any more.
THEOREM ExporterOutlivesEmitters == LspSpec => []EmissionsMeetExporter
<1>1. LInv => EmissionsMeetExporter
  BY DEF LInv, MainInv, Confirmed, EmissionsMeetExporter, ListenersDone, PastProxy, PastTicker
<1> QED
  BY <1>1, LInvInvariant, PTL

\* lspwatch ends with the server's exit code only after the server has exited
\* and the exporter, if it was started, has been stopped.
THEOREM NormalEnd == LspSpec => []NormalEndIsComplete
<1>1. LInv => NormalEndIsComplete
  BY DEF LInv, MainInv, NormalEndIsComplete, Stopping
<1> QED
  BY <1>1, LInvInvariant, PTL

\* The exits on which lspwatch itself decides leave a running server behind only if
\* the exporter cannot be started.  Any other end with the server running is that of
\* a failed wait, a signal it does not catch, two listeners that met in the map or a
\* client that is gone.
THEOREM ServerNotOrphaned == LspSpec => []NoOrphans
<1>1. LInv /\ AbortHasCause => NoOrphans
  BY DEF LInv, MainInv, NoOrphans, Ended, Stopping, AbortHasCause
<1>2. LspSpec => Spec
  BY RunIsCaller DEF CallsProxyHandlerRight
<1> QED
  BY <1>1, <1>2, LInvInvariant, AbortCauseInvariant, PTL

-----------------------------------------------------------------------------
(* The theorems about the components, in lspwatch                          *)

\* What the proxy handler does for every caller it does in lspwatch.
THEOREM ProxyInLspwatch ==
  LspSpec => [](/\ NoMisroute /\ EmitOnlyWhenConfirmed /\ ExitAwaitsShutdown
                /\ ServerStreamPreserved /\ ClientStreamPreserved
                /\ AtMostOneLateChunk /\ ExitReachesServer)
<1>1. LspSpec => Spec
  BY RunIsCaller DEF CallsProxyHandlerRight
<1> QED
  BY <1>1, ResponsesNeverPassThrough, NoEarlyEmission, ExitComesLast, ServerStreamIntact,
     ClientStreamIntact, LateChunkIsOne, ExitIsDelivered, PTL

\* And so it meters one by one the requests whose ids it keeps apart.
THEOREM LedgerInLspwatch == KeysApart => (LspSpec => MetersAtomically)
<1> SUFFICES ASSUME KeysApart PROVE LspSpec => MetersAtomically
  OBVIOUS
<1>1. LspSpec => Spec
  BY RunIsCaller DEF CallsProxyHandlerRight
<1>2. Spec => MetersAtomically
  BY ImplementsLedger
<1> QED
  BY <1>1, <1>2, PTL

\* A step of the process is one of the server watcher, of its caller or of the
\* server, or is nothing to the watcher.
LEMMA StepIsWatcherStep == LInv /\ [LspNext]_lspVars => [SW!Next]_SW!vars
<1> SUFFICES ASSUME LInv, [LspNext]_lspVars PROVE SW!Next \/ UNCHANGED SW!vars
  OBVIOUS
<1> USE DEF SW!vars, SW!watcherVars
<1>1. serverUp \in BOOLEAN
  BY DEF LInv, TypeInv, TypeOK, ServerTypeOK
<1>2. ASSUME UNCHANGED watcherVars, serverUp' = serverUp \/ (serverUp /\ serverUp' = FALSE)
      PROVE  SW!Next \/ UNCHANGED SW!vars
  BY <1>2 DEF watcherVars, SW!Next, SW!ServerExit
<1>3. CASE UNCHANGED lspVars
  BY <1>2, <1>3 DEF lspVars, vars, serverVars
<1>4. CASE MainStep
  <2>1. CASE OnModeSwitch \/ Confirm \/ OnShutdownRequest \/ ShutdownProxy
    <3>1. UNCHANGED <<watcherVars, serverUp>>
      BY <2>1 DEF OnModeSwitch, Confirm, OnShutdownRequest, ShutdownProxy, ProxyCall,
         CallerFrame, serverVars
    <3> QED
      BY <1>2, <3>1
  <2>2. CASE StartExporter \/ StartFails \/ WaitProxy \/ WaitWatcher \/ StopExporter \/ Exit
    <3>1. UNCHANGED <<watcherVars, serverUp>>
      BY <2>2 DEF StartExporter, StartFails, WaitProxy, WaitWatcher, StopExporter, Exit, vars,
         serverVars
    <3> QED
      BY <1>2, <3>1
  <2>3. CASE OnTimer
    BY <1>1, <1>2, <2>3 DEF OnTimer, SignalServer
  <2>4. CASE OnProcessExited
    BY <2>4, ListensAssumption DEF OnProcessExited, SW!Next
  <2>5. CASE StopProxyAndWatcher
    BY <2>5 DEF StopProxyAndWatcher, CallerFrame, serverVars, SW!Next, SW!Shutdown
  <2> QED
    BY <1>4, <2>1, <2>2, <2>3, <2>4, <2>5 DEF MainStep
<1>5. CASE Interrupt
  BY <1>1, <1>2, <1>5 DEF Interrupt, SignalServer
<1>6. CASE Component(Server)
  <2>1. UNCHANGED watcherVars /\ Server
    BY <1>6 DEF Component
  <2>2. serverUp' = serverUp \/ (serverUp /\ serverUp' = FALSE)
    BY <2>1 DEF Server, ServerTake, ServerReply, ServerSay, ServerExit
  <2> QED
    BY <1>2, <2>1, <2>2
<1>7. CASE \/ Component(ListenClient) \/ Component(ListenServer) \/ Component(Diverter)
           \/ Component(PassThrough) \/ Component(RuntimeAbort) \/ Component(BrokenPipe)
           \/ Component(Client)
  <2>1. UNCHANGED <<watcherVars, serverUp>>
    BY <1>7 DEF Component, ListenClient, ListenServer, Diverter, PassThrough, RuntimeAbort,
       BrokenPipe, Client, serverVars
  <2> QED
    BY <1>2, <2>1
<1>8. CASE Watching(SW!Waiter) \/ Watching(SW!Ticker)
  BY <1>8 DEF Watching, SW!Next
<1>9. CASE Killed
  BY <1>2, <1>9 DEF Killed, vars, serverVars
<1> QED
  BY <1>3, <1>4, <1>5, <1>6, <1>7, <1>8, <1>9 DEF LspNext

\* Run drives the server watcher as ServerWatcher's caller does, one that listens.
THEOREM RunIsWatcherCaller == LspSpec => SW!Spec
<1>1. LspInit => SW!Init
  BY DEF LspInit, Init, SW!Init
<1> QED
  BY <1>1, StepIsWatcherStep, LInvInvariant, PTL DEF LspSpec, SW!Spec

Watched == INSTANCE ServerWatcherProofs

LEMMA WatchedIsWatcher == SW!Spec => Watched!Spec
<1> USE DEF SW!vars, SW!watcherVars, Watched!vars, Watched!watcherVars
<1>1. SW!Init => Watched!Init
  BY DEF SW!Init, SW!WatcherInit, Watched!Init, Watched!WatcherInit
<1>2. [SW!Next]_SW!vars => [Watched!Next]_Watched!vars
  <2>1. SW!Waiter => Watched!Waiter
    BY DEF SW!Waiter, SW!WtWait, SW!WtLock, SW!WtFlag, SW!WtUnlock,
       Watched!Waiter, Watched!WtWait, Watched!WtLock, Watched!WtFlag, Watched!WtUnlock
  <2>2. SW!Ticker => Watched!Ticker
    BY DEF SW!Ticker, SW!TkStop, SW!TkTick, SW!TkLock, SW!TkCheck, SW!TkSample, SW!TkEmit,
       SW!Reported, Watched!Ticker, Watched!TkStop, Watched!TkTick, Watched!TkLock,
       Watched!TkCheck, Watched!TkSample, Watched!TkEmit, Watched!Reported
  <2>3. SW!ReceiveExit => Watched!ReceiveExit
    BY DEF SW!ReceiveExit, Watched!ReceiveExit
  <2>4. SW!Shutdown \/ SW!ServerExit => Watched!Shutdown \/ Watched!ServerExit
    BY DEF SW!Shutdown, SW!ServerExit, Watched!Shutdown, Watched!ServerExit
  <2> QED
    BY <2>1, <2>2, <2>3, <2>4 DEF SW!Next, Watched!Next
<1> QED
  BY <1>1, <1>2, PTL DEF SW!Spec, Watched!Spec

\* So at most one sample is emitted after Run has learnt of the end of the server.
THEOREM LateSampleInLspwatch == LspSpec => []SW!AtMostOneLateSample
<1>1. Watched!Spec => []Watched!AtMostOneLateSample
  <2>1. {RssEnabled, WaitMayFail, CallerListens} \subseteq BOOLEAN
    BY ListensAssumption, WatcherAssumption
  <2> QED
    BY <2>1, Watched!OneLateSample
<1>2. Watched!AtMostOneLateSample => SW!AtMostOneLateSample
  BY DEF Watched!AtMostOneLateSample, SW!AtMostOneLateSample
<1> QED
  BY <1>1, <1>2, RunIsWatcherCaller, WatchedIsWatcher, PTL

=============================================================================
