------------------------------ MODULE Lspwatch ------------------------------
(***************************************************************************)
(* The lspwatch process (internal/lspwatch.go): the main goroutine, which  *)
(* is in Run and then in shutdownAndWait, composed with the proxy handler  *)
(* and the server watcher it runs, the interrupt listener, and the server  *)
(* process they share.  Of the metrics exporter only the phase is kept;    *)
(* module MetricsExporter states what it promises.                         *)
(*                                                                         *)
(* When the process ends (os.Exit, a fatal error of the runtime, a signal) *)
(* all its goroutines end with it.                                         *)
(***************************************************************************)
EXTENDS ProxyHandler

CONSTANTS   \* of ServerWatcher
  RssEnabled, WaitMayFail, CallerListens
CONSTANTS
  StartMayFail,   \* may exporter.Start return an error?
  WaitMayHang,    \* may exporter.Wait block for good?
  MayBeKilled,    \* may a signal other than the interrupt come?
  MaxInterrupts   \* bound: interrupts sent to lspwatch

ASSUME ListensAssumption == CallerListens = TRUE
ASSUME WatcherAssumption == {RssEnabled, WaitMayFail} \subseteq BOOLEAN
ASSUME StartAssumption ==
  {StartMayFail, WaitMayHang, MayBeKilled} \subseteq BOOLEAN /\ MaxInterrupts \in Nat

VARIABLES   \* of ServerWatcher, with which ProxyHandler shares serverUp
  wt, tk, mu, processExited, stopWatcher, late
VARIABLES
  main,       \* where the main goroutine is
  timer,      \* the timer of Run is "stopped" or "armed"
  exporter,   \* "new", "running" after Start, "closed" or "hung" after Shutdown
  interrupts, \* interrupts sent so far
  result      \* "none", "server" (the server's exit code), "one" (os.Exit(1)) or
              \* "signal"

SW == INSTANCE ServerWatcher

watcherVars == <<wt, tk, mu, processExited, stopWatcher, late>>
mainVars    == <<main, timer, exporter, interrupts, result>>
lspVars     == <<vars, watcherVars, mainVars>>

LspInit ==
  /\ Init
  /\ SW!WatcherInit
  /\ main = "run" /\ timer = "stopped" /\ exporter = "new"
  /\ interrupts = 0 /\ result = "none"

Ended == result # "none" \/ crashed \/ wt = "fatal"

-----------------------------------------------------------------------------
(* Run                                                                     *)

Main(from, to) == main = from /\ main' = to

ProxyCall(A) == A /\ CallerFrame /\ UNCHANGED watcherVars

\* Mutant: ConfirmProxyMode is not called.
OnModeSwitch_NoConfirm ==
  /\ Main("run", "run")
  /\ ProxyCall(AcceptSwitch)
  /\ exporter' = "running"
  /\ UNCHANGED <<timer, interrupts, result>>

\* case <-proxyHandler.SwitchedToProxyMode()
OnModeSwitch ==
  /\ Main("run", "startExporter")
  /\ ProxyCall(AcceptSwitch)
  /\ UNCHANGED <<timer, exporter, interrupts, result>>

StartExporter ==
  /\ Main("startExporter", "confirm")
  /\ exporter' = "running"
  /\ UNCHANGED <<vars, watcherVars, timer, interrupts, result>>

\* exporter.Start returns an error: os.Exit(1).
StartFails ==
  /\ StartMayFail
  /\ main = "startExporter"
  /\ result' = "one"
  /\ UNCHANGED <<vars, watcherVars, main, timer, exporter, interrupts>>

\* The second half of the handshake blocks until listenClient asks for it.
Confirm ==
  /\ Main("confirm", "run")
  /\ ProxyCall(ConfirmProxyMode)
  /\ UNCHANGED <<timer, exporter, interrupts, result>>

\* case <-proxyHandler.ShutdownRequested(), in two steps
OnShutdownRequest ==
  /\ Main("run", "shutdownProxy")
  /\ ProxyCall(TakeShutdownRequest)
  /\ UNCHANGED <<timer, exporter, interrupts, result>>

\* Mutant: Run returns at once instead of waiting for the server to exit.
ShutdownProxy_Returns ==
  /\ Main("shutdownProxy", "stop")
  /\ ProxyCall(Shutdown)
  /\ UNCHANGED <<timer, exporter, interrupts, result>>

\* Mutant: the timer is not started.
ShutdownProxy_NoTimer ==
  /\ Main("shutdownProxy", "run")
  /\ ProxyCall(Shutdown)
  /\ UNCHANGED <<timer, exporter, interrupts, result>>

ShutdownProxy ==
  /\ Main("shutdownProxy", "run")
  /\ ProxyCall(Shutdown)
  /\ timer' = "armed"
  /\ UNCHANGED <<exporter, interrupts, result>>

\* Mutant: lspwatch exits after the signal whether or not it was delivered.
SignalServer_Exits(kill) ==
  /\ serverUp' = (serverUp /\ ~(kill /\ wt = "wait"))
  /\ result' = "one"

\* Process.Signal fails once the waiter has reaped the process.
SignalServer(kill) ==
  IF wt = "wait" THEN /\ serverUp' = (serverUp /\ ~kill)
                      /\ UNCHANGED result
                 ELSE result' = "one" /\ UNCHANGED serverUp

\* case <-timer.C: three seconds after ShutdownProxy, SIGKILL.
OnTimer ==
  /\ main = "run"
  /\ timer = "armed"
  /\ timer' = "stopped"
  /\ SignalServer(TRUE)
  /\ UNCHANGED <<mode, clientVars, lcVars, dvVars, ptVars, srHeld, lsVars,
                 bufVars, chanVars, crashed, taken, owed, said, toServer, serverOut, stdout,
                 watcherVars, main, exporter, interrupts>>

\* case <-serverWatcher.ProcessExited()
OnProcessExited ==
  /\ Main("run", "stop")
  /\ SW!ReceiveExit
  /\ UNCHANGED <<vars, timer, exporter, interrupts, result>>

-----------------------------------------------------------------------------
(* shutdownAndWait, deferred by Run, and the os.Exit after it              *)

\* Mutant: the proxy handler is not told to shut down.
StopProxyAndWatcher_WatcherOnly ==
  /\ Main("stop", "waitProxy")
  /\ stopWatcher' = TRUE
  /\ UNCHANGED <<vars, wt, tk, mu, processExited, late, timer, exporter, interrupts, result>>

StopProxyAndWatcher ==
  /\ Main("stop", "waitProxy")
  /\ incoming' = TRUE /\ stopWatcher' = TRUE
  /\ CallerFrame
  /\ UNCHANGED <<lc, switchDone, outgoing, wt, tk, mu, processExited, late,
                 timer, exporter, interrupts, result>>

\* Mutant: the listeners are not waited for.
WaitProxy_Skips ==
  /\ Main("waitProxy", "waitWatcher")
  /\ UNCHANGED <<vars, watcherVars, timer, exporter, interrupts, result>>

WaitProxy ==
  /\ Main("waitProxy", "waitWatcher")
  /\ ListenersDone
  /\ UNCHANGED <<vars, watcherVars, timer, exporter, interrupts, result>>

WaitWatcher ==
  /\ Main("waitWatcher", "stopExporter")
  /\ tk = "done"
  /\ UNCHANGED <<vars, watcherVars, timer, exporter, interrupts, result>>

\* A no-op for an exporter that was never started.  The flush that follows is a
\* call of the Datadog API without a deadline: it may hang.
StopExporter ==
  /\ Main("stopExporter", "waitExporter")
  /\ exporter' \in IF exporter = "running" THEN {"closed"} \cup {h \in {"hung"} : WaitMayHang}
                                           ELSE {exporter}
  /\ UNCHANGED <<vars, watcherVars, timer, interrupts, result>>

\* exporter.Wait() returns, the resources are released: os.Exit(exitCode).
Exit ==
  /\ Main("waitExporter", "ended")
  /\ exporter # "hung"
  /\ result' = "server"
  /\ UNCHANGED <<vars, watcherVars, timer, exporter, interrupts>>

MainStep ==
  /\ ~Ended
  /\ \/ OnModeSwitch \/ StartExporter \/ StartFails \/ Confirm
     \/ OnShutdownRequest \/ ShutdownProxy \/ OnTimer \/ OnProcessExited
     \/ StopProxyAndWatcher \/ WaitProxy \/ WaitWatcher \/ StopExporter \/ Exit

\* startInterruptListener forwards an interrupt; the server may end or not.
Interrupt ==
  /\ ~Ended
  /\ interrupts < MaxInterrupts
  /\ interrupts' = interrupts + 1
  /\ SignalServer(FALSE)
  /\ UNCHANGED <<mode, clientVars, lcVars, dvVars, ptVars, srHeld, lsVars,
                 bufVars, chanVars, crashed, taken, owed, said, toServer, serverOut, stdout,
                 watcherVars, main, timer, exporter>>

\* SIGTERM, SIGHUP, ...: signal.Notify asks for the interrupt only.
Killed ==
  /\ ~Ended
  /\ MayBeKilled
  /\ result' = "signal"
  /\ UNCHANGED <<vars, watcherVars, main, timer, exporter, interrupts>>

-----------------------------------------------------------------------------
(* The goroutines of the components, the client and the server             *)

Component(A) == ~Ended /\ A /\ UNCHANGED <<watcherVars, mainVars>>
Watching(A)  == ~Ended /\ A /\ UNCHANGED <<vars, mainVars>>

LspNext ==
  \/ MainStep \/ Interrupt \/ Killed
  \/ Component(ListenClient) \/ Component(ListenServer)
  \/ Component(Diverter) \/ Component(PassThrough) \/ Component(RuntimeAbort)
  \/ Component(BrokenPipe)
  \/ Component(Client) \/ Component(Server)
  \/ Watching(SW!Waiter) \/ Watching(SW!Ticker)

LspSpec == LspInit /\ [][LspNext]_lspVars

\* lspwatch does not stop as long as a goroutine of it can go on.  That is less than
\* fairness of each of them, and enough: but for the ticker loop, which ticks for
\* ever, there is no more to do for them than the client and the server give them.
\* A select in which several cases stay ready takes each of them in the end, and
\* the mutex is handed to one that waits for it.  Nothing is asked of the client and
\* the server, which may hang: they need not read, answer or exit.
GoesOn ==
  \/ MainStep
  \/ Component(ListenClient \/ ListenServer \/ Diverter \/ PassThrough \/ BrokenPipe)
  \/ Watching(SW!Waiter)
Fairness ==
  /\ WF_lspVars(GoesOn)
  /\ WF_lspVars(Watching(SW!Ticker))
  /\ SF_lspVars(Watching(SW!Ticker /\ tk = "select" /\ tk' = "done"))
  /\ SF_lspVars(Watching(SW!Ticker /\ tk = "lock"))
  /\ SF_lspVars(Watching(SW!Waiter /\ wt = "lock"))

LspFairSpec == LspSpec /\ Fairness

-----------------------------------------------------------------------------
(* Properties                                                              *)

\* Run is a caller as ProxyHandler expects it: once it has taken the first half
\* of the handshake it sends the second before anything else, so that whatever
\* holds of the proxy handler for every such caller holds of it in lspwatch.
CallsProxyHandlerRight == Spec

\* The exporter runs whenever a request duration is emitted, and it is not
\* shut down while listenServer or the ticker loop may still emit a metric.
EmissionsMeetExporter ==
  /\ ls = "emit" => exporter = "running"
  /\ exporter \in {"closed", "hung"} => ListenersDone /\ tk = "done"

\* lspwatch never ends with the server's exit code while the server runs, and
\* it then has stopped the exporter if it ever started it.
NormalEndIsComplete == result = "server" => ~serverUp /\ exporter \in {"new", "closed"}

\* Where lspwatch itself decides to exit, it leaves a running server behind only if
\* the exporter cannot be started (line 138): not in the normal end, and not in the
\* exits after a failed signal (lines 149 and 367).  Ends that it does not decide on
\* do: the wait for the process fails, a signal that it does not catch, and the
\* runtime, on account of the unlocked map or of SIGPIPE when the client is gone.
NoOrphans ==
  Ended /\ serverUp =>
    \/ result = "one" /\ main = "startExporter"
    \/ wt = "fatal" \/ result = "signal"
    \/ crashed /\ (raced \/ outlet = "gone")

\* The three ways in which shutdownAndWait never returns: listenClient is at a
\* second exit notification, which nobody will take out of the channel; a client
\* that has stopped reading blocks listenServer; the flush of the exporter hangs.
Hangs ==
  \/ main = "waitProxy" /\ lc = "raise" /\ outgoing = 1
  \/ main = "waitProxy" /\ ls = "forward" /\ outlet = "stalled"
  \/ main = "waitExporter" /\ exporter = "hung"

\* An exit notification of the client ends lspwatch, however the server reacts (the
\* timer kills a server that does not end by itself), but for the three hangs.
ExitEndsLspwatch == exitHeld ~> Ended \/ Hangs

\* In proxy mode, after the switch, and in command mode lspwatch ends when the
\* server has, but for the three hangs.
ServerExitEndsLspwatch == ~serverUp /\ (switchDone \/ mode = "command") ~> Ended \/ Hangs

\* What the server writes gets to the client, by whichever way, while lspwatch is
\* neither ended nor told to stop, unless the client has stopped reading or, in
\* --mode proxy, has not yet sent anything: no other wait of the diverter, the
\* readers and the listeners for each other or for Run leaves it stuck.
OutputUnderWay ==
  \/ serverOut # <<>> \/ dv \in {"route", "first", "second"} \/ srHeld # None
  \/ ls \notin {"off", "select", "done"} \/ pt = "write"
OutputStuck ==
  \/ outlet = "stalled" /\ (ls = "forward" \/ pt = "write")
  \/ mode = "proxy" /\ passOpen /\ dv = "first"

\* lspwatch ends when the server has, at whatever moment that is.
AnyServerExitEndsLspwatch == ~serverUp ~> Ended

=============================================================================
