---------------------------- MODULE ServerWatcher ----------------------------
(***************************************************************************)
(* The server watcher (internal/core/watcher.go): a goroutine that waits   *)
(* for the server process and reports its exit, and one that samples the   *)
(* memory of the process at every tick.  They share processExited, guarded *)
(* by a mutex that the first holds while it sends the report.              *)
(*                                                                         *)
(* The process and the caller (Run in internal/lspwatch.go) are the        *)
(* environment; module Lspwatch replaces the caller by the real one.       *)
(***************************************************************************)
EXTENDS Naturals

CONSTANTS
  RssEnabled,   \* is server.rss enabled in the metrics registry?
  WaitMayFail,  \* may waiting for the process return an error?
  CallerListens \* does the caller receive from ProcessExited until it reports?

ASSUME FlagAssumption == {RssEnabled, WaitMayFail, CallerListens} \subseteq BOOLEAN

VARIABLES
  serverUp,      \* the server process is running
  wt,            \* the waiter: where it is
  tk,            \* the ticker loop: where it is
  mu,            \* holder of the mutex: "none", "waiter" or "ticker"
  processExited, \* the flag the mutex guards
  stopWatcher,   \* incomingShutdown is closed
  late           \* history: metrics emitted after the exit was reported

watcherVars == <<wt, tk, mu, processExited, late>>
vars == <<serverUp, stopWatcher, watcherVars>>

WtPcs == {"wait", "lock", "flag", "send", "unlock", "done", "fatal"}
TkPcs == {"select", "lock", "check", "sample", "emit", "done"}

WatcherInit ==
  /\ wt = "wait" /\ tk = "select" /\ mu = "none"
  /\ processExited = FALSE /\ stopWatcher = FALSE /\ late = 0

Init == serverUp = TRUE /\ WatcherInit

\* The caller has received the report.
Reported == wt \in {"unlock", "done"}

-----------------------------------------------------------------------------
(* The waiter                                                              *)

\* An error of processHandle.Wait ends lspwatch: os.Exit(1).
WtWait ==
  /\ wt = "wait"
  /\ \/ ~serverUp /\ wt' = "lock"
     \/ WaitMayFail /\ wt' = "fatal"
  /\ UNCHANGED <<tk, mu, processExited, late>>

WtLock ==
  /\ wt = "lock" /\ mu = "none"
  /\ mu' = "waiter"
  /\ wt' = "flag"
  /\ UNCHANGED <<tk, processExited, late>>

\* Mutant: the flag is never set.
WtFlag_Unset ==
  /\ wt = "flag"
  /\ wt' = "send"
  /\ UNCHANGED <<tk, mu, processExited, late>>

WtFlag ==
  /\ wt = "flag"
  /\ processExited' = TRUE
  /\ wt' = "send"
  /\ UNCHANGED <<tk, mu, late>>

WtUnlock ==
  /\ wt = "unlock"
  /\ mu' = "none"
  /\ wt' = "done"
  /\ UNCHANGED <<tk, processExited, late>>

Waiter == (WtWait \/ WtLock \/ WtFlag \/ WtUnlock) /\ UNCHANGED <<serverUp, stopWatcher>>

\* The caller receives from ProcessExited(): the send and the receive are one
\* step, the channel has no buffer.
ReceiveExit ==
  /\ wt = "send"
  /\ wt' = "unlock"
  /\ UNCHANGED <<serverUp, stopWatcher, tk, mu, processExited, late>>

-----------------------------------------------------------------------------
(* The ticker loop                                                         *)

TkStop ==
  /\ tk = "select" /\ stopWatcher
  /\ tk' = "done"
  /\ UNCHANGED <<wt, mu, processExited, late>>

TkTick ==
  /\ tk = "select"
  /\ tk' = "lock"
  /\ UNCHANGED <<wt, mu, processExited, late>>

TkLock ==
  /\ tk = "lock" /\ mu = "none"
  /\ mu' = "ticker"
  /\ tk' = "check"
  /\ UNCHANGED <<wt, processExited, late>>

\* Mutant: the flag is not read.
TkCheck_Unread ==
  /\ tk = "check"
  /\ mu' = "none"
  /\ tk' = IF RssEnabled THEN "sample" ELSE "select"
  /\ UNCHANGED <<wt, processExited, late>>

\* Mutant: the mutex is not released.
TkCheck_KeepsMutex ==
  /\ tk = "check"
  /\ tk' = IF processExited THEN "done" ELSE IF RssEnabled THEN "sample" ELSE "select"
  /\ UNCHANGED <<wt, mu, processExited, late>>

TkCheck ==
  /\ tk = "check"
  /\ mu' = "none"
  /\ tk' = IF processExited THEN "done" ELSE IF RssEnabled THEN "sample" ELSE "select"
  /\ UNCHANGED <<wt, processExited, late>>

\* MemoryInfo returns an error, or the memory of whatever process has the pid.
TkSample ==
  /\ tk = "sample"
  /\ tk' \in {"select", "emit"}
  /\ UNCHANGED <<wt, mu, processExited, late>>

\* Bound: `late' counts to 2 and no further.
TkEmit ==
  /\ tk = "emit"
  /\ late' = IF Reported /\ late < 2 THEN late + 1 ELSE late
  /\ tk' = "select"
  /\ UNCHANGED <<wt, mu, processExited>>

Ticker ==
  /\ wt # "fatal"
  /\ TkStop \/ TkTick \/ TkLock \/ TkCheck \/ TkSample \/ TkEmit
  /\ UNCHANGED <<serverUp, stopWatcher>>

-----------------------------------------------------------------------------
(* The environment                                                         *)

\* Idempotent: the channel is closed once.
Shutdown ==
  /\ stopWatcher' = TRUE
  /\ UNCHANGED <<serverUp, watcherVars>>

ServerExit ==
  /\ serverUp
  /\ serverUp' = FALSE
  /\ UNCHANGED <<stopWatcher, watcherVars>>

Next == Waiter \/ Ticker \/ (CallerListens /\ ReceiveExit) \/ Shutdown \/ ServerExit

Spec == Init /\ [][Next]_vars

\* Both goroutines keep running and the ticker keeps ticking.  When both the
\* shutdown and a tick are ready select takes each in the end (WF of TkStop is
\* not enough, as the tick leaves "select" again: SF).  A caller that listens
\* receives the report.
FairSpec ==
  /\ Spec
  /\ WF_vars(Waiter) /\ WF_vars(Ticker)
  /\ SF_vars(Ticker /\ TkStop) /\ SF_vars(Ticker /\ TkLock)
  /\ SF_vars(Waiter /\ WtLock)
  /\ WF_vars(CallerListens /\ ReceiveExit)

-----------------------------------------------------------------------------
(* Properties                                                              *)

TypeOK ==
  /\ serverUp \in BOOLEAN /\ wt \in WtPcs /\ tk \in TkPcs
  /\ mu \in {"none", "waiter", "ticker"}
  /\ processExited \in BOOLEAN /\ stopWatcher \in BOOLEAN /\ late \in 0..2

\* At most one sample, already past the check of the flag, is emitted after
\* the caller has been told that the server exited.
AtMostOneLateSample == late <= 1

\* The exit of the server is reported to a caller that listens.
ExitIsReported == ~serverUp ~> (Reported \/ wt = "fatal")

\* After the report, or after Shutdown, the ticker loop ends, so that Wait()
\* returns.
TickerEnds == (Reported \/ stopWatcher) ~> (tk = "done" \/ wt = "fatal")

=============================================================================
