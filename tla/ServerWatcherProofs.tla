------------------------- MODULE ServerWatcherProofs -------------------------
(***************************************************************************)
(* Theorems about ServerWatcher.                                           *)
(***************************************************************************)
EXTENDS ServerWatcher, TLAPS

\* The mutex is held by the waiter from the flag to the report, by the ticker
\* while it checks the flag; a ticker that may still emit after the report
\* passed the check before the flag was set, and has not emitted since.
IInv ==
  /\ TypeOK
  /\ mu = "waiter" <=> wt \in {"flag", "send", "unlock"}
  /\ mu = "ticker" <=> tk = "check"
  /\ wt \in {"send", "unlock", "done"} => processExited
  /\ late > 0 => late = 1 /\ processExited /\ tk \notin {"sample", "emit"}

LEMMA InitIInv == Init => IInv
<1> SUFFICES ASSUME Init PROVE IInv
  OBVIOUS
<1>1. serverUp \in BOOLEAN /\ processExited \in BOOLEAN /\ stopWatcher \in BOOLEAN
  BY DEF Init, WatcherInit
<1>2. wt = "wait" /\ tk = "select" /\ mu = "none" /\ late = 0
  BY DEF Init, WatcherInit
<1> QED
  BY <1>1, <1>2 DEF IInv, TypeOK, WtPcs, TkPcs

LEMMA NextIInv == IInv /\ [Next]_vars => IInv'
<1> SUFFICES ASSUME IInv, [Next]_vars PROVE IInv'
  OBVIOUS
<1> USE FlagAssumption DEF IInv, TypeOK, WtPcs, TkPcs
<1>1. CASE Waiter
  BY <1>1 DEF Waiter, WtWait, WtLock, WtFlag, WtUnlock
<1>2. CASE Ticker
  <2>1. CASE TkStop \/ TkTick \/ TkLock \/ TkSample
    BY <1>2, <2>1 DEF Ticker, TkStop, TkTick, TkLock, TkSample
  <2>2. CASE TkCheck
    BY <1>2, <2>2 DEF Ticker, TkCheck
  <2>3. CASE TkEmit
    BY <1>2, <2>3 DEF Ticker, TkEmit, Reported
  <2> QED
    BY <1>2, <2>1, <2>2, <2>3 DEF Ticker
<1>3. CASE ReceiveExit
  BY <1>3 DEF ReceiveExit
<1>4. CASE Shutdown \/ ServerExit \/ UNCHANGED vars
  BY <1>4 DEF Shutdown, ServerExit, vars, watcherVars
<1> QED
  BY <1>1, <1>2, <1>3, <1>4 DEF Next

LEMMA IInvInvariant == Spec => []IInv
  BY InitIInv, NextIInv, PTL DEF Spec

\* However the waiter, the ticker and the caller interleave, at most one sample
\* is emitted after the caller has been told that the server exited.
THEOREM OneLateSample == Spec => []AtMostOneLateSample
<1>1. IInv => AtMostOneLateSample
  BY DEF IInv, TypeOK, AtMostOneLateSample
<1> QED
  BY <1>1, IInvInvariant, PTL

=============================================================================
