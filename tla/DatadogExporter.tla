--------------------------- MODULE DatadogExporter ---------------------------
(***************************************************************************)
(* The Datadog exporter (internal/exporters/datadog.go): goroutines that   *)
(* call EmitMetric, the goroutine of runMetricsBatchHandler, one goroutine *)
(* for each batch being sent, and the owner, which starts the exporter,    *)
(* shuts it down and waits for it.                                         *)
(*                                                                         *)
(* metricsChan is unbuffered and EmitMetric sends on it while it holds the *)
(* mutex; that is what keeps Shutdown from closing it under a sender.      *)
(***************************************************************************)
EXTENDS Naturals, FiniteSets

CONSTANTS
  Emitters,   \* goroutines that emit metrics
  Metrics,    \* metric recordings, each of them emitted at most once
  BatchSize,  \* cfg.BatchSize, or the default
  Owner,      \* the goroutine that starts and stops the exporter
  None        \* no goroutine, no metric

ASSUME NameAssumption == Owner \notin Emitters /\ None \notin Emitters \cup Metrics \cup {Owner}
ASSUME BatchAssumption == BatchSize \in Nat \ {0} /\ IsFiniteSet(Metrics)

VARIABLES
  mu,        \* holder of the mutex, or None
  running,   \* the flag the mutex guards
  closed,    \* metricsChan is closed
  em,        \* emitter -> "idle", "check" (mutex held), "send"
  item,      \* emitter -> the metric it emits, or None
  used,      \* history: metrics some EmitMetric was called with
  accepted,  \* history: metrics whose EmitMetric returned nil
  handler,   \* "off", "run", "flushed" (in internalWg.Wait), "done"
  batch,     \* the batch being filled
  flushing,  \* batches handed to processBatch goroutines
  submitted, \* metrics of batches the Datadog API accepted
  failed,    \* metrics of batches whose submission returned an error
  owner      \* "up", "stopped" after Shutdown, "waited" after Wait, "released"

emitVars    == <<em, item, used, accepted>>
batchVars   == <<batch, flushing, submitted, failed>>
vars == <<mu, running, closed, emitVars, handler, batchVars, owner>>

Init ==
  /\ mu = None /\ running = FALSE /\ closed = FALSE
  /\ em = [e \in Emitters |-> "idle"] /\ item = [e \in Emitters |-> None]
  /\ used = {} /\ accepted = {}
  /\ handler = "off" /\ owner = "up"
  /\ batch = {} /\ flushing = {} /\ submitted = {} /\ failed = {}

-----------------------------------------------------------------------------
(* EmitMetric, in a goroutine e                                            *)

EmitLock(e, m) ==
  /\ em[e] = "idle"
  /\ mu = None
  /\ m \notin used
  /\ mu' = e
  /\ em' = [em EXCEPT ![e] = "check"]
  /\ item' = [item EXCEPT ![e] = m]
  /\ used' = used \cup {m}
  /\ UNCHANGED <<running, closed, accepted, handler, batchVars, owner>>

EmitRejected(e) ==
  /\ em[e] = "check"
  /\ ~running
  /\ mu' = None
  /\ em' = [em EXCEPT ![e] = "idle"]
  /\ item' = [item EXCEPT ![e] = None]
  /\ UNCHANGED <<running, closed, used, accepted, handler, batchVars, owner>>

\* Mutant: the mutex is released before the channel send.
EmitSend_Unlocks(e) ==
  /\ em[e] = "check"
  /\ running
  /\ mu' = None
  /\ em' = [em EXCEPT ![e] = "send"]
  /\ UNCHANGED <<running, closed, item, used, accepted, handler, batchVars, owner>>

EmitSend(e) ==
  /\ em[e] = "check"
  /\ running
  /\ em' = [em EXCEPT ![e] = "send"]
  /\ UNCHANGED <<mu, running, closed, item, used, accepted, handler, batchVars, owner>>

-----------------------------------------------------------------------------
(* Start to Release, in the owner: no goroutine is blocked while   *)
(* the owner holds the mutex, so that each is one step once it has it.     *)
(* Run starts the exporter at most once and never after Shutdown.          *)

Start ==
  /\ owner = "up"
  /\ mu = None
  /\ ~running
  /\ running' = TRUE
  /\ handler' = "run"
  /\ UNCHANGED <<mu, closed, emitVars, batchVars, owner>>

\* Mutant: the channel is not closed.
Shutdown_NoClose ==
  /\ owner = "up"
  /\ mu = None
  /\ owner' = "stopped"
  /\ running' = FALSE
  /\ UNCHANGED <<mu, closed, emitVars, handler, batchVars>>

Shutdown ==
  /\ owner = "up"
  /\ mu = None
  /\ owner' = "stopped"
  /\ closed' = (closed \/ running)
  /\ running' = FALSE
  /\ UNCHANGED <<mu, emitVars, handler, batchVars>>

Wait ==
  /\ owner = "stopped"
  /\ handler \in {"off", "done"}
  /\ owner' = "waited"
  /\ UNCHANGED <<mu, running, closed, emitVars, handler, batchVars>>

\* The log file, which batches under way write their answers to, is closed.
Release ==
  /\ owner = "waited"
  /\ owner' = "released"
  /\ UNCHANGED <<mu, running, closed, emitVars, handler, batchVars>>

-----------------------------------------------------------------------------
(* runMetricsBatchHandler                                                  *)

\* Mutant: the batch is sent one metric late.
Full_OffByOne(b) == Cardinality(b) > BatchSize

Full(b) == Cardinality(b) >= BatchSize

\* The send of emitter e and the receive happen together; EmitMetric returns.
Receive(e) ==
  /\ handler = "run" /\ ~closed
  /\ em[e] = "send"
  /\ LET b == batch \cup {item[e]} IN
       IF Full(b) THEN batch' = {} /\ flushing' = flushing \cup {b}
                  ELSE batch' = b /\ UNCHANGED flushing
  /\ accepted' = accepted \cup {item[e]}
  /\ em' = [em EXCEPT ![e] = "idle"]
  /\ item' = [item EXCEPT ![e] = None]
  /\ mu' = None
  /\ UNCHANGED <<running, closed, used, handler, submitted, failed, owner>>

\* Mutant: the batch handed over is filled on (no `batch = nil').
BatchTimeout_KeepsBatch ==
  /\ handler = "run"
  /\ batch # {}
  /\ flushing' = flushing \cup {batch}
  /\ UNCHANGED <<mu, running, closed, emitVars, handler, batch, submitted, failed,
                 owner>>

\* Mutant: the timer flushes full batches only.
BatchTimeout_FullOnly ==
  /\ handler = "run"
  /\ Full(batch)
  /\ flushing' = flushing \cup {batch}
  /\ batch' = {}
  /\ UNCHANGED <<mu, running, closed, emitVars, handler, submitted, failed, owner>>

BatchTimeout ==
  /\ handler = "run"
  /\ batch # {}
  /\ flushing' = flushing \cup {batch}
  /\ batch' = {}
  /\ UNCHANGED <<mu, running, closed, emitVars, handler, submitted, failed, owner>>

\* Mutant: the last batch is not flushed.
ChannelClosed_NoFlush ==
  /\ handler = "run"
  /\ closed
  /\ handler' = "flushed"
  /\ UNCHANGED <<mu, running, closed, emitVars, batchVars, owner>>

ChannelClosed ==
  /\ handler = "run"
  /\ closed
  /\ flushing' = flushing \cup {b \in {batch} : b # {}}
  /\ batch' = {}
  /\ handler' = "flushed"
  /\ UNCHANGED <<mu, running, closed, emitVars, submitted, failed, owner>>

\* internalWg.Wait() has returned; wg.Done().
HandlerDone ==
  /\ handler = "flushed"
  /\ flushing = {}
  /\ handler' = "done"
  /\ UNCHANGED <<mu, running, closed, emitVars, batchVars, owner>>

\* processBatch: an error of the API is logged and the batch is given up.
ProcessBatch(b) ==
  /\ flushing' = flushing \ {b}
  /\ \/ submitted' = submitted \cup b /\ UNCHANGED failed
     \/ failed' = failed \cup b /\ UNCHANGED submitted
  /\ UNCHANGED <<mu, running, closed, emitVars, handler, batch, owner>>

Emit(e) ==
  \/ EmitRejected(e) \/ EmitSend(e)
  \/ \E m \in Metrics : EmitLock(e, m)
OwnerStep == Start \/ Shutdown \/ Wait \/ Release
Handle == BatchTimeout \/ ChannelClosed \/ HandlerDone \/ \E e \in Emitters : Receive(e)

Next ==
  \/ \E e \in Emitters : Emit(e)
  \/ OwnerStep
  \/ Handle
  \/ \E b \in flushing : ProcessBatch(b)

Spec == Init /\ [][Next]_vars

\* Goroutines keep running, the batch timer fires again and again, and a call
\* of the Datadog API ends.  Nobody has to start or stop the exporter, or to
\* emit a metric; but EmitMetric and Wait, once called, go on.
Fairness ==
  /\ WF_vars(Handle)
  /\ WF_vars(Wait)
  /\ \A e \in Emitters : WF_vars(EmitRejected(e) \/ EmitSend(e))
  /\ \A b \in SUBSET Metrics : WF_vars(b \in flushing /\ ProcessBatch(b))

FairSpec == Spec /\ Fairness

-----------------------------------------------------------------------------
(* Properties                                                              *)

TypeOK ==
  /\ mu \in Emitters \cup {None} /\ running \in BOOLEAN
  /\ closed \in BOOLEAN
  /\ em \in [Emitters -> {"idle", "check", "send"}]
  /\ item \in [Emitters -> Metrics \cup {None}]
  /\ used \subseteq Metrics /\ accepted \subseteq Metrics
  /\ handler \in {"off", "run", "flushed", "done"}
  /\ owner \in {"up", "stopped", "waited", "released"}
  /\ batch \subseteq Metrics /\ flushing \subseteq SUBSET Metrics
  /\ submitted \subseteq Metrics /\ failed \subseteq Metrics

\* No goroutine sends on the closed channel, which would panic: Shutdown cannot
\* close it between the check of `running' in EmitMetric and the send.
NeverPanics == \A e \in Emitters : em[e] = "send" => ~closed

\* The metrics accepted are those in the batch being filled, in the batches
\* under way, submitted and failed, each of them in one of the four.
Accounted(all, filling, underWay, done, lost) ==
  /\ all = filling \cup underWay \cup done \cup lost
  /\ filling \cap underWay = {} /\ done \cap lost = {}
  /\ (filling \cup underWay) \cap (done \cup lost) = {}
DisjointBatches == \A b, c \in flushing : b # c => b \cap c = {}

\* No accepted metric is lost and none is sent twice: it is in the batch being
\* filled, in one batch under way, or was answered by the API, once.
EachMetricOnce ==
  /\ Accounted(accepted, batch, UNION flushing, submitted, failed)
  /\ DisjointBatches

\* The batch being filled stays below the batch size and no batch under way is
\* empty or larger than it.
BatchesBounded ==
  /\ Cardinality(batch) < BatchSize
  /\ \A b \in flushing : b # {} /\ Cardinality(b) <= BatchSize

\* When Wait has returned, every metric accepted has been answered, and none is
\* when the exporter has been released.
Waited == owner \in {"waited", "released"}
WaitMeansFlushed == Waited => accepted = submitted \cup failed

\* The exporter keeps the promises of the interface MetricsExporter.
Contract == INSTANCE MetricsExporter WITH
  phase   <- IF running THEN "running" ELSE IF closed THEN "closed" ELSE "new",
  held    <- batch \cup UNION flushing,
  settled <- submitted \cup failed,
  waited  <- Waited,
  released <- (owner = "released")
Implements == Contract!Spec

\* Every metric accepted is sent in the end, if only by the batch timer.
AcceptedIsSent == \A m \in Metrics : m \in accepted ~> m \in submitted \cup failed

\* After Shutdown, Wait returns.
ShutdownEnds == owner = "stopped" ~> owner = "waited"

=============================================================================
