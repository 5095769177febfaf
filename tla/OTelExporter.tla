---------------------------- MODULE OTelExporter ----------------------------
(***************************************************************************)
(* The OpenTelemetry exporter (internal/exporters/otel.go): EmitMetric,    *)
(* Start, Shutdown and Wait of MetricsOTelExporter, with the meter         *)
(* provider of the OTel SDK they drive.  The mutex is held over the whole  *)
(* of EmitMetric, Start and Shutdown and none of them blocks under it, so  *)
(* that each is one step.                                                  *)
(*                                                                         *)
(* The provider collects what was recorded every two seconds and exports   *)
(* it.  Its shutdown, in a goroutine that Shutdown starts, waits for the   *)
(* export under way, collects and exports once more and closes the         *)
(* exporter.  With the protocol "file" an export that fails loses what it  *)
(* carried; "grpc" and "http" send totals, so that the next one makes up.  *)
(***************************************************************************)
EXTENDS FiniteSets

CONSTANTS
  Metrics,       \* metric recordings, each of them emitted at most once
  Protocols,     \* cfg.Protocol: "file", "grpc" or "http"
  ExportMayFail  \* may an export return an error before the deadline?

ASSUME ProtocolAssumption == Protocols \subseteq {"file", "grpc", "http"}
ASSUME FailAssumption == ExportMayFail \in BOOLEAN

VARIABLES
  protocol,   \* fixed at construction
  running,    \* the flag the mutex guards; nothing resets it
  owner,      \* "up", "stopped" after Shutdown, "waited" after Wait, "released"
  deadline,   \* shutdownCtx: "unset", "pending" or "done"
  reader,     \* periodic reader: "off", "idle", "export", "last", "closed"
  stopping,   \* the goroutine that shuts the provider down has begun
  accepted,   \* history: metrics whose EmitMetric returned nil
  due,        \* history: those accepted when Shutdown was called
  pending,    \* recorded and not in an export
  exporting,  \* in the export under way
  delivered,  \* exported
  lost,       \* in an export of the protocol "file" that failed
  lastFailed  \* the last export, of the shutdown, failed

dataVars == <<pending, exporting, delivered, lost>>
vars == <<protocol, running, owner, deadline, reader, stopping, accepted, due, dataVars,
          lastFailed>>

Init ==
  /\ protocol \in Protocols
  /\ running = FALSE /\ owner = "up" /\ deadline = "unset"
  /\ reader = "off" /\ stopping = FALSE
  /\ accepted = {} /\ due = {}
  /\ pending = {} /\ exporting = {} /\ delivered = {} /\ lost = {}
  /\ lastFailed = FALSE

-----------------------------------------------------------------------------
(* MetricsOTelExporter                                                     *)

\* Before Start it returns an error.  `running' is never reset: a metric emitted
\* after Shutdown is accepted, and recorded if the provider still collects.
EmitMetric(m) ==
  /\ running
  /\ m \notin accepted
  /\ accepted' = accepted \cup {m}
  /\ pending' = pending \cup {m}
  /\ UNCHANGED <<protocol, running, owner, deadline, reader, stopping, due, exporting,
                 delivered, lost, lastFailed>>

\* Mutant: Start does not ask whether the exporter runs, and makes a new provider.
Start_Again ==
  /\ owner = "up"
  /\ running' = TRUE
  /\ reader' = "idle"
  /\ pending' = {} /\ exporting' = {}
  /\ UNCHANGED <<protocol, owner, deadline, stopping, accepted, due, delivered, lost, lastFailed>>

\* A second Start returns an error and changes nothing.
Start ==
  /\ owner = "up"
  /\ ~running
  /\ running' = TRUE
  /\ reader' = "idle"
  /\ UNCHANGED <<protocol, owner, deadline, stopping, accepted, due, dataVars, lastFailed>>

\* Mutant: the exporter is shut down instead of the provider.
Shutdown_ExporterOnly ==
  /\ owner = "up"
  /\ owner' = "stopped"
  /\ deadline' = IF running THEN "pending" ELSE "done"
  /\ reader' = IF running THEN "closed" ELSE reader
  /\ due' = accepted
  /\ UNCHANGED <<protocol, running, stopping, accepted, dataVars, lastFailed>>

\* Mutant: the context of an exporter that never ran is not cancelled.
Shutdown_NoCancel ==
  /\ owner = "up"
  /\ owner' = "stopped"
  /\ deadline' = IF running THEN "pending" ELSE "unset"
  /\ due' = accepted
  /\ UNCHANGED <<protocol, running, reader, stopping, accepted, dataVars, lastFailed>>

\* `go meterProvider.Shutdown(ctx)' runs later, in ProviderShutdown.
Shutdown ==
  /\ owner = "up"
  /\ owner' = "stopped"
  /\ deadline' = IF running THEN "pending" ELSE "done"
  /\ due' = accepted
  /\ UNCHANGED <<protocol, running, reader, stopping, accepted, dataVars, lastFailed>>

\* Five seconds after Shutdown.  Nothing else ends the context: a provider that
\* is done earlier does not.
Deadline ==
  /\ deadline = "pending"
  /\ deadline' = "done"
  /\ UNCHANGED <<protocol, running, owner, reader, stopping, accepted, due, dataVars, lastFailed>>

Wait ==
  /\ owner = "stopped"
  /\ deadline = "done"
  /\ owner' = "waited"
  /\ UNCHANGED <<protocol, running, deadline, reader, stopping, accepted, due, dataVars,
                 lastFailed>>

\* The log file is closed; a provider that is not done goes on to log to it.
Release ==
  /\ owner = "waited"
  /\ owner' = "released"
  /\ UNCHANGED <<protocol, running, deadline, reader, stopping, accepted, due, dataVars,
                 lastFailed>>

-----------------------------------------------------------------------------
(* The meter provider of the SDK with its periodic reader, and the exporter *)
(* it drives                                                               *)

ProviderShutdown ==
  /\ running
  /\ owner # "up"
  /\ ~stopping
  /\ stopping' = TRUE
  /\ UNCHANGED <<protocol, running, owner, deadline, reader, accepted, due, dataVars, lastFailed>>

\* The periodic collection, or the one of the shutdown.
Collect ==
  /\ reader = "idle"
  /\ exporting' = pending
  /\ pending' = {}
  /\ reader' = IF stopping THEN "last" ELSE "export"
  /\ UNCHANGED <<protocol, running, owner, deadline, stopping, accepted, due, delivered, lost,
                 lastFailed>>

ExportDone ==
  /\ delivered' = delivered \cup exporting
  /\ UNCHANGED <<pending, lost, lastFailed>>

\* The context of the export is cancelled by the shutdown or its deadline, which
\* the file exporter ignores, or the export fails by itself.
ExportFails ==
  /\ ExportMayFail \/ (protocol # "file" /\ (IF reader = "last" THEN deadline = "done"
                                                                ELSE stopping))
  /\ IF protocol = "file" THEN lost' = lost \cup exporting /\ UNCHANGED pending
                          ELSE pending' = pending \cup exporting /\ UNCHANGED lost
  /\ lastFailed' = (reader = "last")
  /\ UNCHANGED delivered

\* After the last export the exporter is closed.
Export ==
  /\ reader \in {"export", "last"}
  /\ ExportDone \/ ExportFails
  /\ exporting' = {}
  /\ reader' = IF reader = "last" THEN "closed" ELSE "idle"
  /\ UNCHANGED <<protocol, running, owner, deadline, stopping, accepted, due>>

Next ==
  \/ \E m \in Metrics : EmitMetric(m)
  \/ Start \/ Shutdown \/ Deadline \/ Wait \/ Release
  \/ ProviderShutdown \/ Collect \/ Export

Spec == Init /\ [][Next]_vars

\* Time passes and the owner, once it has called Shutdown, calls Wait.  Nothing is
\* asked of the backend: an export may hang.
Fairness == WF_vars(Deadline) /\ WF_vars(Wait)

FairSpec == Spec /\ Fairness

-----------------------------------------------------------------------------
(* Properties                                                              *)

\* The variables have their types, and an exporter that runs has a provider, which
\* Shutdown would otherwise dereference.
TypeOK ==
  /\ running => reader # "off"
  /\ protocol \in Protocols /\ running \in BOOLEAN /\ stopping \in BOOLEAN
  /\ owner \in {"up", "stopped", "waited", "released"} /\ deadline \in {"unset", "pending", "done"}
  /\ reader \in {"off", "idle", "export", "last", "closed"} /\ lastFailed \in BOOLEAN
  /\ accepted \subseteq Metrics /\ due \subseteq Metrics
  /\ pending \subseteq Metrics /\ exporting \subseteq Metrics
  /\ delivered \subseteq Metrics /\ lost \subseteq Metrics

\* An accepted metric is in one place: waiting, in the export under way, exported
\* or lost in a failed one.  A Start that made a second provider would break it.
EachMetricOnce ==
  /\ accepted = pending \cup exporting \cup delivered \cup lost
  /\ pending \cap (exporting \cup delivered \cup lost) = {}
  /\ exporting \cap (delivered \cup lost) = {} /\ delivered \cap lost = {}

\* Once the provider has shut down and its last export went well, whatever was
\* accepted before Shutdown was exported, or lost by an earlier failure.
ShutdownFlushes == reader = "closed" /\ ~lastFailed => due \subseteq delivered \cup lost

\* Wait returns, whatever the backend does and whether or not the exporter was
\* ever started: the deadline bounds it.
WaitReturns == owner = "stopped" ~> owner = "waited"

\* When Wait has returned, no metric accepted before Shutdown is still held.
WaitMeansFlushed == owner = "waited" => due \cap (pending \cup exporting) = {}

=============================================================================
