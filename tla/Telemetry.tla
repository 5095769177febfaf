----------------------------- MODULE Telemetry -----------------------------
(***************************************************************************)
(* The way of a metric from the configuration to the backend: which names, *)
(* units and tags the start-up gives the exporter, what the two metrics    *)
(* registries (internal/telemetry/metrics.go) make of an emission, and in  *)
(* which time series the exporters (internal/exporters) report it.         *)
(*                                                                         *)
(* Module Startup says how lspwatch comes up; its steps are extended here  *)
(* by what they tell the exporter.  The values of tags are left out, but   *)
(* for the method of a request.  How batches and exports are timed is in   *)
(* DatadogExporter and OTelExporter: here one may be taken at any time.    *)
(***************************************************************************)
EXTENDS Startup, SequenceFilter

CONSTANTS
  Methods,  \* methods of metered requests
  MaxEmits  \* bound: emissions

ASSUME MethodsAssumption == None \notin Methods
ASSUME EmitsAssumption == MaxEmits \in Nat

VARIABLES
  globalTags,   \* keys of the tags every series is to carry
  registered,   \* registrations the exporter was given
  exporterUp,   \* exporter.Start has been called
  instruments,  \* OTel: the registrations that Start made an instrument for
  accepted,     \* history: the recordings the exporter accepted, in order
  pending,      \* those of them not yet reported
  series,       \* the time series reported to the backend
  refused       \* number of emissions the exporter answered with an error

emissionVars == <<accepted, pending, series, refused>>
exporterVars == <<globalTags, registered, exporterUp, instruments>>
telVars == <<vars, exporterVars, emissionVars>>

\* availableLSPMetrics and availableServerMetrics
Registration == [metric \in LspMetrics \cup ServerMetrics |->
  IF metric = "request.duration"
  THEN [name |-> "lspwatch.request.duration", otelUnit |-> "s", datadogUnit |-> "s"]
  ELSE [name |-> "lspwatch.server.rss", otelUnit |-> "By", datadogUnit |-> "bytes"]]

TelInit ==
  /\ Init
  /\ globalTags = {} /\ registered = {} /\ exporterUp = FALSE /\ instruments = {}
  /\ accepted = <<>> /\ pending = <<>> /\ series = {} /\ refused = 0

-----------------------------------------------------------------------------
(* The start                                                               *)

\* Mutant: the project takes the place of the other tags.
SetGlobalTags_ProjectOnly ==
  /\ GetTagValues
  /\ globalTags' = IF step' = "tags" THEN {}
                   ELSE IF cfg.project THEN {"project"} ELSE cfg.tags
  /\ UNCHANGED <<registered, exporterUp, instruments, emissionVars>>

SetGlobalTags ==
  /\ GetTagValues
  /\ globalTags' = IF step' = "tags" THEN {}
                   ELSE cfg.tags \cup {t \in {"project"} : cfg.project}
  /\ UNCHANGED <<registered, exporterUp, instruments, emissionVars>>

\* Each component enables its metrics in its own registry, which registers them
\* with the exporter they share.
RegisterMetric ==
  /\ NewProxyHandler \/ NewServerWatcher
  /\ registered' = registered \cup {Registration[x] : x \in lspEnabled' \cup serverEnabled'}
  /\ UNCHANGED <<globalTags, exporterUp, instruments, emissionVars>>

OtherStep ==
  /\ \/ CreateLogger \/ GetConfig \/ NewExporter
     \/ StartServer \/ NewProcessHandle \/ StartComponents
  /\ UNCHANGED <<exporterVars, emissionVars>>

Running == step = "running" /\ UNCHANGED vars

\* Run starts the exporter at the mode switch, which command mode never makes.
\* The OTel exporter makes its instruments only now.
StartExporter ==
  /\ Running
  /\ mode # "command" /\ ~exporterUp
  /\ exporterUp' = TRUE
  /\ instruments' = IF cfg.exporter = "opentelemetry" THEN registered ELSE {}
  /\ UNCHANGED <<globalTags, registered, emissionVars>>

-----------------------------------------------------------------------------
(* Emissions                                                               *)

\* Mutant: the name of the configuration is left in the recording.
ExportName_Configured(metric) == metric

\* DefaultMetricsRegistry.EmitMetric replaces the name of the configuration.
ExportName(metric) == Registration[metric].name

\* The exporter has been started, and the OTel exporter knows the name.
Accepts(name) ==
  /\ exporterUp
  /\ cfg.exporter = "opentelemetry" => \E r \in instruments : r.name = name

EmitMetric(metric, method) ==
  /\ Running
  /\ Len(accepted) + refused < MaxEmits
  /\ IF Accepts(ExportName(metric))
     THEN LET recording == [name |-> ExportName(metric), method |-> method,
                            point |-> Len(accepted) + 1] IN
          /\ accepted' = Append(accepted, recording)
          /\ pending' = Append(pending, recording)
          /\ UNCHANGED refused
     ELSE refused' = refused + 1 /\ UNCHANGED <<accepted, pending>>
  /\ UNCHANGED <<exporterVars, series>>

\* listenServer: a response was matched, which happens only after the mode switch.
EmitDuration ==
  /\ "request.duration" \in lspEnabled
  /\ exporterUp
  /\ \E method \in Methods : EmitMetric("request.duration", method)

\* The ticker loop of the server watcher, in every mode and from the start on.
EmitRss ==
  /\ "server.rss" \in serverEnabled
  /\ EmitMetric("server.rss", None)

-----------------------------------------------------------------------------
(* Reports                                                                 *)

\* Mutant: recordings of all methods go into one series.
SeriesId_NoTags(recording) == recording.name

\* computeTimeseriesId: the name and the recording's own tags.
SeriesId(recording) == <<recording.name, recording.method>>

\* The unit of the metric with that name; none if it was never registered.
Unit(name) ==
  IF cfg.exporter = "opentelemetry"
  THEN {r.otelUnit : r \in {i \in instruments : i.name = name}}
  ELSE {r.datadogUnit : r \in {i \in registered : i.name = name}}

\* getTimeseries: the recordings of a batch grouped by series, each group under
\* the name and the tags of one of them (the first: those of a group agree).
Elements(batch) == {batch[i] : i \in DOMAIN batch}
Ids(batch) == {SeriesId(recording) : recording \in Elements(batch)}
First(batch, id) == batch[CHOOSE i \in DOMAIN batch : SeriesId(batch[i]) = id]
PointsOf(batch, id) ==
  LET group == Only(batch, {recording \in Elements(batch) : SeriesId(recording) = id})
  IN [i \in DOMAIN group |-> group[i].point]
TimeSeries(batch) ==
  {[name   |-> First(batch, id).name,
    method |-> First(batch, id).method,
    unit   |-> Unit(First(batch, id).name),
    tags   |-> globalTags,
    points |-> PointsOf(batch, id)] : id \in Ids(batch)}

Report ==
  /\ Running
  /\ pending # <<>>
  /\ series' = series \cup TimeSeries(pending)
  /\ pending' = <<>>
  /\ UNCHANGED <<exporterVars, accepted, refused>>

TelNext ==
  \/ SetGlobalTags \/ RegisterMetric \/ OtherStep
  \/ StartExporter \/ EmitDuration \/ EmitRss \/ Report

TelSpec == TelInit /\ [][TelNext]_telVars

-----------------------------------------------------------------------------
(* Properties                                                              *)

\* Once the exporter runs it refuses nothing that a registry lets through: it has
\* an instrument under the name each enabled metric is exported by, though the
\* metrics are registered before there is anything to register them with.
NothingRefusedOnceStarted == [][exporterUp => UNCHANGED refused]_telVars

\* A series the backend gets is of a metric the configuration asks for, under the
\* name and in the unit registered for it, with the tags the configuration asks
\* for and the project; durations, and they only, carry a method.
AsConfigured(s, metric) ==
  /\ s.name = Registration[metric].name
  /\ s.unit = {IF cfg.exporter = "opentelemetry" THEN Registration[metric].otelUnit
                                                  ELSE Registration[metric].datadogUnit}
  /\ s.tags = cfg.tags \cup {t \in {"project"} : cfg.project}
  /\ IF metric = "request.duration" THEN s.method \in Methods ELSE s.method = None
SeriesAsConfigured ==
  \A s \in series :
    \E metric \in (IF cfg.metrics = None THEN LspMetrics \cup ServerMetrics ELSE cfg.metrics) :
      AsConfigured(s, metric)

\* A recording the exporter accepted and reported is a point of one series, the
\* one with its own name and method; in a series the points are in the order in
\* which they were emitted.
Points(s) == {s.points[i] : i \in DOMAIN s.points}
PointsInTheirSeries ==
  /\ \A n \in 1..(Len(accepted) - Len(pending)) : \E s \in series :
       /\ n \in Points(s)
       /\ s.name = accepted[n].name /\ s.method = accepted[n].method
       /\ \A t \in series \ {s} : n \notin Points(t)
  /\ \A s \in series : \A i, j \in DOMAIN s.points : i < j => s.points[i] < s.points[j]

=============================================================================
