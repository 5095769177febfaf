-------------------------- MODULE TelemetryProofs --------------------------
(***************************************************************************)
(* Theorems about Startup and about Telemetry, which extends its steps:    *)
(* for every set of configurations and flags and any number of emissions.  *)
(***************************************************************************)
EXTENDS Telemetry, SequenceFilterProofs, TLAPS

-----------------------------------------------------------------------------
(* The start: no panic                                                     *)

\* The default configuration would pass the validation that it is spared.
LEMMA DefaultValid == Valid(DefaultConfig)
<1>1. DefaultConfig.otel \in Otel
  BY DEF DefaultConfig, Otel
<1>2. DefaultConfig.otel # None
  BY <1>1, NoneAssumption
<1>3. ValidFields(DefaultConfig)
  BY DEF ValidFields, ValidOtel, DefaultConfig, AvailableTags
<1>4. DefaultConfig.polling = None /\ DefaultConfig.exporter = "opentelemetry"
  BY DEF DefaultConfig
<1> QED
  BY <1>2, <1>3, <1>4 DEF Valid, Between

\* The configuration in force is a valid one, and there is a logger, after the
\* steps that provide them.
Provided ==
  /\ step = "log" => ~logger
  /\ step \notin {"log", "config"} => Valid(cfg)
PanicInv == Provided /\ OnlyLogPanics

LEMMA PanicStep == ASSUME PanicInv, [Next]_vars PROVE PanicInv'
<1> USE DEF PanicInv, Provided, OnlyLogPanics, At, Goto, Ends, args
<1>1. CASE CreateLogger
  BY <1>1 DEF CreateLogger
<1>2. CASE GetConfig
  BY <1>2, DefaultValid DEF GetConfig
<1>3. CASE NewExporter
  <2>1. Valid(cfg) /\ step = "exporter"
    BY <1>3 DEF NewExporter
  <2>2. cfg.exporter \in {"opentelemetry", "datadog"} => Section # None
    BY <2>1 DEF Valid, Section
  <2> QED
    BY <1>3, <2>1, <2>2 DEF NewExporter
<1>4. CASE GetTagValues
  BY <1>4 DEF GetTagValues
<1>5. CASE NewProxyHandler
  BY <1>5 DEF NewProxyHandler
<1>6. CASE NewServerWatcher
  BY <1>6 DEF NewServerWatcher
<1>7. CASE StartServer
  BY <1>7 DEF StartServer
<1>8. CASE NewProcessHandle
  BY <1>8 DEF NewProcessHandle
<1>9. CASE StartComponents
  <2>1. Between(cfg.polling, 1, 1000) /\ step = "components"
    BY <1>9 DEF StartComponents, Valid
  <2> QED
    BY <1>9, <2>1 DEF StartComponents
<1>10. CASE UNCHANGED vars
  BY <1>10 DEF vars
<1> QED
  BY <1>1, <1>2, <1>3, <1>4, <1>5, <1>6, <1>7, <1>8, <1>9, <1>10 DEF Next

\* No configuration whatever makes lspwatch panic: what the constructors and the
\* ticker rely on follows from the validation.
THEOREM ValidationSuffices == Spec => []OnlyLogPanics
<1>1. Init => PanicInv
  BY DEF Init, PanicInv, Provided, OnlyLogPanics
<1>2. PanicInv /\ [Next]_vars => PanicInv'
  BY PanicStep
<1>3. PanicInv => OnlyLogPanics
  BY DEF PanicInv
<1> QED
  BY <1>1, <1>2, <1>3, PTL DEF Spec

-----------------------------------------------------------------------------
\* The server runs from its start on only, and after its start nothing but the
\* look at the process fails, as the validation has let the interval pass.
LeftInv ==
  /\ Provided
  /\ serverUp => step \in {"handle", "components", "running"}
  /\ FailedStartLeavesNoServer

LEMMA LeftStep == ASSUME LeftInv, [Next]_vars PROVE LeftInv'
<1> USE DEF LeftInv, Provided, FailedStartLeavesNoServer, At, Goto, Ends, args
<1>1. CASE CreateLogger
  BY <1>1 DEF CreateLogger
<1>2. CASE GetConfig
  BY <1>2, DefaultValid DEF GetConfig
<1>3. CASE NewExporter
  BY <1>3 DEF NewExporter
<1>4. CASE GetTagValues
  BY <1>4 DEF GetTagValues
<1>5. CASE NewProxyHandler
  BY <1>5 DEF NewProxyHandler
<1>6. CASE NewServerWatcher
  BY <1>6 DEF NewServerWatcher
<1>7. CASE StartServer
  BY <1>7 DEF StartServer
<1>8. CASE NewProcessHandle
  BY <1>8 DEF NewProcessHandle
<1>9. CASE StartComponents
  <2>1. Between(cfg.polling, 1, 1000) /\ step = "components"
    BY <1>9 DEF StartComponents, Valid
  <2> QED
    BY <1>9, <2>1 DEF StartComponents
<1>10. CASE UNCHANGED vars
  BY <1>10 DEF vars
<1> QED
  BY <1>1, <1>2, <1>3, <1>4, <1>5, <1>6, <1>7, <1>8, <1>9, <1>10 DEF Next

\* No configuration and no failure during the start leaves a server behind, but
\* for the failed look at its process.
THEOREM StartLeavesNoServer == Spec => []FailedStartLeavesNoServer
<1>1. Init => LeftInv
  BY DEF Init, LeftInv, Provided, FailedStartLeavesNoServer
<1>2. LeftInv /\ [Next]_vars => LeftInv'
  BY LeftStep
<1>3. LeftInv => FailedStartLeavesNoServer
  BY DEF LeftInv
<1> QED
  BY <1>1, <1>2, <1>3, PTL DEF Spec

-----------------------------------------------------------------------------
\* Type correctness is inductive as it stands.
LEMMA TypeStep == ASSUME TypeOK, [Next]_vars PROVE TypeOK'
<1> USE DEF TypeOK, At, Goto, Ends, args
<1>1. CASE CreateLogger
  BY <1>1 DEF CreateLogger
<1>2. CASE GetConfig
  BY <1>2 DEF GetConfig
<1>3. CASE NewExporter
  <2> DEFINE All == {"endpoint", "headers", "insecure", "tls", "timeout", "gzip"}
  <2>1. ClientOptions(cfg.otel) \subseteq All
    BY DEF ClientOptions
  <2>2. options' \subseteq All
    BY <1>3, <2>1 DEF NewExporter
  <2>3. step' \in {"exporter", "tags"} /\ outcome' \in {"none", "exit1", "panic"}
    BY <1>3 DEF NewExporter
  <2>4. UNCHANGED <<args, logger, cfg, lspEnabled, serverEnabled, serverUp>>
    BY <1>3 DEF NewExporter
  <2> QED
    BY <2>2, <2>3, <2>4
<1>4. CASE GetTagValues
  BY <1>4 DEF GetTagValues
<1>5. CASE NewProxyHandler
  BY <1>5 DEF NewProxyHandler, CanEnable
<1>6. CASE NewServerWatcher
  BY <1>6 DEF NewServerWatcher, CanEnable
<1>7. CASE StartServer
  BY <1>7 DEF StartServer
<1>8. CASE NewProcessHandle
  BY <1>8 DEF NewProcessHandle
<1>9. CASE StartComponents
  <2>1. CASE Between(cfg.polling, 1, 1000)
    BY <1>9, <2>1 DEF StartComponents
  <2>2. CASE ~Between(cfg.polling, 1, 1000)
    BY <1>9, <2>2 DEF StartComponents
  <2> QED
    BY <2>1, <2>2
<1>10. CASE UNCHANGED vars
  BY <1>10 DEF vars
<1> QED
  BY <1>1, <1>2, <1>3, <1>4, <1>5, <1>6, <1>7, <1>8, <1>9, <1>10 DEF Next

\* The start keeps its types; among them, a registry enables only metrics that
\* are registered with it, whatever the configuration lists.
THEOREM TypeCorrect == Spec => []TypeOK
<1>1. Init => TypeOK
  BY DEF Init, TypeOK
<1> QED
  BY <1>1, TypeStep, PTL DEF Spec

-----------------------------------------------------------------------------
\* Each registry has enabled what its component asked for, once it has asked.
EnabledInv ==
  /\ step \in {"watcher", "start", "handle", "components", "running"}
       => lspEnabled = ToEnable({"request.duration"})
  /\ step \in {"start", "handle", "components", "running"}
       => serverEnabled = ToEnable({"server.rss"})

LEMMA EnabledStep == ASSUME EnabledInv, [Next]_vars PROVE EnabledInv'
<1> USE DEF EnabledInv, ToEnable, At, Goto, Ends, args
<1>1. CASE CreateLogger
  BY <1>1 DEF CreateLogger
<1>2. CASE GetConfig
  BY <1>2 DEF GetConfig
<1>3. CASE NewExporter
  BY <1>3 DEF NewExporter
<1>4. CASE GetTagValues
  BY <1>4 DEF GetTagValues
<1>5. CASE NewProxyHandler
  BY <1>5 DEF NewProxyHandler
<1>6. CASE NewServerWatcher
  BY <1>6 DEF NewServerWatcher
<1>7. CASE StartServer
  BY <1>7 DEF StartServer
<1>8. CASE NewProcessHandle
  BY <1>8 DEF NewProcessHandle
<1>9. CASE StartComponents
  BY <1>9 DEF StartComponents
<1>10. CASE UNCHANGED vars
  BY <1>10 DEF vars
<1> QED
  BY <1>1, <1>2, <1>3, <1>4, <1>5, <1>6, <1>7, <1>8, <1>9, <1>10 DEF Next

\* For every configuration that starts, the metrics enabled are those configured.
THEOREM MetricsAsConfigured == Spec => []EnabledAsConfigured
<1>1. Init => EnabledInv
  BY DEF Init, EnabledInv
<1>2. EnabledInv /\ [Next]_vars => EnabledInv'
  BY EnabledStep
<1>3. EnabledInv => EnabledAsConfigured
  BY DEF EnabledInv, EnabledAsConfigured, ToEnable, LspMetrics, ServerMetrics
<1> QED
  BY <1>1, <1>2, <1>3, PTL DEF Spec

-----------------------------------------------------------------------------
(* What the exporter is told                                               *)

Enabling == {"watcher", "start", "handle", "components", "running"}

\* Telling the exporter about metrics and tags changes nothing of the start.
LEMMA StepIsStartupStep == [TelNext]_telVars => [Next]_vars
  BY DEF TelNext, SetGlobalTags, RegisterMetric, OtherStep, StartExporter, EmitDuration, EmitRss,
     EmitMetric, Report, Running, telVars, Next

\* A start that tells the exporter is a start, so that what is shown above of
\* every start holds in Telemetry.
THEOREM TelemetryStarts == TelSpec => Spec
<1>1. TelInit => Init
  BY DEF TelInit
<1> QED
  BY <1>1, StepIsStartupStep, PTL DEF TelSpec, Spec

\* What a registry has enabled the exporter has been told, and it has an
\* instrument for it once it runs, as nothing is enabled after that.
RegisteredInv ==
  /\ step \in Enabling => \A x \in lspEnabled : Registration[x] \in registered
  /\ step \in Enabling \ {"watcher"} => \A x \in serverEnabled : Registration[x] \in registered
  /\ exporterUp => step = "running"
  /\ exporterUp /\ cfg.exporter = "opentelemetry" => instruments = registered

LEMMA InitRegistered == TelInit => RegisteredInv
  BY DEF TelInit, Init, RegisteredInv, Enabling

LEMMA StartRegistered ==
  ASSUME RegisteredInv, SetGlobalTags \/ RegisterMetric \/ OtherStep
  PROVE  RegisteredInv'
<1> USE DEF RegisteredInv, Enabling, exporterVars, At, Goto, Ends, args
<1>1. step # "running" \/ (step' = step /\ UNCHANGED vars)
  BY DEF SetGlobalTags, RegisterMetric, OtherStep, GetTagValues, NewProxyHandler,
     NewServerWatcher, CreateLogger, GetConfig, NewExporter, StartServer, NewProcessHandle,
     StartComponents
<1>2. ~exporterUp' \/ UNCHANGED vars
  BY <1>1 DEF SetGlobalTags, RegisterMetric, OtherStep
<1>3. CASE SetGlobalTags
  BY <1>2, <1>3 DEF SetGlobalTags, GetTagValues, vars
<1>4. CASE RegisterMetric
  <2>1. \A x \in lspEnabled' \cup serverEnabled' : Registration[x] \in registered'
    BY <1>4 DEF RegisterMetric
  <2>2. step \in {"proxy", "watcher"} /\ UNCHANGED exporterUp
    BY <1>4 DEF RegisterMetric, NewProxyHandler, NewServerWatcher
  <2> QED
    BY <2>1, <2>2
<1>5. CASE OtherStep
  <2>1. UNCHANGED exporterVars
    BY <1>5 DEF OtherStep
  <2>2. CASE CreateLogger \/ GetConfig \/ NewExporter
    BY <1>2, <2>1, <2>2 DEF CreateLogger, GetConfig, NewExporter
  <2>3. CASE StartServer \/ NewProcessHandle \/ StartComponents
    BY <1>2, <2>1, <2>3 DEF StartServer, NewProcessHandle, StartComponents
  <2> QED
    BY <1>5, <2>2, <2>3 DEF OtherStep
<1> QED
  BY <1>3, <1>4, <1>5

LEMMA NextRegistered == RegisteredInv /\ [TelNext]_telVars => RegisteredInv'
<1> SUFFICES ASSUME RegisteredInv, [TelNext]_telVars PROVE RegisteredInv'
  OBVIOUS
<1>1. CASE SetGlobalTags \/ RegisterMetric \/ OtherStep
  BY <1>1, StartRegistered
<1>2. CASE StartExporter
  BY <1>2 DEF StartExporter, Running, RegisteredInv, Enabling, vars
<1>3. CASE EmitDuration \/ EmitRss \/ Report \/ UNCHANGED telVars
  <2>1. UNCHANGED <<vars, exporterVars>>
    BY <1>3 DEF EmitDuration, EmitRss, EmitMetric, Report, Running, telVars
  <2> QED
    BY <2>1 DEF RegisteredInv, vars, exporterVars
<1> QED
  BY <1>1, <1>2, <1>3 DEF TelNext

\* For every configuration, the running exporter refuses no emission of an
\* enabled metric: it knows each of them by the name it is exported under.
THEOREM RunningExporterAccepts == TelSpec => NothingRefusedOnceStarted
<1>1. RegisteredInv /\ [TelNext]_telVars => (exporterUp => UNCHANGED refused)
  <2> SUFFICES ASSUME RegisteredInv, [TelNext]_telVars, exporterUp PROVE UNCHANGED refused
    OBVIOUS
  <2>1. CASE SetGlobalTags \/ RegisterMetric \/ OtherStep \/ StartExporter \/ Report
             \/ UNCHANGED telVars
    BY <2>1 DEF SetGlobalTags, RegisterMetric, OtherStep, StartExporter, Report, telVars,
       emissionVars
  <2>2. ASSUME NEW metric, NEW method, EmitMetric(metric, method),
               metric \in lspEnabled \cup serverEnabled
        PROVE  UNCHANGED refused
    <3>1. Registration[metric] \in registered
      BY <2>2 DEF RegisteredInv, Enabling
    <3>2. Accepts(ExportName(metric))
      BY <3>1 DEF Accepts, ExportName, RegisteredInv
    <3> QED
      BY <2>2, <3>2 DEF EmitMetric
  <2> QED
    BY <2>1, <2>2 DEF TelNext, EmitDuration, EmitRss
<1>2. TelSpec => []RegisteredInv
  BY InitRegistered, NextRegistered, PTL DEF TelSpec
<1> QED
  BY <1>1, <1>2, PTL DEF TelSpec, NothingRefusedOnceStarted

-----------------------------------------------------------------------------
(* What the backend gets                                                   *)

Recording == [name : {Registration[x].name : x \in LspMetrics \cup ServerMetrics},
              method : Methods \cup {None}, point : Nat]

\* A recording waiting for its report is one of an enabled metric; the tags are
\* set when metrics are enabled, and the exporter knows none but the registered.
ReportInv ==
  /\ TypeOK /\ EnabledInv /\ RegisteredInv
  /\ step \in Enabling \cup {"proxy"} => globalTags = cfg.tags \cup {t \in {"project"} : cfg.project}
  /\ registered \subseteq {Registration[x] : x \in LspMetrics \cup ServerMetrics}
  /\ pending \in Seq(Recording)
  /\ accepted \in Seq(Recording) /\ refused \in Nat
  /\ pending # <<>> => exporterUp
  /\ \A i \in DOMAIN pending : \E metric \in lspEnabled \cup serverEnabled :
       /\ pending[i].name = Registration[metric].name
       /\ IF metric = "request.duration" THEN pending[i].method \in Methods
                                         ELSE pending[i].method = None
  /\ series # {} => step = "running"
  /\ SeriesAsConfigured

LEMMA InitReport == TelInit => ReportInv
<1> SUFFICES ASSUME TelInit PROVE ReportInv
  OBVIOUS
<1>1. Init
  BY DEF TelInit
<1>2. TypeOK /\ EnabledInv
  BY <1>1 DEF Init, TypeOK, EnabledInv
<1> QED
  BY <1>1, <1>2, InitRegistered DEF TelInit, Init, ReportInv, Enabling, SeriesAsConfigured

\* The unit found under the name of an enabled metric is the one it has.
LEMMA UnitOfMetric ==
  ASSUME ReportInv, exporterUp, NEW metric \in lspEnabled \cup serverEnabled
  PROVE  Unit(Registration[metric].name) =
           {IF cfg.exporter = "opentelemetry" THEN Registration[metric].otelUnit
                                               ELSE Registration[metric].datadogUnit}
<1> DEFINE Same == {r \in registered : r.name = Registration[metric].name}
<1>1. Registration[metric] \in registered /\ metric \in LspMetrics \cup ServerMetrics
  BY DEF ReportInv, RegisteredInv, Enabling, TypeOK
<1>2. \A x, y \in LspMetrics \cup ServerMetrics :
        Registration[x].name = Registration[y].name => x = y
  BY DEF Registration, LspMetrics, ServerMetrics
<1>3. Same = {Registration[metric]}
  BY <1>1, <1>2 DEF ReportInv
<1>4. CASE cfg.exporter = "opentelemetry"
  BY <1>3, <1>4 DEF Unit, ReportInv, RegisteredInv
<1>5. CASE cfg.exporter # "opentelemetry"
  BY <1>3, <1>5 DEF Unit
<1> QED
  BY <1>4, <1>5

LEMMA StartReport ==
  ASSUME ReportInv, SetGlobalTags \/ RegisterMetric \/ OtherStep
  PROVE  ReportInv'
<1>1. TypeOK' /\ EnabledInv' /\ RegisteredInv'
  <2>1. Next
    BY DEF SetGlobalTags, RegisterMetric, OtherStep, Next
  <2> QED
    BY <2>1, TypeStep, EnabledStep, StartRegistered DEF ReportInv
<1>2. step # "running"
  BY DEF SetGlobalTags, RegisterMetric, OtherStep, GetTagValues, NewProxyHandler,
     NewServerWatcher, CreateLogger, GetConfig, NewExporter, StartServer, NewProcessHandle,
     StartComponents, At
<1>3. UNCHANGED emissionVars /\ pending = <<>> /\ series = {}
  BY <1>2 DEF SetGlobalTags, RegisterMetric, OtherStep, ReportInv, RegisteredInv
<1>4. registered' \subseteq {Registration[x] : x \in LspMetrics \cup ServerMetrics}
  <2>1. lspEnabled' \cup serverEnabled' \subseteq LspMetrics \cup ServerMetrics
    BY <1>1 DEF TypeOK
  <2> QED
    BY <2>1 DEF SetGlobalTags, RegisterMetric, OtherStep, exporterVars, ReportInv
<1>5. step' \in Enabling \cup {"proxy"}
        => globalTags' = cfg'.tags \cup {t \in {"project"} : cfg'.project}
  <2>1. CASE SetGlobalTags
    BY <2>1 DEF SetGlobalTags, GetTagValues, At, Goto, Ends, Enabling, ReportInv
  <2>2. CASE RegisterMetric
    BY <2>2 DEF RegisterMetric, NewProxyHandler, NewServerWatcher, At, Goto, Ends, Enabling,
       ReportInv
  <2>3. CASE OtherStep
    BY <2>3 DEF OtherStep, exporterVars, CreateLogger, GetConfig, NewExporter, StartServer,
       NewProcessHandle, StartComponents, At, Goto, Ends, Enabling, ReportInv
  <2> QED
    BY <2>1, <2>2, <2>3
<1>6. SeriesAsConfigured'
  BY <1>3 DEF emissionVars, SeriesAsConfigured
<1> QED
  BY <1>1, <1>3, <1>4, <1>5, <1>6 DEF emissionVars, ReportInv

LEMMA EmitReport ==
  ASSUME ReportInv, NEW metric \in lspEnabled \cup serverEnabled, NEW method,
         IF metric = "request.duration" THEN method \in Methods ELSE method = None,
         EmitMetric(metric, method)
  PROVE  ReportInv'
<1> DEFINE recording == [name |-> ExportName(metric), method |-> method,
                         point |-> Len(accepted) + 1]
<1>1. UNCHANGED <<vars, exporterVars, series>>
  BY DEF EmitMetric, Running
<1>a. /\ TypeOK' /\ EnabledInv' /\ RegisteredInv' /\ SeriesAsConfigured'
      /\ step \in Enabling \cup {"proxy"}
           => globalTags' = cfg'.tags \cup {t \in {"project"} : cfg'.project}
      /\ registered' \subseteq {Registration[x] : x \in LspMetrics \cup ServerMetrics}
      /\ series' # {} => step' = "running"
  BY <1>1 DEF ReportInv, vars, args, exporterVars, TypeOK, EnabledInv, ToEnable, RegisteredInv,
     SeriesAsConfigured, AsConfigured
<1>b. UNCHANGED <<step, exporterUp, lspEnabled, serverEnabled>>
  BY <1>1 DEF vars, exporterVars
<1>2. recording \in Recording
  BY DEF Recording, ExportName, ReportInv, TypeOK
<1>3. CASE Accepts(ExportName(metric))
  <2>1. /\ accepted' = Append(accepted, recording) /\ pending' = Append(pending, recording)
        /\ UNCHANGED refused
    BY <1>3 DEF EmitMetric
  <2>2. \A i \in DOMAIN pending' :
          (i \in DOMAIN pending /\ pending'[i] = pending[i]) \/ pending'[i] = recording
    BY <1>2, <2>1 DEF ReportInv
  <2>3. accepted' \in Seq(Recording) /\ pending' \in Seq(Recording)
    BY <1>2, <2>1 DEF ReportInv
  <2>4. exporterUp
    BY <1>3 DEF Accepts
  <2>5. \A i \in DOMAIN pending' : \E x \in lspEnabled \cup serverEnabled :
          /\ pending'[i].name = Registration[x].name
          /\ IF x = "request.duration" THEN pending'[i].method \in Methods
                                       ELSE pending'[i].method = None
    BY <2>2 DEF ReportInv, ExportName
  <2> QED
    BY <1>a, <1>b, <2>1, <2>3, <2>4, <2>5 DEF ReportInv
<1>4. CASE ~Accepts(ExportName(metric))
  <2>1. UNCHANGED <<accepted, pending>> /\ refused' = refused + 1
    BY <1>4 DEF EmitMetric
  <2> QED
    BY <1>a, <1>b, <2>1 DEF ReportInv
<1> QED
  BY <1>3, <1>4

\* Every series made of the pending recordings is as configured.
LEMMA ReportReport == ASSUME ReportInv, Report PROVE ReportInv'
<1>1. UNCHANGED <<vars, exporterVars, accepted, refused>> /\ pending' = <<>>
  BY DEF Report, Running
<1>2. exporterUp /\ step = "running"
  BY DEF Report, ReportInv, RegisteredInv
<1>3. ASSUME NEW s \in TimeSeries(pending)
      PROVE  \E metric \in (IF cfg.metrics = None THEN LspMetrics \cup ServerMetrics
                                                 ELSE cfg.metrics) : AsConfigured(s, metric)
  <2>1. PICK id \in Ids(pending) :
          /\ s.name = First(pending, id).name /\ s.method = First(pending, id).method
          /\ s.unit = Unit(First(pending, id).name) /\ s.tags = globalTags
    BY DEF TimeSeries
  <2>2. PICK i \in DOMAIN pending : First(pending, id) = pending[i]
    BY DEF Ids, Elements, First
  <2>3. PICK metric \in lspEnabled \cup serverEnabled :
          /\ pending[i].name = Registration[metric].name
          /\ IF metric = "request.duration" THEN pending[i].method \in Methods
                                            ELSE pending[i].method = None
    BY DEF ReportInv
  <2>4. AsConfigured(s, metric)
    BY <1>2, <2>1, <2>2, <2>3, UnitOfMetric DEF AsConfigured, ReportInv, Enabling
  <2>5. metric \in (IF cfg.metrics = None THEN LspMetrics \cup ServerMetrics ELSE cfg.metrics)
    BY <1>2 DEF ReportInv, EnabledInv, ToEnable, LspMetrics, ServerMetrics
  <2> QED
    BY <2>4, <2>5
<1>4. SeriesAsConfigured'
  BY <1>1, <1>3 DEF Report, ReportInv, SeriesAsConfigured, AsConfigured, vars, args
<1>5. TypeOK' /\ EnabledInv' /\ RegisteredInv'
  BY <1>1 DEF ReportInv, vars, args, exporterVars, TypeOK, EnabledInv, ToEnable, RegisteredInv
<1>6. UNCHANGED <<step, cfg, exporterUp, lspEnabled, serverEnabled, globalTags, registered>>
  BY <1>1 DEF vars, exporterVars
<1>7. pending' \in Seq(Recording)
  BY <1>1
<1> QED
  BY <1>1, <1>2, <1>4, <1>5, <1>6, <1>7 DEF ReportInv

LEMMA NextReport == ReportInv /\ [TelNext]_telVars => ReportInv'
<1> SUFFICES ASSUME ReportInv, [TelNext]_telVars PROVE ReportInv'
  OBVIOUS
<1>1. CASE SetGlobalTags \/ RegisterMetric \/ OtherStep
  BY <1>1, StartReport
<1>2. CASE StartExporter
  <2>1. /\ UNCHANGED <<vars, globalTags, registered, emissionVars>>
        /\ exporterUp' /\ step = "running"
    BY <1>2 DEF StartExporter, Running
  <2>2. TypeOK' /\ EnabledInv' /\ RegisteredInv'
    <3>1. RegisteredInv'
      BY <1>2, NextRegistered DEF ReportInv, TelNext
    <3> QED
      BY <2>1, <3>1 DEF ReportInv, vars, args, TypeOK, EnabledInv, ToEnable
  <2>3. SeriesAsConfigured'
    BY <2>1 DEF ReportInv, SeriesAsConfigured, AsConfigured, vars, args, emissionVars
  <2>4. UNCHANGED <<step, cfg, lspEnabled, serverEnabled, globalTags, registered,
                    accepted, pending, series, refused>>
    BY <2>1 DEF vars, emissionVars
  <2> QED
    BY <2>1, <2>2, <2>3, <2>4 DEF ReportInv
<1>3. CASE EmitDuration
  <2>1. "request.duration" \in lspEnabled \cup serverEnabled
    BY <1>3 DEF EmitDuration
  <2>2. PICK method \in Methods : EmitMetric("request.duration", method)
    BY <1>3 DEF EmitDuration
  <2> QED
    BY <2>1, <2>2, EmitReport
<1>4. CASE EmitRss
  <2>1. "server.rss" # "request.duration" /\ "server.rss" \in lspEnabled \cup serverEnabled
    BY <1>4 DEF EmitRss
  <2> QED
    BY <1>4, <2>1, EmitReport DEF EmitRss
<1>5. CASE Report
  BY <1>5, ReportReport
<1>6. CASE UNCHANGED telVars
  <2>1. UNCHANGED <<vars, exporterVars, emissionVars>>
    BY <1>6 DEF telVars
  <2>2. TypeOK' /\ EnabledInv' /\ RegisteredInv'
    BY <2>1 DEF ReportInv, vars, args, exporterVars, TypeOK, EnabledInv, ToEnable, RegisteredInv
  <2>3. SeriesAsConfigured'
    BY <2>1 DEF ReportInv, vars, args, emissionVars, SeriesAsConfigured, AsConfigured
  <2>4. UNCHANGED <<step, cfg, exporterUp, lspEnabled, serverEnabled, globalTags, registered,
                    accepted, pending, series, refused>>
    BY <2>1 DEF vars, exporterVars, emissionVars
  <2> QED
    BY <2>2, <2>3, <2>4 DEF ReportInv
<1> QED
  BY <1>1, <1>2, <1>3, <1>4, <1>5, <1>6 DEF TelNext

\* For every configuration, the backend gets only series of the metrics asked for,
\* under the registered name, in the registered unit, with the configured tags.
THEOREM BackendGetsConfigured == TelSpec => []SeriesAsConfigured
<1>1. ReportInv => SeriesAsConfigured
  BY DEF ReportInv
<1> QED
  BY <1>1, InitReport, NextReport, PTL DEF TelSpec

-----------------------------------------------------------------------------
(* In which series                                                         *)

Reported == Len(accepted) - Len(pending)

Increasing(points) == \A i, j \in DOMAIN points : i < j => points[i] < points[j]

\* The pending recordings are the last ones accepted, each has its number as its
\* point, and the series share out the numbers of those reported.
PointsInv ==
  /\ Len(pending) <= Len(accepted)
  /\ \A i \in DOMAIN pending : pending[i] = accepted[Reported + i]
  /\ \A n \in DOMAIN accepted : accepted[n].point = n
  /\ \A s \in series :
       /\ Increasing(s.points)
       /\ \A n \in Points(s) :
            n \in 1..Reported /\ accepted[n].name = s.name /\ accepted[n].method = s.method
  /\ \A n \in 1..Reported : \E s \in series : n \in Points(s)
  /\ \A s, t \in series : s # t => Points(s) \cap Points(t) = {}

\* The points of a series of the pending recordings are the numbers of those with
\* its name and method, in the order of their emission.
LEMMA PointsOfPending ==
  ASSUME ReportInv, PointsInv, NEW id
  PROVE  /\ Increasing(PointsOf(pending, id))
         /\ {PointsOf(pending, id)[i] : i \in DOMAIN PointsOf(pending, id)} =
              {Reported + i : i \in {j \in DOMAIN pending : SeriesId(pending[j]) = id}}
<1> DEFINE T     == {recording \in Elements(pending) : SeriesId(recording) = id}
           group == Only(pending, T)
<1>1. pending \in Seq(Recording) /\ accepted \in Seq(Recording)
  BY DEF ReportInv
<1>2. PICK h : SelectedAt(h, group, pending, T, Len(pending))
  BY <1>1, OnlyIsSubsequence
<1>3. group \in Seq(Recording \cap T)
  BY <1>1, OnlyType
<1>4. PointsOf(pending, id) = [i \in 1..Len(group) |-> group[i].point]
  BY <1>3 DEF PointsOf
<1>5. \A i \in DOMAIN pending : pending[i].point = Reported + i
  BY <1>1 DEF PointsInv, Reported
<1>6. \A i \in DOMAIN pending : pending[i] \in T <=> SeriesId(pending[i]) = id
  BY DEF Elements
<1>7. Len(group) \in Nat /\ Len(pending) \in Nat /\ DOMAIN pending = 1..Len(pending)
      /\ Reported \in Int
  BY <1>1, <1>3 DEF Reported
<1> HIDE DEF group, T
<1>8. \A i \in 1..Len(group) : /\ h[i] \in DOMAIN pending
                               /\ SeriesId(pending[h[i]]) = id
                               /\ PointsOf(pending, id)[i] = Reported + h[i]
  BY <1>2, <1>4, <1>5, <1>6, <1>7 DEF SelectedAt
<1>9. DOMAIN PointsOf(pending, id) = 1..Len(group)
  BY <1>4
<1>10. Increasing(PointsOf(pending, id))
  BY <1>2, <1>7, <1>8, <1>9 DEF SelectedAt, Increasing
<1>11. ASSUME NEW j \in DOMAIN pending, SeriesId(pending[j]) = id
       PROVE  \E i \in 1..Len(group) : PointsOf(pending, id)[i] = Reported + j
  BY <1>2, <1>6, <1>7, <1>8, <1>11 DEF SelectedAt
<1> QED
  BY <1>8, <1>9, <1>10, <1>11

LEMMA EmitPoints ==
  ASSUME ReportInv, PointsInv, NEW metric, NEW method, EmitMetric(metric, method), ReportInv'
  PROVE  PointsInv'
<1>1. accepted \in Seq(Recording) /\ pending \in Seq(Recording)
  BY DEF ReportInv
<1>2. UNCHANGED series
  BY DEF EmitMetric
<1>3. CASE UNCHANGED <<accepted, pending>>
  BY <1>2, <1>3 DEF PointsInv, Reported
<1>4. ASSUME NEW recording, recording.point = Len(accepted) + 1,
             accepted' = Append(accepted, recording), pending' = Append(pending, recording)
      PROVE  PointsInv'
  <2>1. accepted' \in Seq(Recording) /\ pending' \in Seq(Recording)
    BY DEF ReportInv
  <2>2. /\ Len(accepted') = Len(accepted) + 1 /\ Len(pending') = Len(pending) + 1
        /\ accepted'[Len(accepted) + 1] = recording /\ pending'[Len(pending) + 1] = recording
        /\ \A n \in DOMAIN accepted : accepted'[n] = accepted[n]
        /\ \A n \in DOMAIN pending : pending'[n] = pending[n]
    BY <1>1, <1>4, <2>1
  <2>3. /\ Len(accepted) \in Nat /\ Len(pending) \in Nat
        /\ DOMAIN accepted = 1..Len(accepted) /\ DOMAIN pending = 1..Len(pending)
        /\ DOMAIN accepted' = 1..Len(accepted) + 1 /\ DOMAIN pending' = 1..Len(pending) + 1
    BY <1>1, <2>1, <2>2
  <2>4. Reported' = Reported /\ Reported \in Nat
    BY <2>2, <2>3 DEF Reported, PointsInv
  <2>5. \A n \in 1..Reported : n \in DOMAIN accepted
    BY <2>3, <2>4 DEF Reported, PointsInv
  <2>6. \A n \in DOMAIN accepted' : accepted'[n].point = n
    <3>1. \A n \in DOMAIN accepted' : n \in DOMAIN accepted \/ n = Len(accepted) + 1
      BY <2>3
    <3> QED
      BY <1>4, <2>2, <3>1 DEF PointsInv
  <2>7. \A i \in DOMAIN pending' : pending'[i] = accepted'[Reported + i]
    <3> SUFFICES ASSUME NEW i \in DOMAIN pending' PROVE pending'[i] = accepted'[Reported + i]
      OBVIOUS
    <3>1. CASE i \in DOMAIN pending
      <4>1. Reported + i \in DOMAIN accepted
        BY <2>3, <3>1 DEF Reported, PointsInv
      <4> QED
        BY <2>2, <3>1, <4>1 DEF PointsInv
    <3>2. CASE i = Len(pending) + 1
      <4>1. Reported + i = Len(accepted) + 1
        BY <2>3, <3>2 DEF Reported
      <4> QED
        BY <2>2, <3>2, <4>1
    <3> QED
      BY <2>3, <3>1, <3>2
  <2>8. Len(pending') <= Len(accepted')
    BY <2>2, <2>3 DEF PointsInv
  <2>9. \A s \in series' :
          /\ Increasing(s.points)
          /\ \A n \in Points(s) :
               n \in 1..Reported' /\ accepted'[n].name = s.name /\ accepted'[n].method = s.method
    BY <1>2, <2>2, <2>4, <2>5 DEF PointsInv
  <2> QED
    BY <1>2, <2>4, <2>6, <2>7, <2>8, <2>9 DEF PointsInv
<1> QED
  <2>1. CASE Accepts(ExportName(metric))
    BY <1>4, <2>1 DEF EmitMetric
  <2>2. CASE ~Accepts(ExportName(metric))
    BY <1>3, <2>2 DEF EmitMetric
  <2> QED
    BY <2>1, <2>2

LEMMA ReportPoints == ASSUME ReportInv, PointsInv, Report PROVE PointsInv'
<1>1. /\ accepted \in Seq(Recording) /\ pending \in Seq(Recording)
      /\ UNCHANGED accepted /\ pending' = <<>> /\ series' = series \cup TimeSeries(pending)
  BY DEF ReportInv, Report
<1>2. /\ Len(accepted) \in Nat /\ Len(pending) \in Nat /\ Len(pending') = 0
      /\ DOMAIN accepted = 1..Len(accepted) /\ DOMAIN pending = 1..Len(pending)
      /\ Len(pending) <= Len(accepted)
  BY <1>1 DEF PointsInv
<1>3. Reported \in Nat /\ Reported' = Len(accepted) /\ Reported = Len(accepted) - Len(pending)
      /\ Reported' \in Nat /\ Reported <= Reported'
  BY <1>1, <1>2 DEF Reported
<1>4. \A i \in DOMAIN pending : /\ pending[i] = accepted[Reported + i]
                                /\ Reported + i \in 1..Reported' /\ Reported + i \notin 1..Reported
  BY <1>2, <1>3 DEF PointsInv
<1>5. ASSUME NEW s \in TimeSeries(pending)
      PROVE  \E id \in Ids(pending) :
               /\ s.points = PointsOf(pending, id) /\ Increasing(s.points)
               /\ id = <<s.name, s.method>>
               /\ Points(s) =
                    {Reported + i : i \in {j \in DOMAIN pending : SeriesId(pending[j]) = id}}
  <2>1. PICK id \in Ids(pending) :
          /\ s.name = First(pending, id).name /\ s.method = First(pending, id).method
          /\ s.points = PointsOf(pending, id)
    BY DEF TimeSeries
  <2>2. SeriesId(First(pending, id)) = id
    BY DEF Ids, Elements, First
  <2>3. id = <<s.name, s.method>>
    BY <2>1, <2>2 DEF SeriesId
  <2>4. Points(s) = {PointsOf(pending, id)[i] : i \in DOMAIN PointsOf(pending, id)}
    BY <2>1 DEF Points
  <2> QED
    BY <2>1, <2>3, <2>4, PointsOfPending
<1>6. ASSUME NEW s \in TimeSeries(pending)
      PROVE  /\ Increasing(s.points)
             /\ \A n \in Points(s) : /\ n \in 1..Reported' /\ n \notin 1..Reported
                                     /\ accepted[n].name = s.name /\ accepted[n].method = s.method
  <2>1. PICK id \in Ids(pending) :
          /\ Increasing(s.points) /\ id = <<s.name, s.method>>
          /\ Points(s) =
               {Reported + i : i \in {j \in DOMAIN pending : SeriesId(pending[j]) = id}}
    BY <1>5
  <2> QED
    BY <1>4, <2>1 DEF SeriesId
<1>7. ASSUME NEW s \in TimeSeries(pending), NEW t \in TimeSeries(pending), s # t
      PROVE  Points(s) \cap Points(t) = {}
  <2>1. \A u \in TimeSeries(pending) : \E id \in Ids(pending) :
          u = [name |-> First(pending, id).name, method |-> First(pending, id).method,
               unit |-> Unit(First(pending, id).name), tags |-> globalTags,
               points |-> PointsOf(pending, id)]
    BY DEF TimeSeries
  <2>2. ~(s.name = t.name /\ s.method = t.method)
    <3> SUFFICES ASSUME s.name = t.name, s.method = t.method PROVE s = t
      BY <1>7
    <3>1. s.points = t.points
      BY <1>5
    <3> HIDE DEF TimeSeries
    <3> QED
      BY <2>1, <3>1
  <2> QED
    BY <1>6, <2>2
<1>8. ASSUME NEW n \in 1..Reported' PROVE \E s \in series' : n \in Points(s)
  <2>1. CASE n \in 1..Reported
    BY <1>1, <2>1 DEF PointsInv
  <2>2. CASE n \notin 1..Reported
    <3>1. n - Reported \in DOMAIN pending /\ Reported + (n - Reported) = n
      BY <1>2, <1>3, <2>2
    <3> DEFINE id == SeriesId(pending[n - Reported])
    <3>2. id \in Ids(pending)
      BY <3>1 DEF Ids, Elements
    <3> HIDE DEF id
    <3>3. PICK s \in TimeSeries(pending) : s.points = PointsOf(pending, id)
      <4> DEFINE u == [name |-> First(pending, id).name, method |-> First(pending, id).method,
                       unit |-> Unit(First(pending, id).name), tags |-> globalTags,
                       points |-> PointsOf(pending, id)]
      <4>1. u \in TimeSeries(pending)
        BY <3>2 DEF TimeSeries
      <4>2. u.points = PointsOf(pending, id)
        OBVIOUS
      <4> QED
        BY <4>1, <4>2
    <3>4. Points(s) =
            {Reported + i : i \in {j \in DOMAIN pending : SeriesId(pending[j]) = id}}
      BY <3>3, PointsOfPending DEF Points
    <3>5. n \in Points(s)
      BY <3>1, <3>4 DEF id
    <3> QED
      BY <1>1, <3>3, <3>5
  <2> QED
    BY <2>1, <2>2
<1>9. \A s \in series' :
        /\ Increasing(s.points)
        /\ \A n \in Points(s) :
             n \in 1..Reported' /\ accepted'[n].name = s.name /\ accepted'[n].method = s.method
  <2>1. ASSUME NEW s \in series, NEW n \in Points(s)
        PROVE  n \in 1..Reported' /\ accepted[n].name = s.name /\ accepted[n].method = s.method
    <3>1. n \in 1..Reported
      BY DEF PointsInv
    <3> QED
      BY <1>3, <3>1 DEF PointsInv
  <2> QED
    BY <1>1, <1>6, <2>1 DEF PointsInv
<1>10. \A s, t \in series' : s # t => Points(s) \cap Points(t) = {}
  <2>1. ASSUME NEW s \in series, NEW t \in TimeSeries(pending)
        PROVE  Points(s) \cap Points(t) = {}
    BY <1>6 DEF PointsInv
  <2> QED
    BY <1>1, <1>7, <2>1 DEF PointsInv
<1>11. /\ Len(pending') <= Len(accepted')
       /\ \A i \in DOMAIN pending' : pending'[i] = accepted'[Reported' + i]
       /\ \A n \in DOMAIN accepted' : accepted'[n].point = n
  BY <1>1, <1>2 DEF PointsInv
<1> QED
  BY <1>8, <1>9, <1>10, <1>11 DEF PointsInv

LEMMA NextPoints == ReportInv /\ PointsInv /\ [TelNext]_telVars => PointsInv'
<1> SUFFICES ASSUME ReportInv, PointsInv, [TelNext]_telVars PROVE PointsInv'
  OBVIOUS
<1>1. ReportInv'
  BY NextReport
<1>2. CASE EmitDuration \/ EmitRss
  BY <1>1, <1>2, EmitPoints DEF EmitDuration, EmitRss
<1>3. CASE Report
  BY <1>3, ReportPoints
<1>4. CASE SetGlobalTags \/ RegisterMetric \/ OtherStep \/ StartExporter \/ UNCHANGED telVars
  <2>1. UNCHANGED <<accepted, pending, series>>
    BY <1>4 DEF SetGlobalTags, RegisterMetric, OtherStep, StartExporter, telVars, emissionVars
  <2> QED
    BY <2>1 DEF PointsInv, Reported
<1> QED
  BY <1>2, <1>3, <1>4 DEF TelNext

\* For every configuration and any number of emissions, each recording reported is
\* a point of one series, the one with its name and method, and the points of a
\* series are in the order of their emission.
THEOREM EachPointOnce == TelSpec => []PointsInTheirSeries
<1>1. TelInit => PointsInv
  BY DEF TelInit, PointsInv, Reported
<1>2. PointsInv => PointsInTheirSeries
  <2> SUFFICES ASSUME PointsInv PROVE PointsInTheirSeries
    OBVIOUS
  <2>1. ASSUME NEW n \in 1..Reported
        PROVE  \E s \in series : /\ n \in Points(s)
                                 /\ s.name = accepted[n].name /\ s.method = accepted[n].method
                                 /\ \A t \in series \ {s} : n \notin Points(t)
    <3>1. PICK s \in series : n \in Points(s)
      BY DEF PointsInv
    <3> QED
      BY <3>1 DEF PointsInv
  <2> QED
    BY <2>1 DEF PointsInTheirSeries, PointsInv, Increasing, Reported
<1> QED
  BY <1>1, <1>2, InitReport, NextReport, NextPoints, PTL DEF TelSpec

=============================================================================
