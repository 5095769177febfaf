------------------------------ MODULE Startup ------------------------------
(***************************************************************************)
(* How lspwatch comes up: the cobra command (cmd/root.go), which calls     *)
(* NewLspwatchInstance and then Run (internal/lspwatch.go) up to the start *)
(* of the components, with the configuration (internal/config/config.go)   *)
(* and the constructors of the exporters, the proxy handler and the server *)
(* watcher.  The steps are those of one goroutine, each of which the       *)
(* machine may make fail; what is checked is that the checks made in one   *)
(* file cover what the code of another relies on.                          *)
(*                                                                         *)
(* A configuration is what the YAML decodes to.  In a section, `dest' says *)
(* whether the directory or endpoint its protocol needs is given, `keys'   *)
(* whether both API keys are.                                              *)
(***************************************************************************)
EXTENDS Integers

CONSTANTS
  Files,  \* configurations that --config may name
  Flags,  \* values of --mode; "" is the default
  None    \* a field or section that is absent, no --config

Otel    == [protocol : {"grpc", "http", "file", "other"}, dest : BOOLEAN, insecure : BOOLEAN,
            gzip : BOOLEAN, timeout : Int \cup {None}]
Datadog == [keys : BOOLEAN, batchSize : Int \cup {None}]

ASSUME NoneAssumption == None \notin Otel \cup Datadog
ASSUME FilesAssumption ==
  \A f \in Files : /\ f.env \in {"none", "loads", "missing"}
                   /\ f.polling \in Int \cup {None}
                   /\ f.otel \in Otel \cup {None} /\ f.datadog \in Datadog \cup {None}
                   /\ f.project \in BOOLEAN

VARIABLES
  file, mode,     \* the arguments of lspwatch
  logDir,         \* a log directory is given
  step,           \* the step to be made next; "running": all components started
  outcome,        \* "none", "exit0", "exit1" or "panic"
  logger,         \* there is a logger
  cfg,            \* the configuration in force
  options,        \* options given to the OTLP client
  lspEnabled,     \* metrics enabled in the registry of the proxy handler
  serverEnabled,  \* metrics enabled in the registry of the server watcher
  serverUp        \* the server process has been started

args == <<file, mode, logDir>>
vars == <<args, step, outcome, logger, cfg, options, lspEnabled, serverEnabled, serverUp>>

Init ==
  /\ file \in Files \cup {None} /\ mode \in Flags /\ logDir \in BOOLEAN
  /\ step = "log" /\ outcome = "none" /\ logger = FALSE
  /\ cfg = None /\ options = {} /\ lspEnabled = {} /\ serverEnabled = {}
  /\ serverUp = FALSE

\* A step that ends lspwatch.  The cobra command exits with 1 when the instance
\* cannot be created; the error that Run returns is ignored, and lspwatch ends
\* with 0.
Ends(how) ==
  /\ outcome' = how
  /\ UNCHANGED <<args, step, logger, cfg, options, lspEnabled, serverEnabled, serverUp>>

At(here)   == step = here /\ outcome = "none"
Goto(next) == step' = next /\ UNCHANGED <<args, outcome>>

-----------------------------------------------------------------------------
(* The configuration                                                       *)

DefaultConfig ==
  [exporter |-> "opentelemetry", env |-> "none", metrics |-> None, tags |-> {},
   project |-> FALSE, polling |-> None, datadog |-> None,
   otel |-> [protocol |-> "file", dest |-> TRUE, insecure |-> FALSE, gzip |-> FALSE,
             timeout |-> None]]

AvailableTags  == {"os", "language_server", "user", "ram"}
LspMetrics     == {"request.duration"}
ServerMetrics  == {"server.rss"}
Between(v, lo, hi) == v = None \/ v \in lo..hi

\* The `validate' tags.  A section that is present is checked even if another
\* exporter is chosen.
ValidOtel(o)    == o.protocol \in {"grpc", "http", "file"} /\ o.dest
ValidDatadog(d) == d.keys /\ Between(d.batchSize, 1, 500)
ValidFields(c) ==
  /\ c.exporter \in {"opentelemetry", "datadog"}
  /\ c.metrics # None => c.metrics \subseteq LspMetrics \cup ServerMetrics
  /\ c.tags \subseteq AvailableTags
  /\ c.otel # None => ValidOtel(c.otel)
  /\ c.datadog # None => ValidDatadog(c.datadog)

\* Mutant: polling_interval is only checked from above.
Valid_NoLowerBound(c) ==
  /\ ValidFields(c)
  /\ Between(c.polling, 0, 1000)
  /\ c.exporter = "opentelemetry" => c.otel # None
  /\ c.exporter = "datadog" => c.datadog # None

\* Mutant: the section of the chosen exporter may be absent.
Valid_NoSection(c) == ValidFields(c) /\ Between(c.polling, 1, 1000)

Valid(c) ==
  /\ ValidFields(c)
  /\ Between(c.polling, 1, 1000)
  /\ c.exporter = "opentelemetry" => c.otel # None
  /\ c.exporter = "datadog" => c.datadog # None

-----------------------------------------------------------------------------
(* NewLspwatchInstance                                                     *)

\* Without a directory CreateLogger cannot fail.  With one it may: the directory
\* cannot be looked at or made, or the file not be opened.  It then returns no
\* logger, on which Error is called.
CreateLogger ==
  /\ At("log")
  /\ \/ /\ logger' = TRUE
        /\ Goto("config")
        /\ UNCHANGED <<cfg, options, lspEnabled, serverEnabled, serverUp>>
     \/ logDir /\ Ends("panic")

\* getConfig: the file may be unreadable or not YAML.
GetConfig ==
  /\ At("config")
  /\ \/ /\ file = None
        /\ cfg' = DefaultConfig
        /\ Goto("exporter")
        /\ UNCHANGED <<logger, options, lspEnabled, serverEnabled, serverUp>>
     \/ /\ file # None /\ Valid(file) /\ file.env # "missing"
        /\ cfg' = file
        /\ Goto("exporter")
        /\ UNCHANGED <<logger, options, lspEnabled, serverEnabled, serverUp>>
     \/ file # None /\ Ends("exit1")

\* The options of newOTLPMetricsGRPCExporter and newOTLPMetricsHTTPExporter; the
\* latter makes the option for the timeout and drops it.
ClientOptions(o) ==
  {"endpoint", "headers"}
    \cup (IF o.insecure THEN {"insecure"} ELSE {"tls"})
    \cup {x \in {"timeout"} : o.protocol = "grpc" /\ o.timeout # None}
    \cup {x \in {"gzip"} : o.gzip}

\* A constructor fails if the log file cannot be made; that of OTel also over the
\* metrics file, the certificates, the description of the resource or the client.
ConstructorMayFail == logDir \/ cfg.exporter = "opentelemetry"

\* newMetricsExporter: the constructors dereference their section.
Section == IF cfg.exporter = "datadog" THEN cfg.datadog ELSE cfg.otel

NewExporter ==
  /\ At("exporter")
  /\ \/ /\ cfg.exporter \in {"opentelemetry", "datadog"}
        /\ IF Section = None THEN Ends("panic")
           ELSE /\ options' = IF cfg.exporter = "opentelemetry" /\ cfg.otel.protocol \in {"grpc", "http"}
                              THEN ClientOptions(cfg.otel) ELSE {}
                /\ Goto("tags")
                /\ UNCHANGED <<logger, cfg, lspEnabled, serverEnabled, serverUp>>
     \/ /\ cfg.exporter \in {"opentelemetry", "datadog"} => Section # None /\ ConstructorMayFail
        /\ Ends("exit1")

GetTagValues ==
  /\ At("tags")
  /\ IF cfg.tags \subseteq AvailableTags
     THEN Goto("proxy") /\ UNCHANGED <<logger, cfg, options, lspEnabled, serverEnabled, serverUp>>
     ELSE Ends("exit1")

\* Mutant: an empty list is taken for an absent one.
ToEnable_EmptyIsDefault(default) == IF cfg.metrics \in {None, {}} THEN default ELSE cfg.metrics

\* enableMetrics of both components: without `metrics' the own metric, otherwise
\* every metric listed.
ToEnable(default) == IF cfg.metrics = None THEN default ELSE cfg.metrics

\* EnableMetric returns an error for a metric that the registry does not have.
CanEnable(default, registered) == ToEnable(default) \subseteq registered

NewProxyHandler ==
  /\ At("proxy")
  /\ IF mode \in {"command", "proxy", ""} /\ CanEnable({"request.duration"}, LspMetrics)
     THEN /\ lspEnabled' = ToEnable({"request.duration"})
          /\ Goto("watcher")
          /\ UNCHANGED <<logger, cfg, options, serverEnabled, serverUp>>
     ELSE Ends("exit1")

NewServerWatcher ==
  /\ At("watcher")
  /\ IF CanEnable({"server.rss"}, ServerMetrics)
     THEN /\ serverEnabled' = ToEnable({"server.rss"})
          /\ Goto("start")
          /\ UNCHANGED <<logger, cfg, options, lspEnabled, serverUp>>
     ELSE Ends("exit1")

-----------------------------------------------------------------------------
(* Run, up to its loop                                                     *)

\* serverCmd.Start fails if there is no such command.
StartServer ==
  /\ At("start")
  /\ \/ /\ serverUp' = TRUE
        /\ Goto("handle")
        /\ UNCHANGED <<logger, cfg, options, lspEnabled, serverEnabled>>
     \/ Ends("exit0")

\* NewDefaultProcessHandle fails if the server is gone already, or cannot be
\* looked at; it is then left to itself.
NewProcessHandle ==
  /\ At("handle")
  /\ \/ /\ Goto("components")
        /\ UNCHANGED <<logger, cfg, options, lspEnabled, serverEnabled, serverUp>>
     \/ Ends("exit0")

\* serverWatcher.Start: time.NewTicker panics on an interval that is not positive.
StartComponents ==
  /\ At("components")
  /\ IF Between(cfg.polling, 1, 1000)
     THEN Goto("running") /\ UNCHANGED <<logger, cfg, options, lspEnabled, serverEnabled, serverUp>>
     ELSE Ends("panic")

Next ==
  \/ CreateLogger \/ GetConfig \/ NewExporter \/ GetTagValues \/ NewProxyHandler
  \/ NewServerWatcher \/ StartServer \/ NewProcessHandle \/ StartComponents

Spec == Init /\ [][Next]_vars

-----------------------------------------------------------------------------
(* Properties                                                              *)

\* The variables have their types; a registry enables only metrics it has.
TypeOK ==
  /\ file \in Files \cup {None} /\ mode \in Flags /\ logDir \in BOOLEAN
  /\ cfg \in Files \cup {DefaultConfig, None}
  /\ step \in {"log", "config", "exporter", "tags", "proxy", "watcher", "start", "handle",
               "components", "running"}
  /\ outcome \in {"none", "exit0", "exit1", "panic"}
  /\ logger \in BOOLEAN /\ serverUp \in BOOLEAN
  /\ options \subseteq {"endpoint", "headers", "insecure", "tls", "timeout", "gzip"}
  /\ lspEnabled \subseteq LspMetrics /\ serverEnabled \subseteq ServerMetrics

\* What the constructors and the ticker rely on is what the validation lets pass:
\* no configuration makes lspwatch panic, only a log that cannot be created does.
OnlyLogPanics == outcome = "panic" => ~logger /\ logDir

\* Whatever fails during the start fails before the server process is started, so
\* that none is left behind, but for the look at the process (line 83 of
\* lspwatch.go), after which lspwatch ends with 0 and leaves the server running.
FailedStartLeavesNoServer == outcome # "none" /\ serverUp => step = "handle"

\* When the components run, the metrics enabled are those configured, all of them
\* if the configuration names none, and none if its list is empty.
EnabledAsConfigured ==
  step = "running" =>
    lspEnabled \cup serverEnabled =
      IF cfg.metrics = None THEN LspMetrics \cup ServerMetrics ELSE cfg.metrics

\* A configuration that passed the validation is not rejected later for the
\* metrics it lists.
ListedMetricsAccepted ==
  outcome = "exit1" /\ cfg # None /\ mode \in {"command", "proxy", ""}
    => step \notin {"proxy", "watcher"}

=============================================================================
