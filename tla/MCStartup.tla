------------------------------ MODULE MCStartup ------------------------------
(* Instances of Startup for TLC: each field takes the values that the code   *)
(* treats differently, on both sides of every bound.                         *)
EXTENDS Startup

OtelSection(protocol, dest, timeout) ==
  [protocol |-> protocol, dest |-> dest, insecure |-> FALSE, gzip |-> dest, timeout |-> timeout]
MCOtel == {OtelSection("grpc", TRUE, 3), OtelSection("http", TRUE, 3),
           OtelSection("file", FALSE, None), OtelSection("other", TRUE, None)}
MCDatadog == [keys : BOOLEAN, batchSize : {None, 0, 500}]

\* A project is named in the configurations without a polling interval.
MCFiles ==
 {f \in
  [exporter : {"opentelemetry", "datadog", "stdout"}, env : {"none", "missing"},
   metrics : {None, {}, {"request.duration"}, {"server.rss"},
              {"request.duration", "server.rss"}, {"server.cpu"}},
   tags : {{}, {"os", "user"}, {"shell"}}, project : BOOLEAN, polling : {None, 0, 1, 1000, 1001},
   otel : MCOtel \cup {None}, datadog : MCDatadog \cup {None}] :
  f.project = (f.polling = None)}
MCFlags == {"", "command", "proxy", "daemon"}

=============================================================================
