--------------------------- MODULE MetricsExporter ---------------------------
(***************************************************************************)
(* What the interface MetricsExporter (internal/telemetry/metrics.go, with *)
(* its comments) promises to the rest of lspwatch.  An emitted metric is   *)
(* accepted, held for a while, and settled: handed to the backend, whether *)
(* the backend takes it or answers with an error.                          *)
(***************************************************************************)
CONSTANT Metrics   \* the metric recordings that can be emitted

VARIABLES
  phase,    \* "new", "running" after Start, "closed" after Shutdown
  held,     \* metrics accepted and not settled yet
  settled,  \* metrics settled
  waited,   \* Wait has returned
  released  \* Release has been called

vars == <<phase, held, settled, waited, released>>

Init == phase = "new" /\ held = {} /\ settled = {} /\ waited = FALSE /\ released = FALSE

Start ==
  /\ phase = "new"
  /\ phase' = "running"
  /\ UNCHANGED <<held, settled, waited, released>>

\* Outside "running" EmitMetric returns an error and accepts nothing.
EmitMetric(m) ==
  /\ phase = "running"
  /\ m \notin held \cup settled
  /\ held' = held \cup {m}
  /\ UNCHANGED <<phase, settled, waited, released>>

Settle(batch) ==
  /\ batch # {}
  /\ held' = held \ batch
  /\ settled' = settled \cup batch
  /\ UNCHANGED <<phase, waited, released>>

Shutdown ==
  /\ phase = "running"
  /\ phase' = "closed"
  /\ UNCHANGED <<held, settled, waited, released>>

\* "Blocks until the exporter has flushed all held metrics and shut down."
Wait ==
  /\ phase # "running"
  /\ held = {}
  /\ waited' = TRUE
  /\ UNCHANGED <<phase, held, settled, released>>

\* "Frees any resources (should be called after Wait)"
Release ==
  /\ waited
  /\ released' = TRUE
  /\ UNCHANGED <<phase, held, settled, waited>>

Next ==
  \/ Start \/ Shutdown \/ Wait \/ Release
  \/ \E m \in Metrics : EmitMetric(m)
  \/ \E batch \in SUBSET held : Settle(batch)

Spec == Init /\ [][Next]_vars

=============================================================================
