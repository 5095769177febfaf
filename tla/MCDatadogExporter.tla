-------------------------- MODULE MCDatadogExporter --------------------------
(* Small instances of DatadogExporter for TLC.                             *)
EXTENDS DatadogExporter, TLC

Symmetry == Permutations(Metrics) \cup Permutations(Emitters)

=============================================================================
