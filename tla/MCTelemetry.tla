---------------------------- MODULE MCTelemetry ----------------------------
(* The instances of Telemetry for TLC, with the configurations of MCStartup. *)
EXTENDS Telemetry, MCStartup

MCMethods == {"hover", "rename"}

=============================================================================
