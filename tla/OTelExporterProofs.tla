------------------------- MODULE OTelExporterProofs -------------------------
(***************************************************************************)
(* Theorems about OTelExporter, for every set of metrics and protocols and *)
(* whether or not exports fail.                                            *)
(***************************************************************************)
EXTENDS OTelExporter, TLAPS

\* An export carries something only while it is under way; the last one, and the
\* closing of the reader, come after Shutdown, which fixed what was due.
ReaderInv ==
  /\ ~running => reader = "off"
  /\ reader \notin {"export", "last"} => exporting = {}
  /\ reader \in {"last", "closed"} => stopping
  /\ stopping => owner # "up"
  /\ due \subseteq accepted

\* From the last collection on nothing that was due waits to be collected, but
\* for what a failing last export puts back.
FlushInv ==
  /\ reader = "last" => due \cap pending = {}
  /\ reader = "closed" /\ ~lastFailed => due \cap pending = {}

IInv == ReaderInv /\ EachMetricOnce /\ FlushInv

LEMMA InitInv == Init => IInv
  BY DEF Init, IInv, ReaderInv, EachMetricOnce, FlushInv

LEMMA OwnerSteps ==
  ASSUME IInv, Start \/ Shutdown \/ Deadline \/ Wait \/ Release
                 \/ ProviderShutdown
  PROVE  IInv'
<1> USE DEF IInv, ReaderInv, EachMetricOnce, FlushInv, dataVars
<1>1. CASE Start
  BY <1>1 DEF Start
<1>2. CASE Shutdown
  BY <1>2 DEF Shutdown
<1>3. CASE Deadline
  BY <1>3 DEF Deadline
<1>4. CASE Wait
  BY <1>4 DEF Wait
<1>5. CASE Release
  BY <1>5 DEF Release
<1>6. CASE ProviderShutdown
  BY <1>6 DEF ProviderShutdown
<1> QED
  BY <1>1, <1>2, <1>3, <1>4, <1>5, <1>6

LEMMA DataSteps ==
  ASSUME IInv, (\E m \in Metrics : EmitMetric(m)) \/ Collect \/ Export PROVE IInv'
<1> USE DEF IInv, ReaderInv, EachMetricOnce, FlushInv
<1>1. CASE \E m \in Metrics : EmitMetric(m)
  BY <1>1 DEF EmitMetric
<1>2. CASE Collect
  BY <1>2 DEF Collect
<1>3. CASE Export /\ ExportDone
  BY <1>3 DEF Export, ExportDone
<1>4. CASE Export /\ ExportFails
  BY <1>4 DEF Export, ExportFails
<1> QED
  BY <1>1, <1>2, <1>3, <1>4 DEF Export

LEMMA StepInv == IInv /\ [Next]_vars => IInv'
<1> SUFFICES ASSUME IInv, [Next]_vars PROVE IInv'
  OBVIOUS
<1>1. CASE UNCHANGED vars
  BY <1>1 DEF IInv, ReaderInv, EachMetricOnce, FlushInv, vars, dataVars
<1> QED
  BY <1>1, OwnerSteps, DataSteps DEF Next

\* An accepted metric is in one place, exported once or lost in one failed export,
\* in every run of the exporter.
THEOREM MetricsAccountedFor == Spec => []EachMetricOnce
<1>1. IInv => EachMetricOnce
  BY DEF IInv
<1> QED
  BY <1>1, InitInv, StepInv, PTL DEF Spec

\* A shutdown of the provider whose last export went well leaves nothing behind of
\* what was accepted before Shutdown.
THEOREM FlushOnShutdown == Spec => []ShutdownFlushes
<1>1. IInv => ShutdownFlushes
  BY DEF IInv, ReaderInv, EachMetricOnce, FlushInv, ShutdownFlushes
<1> QED
  BY <1>1, InitInv, StepInv, PTL DEF Spec

-----------------------------------------------------------------------------
(* Types                                                                   *)

LEMMA InitTypes == Init => TypeOK
  BY FailAssumption DEF Init, TypeOK

LEMMA OwnerTypes ==
  ASSUME TypeOK, Start \/ Shutdown \/ Deadline \/ Wait \/ Release \/ ProviderShutdown
  PROVE  TypeOK'
<1>1. UNCHANGED <<protocol, pending, exporting, delivered, lost, lastFailed, accepted>>
  BY DEF Start, Shutdown, Deadline, Wait, Release, ProviderShutdown, dataVars
<1>2. CASE Start
  BY <1>1, <1>2 DEF TypeOK, Start
<1>3. CASE Shutdown
  BY <1>1, <1>3 DEF TypeOK, Shutdown
<1>4. CASE Deadline
  BY <1>1, <1>4 DEF TypeOK, Deadline
<1>5. CASE Wait \/ Release
  BY <1>1, <1>5 DEF TypeOK, Wait, Release
<1>6. CASE ProviderShutdown
  BY <1>1, <1>6 DEF TypeOK, ProviderShutdown
<1> QED
  BY <1>2, <1>3, <1>4, <1>5, <1>6

LEMMA DataTypes ==
  ASSUME TypeOK, (\E m \in Metrics : EmitMetric(m)) \/ Collect \/ Export
  PROVE  TypeOK'
<1>1. CASE \E m \in Metrics : EmitMetric(m)
  BY <1>1 DEF TypeOK, EmitMetric
<1>2. CASE Collect
  BY <1>2 DEF TypeOK, Collect
<1>3. CASE Export /\ ExportDone
  BY <1>3 DEF TypeOK, Export, ExportDone
<1>4. CASE Export /\ ExportFails
  BY <1>4 DEF TypeOK, Export, ExportFails
<1> QED
  BY <1>1, <1>2, <1>3, <1>4 DEF Export

\* The variables keep their types, and an exporter that runs has a provider for
\* Shutdown to shut down.
THEOREM TypeCorrect == Spec => []TypeOK
<1>1. TypeOK /\ [Next]_vars => TypeOK'
  <2> SUFFICES ASSUME TypeOK, [Next]_vars PROVE TypeOK'
    OBVIOUS
  <2>1. CASE UNCHANGED vars
    BY <2>1 DEF TypeOK, vars, dataVars
  <2> QED
    BY <2>1, OwnerTypes, DataTypes DEF Next
<1> QED
  BY <1>1, InitTypes, PTL DEF Spec

=============================================================================
