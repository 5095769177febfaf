------------------------ MODULE DatadogExporterProofs ------------------------
(***************************************************************************)
(* Theorems about DatadogExporter, for any number of emitters and metrics  *)
(* and any batch size.                                                     *)
(***************************************************************************)
EXTENDS DatadogExporter, FiniteSetTheorems, TLAPS

\* The mutex: its holder is the one emitter inside EmitMetric, which has a new
\* metric in its hands; while it blocks in the send, nobody shuts down.
MutexInv ==
  /\ \A e \in Emitters : em[e] # "idle" => mu = e /\ item[e] \in used \ accepted
  /\ \A e \in Emitters : em[e] = "send" => running
  /\ accepted \subseteq used

\* The life cycle: the flag, the channel, the handler and the owner agree.
LifeInv ==
  /\ running => ~closed /\ owner = "up" /\ handler # "off"
  /\ closed => owner # "up" /\ handler # "off"
  /\ handler = "off" => batch = {} /\ flushing = {} /\ accepted = {}
  /\ handler \in {"flushed", "done"} => closed /\ batch = {}
  /\ handler = "done" => flushing = {}
  /\ Waited => handler \in {"off", "done"}

IInv == TypeOK /\ MutexInv /\ LifeInv /\ EachMetricOnce

NextCases ==
  [Next]_vars <=> \/ \E e \in Emitters : EmitRejected(e) \/ EmitSend(e)
                  \/ \E e \in Emitters, m \in Metrics : EmitLock(e, m)
                  \/ Start \/ Shutdown \/ Wait \/ Release
                  \/ BatchTimeout \/ ChannelClosed \/ HandlerDone
                  \/ \E e \in Emitters : Receive(e)
                  \/ \E b \in flushing : ProcessBatch(b)
                  \/ UNCHANGED vars

LEMMA StepCases == NextCases
  BY DEF NextCases, Next, Emit, OwnerStep, Handle

-----------------------------------------------------------------------------
(* Sets of batches                                                         *)

LEMMA UnionEmpty == UNION {} = {}
  OBVIOUS

LEMMA UnionAdd == \A S, b : UNION (S \cup {b}) = (UNION S) \cup b
  OBVIOUS

\* Taking a batch out of a family of disjoint batches takes out its metrics.
LEMMA UnionRemove ==
  ASSUME NEW S, NEW b \in S, \A c, d \in S : c # d => c \cap d = {}
  PROVE  UNION (S \ {b}) = (UNION S) \ b
  OBVIOUS

\* Accepting a new metric, handing the batch over, settling a batch: the sums
\* still agree.
LEMMA AccountReceive ==
  ASSUME NEW a, NEW b, NEW u, NEW s, NEW f, NEW m, m \notin a, Accounted(a, b, u, s, f)
  PROVE  /\ Accounted(a \cup {m}, b \cup {m}, u, s, f)
         /\ Accounted(a \cup {m}, {}, u \cup (b \cup {m}), s, f)
  BY DEF Accounted
LEMMA AccountFlush ==
  ASSUME NEW a, NEW b, NEW u, NEW s, NEW f, Accounted(a, b, u, s, f)
  PROVE  Accounted(a, {}, u \cup b, s, f)
  BY DEF Accounted
LEMMA AccountSettle ==
  ASSUME NEW a, NEW b, NEW u, NEW s, NEW f, NEW c, c \subseteq u, Accounted(a, b, u, s, f)
  PROVE  Accounted(a, b, u \ c, s \cup c, f) /\ Accounted(a, b, u \ c, s, f \cup c)
  BY DEF Accounted

-----------------------------------------------------------------------------
(* The invariant                                                           *)

LEMMA InitIInv == Init => IInv
<1> SUFFICES ASSUME Init PROVE IInv
  OBVIOUS
<1>1. TypeOK
  BY DEF Init, TypeOK
<1>2. MutexInv /\ LifeInv /\ EachMetricOnce
  BY UnionEmpty DEF Init, MutexInv, LifeInv, EachMetricOnce, DisjointBatches, Accounted
<1> QED
  BY <1>1, <1>2 DEF IInv

LEMMA EmitIInv ==
  ASSUME IInv, NEW e \in Emitters,
         EmitRejected(e) \/ EmitSend(e) \/ \E m \in Metrics : EmitLock(e, m)
  PROVE  IInv'
<1> USE DEF IInv
<1>1. UNCHANGED <<batchVars, accepted, running, closed, handler, owner>>
  BY DEF EmitRejected, EmitSend, EmitLock
<1>2. UNCHANGED <<batch, flushing, submitted, failed>>
  BY <1>1 DEF batchVars
<1>3. EachMetricOnce' /\ LifeInv'
  BY <1>1, <1>2 DEF EachMetricOnce, DisjointBatches, LifeInv, Waited
<1>4. TypeOK'
  BY <1>1, <1>2 DEF TypeOK, EmitRejected, EmitSend, EmitLock
<1>5. MutexInv'
  BY <1>1, NameAssumption DEF TypeOK, MutexInv, EmitRejected, EmitSend, EmitLock
<1> QED
  BY <1>3, <1>4, <1>5

LEMMA OwnerIInv ==
  ASSUME IInv, Start \/ Shutdown \/ Wait \/ Release
  PROVE  IInv'
<1> USE DEF IInv
<1>1. UNCHANGED <<emitVars, batchVars, mu>>
  BY DEF Start, Shutdown, Wait, Release
<1>2. UNCHANGED <<em, item, used, accepted, batch, flushing, submitted, failed>>
  BY <1>1 DEF emitVars, batchVars
<1>3. EachMetricOnce'
  BY <1>2 DEF EachMetricOnce, DisjointBatches
<1>4. TypeOK'
  BY <1>1, <1>2 DEF TypeOK, Start, Shutdown, Wait, Release
<1>5. MutexInv'
  BY <1>1, <1>2, NameAssumption DEF TypeOK, MutexInv, Start, Shutdown, Wait, Release
<1>6. LifeInv'
  BY <1>2 DEF TypeOK, LifeInv, Waited, Start, Shutdown, Wait, Release
<1> QED
  BY <1>3, <1>4, <1>5, <1>6

LEMMA ReceiveIInv ==
  ASSUME IInv, NEW e \in Emitters, Receive(e)
  PROVE  IInv'
<1> USE DEF IInv
<1> DEFINE m == item[e]
<1>1. m \in used \ accepted /\ m \in Metrics /\ mu = e /\ running
  BY DEF Receive, MutexInv, TypeOK
<1>2. \/ batch' = {} /\ flushing' = flushing \cup {batch \cup {m}}
      \/ batch' = batch \cup {m} /\ flushing' = flushing
  BY DEF Receive
<1>3. UNCHANGED <<running, closed, used, handler, submitted, failed, owner>>
  BY DEF Receive
<1>4. /\ accepted' = accepted \cup {m} /\ mu' = None
      /\ em' = [em EXCEPT ![e] = "idle"] /\ item' = [item EXCEPT ![e] = None]
  BY DEF Receive
<1>5. TypeOK'
  BY <1>1, <1>2, <1>3, <1>4 DEF TypeOK
<1>6. MutexInv'
  BY <1>1, <1>3, <1>4 DEF TypeOK, MutexInv
<1>7. LifeInv'
  BY <1>1, <1>2, <1>3, <1>4 DEF LifeInv, Waited, Receive
<1>8. EachMetricOnce'
  <2>1. m \notin accepted /\ Accounted(accepted, batch, UNION flushing, submitted, failed)
    BY <1>1 DEF EachMetricOnce, Accounted
  <2>2. m \notin UNION flushing
    BY <2>1 DEF Accounted
  <2>3. CASE batch' = {} /\ flushing' = flushing \cup {batch \cup {m}}
    <3>1. UNION flushing' = (UNION flushing) \cup (batch \cup {m})
      BY <2>3, UnionAdd
    <3>2. Accounted(accepted \cup {m}, {}, (UNION flushing) \cup (batch \cup {m}), submitted, failed)
      BY <2>1, AccountReceive
    <3>3. \A c \in flushing : c \cap (batch \cup {m}) = {}
      BY <2>1, <2>2 DEF Accounted
    <3>4. DisjointBatches'
      BY <2>3, <3>3 DEF EachMetricOnce, DisjointBatches
    <3> QED
      BY <1>3, <1>4, <2>3, <3>1, <3>2, <3>4 DEF EachMetricOnce
  <2>4. CASE batch' = batch \cup {m} /\ flushing' = flushing
    <3>1. Accounted(accepted \cup {m}, batch \cup {m}, UNION flushing, submitted, failed)
      BY <2>1, AccountReceive
    <3>2. DisjointBatches'
      BY <2>4 DEF EachMetricOnce, DisjointBatches
    <3> QED
      BY <1>3, <1>4, <2>4, <3>1, <3>2 DEF EachMetricOnce
  <2> QED
    BY <1>2, <2>3, <2>4
<1> QED
  BY <1>5, <1>6, <1>7, <1>8

LEMMA FlushIInv ==
  ASSUME IInv, BatchTimeout \/ ChannelClosed \/ HandlerDone
  PROVE  IInv'
<1> USE DEF IInv
<1>1. UNCHANGED <<mu, running, closed, emitVars, submitted, failed, owner>>
  BY DEF BatchTimeout, ChannelClosed, HandlerDone, batchVars
<1>2. UNCHANGED <<em, item, used, accepted>>
  BY <1>1 DEF emitVars
<1>3. \/ batch' = {} /\ flushing' = flushing \cup {batch}
      \/ batch' = batch /\ flushing' = flushing
  BY DEF BatchTimeout, ChannelClosed, HandlerDone, batchVars
<1>4. TypeOK'
  BY <1>1, <1>2, <1>3 DEF TypeOK, BatchTimeout, ChannelClosed, HandlerDone
<1>5. MutexInv'
  BY <1>1, <1>2 DEF MutexInv
<1>6. LifeInv'
  BY <1>1, <1>2 DEF LifeInv, Waited, BatchTimeout, ChannelClosed, HandlerDone, batchVars
<1>7. EachMetricOnce'
  <2>1. Accounted(accepted, batch, UNION flushing, submitted, failed)
    BY DEF EachMetricOnce
  <2>2. CASE batch' = {} /\ flushing' = flushing \cup {batch}
    <3>1. UNION flushing' = (UNION flushing) \cup batch
      BY <2>2, UnionAdd
    <3>2. Accounted(accepted, {}, (UNION flushing) \cup batch, submitted, failed)
      BY <2>1, AccountFlush
    <3>3. \A c \in flushing : c \cap batch = {}
      BY <2>1 DEF Accounted
    <3>4. DisjointBatches'
      BY <2>2, <3>3 DEF EachMetricOnce, DisjointBatches
    <3> QED
      BY <1>1, <1>2, <2>2, <3>1, <3>2, <3>4 DEF EachMetricOnce
  <2>3. CASE batch' = batch /\ flushing' = flushing
    BY <1>1, <1>2, <2>3 DEF EachMetricOnce, DisjointBatches
  <2> QED
    BY <1>3, <2>2, <2>3
<1> QED
  BY <1>4, <1>5, <1>6, <1>7

LEMMA ProcessIInv ==
  ASSUME IInv, NEW b \in flushing, ProcessBatch(b)
  PROVE  IInv'
<1> USE DEF IInv
<1>1. UNCHANGED <<mu, running, closed, emitVars, handler, batch, owner>>
  BY DEF ProcessBatch
<1>2. UNCHANGED <<em, item, used, accepted>>
  BY <1>1 DEF emitVars
<1>3. flushing' = flushing \ {b}
  BY DEF ProcessBatch
<1>4. \/ submitted' = submitted \cup b /\ failed' = failed
      \/ failed' = failed \cup b /\ submitted' = submitted
  BY DEF ProcessBatch
<1>5. TypeOK'
  BY <1>1, <1>2, <1>3, <1>4 DEF TypeOK
<1>6. MutexInv' /\ LifeInv'
  BY <1>1, <1>2, <1>3 DEF MutexInv, LifeInv, Waited
<1>7. EachMetricOnce'
  <2>1. UNION flushing' = (UNION flushing) \ b
    BY <1>3, UnionRemove DEF EachMetricOnce, DisjointBatches
  <2>2. b \subseteq UNION flushing
    OBVIOUS
  <2>3. Accounted(accepted, batch, UNION flushing, submitted, failed)
    BY DEF EachMetricOnce
  <2>4. /\ Accounted(accepted, batch, (UNION flushing) \ b, submitted \cup b, failed)
        /\ Accounted(accepted, batch, (UNION flushing) \ b, submitted, failed \cup b)
    BY <2>2, <2>3, AccountSettle
  <2>5. DisjointBatches'
    BY <1>3 DEF EachMetricOnce, DisjointBatches
  <2> QED
    BY <1>1, <1>2, <1>4, <2>1, <2>4, <2>5 DEF EachMetricOnce
<1> QED
  BY <1>5, <1>6, <1>7

LEMMA NextIInv == IInv /\ [Next]_vars => IInv'
<1> SUFFICES ASSUME IInv, [Next]_vars PROVE IInv'
  OBVIOUS
<1>1. CASE UNCHANGED vars
  BY <1>1 DEF IInv, TypeOK, MutexInv, LifeInv, Waited, EachMetricOnce, DisjointBatches,
         vars, emitVars, batchVars
<1> QED
  BY <1>1, StepCases, EmitIInv, OwnerIInv, ReceiveIInv, FlushIInv, ProcessIInv DEF NextCases

LEMMA IInvInvariant == Spec => []IInv
  BY InitIInv, NextIInv, PTL DEF Spec

\* The variables keep their types; in particular the mutex is always held by an
\* emitter or by nobody when the owner is not in the middle of a call.
THEOREM TypeCorrect == Spec => []TypeOK
<1>1. IInv => TypeOK
  BY DEF IInv
<1> QED
  BY <1>1, IInvInvariant, PTL

\* No EmitMetric sends on a closed channel: the mutex it holds while it blocks
\* in the send keeps Shutdown out.
THEOREM NoPanic == Spec => []NeverPanics
<1>1. IInv => NeverPanics
  BY DEF IInv, MutexInv, LifeInv, NeverPanics
<1> QED
  BY <1>1, IInvInvariant, PTL

\* No metric is lost or sent twice, for any batch size and interleaving of
\* emitters, timer, shutdown and answers of the API.
THEOREM MetricsAccountedFor == Spec => []EachMetricOnce
<1>1. IInv => EachMetricOnce
  BY DEF IInv
<1> QED
  BY <1>1, IInvInvariant, PTL

\* Wait returns only when every metric accepted has been answered.
THEOREM WaitFlushes == Spec => []WaitMeansFlushed
<1>1. IInv => WaitMeansFlushed
  <2> SUFFICES ASSUME IInv, Waited PROVE accepted = submitted \cup failed
    BY DEF WaitMeansFlushed
  <2>1. batch = {} /\ flushing = {}
    BY DEF IInv, TypeOK, LifeInv
  <2>2. accepted = {} \cup {} \cup submitted \cup failed
    BY <2>1, UnionEmpty DEF IInv, EachMetricOnce, Accounted
  <2> QED
    BY <2>2
<1> QED
  BY <1>1, IInvInvariant, PTL

-----------------------------------------------------------------------------
(* Batch sizes                                                             *)

LEMMA InitBounded == Init => BatchesBounded
  BY BatchAssumption, FS_EmptySet DEF Init, BatchesBounded

LEMMA NextBounded == IInv /\ BatchesBounded /\ [Next]_vars => BatchesBounded'
<1> SUFFICES ASSUME IInv, BatchesBounded, [Next]_vars PROVE BatchesBounded'
  OBVIOUS
<1> USE DEF BatchesBounded
<1>1. CASE UNCHANGED <<batch, flushing>>
  BY <1>1
<1>2. ASSUME NEW e \in Emitters, Receive(e) PROVE BatchesBounded'
  <2> DEFINE b == batch \cup {item[e]}
  <2>1. IsFiniteSet(batch) /\ Cardinality(batch) \in Nat
    BY BatchAssumption, FS_Subset, FS_CardinalityType DEF IInv, TypeOK
  <2>2. item[e] \notin batch
    BY <1>2 DEF IInv, MutexInv, EachMetricOnce, Accounted, Receive
  <2>3. Cardinality(b) = Cardinality(batch) + 1
    BY <2>1, <2>2, FS_AddElement
  <2>4. b # {} /\ Cardinality(b) <= BatchSize
    BY <2>1, <2>3, BatchAssumption
  <2>5. CASE Full(b)
    <3>1. batch' = {} /\ flushing' = flushing \cup {b}
      BY <1>2, <2>5 DEF Receive
    <3>2. Cardinality(batch') < BatchSize
      BY <3>1, FS_EmptySet, BatchAssumption
    <3>3. \A c \in flushing' : c # {} /\ Cardinality(c) <= BatchSize
      BY <2>4, <3>1
    <3> QED
      BY <3>2, <3>3
  <2>6. CASE ~Full(b)
    <3>1. batch' = b /\ flushing' = flushing
      BY <1>2, <2>6 DEF Receive
    <3>2. Cardinality(b) < BatchSize
      BY <2>1, <2>3, <2>6, BatchAssumption DEF Full
    <3> QED
      BY <3>1, <3>2
  <2> QED
    BY <2>5, <2>6
<1>3. CASE BatchTimeout \/ ChannelClosed
  <2>1. batch' = {} /\ flushing' \subseteq flushing \cup {c \in {batch} : c # {}}
    BY <1>3 DEF BatchTimeout, ChannelClosed
  <2>2. Cardinality(batch) \in Nat
    BY BatchAssumption, FS_Subset, FS_CardinalityType DEF IInv, TypeOK
  <2> QED
    BY <2>1, <2>2, FS_EmptySet, BatchAssumption
<1>4. ASSUME NEW b \in flushing, ProcessBatch(b) PROVE BatchesBounded'
  BY <1>4 DEF ProcessBatch
<1> QED
  BY <1>1, <1>2, <1>3, <1>4, StepCases
  DEF NextCases, EmitRejected, EmitSend, EmitLock, Start, Shutdown, Wait, Release, HandlerDone, vars,
      batchVars

\* The handler hands a batch over before it would exceed the batch size, and
\* never an empty one, whatever the batch size is.
THEOREM BoundedBatches == Spec => []BatchesBounded
  BY InitBounded, NextBounded, IInvInvariant, PTL DEF Spec

-----------------------------------------------------------------------------
(* The exporter implements the interface                                   *)

LEMMA InitImplements == Init => Contract!Init
  BY UnionEmpty DEF Waited, Init, Contract!Init

\* The variables of the contract, as functions of those of the exporter.
Phase   == IF running THEN "running" ELSE IF closed THEN "closed" ELSE "new"
Held    == batch \cup UNION flushing
Settled == submitted \cup failed
Released == owner = "released"
SameContract == Phase' = Phase /\ Held' = Held /\ Settled' = Settled /\ Waited' = Waited
                /\ Released' = Released

LEMMA SameIsStutter == SameContract => UNCHANGED Contract!vars
  BY DEF SameContract, Phase, Held, Settled, Waited, Released, Contract!vars

LEMMA NextImplements == IInv /\ BatchesBounded /\ [Next]_vars => [Contract!Next]_(Contract!vars)
<1> SUFFICES ASSUME IInv, BatchesBounded, [Next]_vars
             PROVE  Contract!Next \/ SameContract
  BY SameIsStutter
<1> USE DEF Phase, Held, Settled, Waited, Released
<1>1. CASE UNCHANGED <<running, closed, batch, flushing, submitted, failed, owner>>
  BY <1>1 DEF SameContract
<1>2. CASE Start
  <2>1. Contract!Start
    BY <1>2 DEF Start, Contract!Start, IInv, LifeInv, batchVars
  <2> QED
    BY <2>1 DEF Contract!Next
<1>3. CASE Shutdown
  <2>1. CASE running
    <3>1. UNCHANGED <<batch, flushing, submitted, failed>> /\ closed' /\ ~running'
      BY <1>3, <2>1 DEF Shutdown, batchVars
    <3>2. UNCHANGED <<Waited, Released>>
      BY <1>3 DEF Shutdown, Waited
    <3>3. Contract!Shutdown
      BY <2>1, <3>1, <3>2 DEF Contract!Shutdown
    <3> QED
      BY <3>3 DEF Contract!Next
  <2>2. CASE ~running
    BY <1>3, <2>2 DEF Shutdown, SameContract, batchVars, IInv, TypeOK
  <2> QED
    BY <2>1, <2>2
<1>4. CASE Wait
  <2>1. batch = {} /\ flushing = {} /\ ~running
    BY <1>4 DEF Wait, IInv, LifeInv
  <2>2. Contract!Wait
    BY <1>4, <2>1, UnionEmpty DEF Wait, Contract!Wait, batchVars
  <2> QED
    BY <2>2 DEF Contract!Next
<1>5. ASSUME NEW e \in Emitters, Receive(e) PROVE Contract!Next
  <2> DEFINE m == item[e]
  <2>1. m \in Metrics /\ m \notin Held \cup Settled /\ running
    BY <1>5 DEF Receive, IInv, MutexInv, TypeOK, EachMetricOnce, Accounted
  <2>2. Held' = Held \cup {m}
    <3>1. CASE batch' = {} /\ flushing' = flushing \cup {batch \cup {m}}
      <4>1. UNION flushing' = (UNION flushing) \cup (batch \cup {m})
        BY <3>1, UnionAdd
      <4> QED
        BY <3>1, <4>1
    <3>2. CASE batch' = batch \cup {m} /\ flushing' = flushing
      BY <3>2
    <3> QED
      BY <1>5, <3>1, <3>2 DEF Receive
  <2>3. UNCHANGED <<running, closed, submitted, failed, owner>>
    BY <1>5 DEF Receive
  <2>4. Contract!EmitMetric(m)
    BY <2>1, <2>2, <2>3 DEF Contract!EmitMetric
  <2> QED
    BY <2>1, <2>4 DEF Contract!Next
<1>6. CASE BatchTimeout \/ ChannelClosed
  <2>1. flushing' = flushing \cup {batch} \/ (batch = {} /\ flushing' = flushing)
    BY <1>6 DEF BatchTimeout, ChannelClosed
  <2>2. batch' = {} /\ UNCHANGED <<running, closed, submitted, failed, owner>>
    BY <1>6 DEF BatchTimeout, ChannelClosed
  <2>3. Held' = Held
    BY <2>1, <2>2, UnionAdd
  <2> QED
    BY <2>2, <2>3 DEF SameContract
<1>7. ASSUME NEW b \in flushing, ProcessBatch(b) PROVE Contract!Next
  <2>1. UNION flushing' = (UNION flushing) \ b
    BY <1>7, UnionRemove DEF ProcessBatch, IInv, EachMetricOnce, DisjointBatches
  <2>2. b # {} /\ b \subseteq Held /\ batch \cap b = {}
    BY DEF BatchesBounded, IInv, EachMetricOnce, Accounted
  <2>3. UNCHANGED <<running, closed, batch, owner>>
    BY <1>7 DEF ProcessBatch
  <2>4. Held' = Held \ b
    BY <2>1, <2>2, <2>3
  <2>5. Settled' = Settled \cup b
    BY <1>7 DEF ProcessBatch
  <2>6. Contract!Settle(b)
    BY <2>2, <2>3, <2>4, <2>5 DEF Contract!Settle
  <2> QED
    BY <2>2, <2>6 DEF Contract!Next
<1>8. CASE Release
  <2>1. Contract!Release
    BY <1>8 DEF Release, Contract!Release, batchVars
  <2> QED
    BY <2>1 DEF Contract!Next
<1> QED
  BY <1>1, <1>2, <1>3, <1>4, <1>5, <1>6, <1>7, <1>8, StepCases
  DEF NextCases, EmitRejected, EmitSend, EmitLock, HandlerDone, vars, batchVars

\* The Datadog exporter keeps what the interface MetricsExporter promises:
\* EmitMetric is accepted between Start and Shutdown only, and Wait returns
\* when nothing is held any more.
THEOREM ImplementsContract == Spec => Implements
<1>1. Init => Contract!Init
  BY InitImplements
<1> QED
  BY <1>1, NextImplements, IInvInvariant, BoundedBatches, PTL DEF Spec, Implements, Contract!Spec

=============================================================================
