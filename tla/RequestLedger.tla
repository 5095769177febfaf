---------------------------- MODULE RequestLedger ----------------------------
(***************************************************************************)
(* What the proxy handler promises about request.duration: a ledger of the *)
(* requests under way, kept in one place, in which a request is entered    *)
(* and an answer strikes it out and, in the same step, yields its metric.  *)
(* The two listeners of internal/core/proxy.go do this in many steps and   *)
(* over a map without a lock; module ProxyHandler implements this one as   *)
(* long as they have not met in the map (`raced').                         *)
(***************************************************************************)
EXTENDS Sequences

CONSTANTS
  Ids,      \* what the ledger tells requests apart by
  Methods,  \* LSP methods
  Metered,  \* the methods whose duration is wanted
  Enabled,  \* is request.duration enabled?
  None      \* no request under the id

VARIABLES
  waiting,    \* the method of the request under way with an id, or None
  durations,  \* methods of the metrics emitted
  raced       \* the listeners have met in the map: entries may be lost

ledgerVars == <<waiting, durations, raced>>

Init ==
  /\ waiting = [id \in Ids |-> None]
  /\ durations = <<>>
  /\ raced = FALSE

\* Any step of a listener may be the one that meets the other.
MayRace == raced' \in {raced, TRUE}

\* A request is entered where none is under way.
Request(id, m) ==
  /\ waiting[id] = None \/ raced'
  /\ waiting' = [waiting EXCEPT ![id] = m]
  /\ MayRace
  /\ UNCHANGED durations

\* An answer strikes the request out, and its duration is emitted if wanted.
Answer(id, m) ==
  /\ waiting[id] = m \/ raced
  /\ waiting' = [waiting EXCEPT ![id] = None]
  /\ durations' = IF m \in Metered /\ Enabled THEN Append(durations, m) ELSE durations
  /\ MayRace

Race ==
  /\ raced' = TRUE
  /\ UNCHANGED <<waiting, durations>>

Next == Race \/ \E id \in Ids, m \in Methods : Request(id, m) \/ Answer(id, m)

Spec == Init /\ [][Next]_ledgerVars

=============================================================================
