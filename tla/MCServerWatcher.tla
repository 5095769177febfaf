--------------------------- MODULE MCServerWatcher ---------------------------
(* ServerWatcher has finitely many states: its instances differ only in    *)
(* the flags the .cfg files set.                                           *)
EXTENDS ServerWatcher

=============================================================================
