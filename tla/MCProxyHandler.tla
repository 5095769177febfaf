--------------------------- MODULE MCProxyHandler ---------------------------
(* Small instances of ProxyHandler for TLC.                                *)
EXTENDS ProxyHandler

Req(i, m) == [id |-> i, method |-> m, ok |-> TRUE]
Note(m)   == [id |-> None, method |-> m, ok |-> TRUE]
Bad       == [id |-> None, method |-> None, ok |-> FALSE]
Say(i, m, o) == [id |-> i, method |-> m, ok |-> o, re |-> None]

MCIds     == {"1", "2"}
MCMethods == {"hover", "rename", "exit"}
MCMetered == {"hover"}

\* Ids that UnmarshalJSON keeps apart.
MCKeyOf == [i \in MCIds |-> i]

\* A metered and an unmetered request, an exit and a message that is no LSP.
MCClientMsgs == {Req("1", "hover"), Req("2", "rename"), Note("exit"), Bad}

\* Plain text, and a request of the server with an id the client uses too.
MCOutput == {Say(None, None, FALSE)}
MCRequestsOfServer == {Say("1", "rename", TRUE)}

=============================================================================
