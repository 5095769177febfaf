----------------------------- MODULE MCLspwatch -----------------------------
(* Small instances of Lspwatch for TLC.                                    *)
EXTENDS Lspwatch

Req(i, m) == [id |-> i, method |-> m, ok |-> TRUE]
Note(m)   == [id |-> None, method |-> m, ok |-> TRUE]

MCIds     == {"1", "2"}
MCMethods == {"hover", "exit"}
MCKeyOf   == [i \in MCIds |-> i]

\* A metered request and the exit notification; two requests, with which the
\* listeners meet in the request buffer, and exit.
MCClientMsgs == {Req("1", "hover"), Note("exit")}
MCTwoRequests == MCClientMsgs \cup {Req("2", "hover")}

\* A notification, which the server's stdin holds one of, and exit.
MCNotes == {Note("hover"), Note("exit")}

\* The output of a one-time command.
MCOutput == {[id |-> None, method |-> None, ok |-> FALSE, re |-> None]}

\* A notification of the server.
MCServerNote == {[id |-> None, method |-> "hover", ok |-> TRUE, re |-> None]}

=============================================================================
