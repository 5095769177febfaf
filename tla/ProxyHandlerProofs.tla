------------------------- MODULE ProxyHandlerProofs -------------------------
(***************************************************************************)
(* Theorems about ProxyHandler, for any number of messages, ids and        *)
(* methods, any room in the server's stdin and every mode.                 *)
(***************************************************************************)
EXTENDS ProxyHandler, FiniteSetTheorems, SequenceFilterProofs, TLAPS

\* A goroutine that works on a message has one, of the kind that brought it
\* there; TypeOK alone is not inductive, as it does not say so.
Working ==
  /\ lc \in {"offerSwitch", "closePass", "divert", "awaitConfirm", "register", "forward"}
       => lcMsg \in ClientMsg
  /\ lc = "register" => IsRequest(lcMsg)
  /\ dv \in {"route", "first", "second"} => dvMsg \in ServerMsg
  /\ pt = "write" => ptMsg \in ServerMsg
  /\ ls \in {"lookup", "delete", "emit", "forward"} => lsMsg \in ServerMsg
  /\ ls \in {"lookup", "delete"} => IsResponse(lsMsg)
  /\ ls \in {"delete", "emit"} => lsMethod # None

TypeInv == TypeOK /\ Working

-----------------------------------------------------------------------------
(* Type correctness                                                        *)

LEMMA InitTypeInv == Init => TypeInv
<1> SUFFICES ASSUME Init PROVE TypeInv
  OBVIOUS
<1>1. ClientTypeOK
  BY DEF Init, ClientTypeOK
<1>2. LcTypeOK
  BY DEF Init, LcTypeOK, LcPcs
<1>3. DvTypeOK /\ PtTypeOK /\ LsTypeOK
  <2>1. DvTypeOK
    <3>1. torn \in BOOLEAN
      BY DEF Init
    <3>2. dv \in DvPcs /\ dvMsg = None /\ routed = <<>> /\ passed = <<>>
      BY DEF Init, DvPcs
    <3> QED
      BY <3>1, <3>2 DEF DvTypeOK
  <2>2. PtTypeOK
    BY DEF Init, PtTypeOK, PtPcs
  <2>3. LsTypeOK
    BY DEF Init, LsTypeOK, LsPcs
  <2> QED
    BY <2>1, <2>2, <2>3
<1>4. SharedTypeOK
  <2>1. buffer = [k \in Keys |-> None]
    BY DEF Init
  <2>2. buffer \in [Keys -> Methods \cup {None}]
    BY <2>1
  <2>3. raced \in BOOLEAN /\ incoming \in BOOLEAN /\ crashed \in BOOLEAN
    BY DEF Init
  <2>4. outgoing \in 0..1 /\ srHeld \in ServerMsg \cup {None}
    BY DEF Init
  <2> QED
    BY <2>2, <2>3, <2>4 DEF SharedTypeOK
<1>5. ServerTypeOK /\ StdoutTypeOK
  BY BoundAssumption DEF Init, ServerTypeOK, StdoutTypeOK
<1>6. Working
  BY DEF Init, Working
<1> QED
  BY <1>1, <1>2, <1>3, <1>4, <1>5, <1>6 DEF Init, TypeInv, TypeOK

LEMMA ExitMsgType == ExitMsg \in ClientMsg /\ IsExit(ExitMsg)
  BY MethodAssumption DEF ExitMsg, ClientMsg, IsExit

\* A write to the server's stdin appends the message or changes nothing.
LEMMA WriteType ==
  ASSUME NEW m \in ClientMsg, WriteToServer(m), ServerTypeOK
  PROVE  /\ toServer' \in Seq(ClientMsg)
         /\ Len(toServer) <= Len(toServer')
<1>1. CASE serverUp
  BY <1>1 DEF WriteToServer, ServerTypeOK
<1>2. CASE ~serverUp
  BY <1>2 DEF WriteToServer, ServerTypeOK
<1> QED
  BY <1>1, <1>2

LEMMA MeetType == MayMeet /\ raced \in BOOLEAN => raced' \in BOOLEAN /\ (raced => raced')
<1> SUFFICES ASSUME raced' \in {raced, raced \/ MapRace}, raced \in BOOLEAN
             PROVE  raced' \in BOOLEAN /\ (raced => raced')
  BY DEF MayMeet
<1>1. CASE raced' = raced
  BY <1>1
<1>2. CASE raced' = (raced \/ MapRace)
  BY <1>2
<1> QED
  BY <1>1, <1>2

\* Recognition changes a message in its field `ok' only.
LEMMA RecogniseType ==
  ASSUME NEW m \in ServerMsg, torn \in BOOLEAN, Recognise(m)
  PROVE  /\ dvMsg' \in ServerMsg /\ torn' \in BOOLEAN
         /\ dvMsg'.id = m.id /\ dvMsg'.method = m.method /\ dvMsg'.re = m.re
<1>1. CASE dvMsg' = m
  BY <1>1 DEF Recognise
<1>2. CASE dvMsg' = [m EXCEPT !.ok = FALSE] /\ UNCHANGED torn
  BY <1>2 DEF ServerMsg
<1> QED
  BY <1>1, <1>2 DEF Recognise

LEMMA ListenClientTypeInv == TypeInv /\ ListenClient => TypeInv'
<1> SUFFICES ASSUME TypeInv, ListenClient PROVE TypeInv'
  OBVIOUS
<1>a. UNCHANGED <<mode, clientVars, dvVars, ptVars, srHeld, lsVars, incoming, crashed,
                  serverVars, serverOut, stdout>>
  BY DEF ListenClient
<1>b. mode' \in Modes /\ DvTypeOK' /\ PtTypeOK' /\ LsTypeOK' /\ StdoutTypeOK'
  BY <1>a DEF TypeInv, TypeOK, dvVars, ptVars, lsVars, DvTypeOK, PtTypeOK, LsTypeOK,
              StdoutTypeOK
<1>c. UNCHANGED <<dv, dvMsg, pt, ptMsg, ls, lsMsg, lsMethod>>
  BY <1>a DEF dvVars, ptVars, lsVars
<1> USE DEF TypeInv, TypeOK
<1>1. CASE LcReceive
  <2> DEFINE m == clientSent[clientRead + 1]
  <2>1. m \in ClientMsg /\ clientRead' = clientRead + 1 /\ clientRead < Len(clientSent)
    BY <1>1 DEF LcReceive, ClientTypeOK
  <2>2. ClientTypeOK'
    BY <2>1, <1>a DEF clientVars, ClientTypeOK
  <2>3. LcTypeOK'
    BY <1>1, <2>1 DEF LcReceive, Dispatch, LcTypeOK, LcPcs, flagVars
  <2>4. SharedTypeOK' /\ ServerTypeOK'
    BY <1>1, <1>a DEF LcReceive, SharedTypeOK, ServerTypeOK, bufVars, chanVars, serverVars
  <2>5. Working'
    BY <1>1, <1>c, <2>1 DEF LcReceive, Dispatch, Working
  <2> QED
    BY <1>b, <2>2, <2>3, <2>4, <2>5
<1>2. CASE LcEof \/ LcClosePassThrough \/ LcDivert \/ LcRaise \/ LcShutdown
  <2> USE <1>2 DEF LcEof, LcClosePassThrough, LcDivert, LcRaise, LcShutdown
  <2>1. ClientTypeOK'
    BY <1>a DEF clientVars, ClientTypeOK
  <2>2. LcTypeOK'
    BY DEF LcTypeOK, LcPcs, flagVars
  <2>3. SharedTypeOK' /\ ServerTypeOK'
    BY <1>a DEF SharedTypeOK, ServerTypeOK, bufVars, chanVars, serverVars
  <2>4. Working'
    BY <1>c DEF Working
  <2> QED
    BY <1>b, <2>1, <2>2, <2>3, <2>4
<1>3. CASE LcRegister
  <2>1. ClientTypeOK' /\ LcTypeOK' /\ ServerTypeOK'
    BY <1>3, <1>a DEF LcRegister, clientVars, ClientTypeOK, LcTypeOK, LcPcs, flagVars,
                      ServerTypeOK, serverVars
  <2>2. lcMsg.method \in Methods \cup {None}
    BY <1>3 DEF LcRegister, Working, ClientMsg
  <2>3. SharedTypeOK'
    BY <1>3, <1>a, <2>2, MeetType DEF LcRegister, SharedTypeOK, chanVars
  <2>4. Working'
    BY <1>3, <1>c DEF LcRegister, Working
  <2> QED
    BY <1>b, <2>1, <2>3, <2>4
<1>4. CASE LcForward \/ LcFlushExit
  <2>1. PICK m \in ClientMsg : WriteToServer(m)
    BY <1>4, ExitMsgType DEF LcForward, LcFlushExit, Working
  <2>2. ClientTypeOK' /\ LcTypeOK' /\ SharedTypeOK'
    BY <1>4, <1>a DEF LcForward, LcFlushExit, clientVars, ClientTypeOK, LcTypeOK, LcPcs,
                      flagVars, SharedTypeOK, bufVars, chanVars
  <2>3. ServerTypeOK'
    BY <1>a, <2>1, WriteType DEF ServerTypeOK, serverVars
  <2>4. Working'
    BY <1>4, <1>c DEF LcForward, LcFlushExit, Working
  <2> QED
    BY <1>b, <2>2, <2>3, <2>4
<1> QED
  BY <1>1, <1>2, <1>3, <1>4 DEF ListenClient

LEMMA DiverterTypeInv == TypeInv /\ Diverter => TypeInv'
<1> SUFFICES ASSUME TypeInv, Diverter PROVE TypeInv'
  OBVIOUS
<1>a. UNCHANGED <<mode, clientVars, lcVars, passOut, lsVars, bufVars, chanVars, crashed,
                  serverVars, toServer, stdout>>
  BY DEF Diverter
<1>b. mode' \in Modes /\ ClientTypeOK' /\ LcTypeOK' /\ LsTypeOK' /\ StdoutTypeOK'
  BY <1>a DEF TypeInv, TypeOK, clientVars, lcVars, flagVars, lsVars,
              ClientTypeOK, LcTypeOK, LsTypeOK, StdoutTypeOK
<1>c. UNCHANGED <<lc, lcMsg, ls, lsMsg, lsMethod>>
  BY <1>a DEF lcVars, lsVars
<1> USE DEF TypeInv, TypeOK
<1>1. CASE DvRead
  <2>1. Head(serverOut) \in ServerMsg /\ Tail(serverOut) \in Seq(ServerMsg)
    BY <1>1 DEF DvRead, ServerTypeOK
  <2>2. DvTypeOK' /\ PtTypeOK'
    BY <1>1, <1>a, <2>1 DEF DvRead, DvTypeOK, DvPcs, PtTypeOK, ptVars
  <2>3. SharedTypeOK' /\ ServerTypeOK'
    BY <1>1, <1>a, <2>1 DEF DvRead, SharedTypeOK, ServerTypeOK, bufVars, chanVars, serverVars
  <2>4. Working'
    BY <1>1, <1>c, <2>1 DEF DvRead, Working, ptVars
  <2> QED
    BY <1>b, <2>2, <2>3, <2>4
<1>2. CASE DvStop
  <2>1. DvTypeOK' /\ PtTypeOK'
    BY <1>2, <1>a DEF DvStop, DvTypeOK, DvPcs, PtTypeOK, ptVars
  <2>2. SharedTypeOK' /\ ServerTypeOK'
    BY <1>2, <1>a DEF DvStop, SharedTypeOK, ServerTypeOK, bufVars, chanVars, serverVars
  <2>3. Working'
    BY <1>2, <1>c DEF DvStop, Working, ptVars
  <2> QED
    BY <1>b, <2>1, <2>2, <2>3
<1>3. CASE DvRoute
  <2>1. dvMsg \in ServerMsg
    BY <1>3 DEF DvRoute, Working
  <2>2. /\ routed' \in Seq(ServerMsg) /\ passed' \in Seq(ServerMsg)
        /\ dvMsg' \in ServerMsg /\ torn' \in BOOLEAN
    <3>1. CASE diverted
      <4>1. Recognise(dvMsg) /\ routed' = Append(routed, dvMsg') /\ UNCHANGED passed
        BY <1>3, <3>1 DEF DvRoute
      <4>2. dvMsg' \in ServerMsg /\ torn' \in BOOLEAN
        BY <2>1, <4>1, RecogniseType DEF DvTypeOK
      <4> QED
        BY <4>1, <4>2 DEF DvTypeOK
    <3>2. CASE ~diverted
      BY <1>3, <2>1, <3>2 DEF DvRoute, DvTypeOK
    <3> QED
      BY <3>1, <3>2
  <2>3. DvTypeOK' /\ PtTypeOK'
    BY <1>3, <1>a, <2>2 DEF DvRoute, DvTypeOK, DvPcs, PtTypeOK, ptVars
  <2>4. SharedTypeOK' /\ ServerTypeOK'
    BY <1>3, <1>a DEF DvRoute, SharedTypeOK, ServerTypeOK, bufVars, chanVars, serverVars
  <2>5. Working'
    BY <1>3, <1>a, <2>2 DEF DvRoute, Working, ptVars, lcVars, lsVars
  <2> QED
    BY <1>b, <2>3, <2>4, <2>5
<1>4. CASE DvWriteFirst
  <2>1. dvMsg \in ServerMsg
    BY <1>4 DEF DvWriteFirst, Working
  <2>2. DvTypeOK' /\ PtTypeOK'
    BY <1>4, <1>a, <2>1 DEF DvWriteFirst, DvTypeOK, DvPcs, PtTypeOK, PtPcs
  <2>3. SharedTypeOK' /\ ServerTypeOK'
    BY <1>4, <1>a DEF DvWriteFirst, SharedTypeOK, ServerTypeOK, bufVars, chanVars, serverVars
  <2>4. Working'
    BY <1>4, <1>c, <2>1 DEF DvWriteFirst, Working
  <2> QED
    BY <1>b, <2>2, <2>3, <2>4
<1>5. CASE DvWriteSecond
  <2>1. dvMsg \in ServerMsg
    BY <1>5 DEF DvWriteSecond, Working
  <2>2. DvTypeOK' /\ PtTypeOK'
    BY <1>5, <1>a DEF DvWriteSecond, DvTypeOK, DvPcs, PtTypeOK, ptVars
  <2>3. SharedTypeOK' /\ ServerTypeOK'
    BY <1>5, <1>a, <2>1 DEF DvWriteSecond, SharedTypeOK, ServerTypeOK, bufVars, chanVars,
                            serverVars
  <2>4. Working'
    BY <1>5, <1>c DEF DvWriteSecond, Working, ptVars
  <2> QED
    BY <1>b, <2>2, <2>3, <2>4
<1> QED
  BY <1>1, <1>2, <1>3, <1>4, <1>5 DEF Diverter

LEMMA PassThroughTypeInv == TypeInv /\ PassThrough => TypeInv'
<1> SUFFICES ASSUME TypeInv, PassThrough PROVE TypeInv'
  OBVIOUS
<1>a. UNCHANGED <<mode, clientVars, lcVars, dvVars, srHeld, lsVars, bufVars, chanVars,
                  crashed, serverVars, toServer, serverOut>>
  BY DEF PassThrough
<1>b. /\ mode' \in Modes /\ ClientTypeOK' /\ LcTypeOK' /\ DvTypeOK' /\ LsTypeOK'
      /\ SharedTypeOK' /\ ServerTypeOK'
  BY <1>a DEF TypeInv, TypeOK, clientVars, lcVars, flagVars, lsVars, dvVars, bufVars, chanVars,
     serverVars, ClientTypeOK, LcTypeOK, LsTypeOK, DvTypeOK, SharedTypeOK, ServerTypeOK
<1>c. UNCHANGED <<lc, lcMsg, dv, dvMsg, ls, lsMsg, lsMethod>>
  BY <1>a DEF lcVars, dvVars, lsVars
<1> USE DEF TypeInv, TypeOK
<1>1. CASE PtWrite
  <2>1. passOut' \in {passOut, Append(passOut, ptMsg)} /\ stdout' \in {stdout, Append(stdout, "pass")}
    BY <1>1 DEF PtWrite
  <2>2. passOut' \in Seq(ServerMsg)
    BY <1>1, <2>1 DEF PtWrite, Working, PtTypeOK
  <2>3. StdoutTypeOK'
    BY <2>1 DEF StdoutTypeOK
  <2> QED
    BY <1>1, <1>b, <1>c, <2>2, <2>3 DEF PtWrite, PtTypeOK, PtPcs, Working
<1>2. CASE PtStop
  BY <1>2, <1>b, <1>c DEF PtStop, PtTypeOK, PtPcs, Working, StdoutTypeOK
<1> QED
  BY <1>1, <1>2 DEF PassThrough

LEMMA ListenServerTypeInv == TypeInv /\ ListenServer => TypeInv'
<1> SUFFICES ASSUME TypeInv, ListenServer PROVE TypeInv'
  OBVIOUS
<1>a. UNCHANGED <<mode, clientVars, lcVars, dvVars, ptVars, chanVars, crashed,
                  serverVars, toServer, serverOut>>
  BY DEF ListenServer
<1>b. /\ mode' \in Modes /\ ClientTypeOK' /\ LcTypeOK' /\ DvTypeOK' /\ PtTypeOK'
      /\ ServerTypeOK'
  BY <1>a DEF TypeInv, TypeOK, clientVars, lcVars, flagVars, dvVars, ptVars,
     serverVars, ClientTypeOK, LcTypeOK, DvTypeOK, PtTypeOK, ServerTypeOK
<1>c. UNCHANGED <<lc, lcMsg, dv, dvMsg, pt, ptMsg>>
  BY <1>a DEF lcVars, dvVars, ptVars
<1>d. StdoutTypeOK'
  <2>1. StdoutTypeOK
    BY DEF TypeInv, TypeOK
  <2> QED
    BY <2>1 DEF ListenServer, LsReceive, LsLookup, LsDelete, LsEmit, LsForward, LsShutdown,
       StdoutTypeOK
<1> USE DEF TypeInv, TypeOK
<1>1. CASE LsReceive
  <2>1. srHeld \in ServerMsg
    BY <1>1 DEF LsReceive, SharedTypeOK
  <2>2. SharedTypeOK'
    BY <1>1, <1>a DEF LsReceive, SharedTypeOK, bufVars, chanVars
  <2>3. LsTypeOK'
    BY <1>1, <2>1 DEF LsReceive, LsTypeOK, LsPcs
  <2>4. Working'
    BY <1>1, <1>c, <2>1 DEF LsReceive, Working
  <2> QED
    BY <1>b, <1>d, <2>2, <2>3, <2>4
<1>2. CASE LsLookup
  <2>1. KeyOf[lsMsg.id] \in Keys
    BY <1>2, ConversionAssumption DEF LsLookup, Working, IsResponse, ServerMsg
  <2>2. lsMethod' \in Methods \cup {None} /\ raced' \in BOOLEAN
    BY <1>2, <2>1, MeetType DEF LsLookup, SharedTypeOK
  <2>3. LsTypeOK' /\ SharedTypeOK'
    BY <1>2, <1>a, <2>2 DEF LsLookup, LsTypeOK, LsPcs, SharedTypeOK, chanVars
  <2>4. Working'
    BY <1>2, <1>c DEF LsLookup, Working
  <2> QED
    BY <1>b, <1>d, <2>3, <2>4
<1>3. CASE LsDelete
  <2>1. buffer' \in [Keys -> Methods \cup {None}] /\ raced' \in BOOLEAN
    BY <1>3, MeetType DEF LsDelete, SharedTypeOK
  <2>2. LsTypeOK' /\ SharedTypeOK'
    BY <1>3, <1>a, <2>1 DEF LsDelete, LsTypeOK, LsPcs, SharedTypeOK, chanVars
  <2>3. Working'
    BY <1>3, <1>c DEF LsDelete, Working
  <2> QED
    BY <1>b, <1>d, <2>2, <2>3
<1>4. CASE LsEmit
  <2>1. emitted' \in Seq(Methods)
    BY <1>4 DEF LsEmit, LsTypeOK, Working
  <2>2. LsTypeOK' /\ SharedTypeOK'
    BY <1>4, <1>a, <2>1 DEF LsEmit, LsTypeOK, LsPcs, SharedTypeOK, bufVars, chanVars
  <2>3. Working'
    BY <1>4, <1>c DEF LsEmit, Working
  <2> QED
    BY <1>b, <1>d, <2>2, <2>3
<1>5. CASE LsForward
  <2>1. lspOut' \in Seq(ServerMsg)
    BY <1>5 DEF LsForward, LsTypeOK, Working
  <2>2. LsTypeOK' /\ SharedTypeOK'
    BY <1>5, <1>a, <2>1 DEF LsForward, LsTypeOK, LsPcs, SharedTypeOK, bufVars, chanVars
  <2>3. Working'
    BY <1>5, <1>c DEF LsForward, Working
  <2> QED
    BY <1>b, <1>d, <2>2, <2>3
<1>6. CASE LsShutdown
  <2>1. LsTypeOK' /\ SharedTypeOK'
    BY <1>6, <1>a DEF LsShutdown, LsTypeOK, LsPcs, SharedTypeOK, bufVars, chanVars
  <2>2. Working'
    BY <1>6, <1>c DEF LsShutdown, Working
  <2> QED
    BY <1>b, <1>d, <2>1, <2>2
<1> QED
  BY <1>1, <1>2, <1>3, <1>4, <1>5, <1>6 DEF ListenServer

LEMMA CallerTypeInv == TypeInv /\ (Caller \/ RuntimeAbort \/ BrokenPipe) => TypeInv'
<1> SUFFICES ASSUME TypeInv, Caller \/ RuntimeAbort \/ BrokenPipe PROVE TypeInv'
  OBVIOUS
<1>a. /\ UNCHANGED <<mode, clientVars, clientRead, lcMsg, exitHeld, passOpen, diverted, dvVars,
                     ptVars, srHeld, lsVars, buffer, serverVars, toServer, serverOut,
                     stdout>>
      /\ crashed' \in BOOLEAN /\ raced' \in BOOLEAN
  BY DEF Caller, CallerFrame, RuntimeAbort, BrokenPipe, lcVars, flagVars, bufVars, TypeInv, TypeOK,
         SharedTypeOK
<1>b. /\ mode' \in Modes /\ ClientTypeOK' /\ DvTypeOK' /\ PtTypeOK' /\ LsTypeOK'
      /\ ServerTypeOK' /\ StdoutTypeOK'
  BY <1>a DEF TypeInv, TypeOK, clientVars, dvVars, ptVars, lsVars,
     serverVars, ClientTypeOK, DvTypeOK, PtTypeOK, LsTypeOK, ServerTypeOK, StdoutTypeOK
<1>c. UNCHANGED <<lcMsg, dv, dvMsg, pt, ptMsg, ls, lsMsg, lsMethod>>
  BY <1>a DEF dvVars, ptVars, lsVars
<1> USE DEF TypeInv, TypeOK
<1>1. CASE AcceptSwitch \/ ConfirmProxyMode
  <2>1. LcTypeOK'
    BY <1>1, <1>a DEF AcceptSwitch, ConfirmProxyMode, Dispatch, LcTypeOK, LcPcs
  <2>2. SharedTypeOK'
    BY <1>1, <1>a DEF AcceptSwitch, ConfirmProxyMode, SharedTypeOK, chanVars
  <2>3. Working'
    BY <1>1, <1>c DEF AcceptSwitch, ConfirmProxyMode, Dispatch, Working
  <2> QED
    BY <1>b, <2>1, <2>2, <2>3
<1>2. CASE TakeShutdownRequest \/ Shutdown \/ RuntimeAbort \/ BrokenPipe
  <2>1. UNCHANGED <<lc, switchDone>>
    BY <1>2 DEF TakeShutdownRequest, Shutdown, RuntimeAbort, BrokenPipe, lcVars, flagVars
  <2>2. LcTypeOK'
    BY <1>a, <2>1 DEF LcTypeOK
  <2>3. outgoing' \in 0..1
    BY <1>2 DEF TakeShutdownRequest, Shutdown, RuntimeAbort, BrokenPipe, SharedTypeOK, chanVars
  <2>4. incoming' \in BOOLEAN
    BY <1>2 DEF TakeShutdownRequest, Shutdown, RuntimeAbort, BrokenPipe, SharedTypeOK, chanVars
  <2>5. SharedTypeOK'
    BY <1>a, <2>3, <2>4 DEF SharedTypeOK
  <2>6. Working'
    BY <1>c, <2>1 DEF Working
  <2> QED
    BY <1>b, <2>2, <2>5, <2>6
<1> QED
  BY <1>1, <1>2 DEF Caller

LEMMA ClientTypeInv == TypeInv /\ Client => TypeInv'
<1> SUFFICES ASSUME TypeInv, Client PROVE TypeInv'
  OBVIOUS
<1>a. UNCHANGED <<mode, lcVars, dvVars, ptVars, srHeld, lsVars, bufVars, chanVars,
                  crashed, serverVars, toServer, serverOut, stdout>>
  BY DEF Client
<1>b. /\ mode' \in Modes /\ LcTypeOK' /\ DvTypeOK' /\ PtTypeOK' /\ LsTypeOK'
      /\ SharedTypeOK' /\ ServerTypeOK' /\ StdoutTypeOK'
  BY <1>a DEF TypeInv, TypeOK, lcVars, flagVars, lsVars, dvVars, ptVars, bufVars, chanVars,
     serverVars, LcTypeOK, LsTypeOK, DvTypeOK, PtTypeOK, SharedTypeOK, ServerTypeOK,
     StdoutTypeOK
<1>c. Working'
  BY <1>a DEF TypeInv, Working, lcVars, dvVars, ptVars, lsVars
<1>d. UNCHANGED clientRead
  BY <1>a DEF lcVars
<1> USE DEF TypeInv, TypeOK
<1>1. CASE ClientClose \/ ClientStopsReading
  BY <1>1, <1>b, <1>c, <1>d, OutletAssumption DEF ClientClose, ClientStopsReading, ClientTypeOK
<1>2. ASSUME NEW m \in ClientMsgs, ClientSend(m) PROVE TypeInv'
  <2>1. m \in ClientMsg
    BY ClientAssumption
  <2>2. ClientTypeOK'
    BY <1>2, <1>d, <2>1 DEF ClientSend, ClientTypeOK
  <2> QED
    BY <1>b, <1>c, <2>2
<1> QED
  BY <1>1, <1>2 DEF Client

LEMMA ServerTypeInv == TypeInv /\ Server => TypeInv'
<1> SUFFICES ASSUME TypeInv, Server PROVE TypeInv'
  OBVIOUS
<1>a. UNCHANGED <<mode, clientVars, lcVars, dvVars, ptVars, srHeld, lsVars, bufVars,
                  chanVars, crashed, toServer, stdout>>
  BY DEF Server
<1>b. /\ mode' \in Modes /\ ClientTypeOK' /\ LcTypeOK' /\ DvTypeOK' /\ PtTypeOK'
      /\ LsTypeOK' /\ SharedTypeOK' /\ StdoutTypeOK'
  BY <1>a DEF TypeInv, TypeOK, clientVars, lcVars, flagVars, lsVars, dvVars, ptVars, bufVars,
     chanVars, ClientTypeOK, LcTypeOK, LsTypeOK, DvTypeOK, PtTypeOK, SharedTypeOK, StdoutTypeOK
<1>c. Working'
  BY <1>a DEF TypeInv, Working, lcVars, dvVars, ptVars, lsVars
<1> USE DEF TypeInv, TypeOK, ServerTypeOK
<1>1. CASE ServerTake
  <2>1. toServer[taken + 1] \in ClientMsg
    BY <1>1 DEF ServerTake
  <2> QED
    BY <1>1, <1>a, <1>b, <1>c, <2>1 DEF ServerTake
<1>2. CASE ServerExit
  BY <1>2, <1>a, <1>b, <1>c DEF ServerExit
<1>3. ASSUME NEW m \in owed, ServerReply(m) PROVE TypeInv'
  <2> DEFINE r == [id |-> m.id, method |-> None, ok |-> TRUE, re |-> m.method]
  <2>1. r \in ServerMsg
    BY DEF ClientMsg, ServerMsg
  <2>2. serverOut' \in Seq(ServerMsg)
    BY <1>3, <2>1 DEF ServerReply
  <2> QED
    BY <1>3, <1>a, <1>b, <1>c, <2>2 DEF ServerReply
<1>4. ASSUME NEW m \in Unsolicited, ServerSay(m) PROVE TypeInv'
  <2>1. m \in ServerMsg
    BY ServerAssumption
  <2>2. serverOut' \in Seq(ServerMsg)
    BY <1>4, <2>1 DEF ServerSay
  <2>3. said' \in 0..MaxServer
    BY <1>4, BoundAssumption DEF ServerSay
  <2> QED
    BY <1>4, <1>a, <1>b, <1>c, <2>2, <2>3 DEF ServerSay
<1> QED
  BY <1>1, <1>2, <1>3, <1>4 DEF Server

LEMMA StutterTypeInv == TypeInv /\ UNCHANGED vars => TypeInv'
  BY DEF TypeInv, TypeOK, Working, vars, clientVars, lcVars, flagVars, dvVars, ptVars, lsVars,
     bufVars, chanVars, serverVars, ClientTypeOK, LcTypeOK, DvTypeOK, PtTypeOK, LsTypeOK,
     SharedTypeOK, StdoutTypeOK, ServerTypeOK

LEMMA NextTypeInv == TypeInv /\ [Next]_vars => TypeInv'
  BY ListenClientTypeInv, DiverterTypeInv, PassThroughTypeInv, ListenServerTypeInv,
     CallerTypeInv, ClientTypeInv, ServerTypeInv, StutterTypeInv DEF Next

\* Every goroutine is where it should be and holds what it should, in every
\* behaviour of listenClient, listenServer, the diverter and the pass-through.
LEMMA TypeInvInvariant == Spec => []TypeInv
  BY InitTypeInv, NextTypeInv, PTL DEF Spec

\* The variables keep their types: the goroutines of the proxy handler carry
\* well-formed messages only, and at most one shutdown request is pending.
THEOREM TypeCorrect == Spec => []TypeOK
<1>1. TypeInv => TypeOK
  BY DEF TypeInv
<1> QED
  BY <1>1, TypeInvInvariant, PTL

-----------------------------------------------------------------------------
(* The ends of the runtime                                                 *)

\* The runtime ends the process only over the map or over a stdout without a reader.
AbortHasCause == crashed => raced \/ outlet = "gone"

LEMMA NextAbortHasCause == TypeInv /\ AbortHasCause /\ [Next]_vars => AbortHasCause'
<1> SUFFICES ASSUME TypeInv, AbortHasCause, [Next]_vars PROVE AbortHasCause'
  OBVIOUS
<1> USE DEF AbortHasCause
<1>1. CASE ListenClient \/ ListenServer
  <2>1. ~crashed /\ UNCHANGED crashed
    BY <1>1 DEF ListenClient, ListenServer
  <2> QED
    BY <2>1
<1>2. CASE RuntimeAbort \/ BrokenPipe
  BY <1>2 DEF RuntimeAbort, BrokenPipe, clientVars
<1>3. CASE Client
  <2>1. UNCHANGED <<crashed, raced>>
    BY <1>3 DEF Client, bufVars
  <2>2. outlet = "gone" => outlet' = "gone"
    BY <1>3 DEF Client, ClientClose, ClientStopsReading, ClientSend
  <2> QED
    BY <2>1, <2>2
<1>4. CASE Diverter \/ PassThrough \/ Caller \/ Server \/ UNCHANGED vars
  <2>1. UNCHANGED <<crashed, raced, outlet>>
    BY <1>4 DEF Diverter, PassThrough, Caller, CallerFrame, Server, vars, bufVars, clientVars
  <2> QED
    BY <2>1
<1> QED
  BY <1>1, <1>2, <1>3, <1>4 DEF Next

LEMMA AbortCauseInvariant == Spec => []AbortHasCause
<1>1. Init => AbortHasCause
  BY DEF Init, AbortHasCause
<1> QED
  BY <1>1, NextAbortHasCause, TypeInvInvariant, PTL DEF Spec

-----------------------------------------------------------------------------
(* Metrics are emitted only after the mode switch                          *)

\* Until the switch is confirmed listenClient handles no message and holds no
\* exit notification, so that there is no bookmark for listenServer to find.
Confirmed ==
  /\ lc \in {"register", "raise", "forward", "flushExit"} => switchDone
  /\ exitHeld => switchDone
  /\ \A k \in Keys : buffer[k] # None => switchDone
  /\ ls \in {"delete", "emit"} => switchDone

LEMMA InitConfirmed == Init => Confirmed
  BY DEF Init, Confirmed

LEMMA NextConfirmed == TypeInv /\ Confirmed /\ [Next]_vars => Confirmed'
<1> SUFFICES ASSUME TypeInv, Confirmed, [Next]_vars PROVE Confirmed'
  OBVIOUS
<1> USE DEF Confirmed
<1>1. CASE ListenClient
  <2>1. UNCHANGED ls
    BY <1>1 DEF ListenClient, lsVars
  <2>2. CASE LcReceive
    BY <2>1, <2>2 DEF LcReceive, Dispatch, flagVars, bufVars
  <2>3. CASE LcEof \/ LcClosePassThrough \/ LcDivert
    BY <2>1, <2>3 DEF LcEof, LcClosePassThrough, LcDivert, flagVars, bufVars
  <2>4. CASE LcRegister
    BY <2>1, <2>4 DEF LcRegister, flagVars
  <2>5. CASE LcRaise \/ LcForward \/ LcShutdown \/ LcFlushExit
    BY <2>1, <2>5 DEF LcRaise, LcForward, LcShutdown, LcFlushExit, flagVars, bufVars
  <2> QED
    BY <1>1, <2>2, <2>3, <2>4, <2>5 DEF ListenClient
<1>2. CASE ListenServer
  <2>1. UNCHANGED <<lc, exitHeld, switchDone>>
    BY <1>2 DEF ListenServer, lcVars, flagVars
  <2>2. CASE LsReceive \/ LsEmit \/ LsForward \/ LsShutdown
    BY <2>1, <2>2 DEF LsReceive, LsEmit, LsForward, LsShutdown, bufVars
  <2>3. CASE LsLookup
    <3>1. KeyOf[lsMsg.id] \in Keys
      BY <2>3, ConversionAssumption DEF LsLookup, TypeInv, Working, IsResponse, ServerMsg
    <3>2. lsMethod' # None => switchDone
      BY <2>3, <3>1 DEF LsLookup
    <3> QED
      BY <2>1, <2>3, <3>2 DEF LsLookup
  <2>4. CASE LsDelete
    BY <2>1, <2>4 DEF LsDelete, TypeInv, TypeOK, SharedTypeOK
  <2> QED
    BY <1>2, <2>2, <2>3, <2>4 DEF ListenServer
<1>3. CASE Caller
  <2>1. UNCHANGED <<exitHeld, buffer, ls>>
    BY <1>3 DEF Caller, CallerFrame, bufVars, lsVars
  <2> QED
    BY <1>3, <2>1 DEF Caller, AcceptSwitch, ConfirmProxyMode, TakeShutdownRequest, Shutdown
<1>4. CASE Diverter \/ PassThrough \/ RuntimeAbort \/ BrokenPipe \/ Client \/ Server \/ UNCHANGED vars
  <2>1. UNCHANGED <<lc, exitHeld, switchDone, buffer, ls>>
    BY <1>4 DEF Diverter, PassThrough, RuntimeAbort, BrokenPipe, Client, Server, vars, lcVars, flagVars,
       bufVars, lsVars
  <2> QED
    BY <2>1
<1> QED
  BY <1>1, <1>2, <1>3, <1>4 DEF Next

LEMMA ConfirmedInvariant == Spec => []Confirmed
  BY InitConfirmed, NextConfirmed, TypeInvInvariant, PTL DEF Spec

\* listenServer emits request.duration only after the caller has confirmed the
\* mode switch: Run starts the exporter before it confirms.
THEOREM NoEarlyEmission == Spec => []EmitOnlyWhenConfirmed
<1>1. Confirmed => EmitOnlyWhenConfirmed
  BY DEF Confirmed, EmitOnlyWhenConfirmed
<1> QED
  BY <1>1, ConfirmedInvariant, PTL

-----------------------------------------------------------------------------
(* Responses go the LSP way                                                *)

\* Nothing reaches the server before the diverter is switched, so that the
\* server owes no response, and no response is on its way, before that.
ResponsesAreDiverted ==
  /\ switchDone \/ lc = "awaitConfirm" => diverted
  /\ toServer # <<>> => diverted
  /\ owed # {} => diverted
  /\ \A i \in DOMAIN serverOut : IsResponse(serverOut[i]) => diverted
  /\ dv = "route" /\ IsResponse(dvMsg) => diverted
  /\ NoMisroute

LEMMA InitDiverted == Init => ResponsesAreDiverted
  BY DEF Init, ResponsesAreDiverted, NoMisroute

LEMMA NextDiverted ==
  TypeInv /\ Confirmed /\ ResponsesAreDiverted /\ [Next]_vars => ResponsesAreDiverted'
<1> SUFFICES ASSUME TypeInv, Confirmed, ResponsesAreDiverted, [Next]_vars
             PROVE  ResponsesAreDiverted'
  OBVIOUS
<1> USE DEF ResponsesAreDiverted, NoMisroute
<1>1. CASE ListenClient
  <2>1. UNCHANGED <<owed, serverOut, dv, dvMsg>>
    BY <1>1 DEF ListenClient, serverVars, dvVars
  <2>2. CASE LcReceive \/ LcEof \/ LcClosePassThrough \/ LcDivert
    BY <2>1, <2>2 DEF LcReceive, LcEof, LcClosePassThrough, LcDivert, Dispatch, flagVars
  <2>3. CASE LcRegister \/ LcRaise \/ LcShutdown
    BY <2>1, <2>3 DEF LcRegister, LcRaise, LcShutdown, flagVars
  <2>4. CASE LcForward \/ LcFlushExit
    <3>1. switchDone
      BY <2>4 DEF LcForward, LcFlushExit, Confirmed
    <3> QED
      BY <2>1, <2>4, <3>1 DEF LcForward, LcFlushExit, flagVars
  <2> QED
    BY <1>1, <2>2, <2>3, <2>4 DEF ListenClient
<1>2. CASE Diverter
  <2>1. UNCHANGED <<switchDone, lc, diverted, toServer, owed>>
    BY <1>2 DEF Diverter, lcVars, flagVars, serverVars
  <2>2. CASE DvRead
    <3>1. /\ dvMsg' = serverOut[1] /\ 1 \in DOMAIN serverOut
          /\ \A i \in DOMAIN serverOut' :
               i + 1 \in DOMAIN serverOut /\ serverOut'[i] = serverOut[i + 1]
      BY <2>2 DEF DvRead, TypeInv, TypeOK, ServerTypeOK
    <3>2. dv' = "route"
      BY <2>2 DEF DvRead
    <3> QED
      BY <2>1, <3>1, <3>2
  <2>3. CASE DvStop \/ DvRoute \/ DvWriteFirst \/ DvWriteSecond
    BY <2>1, <2>3 DEF DvStop, DvRoute, DvWriteFirst, DvWriteSecond
  <2> QED
    BY <1>2, <2>2, <2>3 DEF Diverter
<1>3. CASE Caller
  <2>1. UNCHANGED <<diverted, toServer, owed, serverOut, dv, dvMsg>>
    BY <1>3 DEF Caller, CallerFrame, serverVars, dvVars
  <2> QED
    BY <1>3, <2>1 DEF Caller, AcceptSwitch, ConfirmProxyMode, TakeShutdownRequest, Shutdown,
       Dispatch
<1>4. CASE Server
  <2>1. UNCHANGED <<switchDone, lc, diverted, toServer, dv, dvMsg>>
    BY <1>4 DEF Server, lcVars, flagVars, dvVars
  <2>2. CASE ServerTake
    <3>1. toServer # <<>> /\ serverOut' = serverOut
      BY <2>2 DEF ServerTake, TypeInv, TypeOK, ServerTypeOK
    <3> QED
      BY <2>1, <3>1
  <2>3. CASE ServerExit
    BY <2>1, <2>3 DEF ServerExit
  <2>4. ASSUME NEW m \in owed, ServerReply(m) PROVE ResponsesAreDiverted'
    <3>1. diverted
      OBVIOUS
    <3> QED
      BY <2>1, <3>1
  <2>5. ASSUME NEW m \in Unsolicited, ServerSay(m) PROVE ResponsesAreDiverted'
    <3>1. ~IsResponse(m)
      BY ServerAssumption
    <3>2. \A i \in DOMAIN serverOut' :
            serverOut'[i] = m \/ (i \in DOMAIN serverOut /\ serverOut'[i] = serverOut[i])
      BY <2>5 DEF ServerSay, TypeInv, TypeOK, ServerTypeOK
    <3>3. UNCHANGED owed
      BY <2>5 DEF ServerSay
    <3> QED
      BY <2>1, <3>1, <3>2, <3>3
  <2> QED
    BY <1>4, <2>2, <2>3, <2>4, <2>5 DEF Server
<1>5. CASE ListenServer \/ PassThrough \/ RuntimeAbort \/ BrokenPipe \/ Client \/ UNCHANGED vars
  <2>1. UNCHANGED <<switchDone, lc, diverted, toServer, owed, serverOut, dv, dvMsg>>
    BY <1>5 DEF ListenServer, PassThrough, RuntimeAbort, BrokenPipe, Client, vars, lcVars, flagVars,
       serverVars, dvVars
  <2> QED
    BY <2>1
<1> QED
  BY <1>1, <1>2, <1>3, <1>4, <1>5 DEF Next

\* The diverter, which asks whether the switch has been made after it has read,
\* never takes a response for the pass-through path, in whatever order
\* listenClient, the caller, the server and the diverter take their steps.
THEOREM ResponsesNeverPassThrough == Spec => []NoMisroute
<1>1. ResponsesAreDiverted => NoMisroute
  BY DEF ResponsesAreDiverted
<1> QED
  BY <1>1, InitDiverted, NextDiverted, TypeInvInvariant, ConfirmedInvariant, PTL DEF Spec

-----------------------------------------------------------------------------
(* The exit notification waits for the shutdown                            *)

ExitIsHeld ==
  /\ lc = "forward" => ~IsExit(lcMsg)
  /\ lc = "flushExit" => incoming
  /\ (\E i \in DOMAIN toServer : IsExit(toServer[i])) => lc = "done"
  /\ ExitAwaitsShutdown

LEMMA InitExitIsHeld == Init => ExitIsHeld
  BY DEF Init, ExitIsHeld, ExitAwaitsShutdown

LEMMA NextExitIsHeld == TypeInv /\ ExitIsHeld /\ [Next]_vars => ExitIsHeld'
<1> SUFFICES ASSUME TypeInv, ExitIsHeld, [Next]_vars PROVE ExitIsHeld'
  OBVIOUS
<1> USE DEF ExitIsHeld, ExitAwaitsShutdown
<1>1. CASE ListenClient
  <2>1. UNCHANGED incoming
    BY <1>1 DEF ListenClient
  <2>2. CASE LcReceive \/ LcEof \/ LcClosePassThrough \/ LcDivert
    BY <2>1, <2>2 DEF LcReceive, LcEof, LcClosePassThrough, LcDivert, Dispatch
  <2>3. CASE LcRegister
    <3>1. ~IsExit(lcMsg)
      BY <2>3 DEF LcRegister, TypeInv, Working, IsRequest, IsExit
    <3> QED
      BY <2>1, <2>3, <3>1 DEF LcRegister
  <2>4. CASE LcRaise \/ LcShutdown
    BY <2>1, <2>4 DEF LcRaise, LcShutdown
  <2>5. CASE LcForward
    <3>1. \A i \in DOMAIN toServer' :
            toServer'[i] = lcMsg \/ (i \in DOMAIN toServer /\ toServer'[i] = toServer[i])
      <4>1. toServer \in Seq(ClientMsg) /\ lcMsg \in ClientMsg
        BY <2>5 DEF LcForward, TypeInv, TypeOK, Working, ServerTypeOK
      <4>2. toServer' = Append(toServer, lcMsg) \/ toServer' = toServer
        BY <2>5 DEF LcForward, WriteToServer
      <4> QED
        BY <4>1, <4>2
    <3>2. \A i \in DOMAIN toServer' : ~IsExit(toServer'[i])
      BY <2>5, <3>1 DEF LcForward
    <3> QED
      BY <2>1, <2>5, <3>2 DEF LcForward
  <2>6. CASE LcFlushExit
    <3>1. incoming /\ \A i \in DOMAIN toServer : ~IsExit(toServer[i])
      BY <2>6 DEF LcFlushExit
    <3>2. \A i \in DOMAIN toServer' :
            i = Len(toServer') \/ (i \in DOMAIN toServer /\ toServer'[i] = toServer[i])
      <4>1. PICK m \in ClientMsg : WriteToServer(m)
        BY <2>6, ExitMsgType DEF LcFlushExit
      <4>2. CASE serverUp
        BY <4>1, <4>2 DEF WriteToServer, TypeInv, TypeOK, ServerTypeOK
      <4>3. CASE ~serverUp
        BY <4>1, <4>3 DEF WriteToServer
      <4> QED
        BY <4>2, <4>3
    <3> QED
      BY <2>1, <2>6, <3>1, <3>2 DEF LcFlushExit
  <2> QED
    BY <1>1, <2>2, <2>3, <2>4, <2>5, <2>6 DEF ListenClient
<1>2. CASE Caller
  <2>1. UNCHANGED <<lcMsg, toServer>>
    BY <1>2 DEF Caller, CallerFrame
  <2> QED
    BY <1>2, <2>1 DEF Caller, AcceptSwitch, ConfirmProxyMode, TakeShutdownRequest, Shutdown,
       Dispatch
<1>3. CASE \/ ListenServer \/ Diverter \/ PassThrough \/ RuntimeAbort \/ BrokenPipe \/ Client \/ Server
           \/ UNCHANGED vars
  <2>1. UNCHANGED <<lc, lcMsg, incoming, toServer>>
    BY <1>3 DEF ListenServer, Diverter, PassThrough, RuntimeAbort, BrokenPipe, Client, Server, vars,
       lcVars, chanVars
  <2> QED
    BY <2>1
<1> QED
  BY <1>1, <1>2, <1>3 DEF Next

\* listenClient writes the exit notification to the server only after the caller
\* has shut the proxy handler down, once, and nothing after it.
THEOREM ExitComesLast == Spec => []ExitAwaitsShutdown
<1>1. ExitIsHeld => ExitAwaitsShutdown
  BY DEF ExitIsHeld
<1> QED
  BY <1>1, InitExitIsHeld, NextExitIsHeld, TypeInvInvariant, PTL DEF Spec

-----------------------------------------------------------------------------
(* What the server writes                                                  *)

LEMMA InitLspPath == Init => LspPathPreserved
<1> SUFFICES ASSUME Init PROVE LspPathPreserved
  OBVIOUS
<1>1. dv = "read" /\ srHeld = None /\ lspOut = <<>> /\ routed = <<>> /\ ls \in {"off", "select"}
  BY DEF Init
<1>2. <<>> \o <<>> = <<>>
  OBVIOUS
<1> QED
  BY <1>1, <1>2, OnlyOfEmpty DEF LspPathPreserved

\* Every step either moves a message on, from the diverter to listenServer's
\* reader, to listenServer and to stdout, or leaves all these places alone.
LEMMA NextLspPath == TypeInv /\ LspPathPreserved /\ [Next]_vars => LspPathPreserved'
<1> SUFFICES ASSUME TypeInv, LspPathPreserved, [Next]_vars, ls' # "done"
             PROVE  LspPathPreserved'
  BY DEF LspPathPreserved
<1> USE DEF LspPathPreserved
<1>a. /\ lspOut \in Seq(ServerMsg) /\ routed \in Seq(ServerMsg)
      /\ srHeld \in ServerMsg \cup {None}
      /\ dv \in {"route", "first", "second"} => dvMsg \in ServerMsg
      /\ ls \in {"lookup", "delete", "emit", "forward"} => lsMsg \in ServerMsg
      /\ None \notin ServerMsg
  BY NoneAssumption DEF TypeInv, TypeOK, LsTypeOK, DvTypeOK, SharedTypeOK, Working
<1>1. CASE ListenServer
  <2>1. UNCHANGED <<dv, dvMsg, routed>>
    BY <1>1 DEF ListenServer, dvVars
  <2>2. CASE LsReceive
    <3> DEFINE carried == IF dv = "second" THEN <<dvMsg>> ELSE <<>>
    <3>1. /\ ls = "select" /\ srHeld # None /\ srHeld' = None /\ UNCHANGED lspOut
          /\ carried' = carried /\ carried \in Seq(ServerMsg)
      BY <1>a, <2>1, <2>2 DEF LsReceive
    <3>2. lspOut \o <<>> \o Only(<<srHeld>> \o carried, Readable) = Only(routed, Readable)
      BY <3>1
    <3>3. Only(<<srHeld>> \o carried, Readable)
            = Only(<<srHeld>>, Readable) \o Only(carried, Readable)
      <4>1. CASE dv = "second"
        BY <1>a, <3>1, <4>1, OnlyOfTwo
      <4>2. CASE dv # "second"
        <5>1. carried = <<>> /\ <<srHeld>> \o <<>> = <<srHeld>>
          BY <4>2
        <5>2. Only(<<srHeld>>, Readable) \o <<>> = Only(<<srHeld>>, Readable)
          BY OnlyOfOne
        <5> QED
          BY <5>1, <5>2, OnlyOfEmpty
      <4> QED
        BY <4>1, <4>2
    <3>4. Only(<<>> \o carried, Readable) = Only(carried, Readable)
      BY <3>1
    <3>a. Only(carried, Readable) \in Seq(ServerMsg)
      <4>1. Only(carried, Readable) \in Seq(ServerMsg \cap Readable)
        BY <3>1, OnlyType
      <4> QED
        BY <4>1, SeqMonotonic
    <3> HIDE DEF carried
    <3>5. CASE srHeld.ok
      <4>1. Only(<<srHeld>>, Readable) = <<srHeld>>
        BY <1>a, <3>1, <3>5, OnlyOfOne DEF Readable
      <4>2. ls' \in {"lookup", "forward"} /\ lsMsg' = srHeld
        BY <2>2, <3>5 DEF LsReceive
      <4>3. lspOut \o <<srHeld>> \o Only(carried, Readable)
              = lspOut \o <<>> \o (<<srHeld>> \o Only(carried, Readable))
        BY <1>a, <3>a, <3>1
      <4>4. lspOut \o <<srHeld>> \o Only(carried, Readable) = Only(routed, Readable)
        BY <3>2, <3>3, <4>1, <4>3, Zenon
      <4> QED
        BY <2>1, <3>1, <3>4, <4>2, <4>4 DEF carried
    <3>6. CASE ~srHeld.ok
      <4>1. Only(<<srHeld>>, Readable) = <<>>
        BY <3>6, OnlyOfOne DEF Readable
      <4>2. ls' = "select"
        BY <2>2, <3>6 DEF LsReceive
      <4>a. <<>> \o Only(carried, Readable) = Only(carried, Readable)
        BY <3>a
      <4>3. lspOut \o <<>> \o Only(carried, Readable) = Only(routed, Readable)
        BY <3>2, <3>3, <4>a, <4>1, Zenon
      <4> QED
        BY <2>1, <3>1, <3>4, <4>2, <4>3 DEF carried
    <3> QED
      BY <3>5, <3>6
  <2>3. CASE LsLookup \/ LsDelete \/ LsEmit
    BY <2>1, <2>3 DEF LsLookup, LsDelete, LsEmit
  <2>4. CASE LsForward
    <3> DEFINE rest == Only((IF srHeld # None THEN <<srHeld>> ELSE <<>>)
                             \o (IF dv = "second" THEN <<dvMsg>> ELSE <<>>), Readable)
    <3>1. /\ ls = "forward" /\ ls' = "select" /\ lspOut' = Append(lspOut, lsMsg)
          /\ UNCHANGED srHeld /\ rest' = rest
      BY <2>1, <2>4 DEF LsForward
    <3> HIDE DEF rest
    <3>2. lspOut \o <<lsMsg>> \o rest = Only(routed, Readable)
      BY <3>1 DEF rest
    <3>3. lspOut' \o <<>> = lspOut \o <<lsMsg>>
      BY <1>a, <3>1
    <3> QED
      BY <2>1, <3>1, <3>2, <3>3 DEF rest
  <2>5. CASE LsShutdown
    BY <2>5 DEF LsShutdown
  <2> QED
    BY <1>1, <2>2, <2>3, <2>4, <2>5 DEF ListenServer
<1>2. CASE Diverter
  <2>1. UNCHANGED <<ls, lsMsg, lspOut>>
    BY <1>2 DEF Diverter, lsVars
  <2>2. CASE DvRead \/ DvStop \/ DvWriteFirst
    BY <2>1, <2>2 DEF DvRead, DvStop, DvWriteFirst
  <2>3. CASE DvRoute
    <3> DEFINE working == IF ls \in {"lookup", "delete", "emit", "forward"} THEN <<lsMsg>>
                                                                           ELSE <<>>
               held    == IF srHeld # None THEN <<srHeld>> ELSE <<>>
    <3>1. CASE ~diverted
      BY <2>1, <2>3, <3>1 DEF DvRoute, ptVars
    <3>2. CASE diverted
      <4>1. /\ dv = "route" /\ dv' = "second" /\ dvMsg \in ServerMsg
            /\ routed' = Append(routed, dvMsg') /\ UNCHANGED srHeld
            /\ dvMsg' \in ServerMsg
        BY <1>a, <2>3, <3>2, RecogniseType DEF DvRoute, TypeInv, TypeOK, DvTypeOK
      <4>2. lspOut \o working \o Only(held \o <<>>, Readable) = Only(routed, Readable)
        BY <2>1, <4>1
      <4>3. working' = working /\ held' = held /\ working \in Seq(ServerMsg)
            /\ held \in Seq(ServerMsg)
        BY <1>a, <2>1, <4>1
      <4> HIDE DEF working, held
      <4>4. /\ held \o <<>> = held
            /\ held \o <<dvMsg'>> = Append(held, dvMsg')
        BY <4>1, <4>3
      <4>5. Only(Append(held, dvMsg'), Readable)
              = IF dvMsg' \in Readable THEN Append(Only(held, Readable), dvMsg')
                                      ELSE Only(held, Readable)
        BY <4>1, <4>3, OnlyOfAppend
      <4>6. Only(routed', Readable)
              = IF dvMsg' \in Readable THEN Append(Only(routed, Readable), dvMsg')
                                      ELSE Only(routed, Readable)
        BY <1>a, <4>1, OnlyOfAppend
      <4>7. Only(held, Readable) \in Seq(ServerMsg)
        <5>1. Only(held, Readable) \in Seq(ServerMsg \cap Readable)
          BY <4>3, OnlyType
        <5> QED
          BY <5>1, SeqMonotonic
      <4>8. lspOut \o working \o Append(Only(held, Readable), dvMsg')
              = Append(lspOut \o working \o Only(held, Readable), dvMsg')
        BY <1>a, <4>1, <4>3, <4>7
      <4>9. lspOut \o working \o Only(held \o <<dvMsg'>>, Readable) = Only(routed', Readable)
        BY <4>2, <4>4, <4>5, <4>6, <4>8
      <4> QED
        BY <2>1, <4>1, <4>3, <4>9 DEF working, held
    <3> QED
      BY <3>1, <3>2
  <2>4. CASE DvWriteSecond
    <3>1. /\ srHeld = None /\ dv = "second" /\ dv' = "read" /\ UNCHANGED routed
          /\ srHeld' = dvMsg \/ (~dvMsg.ok /\ srHeld' = None)
          /\ dvMsg \in ServerMsg
      BY <1>a, <2>1, <2>4 DEF DvWriteSecond, ServerPipesOpen
    <3>3. <<>> \o <<dvMsg>> = <<dvMsg>> \o <<>> /\ <<>> \o <<>> = <<>>
      OBVIOUS
    <3>4. CASE srHeld' = dvMsg
      <4>1. srHeld' # None
        BY <1>a, <3>1, <3>4
      <4> QED
        BY <2>1, <3>1, <3>3, <3>4, <4>1
    <3>5. CASE ~dvMsg.ok /\ srHeld' = None
      <4>1. Only(<<dvMsg>>, Readable) = Only(<<>>, Readable)
        BY <3>5, OnlyOfOne, OnlyOfEmpty DEF Readable
      <4> QED
        BY <2>1, <3>1, <3>3, <3>5, <4>1
    <3> QED
      BY <3>1, <3>4, <3>5
  <2> QED
    BY <1>2, <2>2, <2>3, <2>4 DEF Diverter
<1>3. CASE ListenClient \/ PassThrough \/ RuntimeAbort \/ BrokenPipe \/ Caller \/ Client \/ Server
           \/ UNCHANGED vars
  <2>1. UNCHANGED <<ls, lsMsg, lspOut, srHeld, dv, dvMsg, routed>>
    BY <1>3 DEF ListenClient, PassThrough, RuntimeAbort, BrokenPipe, Caller, CallerFrame, Client, Server,
       vars, lsVars, dvVars
  <2> QED
    BY <2>1
<1> QED
  BY <1>1, <1>2, <1>3 DEF Next

\* A line of the reader is torn only after text, and the server's responses are
\* readable as it writes them.
TextBefore == \E j \in DOMAIN routed : ~routed[j].ok /\ ~IsResponse(routed[j])
LossNeedsText ==
  /\ torn => TextBefore
  /\ \A i \in DOMAIN serverOut : IsResponse(serverOut[i]) => serverOut[i].ok
  /\ dv = "route" /\ IsResponse(dvMsg) => dvMsg.ok
  /\ LostOnlyAfterText

LEMMA InitLossNeedsText == Init => LossNeedsText
  BY DEF Init, LossNeedsText, LostOnlyAfterText

LEMMA NextLossNeedsText == TypeInv /\ LossNeedsText /\ [Next]_vars => LossNeedsText'
<1> SUFFICES ASSUME TypeInv, LossNeedsText, [Next]_vars PROVE LossNeedsText'
  OBVIOUS
<1>1. CASE Diverter
  <2>1. CASE DvRead
    <3>1. /\ dvMsg' = serverOut[1] /\ 1 \in DOMAIN serverOut
          /\ \A i \in DOMAIN serverOut' :
               i + 1 \in DOMAIN serverOut /\ serverOut'[i] = serverOut[i + 1]
      BY <2>1 DEF DvRead, TypeInv, TypeOK, ServerTypeOK
    <3>2. UNCHANGED <<torn, routed>>
      BY <2>1 DEF DvRead
    <3> QED
      BY <3>1, <3>2 DEF LossNeedsText, TextBefore, LostOnlyAfterText
  <2>2. CASE DvStop \/ DvWriteFirst \/ DvWriteSecond
    <3>1. UNCHANGED <<torn, routed, serverOut>> /\ dv' # "route"
      BY <2>2 DEF DvStop, DvWriteFirst, DvWriteSecond
    <3> QED
      BY <3>1 DEF LossNeedsText, TextBefore, LostOnlyAfterText
  <2>3. CASE DvRoute /\ ~diverted
    <3>1. UNCHANGED <<torn, routed, serverOut>> /\ dv' # "route"
      BY <2>3 DEF DvRoute
    <3> QED
      BY <3>1 DEF LossNeedsText, TextBefore, LostOnlyAfterText
  <2>4. CASE DvRoute /\ diverted
    <3>1. /\ routed' = Append(routed, dvMsg') /\ routed \in Seq(ServerMsg)
          /\ dvMsg \in ServerMsg /\ dvMsg' \in ServerMsg /\ Recognise(dvMsg)
          /\ IsResponse(dvMsg') = IsResponse(dvMsg)
      BY <2>4, RecogniseType DEF DvRoute, TypeInv, TypeOK, DvTypeOK, Working, IsResponse
    <3>2. /\ Len(routed') = Len(routed) + 1 /\ routed'[Len(routed')] = dvMsg'
          /\ \A i \in DOMAIN routed : i \in DOMAIN routed' /\ routed'[i] = routed[i]
          /\ \A i \in DOMAIN routed' : i = Len(routed') \/ i \in DOMAIN routed
          /\ Len(routed') \in DOMAIN routed' /\ DOMAIN routed = 1..Len(routed)
      BY <3>1
    <3>3. torn' => TextBefore'
      <4>1. CASE ~dvMsg.ok
        <5>1. dvMsg' = dvMsg /\ ~IsResponse(dvMsg)
          BY <2>4, <3>1, <4>1 DEF Recognise, LossNeedsText, DvRoute
        <5> QED
          BY <3>2, <4>1, <5>1 DEF TextBefore
      <4>2. CASE dvMsg.ok
        <5>1. torn' => torn
          BY <3>1, <4>2 DEF Recognise
        <5> QED
          BY <3>2, <5>1 DEF TextBefore, LossNeedsText
      <4> QED
        BY <4>1, <4>2
    <3>4. ASSUME NEW i \in DOMAIN routed', ~routed'[i].ok, IsResponse(routed'[i])
          PROVE  \E j \in 1..(i - 1) : ~routed'[j].ok /\ ~IsResponse(routed'[j])
      <4>1. CASE i \in DOMAIN routed
        <5>1. PICK j \in 1..(i - 1) : ~routed[j].ok /\ ~IsResponse(routed[j])
          BY <3>2, <3>4, <4>1 DEF LossNeedsText, LostOnlyAfterText
        <5>2. j \in DOMAIN routed
          BY <3>2, <4>1
        <5> QED
          BY <3>2, <5>1, <5>2
      <4>2. CASE i = Len(routed')
        <5>1. IsResponse(dvMsg) /\ ~dvMsg'.ok
          BY <3>1, <3>2, <3>4, <4>2
        <5>2. torn
          BY <2>4, <3>1, <5>1 DEF Recognise, LossNeedsText, DvRoute
        <5>3. PICK j \in DOMAIN routed : ~routed[j].ok /\ ~IsResponse(routed[j])
          BY <5>2 DEF LossNeedsText, TextBefore
        <5>4. j \in 1..(i - 1)
          BY <3>1, <3>2, <4>2, <5>3
        <5> QED
          BY <3>2, <5>3, <5>4
      <4> QED
        BY <3>2, <4>1, <4>2
    <3>5. UNCHANGED serverOut /\ dv' = "second"
      BY <2>4 DEF DvRoute
    <3> QED
      BY <3>3, <3>4, <3>5 DEF LossNeedsText, LostOnlyAfterText
  <2> QED
    BY <1>1, <2>1, <2>2, <2>3, <2>4 DEF Diverter
<1>2. CASE Server
  <2>1. UNCHANGED <<torn, routed, dv, dvMsg>>
    BY <1>2 DEF Server, dvVars
  <2>2. CASE ServerTake \/ ServerExit
    BY <2>1, <2>2 DEF ServerTake, ServerExit, LossNeedsText, TextBefore, LostOnlyAfterText
  <2>3. ASSUME NEW m \in ServerMsg, serverOut' = Append(serverOut, m), IsResponse(m) => m.ok
        PROVE  LossNeedsText'
    <3>1. \A i \in DOMAIN serverOut' :
            serverOut'[i] = m \/ (i \in DOMAIN serverOut /\ serverOut'[i] = serverOut[i])
      BY <2>3 DEF TypeInv, TypeOK, ServerTypeOK
    <3> QED
      BY <2>1, <2>3, <3>1 DEF LossNeedsText, TextBefore, LostOnlyAfterText
  <2>4. ASSUME NEW m \in owed, ServerReply(m) PROVE LossNeedsText'
    <3> DEFINE r == [id |-> m.id, method |-> None, ok |-> TRUE, re |-> m.method]
    <3>1. r \in ServerMsg
      BY DEF TypeInv, TypeOK, ServerTypeOK, ClientMsg, ServerMsg
    <3>2. serverOut' = Append(serverOut, r) /\ r.ok
      BY <2>4 DEF ServerReply
    <3> QED
      BY <2>3, <3>1, <3>2
  <2>5. ASSUME NEW m \in Unsolicited, ServerSay(m) PROVE LossNeedsText'
    <3>1. m \in ServerMsg /\ ~IsResponse(m)
      BY ServerAssumption
    <3> QED
      BY <2>3, <2>5, <3>1 DEF ServerSay
  <2> QED
    BY <1>2, <2>2, <2>4, <2>5 DEF Server
<1>3. CASE \/ ListenClient \/ ListenServer \/ PassThrough \/ RuntimeAbort \/ BrokenPipe
           \/ Caller \/ Client \/ UNCHANGED vars
  <2>1. UNCHANGED <<torn, routed, serverOut, dv, dvMsg>>
    BY <1>3 DEF ListenClient, ListenServer, PassThrough, RuntimeAbort, BrokenPipe, Caller,
       CallerFrame, Client, vars, dvVars
  <2> QED
    BY <2>1 DEF LossNeedsText, TextBefore, LostOnlyAfterText
<1> QED
  BY <1>1, <1>2, <1>3 DEF Next

LEMMA InitPassThrough == Init => PassThroughPreserved
<1> SUFFICES ASSUME Init PROVE PassThroughPreserved
  OBVIOUS
<1>1. dv = "read" /\ pt # "write" /\ passOut = <<>> /\ passed = <<>>
  BY DEF Init
<1>2. <<>> \o <<>> \o <<>> = <<>>
  OBVIOUS
<1> QED
  BY <1>1, <1>2 DEF PassThroughPreserved

LEMMA NextPassThrough == TypeInv /\ PassThroughPreserved /\ [Next]_vars => PassThroughPreserved'
<1> SUFFICES ASSUME TypeInv, PassThroughPreserved, [Next]_vars, passOpen', pt' # "off", ls' # "done"
             PROVE  PassThroughPreserved'
  BY DEF PassThroughPreserved
<1> USE DEF PassThroughPreserved
<1>a. /\ passOut \in Seq(ServerMsg) /\ passed \in Seq(ServerMsg)
      /\ dv \in {"route", "first", "second"} => dvMsg \in ServerMsg
      /\ pt = "write" => ptMsg \in ServerMsg
  BY DEF TypeInv, TypeOK, DvTypeOK, PtTypeOK, Working
<1>1. CASE Diverter
  <2>1. UNCHANGED <<ls, passOpen, passOut>>
    BY <1>1 DEF Diverter, lsVars, lcVars, flagVars
  <2>2. CASE DvRead \/ DvStop \/ DvWriteSecond
    BY <2>1, <2>2 DEF DvRead, DvStop, DvWriteSecond, ptVars
  <2>3. CASE DvRoute
    <3>1. CASE diverted
      BY <2>1, <2>3, <3>1 DEF DvRoute, ptVars
    <3>2. CASE ~diverted
      <4> DEFINE writing == IF pt = "write" THEN <<ptMsg>> ELSE <<>>
      <4>1. /\ dv = "route" /\ dv' = "first" /\ dvMsg \in ServerMsg
            /\ passed' = Append(passed, dvMsg) /\ UNCHANGED <<dvMsg, pt, ptMsg>>
        BY <1>a, <2>3, <3>2 DEF DvRoute, ptVars
      <4>2. passOut \o writing \o <<>> = passed
        BY <2>1, <4>1
      <4>3. writing' = writing /\ writing \in Seq(ServerMsg)
        BY <1>a, <4>1
      <4> HIDE DEF writing
      <4>4. passOut \o writing \o <<dvMsg>> = Append(passOut \o writing \o <<>>, dvMsg)
        BY <1>a, <4>1, <4>3
      <4>5. passOut \o writing \o <<dvMsg>> = passed'
        BY <4>1, <4>2, <4>4
      <4> QED
        BY <2>1, <4>1, <4>3, <4>5 DEF writing
    <3> QED
      BY <3>1, <3>2
  <2>4. CASE DvWriteFirst
    <3>1. /\ dv = "first" /\ dv' = "read" /\ pt = "read" /\ pt' = "write" /\ ptMsg' = dvMsg
          /\ UNCHANGED passed
      BY <2>1, <2>4 DEF DvWriteFirst
    <3>2. passOut \o <<>> \o <<dvMsg>> = passOut \o <<dvMsg>> \o <<>>
      BY <1>a, <3>1
    <3> QED
      BY <2>1, <3>1, <3>2
  <2> QED
    BY <1>1, <2>2, <2>3, <2>4 DEF Diverter
<1>2. CASE PassThrough
  <2>1. UNCHANGED <<ls, passOpen, dv, dvMsg, passed>>
    BY <1>2 DEF PassThrough, lsVars, lcVars, flagVars, dvVars
  <2>2. CASE PtWrite
    <3> DEFINE carried == IF dv = "first" THEN <<dvMsg>> ELSE <<>>
    <3>1. pt = "write" /\ pt' = "read" /\ passOut' = Append(passOut, ptMsg) /\ ptMsg \in ServerMsg
      BY <1>a, <2>1, <2>2 DEF PtWrite, ServerPipesOpen
    <3>2. carried' = carried /\ carried \in Seq(ServerMsg)
      BY <1>a, <2>1
    <3>3. passOut \o <<ptMsg>> \o carried = passed
      BY <2>1, <3>1
    <3> HIDE DEF carried
    <3>4. Append(passOut, ptMsg) \o <<>> \o carried = passOut \o <<ptMsg>> \o carried
      BY <1>a, <3>1, <3>2
    <3> QED
      BY <2>1, <3>1, <3>2, <3>3, <3>4 DEF carried
  <2>3. CASE PtStop
    BY <2>1, <2>3 DEF PtStop
  <2> QED
    BY <1>2, <2>2, <2>3 DEF PassThrough
<1>3. CASE ListenClient \/ ListenServer
  <2>1. UNCHANGED <<pt, ptMsg, passOut, dv, dvMsg, passed>>
    BY <1>3 DEF ListenClient, ListenServer, ptVars, dvVars
  <2>2. passOpen
    BY <1>3 DEF ListenClient, ListenServer, lcVars, flagVars, LcReceive, LcEof,
       LcClosePassThrough, LcDivert, LcRegister, LcRaise, LcForward, LcShutdown, LcFlushExit
  <2>3. ls # "done"
    BY <1>3 DEF ListenClient, ListenServer, lsVars, LsReceive, LsLookup, LsDelete, LsEmit,
       LsForward, LsShutdown
  <2> QED
    BY <2>1, <2>2, <2>3
<1>4. CASE RuntimeAbort \/ BrokenPipe \/ Caller \/ Client \/ Server \/ UNCHANGED vars
  <2>1. UNCHANGED <<ls, passOpen, pt, ptMsg, passOut, dv, dvMsg, passed>>
    BY <1>4 DEF RuntimeAbort, BrokenPipe, Caller, CallerFrame, Client, Server, vars, lsVars, lcVars,
       flagVars, ptVars, dvVars
  <2> QED
    BY <2>1
<1> QED
  BY <1>1, <1>2, <1>3, <1>4 DEF Next

\* What the server writes reaches the client in order and without a gap, by the way
\* the diverter took it, whatever the listeners, the diverter and the pass-through
\* do in between and wherever the mode switch falls.
THEOREM ServerStreamIntact == Spec => []ServerStreamPreserved
<1> DEFINE IInv == LspPathPreserved /\ LossNeedsText /\ PassThroughPreserved
<1>1. Init => IInv
  BY InitLspPath, InitLossNeedsText, InitPassThrough
<1>2. TypeInv /\ IInv /\ [Next]_vars => IInv'
  BY NextLspPath, NextLossNeedsText, NextPassThrough
<1>3. IInv => ServerStreamPreserved
  BY DEF ServerStreamPreserved, LossNeedsText
<1> QED
  BY <1>1, <1>2, <1>3, TypeInvInvariant, PTL DEF Spec

-----------------------------------------------------------------------------
(* The two writers of stdout                                               *)

\* listenServer has a message only from the second destination, which the diverter
\* writes to only once the pass-through pipe is closed: a chunk the pass-through
\* still holds then is its last.
LateOnce ==
  /\ lc \in {"divert", "awaitConfirm"} \/ diverted => ~passOpen
  /\ dv = "second" \/ srHeld # None \/ ls \in {"lookup", "delete", "emit", "forward"} => diverted
  /\ \A i \in DOMAIN stdout : stdout[i] = "lsp" => ~passOpen
  /\ \A i, j \in DOMAIN stdout :
       stdout[i] = "lsp" /\ i < j /\ stdout[j] = "pass"
         => pt # "write" /\ \A k \in DOMAIN stdout : i < k /\ stdout[k] = "pass" => k = j

LEMMA InitLateOnce == Init => LateOnce
  BY DEF Init, LateOnce

LEMMA NextLateOnce == TypeInv /\ LateOnce /\ [Next]_vars => LateOnce'
<1> SUFFICES ASSUME TypeInv, LateOnce, [Next]_vars PROVE LateOnce'
  OBVIOUS
<1> USE DEF LateOnce
<1>a. stdout \in Seq({"pass", "lsp"})
  BY DEF TypeInv, TypeOK, StdoutTypeOK
<1>1. CASE ListenClient
  <2>1. UNCHANGED <<dv, srHeld, ls, pt, stdout>>
    BY <1>1 DEF ListenClient, dvVars, lsVars, ptVars
  <2>2. CASE LcReceive \/ LcEof \/ LcClosePassThrough \/ LcDivert
    BY <2>1, <2>2 DEF LcReceive, LcEof, LcClosePassThrough, LcDivert, Dispatch, flagVars
  <2>3. CASE LcRegister \/ LcRaise \/ LcForward \/ LcShutdown \/ LcFlushExit
    BY <2>1, <2>3 DEF LcRegister, LcRaise, LcForward, LcShutdown, LcFlushExit, flagVars
  <2> QED
    BY <1>1, <2>2, <2>3 DEF ListenClient
<1>2. CASE ListenServer
  <2>1. UNCHANGED <<lc, passOpen, diverted, dv, pt>>
    BY <1>2 DEF ListenServer, lcVars, flagVars, dvVars, ptVars
  <2>2. CASE LsReceive \/ LsLookup \/ LsDelete \/ LsEmit \/ LsShutdown
    BY <2>1, <2>2 DEF LsReceive, LsLookup, LsDelete, LsEmit, LsShutdown
  <2>3. CASE LsForward
    <3>1. stdout' = Append(stdout, "lsp") /\ ls' = "select" /\ UNCHANGED srHeld /\ diverted
      BY <2>3 DEF LsForward
    <3>2. \A i \in DOMAIN stdout' :
            i = Len(stdout) + 1 \/ (i \in DOMAIN stdout /\ stdout'[i] = stdout[i])
      BY <1>a, <3>1
    <3>3. stdout'[Len(stdout) + 1] = "lsp" /\ \A i \in DOMAIN stdout : i < Len(stdout) + 1
      BY <1>a, <3>1
    <3>4. \A i \in DOMAIN stdout' : stdout'[i] = "lsp" => ~passOpen'
      BY <2>1, <3>1
    <3>5. \A j \in DOMAIN stdout' : stdout'[j] = "pass" => j \in DOMAIN stdout /\ stdout[j] = "pass"
      BY <3>2, <3>3
    <3>6. ASSUME NEW i \in DOMAIN stdout', NEW j \in DOMAIN stdout',
                 stdout'[i] = "lsp", i < j, stdout'[j] = "pass"
          PROVE  i \in DOMAIN stdout /\ stdout[i] = "lsp"
      <4>1. j \in DOMAIN stdout /\ j < Len(stdout) + 1
        BY <3>3, <3>5, <3>6
      <4>2. i # Len(stdout) + 1
        BY <1>a, <3>6, <4>1
      <4> QED
        BY <3>2, <3>6, <4>2
    <3> QED
      BY <2>1, <3>1, <3>4, <3>5, <3>6
  <2> QED
    BY <1>2, <2>2, <2>3 DEF ListenServer
<1>3. CASE Diverter
  <2>1. UNCHANGED <<lc, passOpen, diverted, ls, stdout>>
    BY <1>3 DEF Diverter, lcVars, flagVars, lsVars
  <2>2. CASE DvRead \/ DvStop \/ DvRoute \/ DvWriteSecond
    BY <2>1, <2>2 DEF DvRead, DvStop, DvRoute, DvWriteSecond, ptVars
  <2>3. CASE DvWriteFirst
    BY <2>1, <2>3 DEF DvWriteFirst
  <2> QED
    BY <1>3, <2>2, <2>3 DEF Diverter
<1>4. CASE PassThrough
  <2>1. UNCHANGED <<lc, passOpen, diverted, dv, srHeld, ls>>
    BY <1>4 DEF PassThrough, lcVars, flagVars, dvVars, lsVars
  <2>2. CASE PtStop \/ (PtWrite /\ UNCHANGED stdout)
    BY <2>1, <2>2 DEF PtStop, PtWrite
  <2>3. CASE PtWrite /\ stdout' = Append(stdout, "pass")
    <3>1. pt = "write" /\ pt' = "read"
      BY <2>3 DEF PtWrite
    <3>2. \A i \in DOMAIN stdout' :
            \/ i = Len(stdout) + 1 /\ stdout'[i] = "pass"
            \/ i \in DOMAIN stdout /\ stdout'[i] = stdout[i]
      BY <1>a, <2>3
    <3>3. \A i, j \in DOMAIN stdout :
            stdout[i] = "lsp" /\ i < j => stdout[j] # "pass"
      BY <3>1
    <3>4. \A i, j \in DOMAIN stdout' :
            stdout'[i] = "lsp" /\ i < j /\ stdout'[j] = "pass" => j = Len(stdout) + 1
      BY <3>2, <3>3
    <3> QED
      BY <2>1, <3>1, <3>2, <3>4
  <2> QED
    BY <1>4, <2>2, <2>3 DEF PassThrough, PtWrite
<1>5. CASE RuntimeAbort \/ BrokenPipe \/ Caller \/ Client \/ Server \/ UNCHANGED vars
  <2>1. UNCHANGED <<passOpen, diverted, dv, srHeld, ls, pt, stdout>>
    BY <1>5 DEF RuntimeAbort, BrokenPipe, Caller, CallerFrame, Client, Server, vars, lcVars, flagVars, dvVars,
       lsVars, ptVars
  <2>2. lc' \in {"divert", "awaitConfirm"} => lc \in {"divert", "awaitConfirm"}
    BY <1>5 DEF RuntimeAbort, BrokenPipe, Caller, AcceptSwitch, ConfirmProxyMode, TakeShutdownRequest,
       Shutdown, Dispatch, Client, Server, vars, lcVars
  <2> QED
    BY <2>1, <2>2
<1> QED
  BY <1>1, <1>2, <1>3, <1>4, <1>5 DEF Next

\* Once listenServer has written to stdout, at most one chunk of the pass-through
\* follows, however the two goroutines are scheduled.
THEOREM LateChunkIsOne == Spec => []AtMostOneLateChunk
<1>1. TypeInv /\ LateOnce => AtMostOneLateChunk
  <2> SUFFICES ASSUME TypeInv, LateOnce, NEW i \in DOMAIN stdout, stdout[i] = "lsp"
               PROVE  Cardinality({j \in i..Len(stdout) : stdout[j] = "pass"}) <= 1
    BY DEF AtMostOneLateChunk
  <2> DEFINE Late == {j \in i..Len(stdout) : stdout[j] = "pass"}
  <2>1. DOMAIN stdout = 1..Len(stdout) /\ Len(stdout) \in Nat
    BY DEF TypeInv, TypeOK, StdoutTypeOK
  <2>2. \A j \in Late : j \in DOMAIN stdout /\ i < j
    BY <2>1
  <2>3. \A j, k \in Late : k = j
    BY <2>2 DEF LateOnce
  <2> HIDE DEF Late
  <2> SUFFICES Cardinality(Late) <= 1
    BY DEF Late
  <2>4. CASE Late = {}
    BY <2>4, FS_EmptySet
  <2>5. CASE Late # {}
    <3>1. PICK j \in Late : Late = {j}
      BY <2>3, <2>5
    <3> QED
      BY <3>1, FS_Singleton
  <2> QED
    BY <2>4, <2>5
<1> QED
  BY <1>1, InitLateOnce, NextLateOnce, TypeInvInvariant, PTL DEF Spec

-----------------------------------------------------------------------------
(* What the client sends                                                   *)

\* The messages to be passed on that listenClient has received, the one of them it
\* works on, and whether an exit notification has been written.
Due == Only(SubSeq(clientSent, 1, clientRead), Forwardable)
InHand ==
  IF lc \in {"offerSwitch", "closePass", "divert", "awaitConfirm", "register", "forward"}
     /\ ~IsExit(lcMsg)
  THEN <<lcMsg>> ELSE <<>>
ExitSent == \E i \in DOMAIN toServer : IsExit(toServer[i])

\* ClientStreamPreserved does not say when exit is there: after listenClient has
\* ended and not before, so that nothing is written behind it.
ClientStreamInv ==
  serverUp => toServer \o InHand = IF ExitSent THEN Append(Due, ExitMsg) ELSE Due

LEMMA InitClientStream == Init => ClientStreamInv
<1> SUFFICES ASSUME Init PROVE ClientStreamInv
  OBVIOUS
<1>1. clientSent = <<>> /\ clientRead = 0 /\ lc \in {"off", "select"} /\ toServer = <<>>
  BY DEF Init
<1>2. <<>> \o <<>> = <<>> /\ SubSeq(<<>>, 1, 0) = <<>>
  OBVIOUS
<1>3. Due = <<>>
  BY <1>1, <1>2, OnlyOfEmpty DEF Due
<1>4. InHand = <<>> /\ ~ExitSent
  BY <1>1 DEF InHand, ExitSent
<1> QED
  BY <1>1, <1>2, <1>3, <1>4 DEF ClientStreamInv

\* Receiving a message makes it due, if it is one to be passed on.
LEMMA DueOfNext ==
  ASSUME TypeInv, clientRead < Len(clientSent), clientRead' = clientRead + 1, UNCHANGED clientSent
  PROVE  LET m == clientSent[clientRead + 1]
         IN  Due' = IF m \in Forwardable THEN Append(Due, m) ELSE Due
<1> DEFINE m    == clientSent[clientRead + 1]
           read == SubSeq(clientSent, 1, clientRead)
<1>1. clientSent \in Seq(ClientMsg) /\ clientRead \in Nat /\ m \in ClientMsg
  BY DEF TypeInv, TypeOK, ClientTypeOK
<1>2. read \in Seq(ClientMsg) /\ SubSeq(clientSent, 1, clientRead + 1) = Append(read, m)
  BY <1>1
<1> HIDE DEF read, m
<1>3. Only(Append(read, m), Forwardable)
        = IF m \in Forwardable THEN Append(Only(read, Forwardable), m) ELSE Only(read, Forwardable)
  BY <1>1, <1>2, OnlyOfAppend
<1>4. Due' = Only(SubSeq(clientSent, 1, clientRead + 1), Forwardable)
  BY DEF Due
<1> QED
  BY <1>2, <1>3, <1>4 DEF Due, read, m

\* Of what the client has sent, only what was received is due.
LEMMA DueUnchanged ==
  ASSUME TypeInv, UNCHANGED clientRead,
         UNCHANGED clientSent \/ \E m \in ClientMsg : clientSent' = Append(clientSent, m)
  PROVE  Due' = Due
<1>1. clientSent \in Seq(ClientMsg) /\ clientRead \in 0..Len(clientSent)
  BY DEF TypeInv, TypeOK, ClientTypeOK
<1>2. SubSeq(clientSent', 1, clientRead) = SubSeq(clientSent, 1, clientRead)
  BY <1>1
<1> QED
  BY <1>2 DEF Due

LEMMA DueType == TypeInv => Due \in Seq(ClientMsg)
<1> SUFFICES ASSUME TypeInv PROVE Due \in Seq(ClientMsg)
  OBVIOUS
<1>1. SubSeq(clientSent, 1, clientRead) \in Seq(ClientMsg)
  BY DEF TypeInv, TypeOK, ClientTypeOK
<1>2. Due \in Seq(ClientMsg \cap Forwardable)
  BY <1>1, OnlyType DEF Due
<1> QED
  BY <1>2, SeqMonotonic

LEMMA NextClientStream ==
  TypeInv /\ ExitIsHeld /\ ClientStreamInv /\ [Next]_vars => ClientStreamInv'
<1> SUFFICES ASSUME TypeInv, ExitIsHeld, ClientStreamInv, [Next]_vars, serverUp'
             PROVE  ClientStreamInv'
  BY DEF ClientStreamInv
<1>a. /\ toServer \in Seq(ClientMsg)
      /\ lc \in {"offerSwitch", "closePass", "divert", "awaitConfirm", "register", "forward"}
           => lcMsg \in ClientMsg
      /\ lc = "register" => IsRequest(lcMsg)
  BY DEF TypeInv, TypeOK, ServerTypeOK, Working
<1>b. Due \in Seq(ClientMsg)
  BY DueType
<1>c. serverUp
  BY DEF Next, ListenClient, ListenServer, Diverter, PassThrough, RuntimeAbort, BrokenPipe, Caller, CallerFrame,
     Client, Server, ServerTake, ServerReply, ServerSay, ServerExit, vars, serverVars
<1>d. toServer \o InHand = IF ExitSent THEN Append(Due, ExitMsg) ELSE Due
  BY <1>c DEF ClientStreamInv
<1>e. (ExitSent => lc = "done") /\ (lc = "forward" => ~IsExit(lcMsg))
  BY DEF ExitIsHeld, ExitSent
<1>1. CASE ListenClient
  <2>1. UNCHANGED clientSent
    BY <1>1 DEF ListenClient, clientVars
  <2>2. CASE LcReceive
    <3> DEFINE m == clientSent[clientRead + 1]
    <3>1. /\ lc = "select" /\ InHand = <<>> /\ ~ExitSent /\ UNCHANGED toServer
          /\ clientRead' = clientRead + 1 /\ clientRead < Len(clientSent) /\ m \in ClientMsg
      BY <1>e, <2>2 DEF LcReceive, InHand, TypeInv, TypeOK, ClientTypeOK
    <3>2. Due' = IF m \in Forwardable THEN Append(Due, m) ELSE Due
      BY <2>1, <3>1, DueOfNext
    <3>3. toServer = Due /\ ~ExitSent'
      BY <1>a, <1>d, <3>1 DEF ExitSent
    <3>4. InHand' = IF m \in Forwardable THEN <<m>> ELSE <<>>
      <4>1. CASE ~m.ok
        BY <2>2, <3>1, <4>1 DEF LcReceive, InHand, Forwardable
      <4>2. CASE m.ok
        <5>1. lcMsg' = m /\ lc' = IF switchDone THEN Dispatch(m) ELSE "offerSwitch"
          BY <2>2, <4>2 DEF LcReceive
        <5>2. m \in Forwardable <=> ~IsExit(m)
          BY <3>1, <4>2 DEF Forwardable
        <5>3. lc' \in {"offerSwitch", "register", "forward", "raise"}
              /\ (lc' = "raise" => IsExit(m))
          BY <5>1 DEF Dispatch
        <5> QED
          BY <5>1, <5>2, <5>3 DEF InHand
      <4> QED
        BY <4>1, <4>2
    <3> HIDE DEF m
    <3>5. toServer' \o InHand' = Due'
      BY <1>b, <3>1, <3>2, <3>3, <3>4
    <3> QED
      BY <3>3, <3>5 DEF ClientStreamInv
  <2>3. CASE LcClosePassThrough \/ LcDivert \/ LcRegister
    <3>1. UNCHANGED <<toServer, clientRead, lcMsg>> /\ InHand' = InHand
      <4>1. lc = "register" => ~IsExit(lcMsg)
        BY <1>a DEF IsRequest, IsExit
      <4> QED
        BY <2>3, <4>1 DEF LcClosePassThrough, LcDivert, LcRegister, InHand
    <3>2. Due' = Due
      BY <2>1, <3>1, DueUnchanged
    <3> QED
      BY <1>d, <3>1, <3>2 DEF ClientStreamInv, ExitSent
  <2>4. CASE LcEof \/ LcRaise \/ LcShutdown
    <3>1. UNCHANGED <<toServer, clientRead>> /\ InHand' = <<>> /\ InHand = <<>>
      BY <2>4 DEF LcEof, LcRaise, LcShutdown, InHand
    <3>2. Due' = Due
      BY <2>1, <3>1, DueUnchanged
    <3> QED
      BY <1>d, <3>1, <3>2 DEF ClientStreamInv, ExitSent
  <2>5. CASE LcForward
    <3>1. /\ lc = "forward" /\ UNCHANGED clientRead /\ InHand = <<lcMsg>> /\ InHand' = <<>>
          /\ ~ExitSent /\ toServer' = Append(toServer, lcMsg)
      BY <1>c, <1>e, <2>5 DEF LcForward, WriteToServer, InHand
    <3>2. Due' = Due
      BY <2>1, <3>1, DueUnchanged
    <3>3. ~ExitSent'
      <4>1. ~IsExit(lcMsg) /\ \A i \in DOMAIN toServer : ~IsExit(toServer[i])
        BY <1>e, <3>1 DEF ExitSent
      <4> QED
        BY <1>a, <3>1, <4>1 DEF ExitSent
    <3>4. toServer' \o <<>> = toServer \o <<lcMsg>>
      BY <1>a, <3>1
    <3> QED
      BY <1>d, <3>1, <3>2, <3>3, <3>4 DEF ClientStreamInv
  <2>6. CASE LcFlushExit
    <3>1. /\ lc = "flushExit" /\ UNCHANGED clientRead /\ InHand = <<>> /\ InHand' = <<>>
          /\ ~ExitSent /\ toServer' = Append(toServer, ExitMsg)
      BY <1>c, <1>e, <2>6 DEF LcFlushExit, WriteToServer, InHand
    <3>2. Due' = Due
      BY <2>1, <3>1, DueUnchanged
    <3>3. ExitSent'
      BY <1>a, <3>1, ExitMsgType DEF ExitSent
    <3>4. toServer = Due
      BY <1>a, <1>d, <3>1
    <3>5. toServer' \o <<>> = Append(Due, ExitMsg)
      BY <1>a, <3>1, <3>4, ExitMsgType
    <3> QED
      BY <3>1, <3>2, <3>3, <3>5 DEF ClientStreamInv
  <2> QED
    BY <1>1, <2>2, <2>3, <2>4, <2>5, <2>6 DEF ListenClient
<1>2. CASE Caller
  <2>1. UNCHANGED <<clientSent, clientRead, lcMsg, toServer>>
    BY <1>2 DEF Caller, CallerFrame, clientVars
  <2>2. InHand' = InHand
    BY <1>2, <2>1 DEF Caller, AcceptSwitch, ConfirmProxyMode, TakeShutdownRequest, Shutdown,
       Dispatch, InHand
  <2>3. Due' = Due
    BY <2>1, DueUnchanged
  <2> QED
    BY <1>d, <2>1, <2>2, <2>3 DEF ClientStreamInv, ExitSent
<1>3. CASE ListenServer \/ Diverter \/ PassThrough \/ RuntimeAbort \/ BrokenPipe \/ Client \/ Server
           \/ UNCHANGED vars
  <2>1. UNCHANGED <<clientRead, lc, lcMsg, toServer>>
    BY <1>3 DEF ListenServer, Diverter, PassThrough, RuntimeAbort, BrokenPipe, Client, Server, vars, lcVars
  <2>2. UNCHANGED clientSent \/ \E m \in ClientMsg : clientSent' = Append(clientSent, m)
    BY <1>3, ClientAssumption DEF ListenServer, Diverter, PassThrough, RuntimeAbort, BrokenPipe, Client,
       ClientClose, ClientStopsReading, ClientSend, Server, vars, clientVars
  <2>3. Due' = Due /\ InHand' = InHand
    BY <2>1, <2>2, DueUnchanged DEF InHand
  <2> QED
    BY <1>d, <2>1, <2>3 DEF ClientStreamInv, ExitSent
<1> QED
  BY <1>1, <1>2, <1>3 DEF Next

\* A live server has been written every well-formed message of the client but exit,
\* once and in order, save the one listenClient works on, and exit at the end.
THEOREM ClientStreamIntact == Spec => []ClientStreamPreserved
<1>1. ClientStreamInv => ClientStreamPreserved
  BY DEF ClientStreamInv, ClientStreamPreserved, Due, InHand
<1>2. Spec => []ExitIsHeld
  BY InitExitIsHeld, NextExitIsHeld, TypeInvInvariant, PTL DEF Spec
<1> QED
  BY <1>1, <1>2, InitClientStream, NextClientStream, TypeInvInvariant, PTL DEF Spec

\* An intercepted exit notification is not forgotten: listenClient does not end
\* without having written it to a live server, unless the client closes our stdin.
THEOREM ExitIsDelivered == Spec => []ExitReachesServer
<1>1. Init => ExitReachesServer
  BY DEF Init, ExitReachesServer
<1>2. TypeInv /\ ExitReachesServer /\ [Next]_vars => ExitReachesServer'
  <2> SUFFICES ASSUME TypeInv, ExitReachesServer, [Next]_vars,
                      lc' = "done", exitHeld', serverUp', clientOpen'
               PROVE  \E i \in DOMAIN toServer' : IsExit(toServer'[i])
    BY DEF ExitReachesServer
  <2>1. serverUp /\ clientOpen /\ toServer \in Seq(ClientMsg)
    BY DEF Next, ListenClient, ListenServer, Diverter, PassThrough, RuntimeAbort, BrokenPipe, Caller,
       CallerFrame, Client, ClientClose, ClientStopsReading, ClientSend, Server, ServerTake, ServerReply, ServerSay,
       ServerExit, vars, serverVars, clientVars, TypeInv, TypeOK, ServerTypeOK
  <2>2. CASE LcFlushExit
    <3>1. toServer' = Append(toServer, ExitMsg)
      BY <2>1, <2>2 DEF LcFlushExit, WriteToServer
    <3> QED
      BY <2>1, <3>1, ExitMsgType
  <2>3. CASE UNCHANGED <<lc, exitHeld, toServer>>
    BY <2>1, <2>3 DEF ExitReachesServer
  <2>4. CASE ListenClient
    <3>1. ~LcEof
      BY <2>1 DEF LcEof
    <3>2. CASE LcReceive \/ LcClosePassThrough \/ LcDivert \/ LcRegister \/ LcRaise \/ LcForward
      BY <3>2 DEF LcReceive, Dispatch, LcClosePassThrough, LcDivert, LcRegister, LcRaise, LcForward
    <3>3. CASE LcShutdown
      BY <3>3 DEF LcShutdown, flagVars
    <3> QED
      BY <2>2, <2>4, <3>1, <3>2, <3>3 DEF ListenClient
  <2>5. CASE Caller
    BY <2>3, <2>5 DEF Caller, CallerFrame, AcceptSwitch, ConfirmProxyMode, TakeShutdownRequest,
       Shutdown, Dispatch
  <2>6. CASE ListenServer \/ Diverter \/ PassThrough \/ RuntimeAbort \/ BrokenPipe \/ Client \/ Server
             \/ UNCHANGED vars
    BY <2>3, <2>6 DEF ListenServer, Diverter, PassThrough, RuntimeAbort, BrokenPipe, Client, Server, vars,
       lcVars, flagVars
  <2> QED
    BY <2>4, <2>5, <2>6 DEF Next
<1> QED
  BY <1>1, <1>2, TypeInvInvariant, PTL DEF Spec

-----------------------------------------------------------------------------
(* The requests under way                                                  *)

Asks(m, id)    == IsRequest(m) /\ m.id = id
Answers(m, id) == IsResponse(m) /\ m.id = id

\* Where a request of the client with this id, or the response to it, is on its way
\* through lspwatch and the server.
SentAt(id) ==
  {<<"sent", i>> : i \in {j \in clientRead + 1..Len(clientSent) : Asks(clientSent[j], id)}}
LcAt(id) ==
  IF /\ lc \in {"offerSwitch", "closePass", "divert", "awaitConfirm", "register", "forward"}
     /\ Asks(lcMsg, id)
  THEN {<<"lc", 0>>} ELSE {}
StdinAt(id) ==
  {<<"stdin", i>> : i \in {j \in taken + 1..Len(toServer) : Asks(toServer[j], id)}}
OwedAt(id) == {<<"owed", m>> : m \in {n \in owed : n.id = id}}
StdoutAt(id) ==
  {<<"stdout", i>> : i \in {j \in DOMAIN serverOut : Answers(serverOut[j], id)}}
DvAt(id) == IF dv \in {"route", "second"} /\ Answers(dvMsg, id) THEN {<<"dv", 0>>} ELSE {}
SrAt(id) == IF srHeld # None /\ Answers(srHeld, id) THEN {<<"sr", 0>>} ELSE {}
LsAt(id) ==
  IF ls \in {"lookup", "delete", "emit", "forward"} /\ Answers(lsMsg, id)
  THEN {<<"ls", 0>>} ELSE {}
ClientSide(id) == SentAt(id) \cup LcAt(id) \cup StdinAt(id) \cup OwedAt(id)
ServerSide(id) == StdoutAt(id) \cup DvAt(id) \cup SrAt(id) \cup LsAt(id)
Places(id)     == ClientSide(id) \cup ServerSide(id)

\* An id is in one place at most, and only while the client waits for its answer.
Asked(id)    == Cardinality(Requests(id))
Answered(id) == Cardinality(Responses(id))
OneOf(id) ==
  /\ \A p, q \in Places(id) : p = q
  /\ Asked(id) \in {Answered(id), Answered(id) + 1}
  /\ Places(id) # {} => Asked(id) = Answered(id) + 1
OneAtATime ==
  /\ \A m \in owed : IsRequest(m)
  /\ \A id \in Ids : OneOf(id)

-----------------------------------------------------------------------------
(* One request per id                                                      *)

LEMMA InitOneAtATime == Init => OneAtATime
<1> SUFFICES ASSUME Init PROVE OneAtATime
  OBVIOUS
<1>1. owed = {} /\ clientSent = <<>> /\ lspOut = <<>>
  BY DEF Init
<1>2. ASSUME NEW id \in Ids PROVE OneOf(id)
  <2>1. Places(id) = {}
    BY DEF Init, Places, ClientSide, ServerSide, SentAt, LcAt, StdinAt, OwedAt, StdoutAt, DvAt,
       SrAt, LsAt
  <2>2. Requests(id) = {} /\ Responses(id) = {}
    BY <1>1 DEF Requests, Responses
  <2> QED
    BY <2>1, <2>2, FS_EmptySet DEF OneOf, Asked, Answered
<1> QED
  BY <1>1, <1>2 DEF OneAtATime

\* A step takes an id from one place to another at most.
Moves(id) ==
  \/ Places(id)' \subseteq Places(id)
  \/ \E from \in Places(id) : \E to : Places(id)' \subseteq (Places(id) \ {from}) \cup {to}

\* Such a step keeps the id in one place.
LEMMA OneOfMoved ==
  ASSUME NEW id, OneOf(id), UNCHANGED <<clientSent, lspOut>>,
         Moves(id)
  PROVE  OneOf(id)'
<1>1. \A p, q \in Places(id) : p = q
  BY DEF OneOf
<1>2. (\A p, q \in Places(id)' : p = q) /\ (Places(id)' # {} => Places(id) # {})
  <2>1. CASE Places(id)' \subseteq Places(id)
    BY <1>1, <2>1
  <2>2. ASSUME NEW from \in Places(id), NEW to,
               Places(id)' \subseteq (Places(id) \ {from}) \cup {to}
        PROVE  (\A p, q \in Places(id)' : p = q) /\ Places(id) # {}
    BY <1>1, <2>2
  <2> QED
    BY <2>1, <2>2 DEF Moves
<1>3. Asked(id)' = Asked(id) /\ Answered(id)' = Answered(id)
  BY DEF Asked, Answered, Requests, Responses
<1> QED
  BY <1>2, <1>3 DEF OneOf

\* What is new in the places of the client's side comes from another of them.
LEMMA ListenClientPlaces ==
  ASSUME TypeInv, ListenClient, NEW id
  PROVE  Moves(id)
<1>a. /\ UNCHANGED <<clientSent, taken, owed>>
      /\ ServerSide(id)' = ServerSide(id)
  BY DEF ListenClient, clientVars, serverVars, dvVars, lsVars, ServerSide, StdoutAt, DvAt, SrAt,
     LsAt
<1>b. OwedAt(id)' = OwedAt(id)
  BY <1>a DEF OwedAt
<1>c. /\ clientSent \in Seq(ClientMsg) /\ clientRead \in Nat
      /\ toServer \in Seq(ClientMsg) /\ taken \in Nat /\ taken <= Len(toServer)
  BY DEF TypeInv, TypeOK, ClientTypeOK, ServerTypeOK
<1>1. CASE LcReceive
  <2> DEFINE m == clientSent[clientRead + 1]
  <2>1. /\ lc = "select" /\ clientRead < Len(clientSent) /\ clientRead' = clientRead + 1
        /\ UNCHANGED toServer
    BY <1>1 DEF LcReceive
  <2>2. StdinAt(id)' = StdinAt(id)
    BY <1>a, <2>1 DEF StdinAt
  <2>3. SentAt(id)' \subseteq SentAt(id) \ {<<"sent", clientRead + 1>>}
    BY <1>a, <1>c, <2>1 DEF SentAt
  <2>4. CASE m.ok /\ Asks(m, id)
    <3>1. <<"sent", clientRead + 1>> \in Places(id)
      BY <1>c, <2>1, <2>4 DEF SentAt, Places, ClientSide
    <3>2. LcAt(id)' \subseteq {<<"lc", 0>>}
      BY DEF LcAt
    <3>3. <<"sent", clientRead + 1>> \notin StdinAt(id) \cup OwedAt(id) \cup ServerSide(id)
      BY DEF StdinAt, OwedAt, ServerSide, StdoutAt, DvAt, SrAt, LsAt
    <3>4. Places(id)' \subseteq (Places(id) \ {<<"sent", clientRead + 1>>}) \cup {<<"lc", 0>>}
      BY <1>a, <1>b, <2>2, <2>3, <3>2, <3>3 DEF Places, ClientSide
    <3> QED
      BY <3>1, <3>4 DEF Moves
  <2>5. CASE ~(m.ok /\ Asks(m, id))
    <3>1. LcAt(id)' = {}
      <4>1. CASE ~m.ok
        BY <1>1, <2>1, <4>1 DEF LcReceive, LcAt
      <4>2. CASE m.ok
        BY <1>1, <2>5, <4>2 DEF LcReceive, LcAt
      <4> QED
        BY <4>1, <4>2
    <3> QED
      BY <1>a, <1>b, <2>2, <2>3, <3>1 DEF Moves, Places, ClientSide
  <2> QED
    BY <2>4, <2>5
<1>2. CASE LcEof \/ LcClosePassThrough \/ LcDivert \/ LcRegister \/ LcRaise \/ LcShutdown
  <2>1. UNCHANGED <<clientRead, lcMsg, toServer>>
    BY <1>2 DEF LcEof, LcClosePassThrough, LcDivert, LcRegister, LcRaise, LcShutdown
  <2>2. LcAt(id)' \subseteq LcAt(id)
    BY <1>2, <2>1 DEF LcEof, LcClosePassThrough, LcDivert, LcRegister, LcRaise, LcShutdown, LcAt
  <2>3. SentAt(id)' = SentAt(id) /\ StdinAt(id)' = StdinAt(id)
    BY <1>a, <2>1 DEF SentAt, StdinAt
  <2> QED
    BY <1>a, <1>b, <2>2, <2>3 DEF Moves, Places, ClientSide
<1>3. CASE LcForward \/ LcFlushExit
  <2> DEFINE Written(m) ==
               /\ WriteToServer(m)
               /\ \/ lc = "forward" /\ m = lcMsg
                  \/ lc = "flushExit" /\ ~IsRequest(m)
  <2>1. PICK m \in ClientMsg : Written(m)
    <3>1. CASE LcForward
      BY <3>1 DEF LcForward, TypeInv, Working
    <3>2. CASE LcFlushExit
      BY <3>2, ExitMsgType DEF LcFlushExit, IsExit, IsRequest
    <3> QED
      BY <1>3, <3>1, <3>2
  <2>2. UNCHANGED clientRead /\ LcAt(id)' = {}
    BY <1>3 DEF LcForward, LcFlushExit, LcAt
  <2>3. SentAt(id)' = SentAt(id)
    BY <1>a, <2>2 DEF SentAt
  <2>4. CASE UNCHANGED toServer
    <3>1. StdinAt(id)' = StdinAt(id)
      BY <1>a, <2>4 DEF StdinAt
    <3> QED
      BY <1>a, <1>b, <2>2, <2>3, <3>1 DEF Moves, Places, ClientSide
  <2>5. CASE toServer' = Append(toServer, m)
    <3>1. StdinAt(id)' \subseteq StdinAt(id) \cup {<<"stdin", Len(toServer) + 1>>}
      BY <1>a, <1>c, <2>5 DEF StdinAt
    <3>2. CASE Asks(m, id)
      <4>1. LcAt(id) = {<<"lc", 0>>}
        BY <2>1, <3>2 DEF LcAt, Asks
      <4>2. <<"lc", 0>> \notin SentAt(id) \cup StdinAt(id) \cup OwedAt(id) \cup ServerSide(id)
        BY DEF SentAt, StdinAt, OwedAt, ServerSide, StdoutAt, DvAt, SrAt, LsAt
      <4>3. Places(id)' \subseteq (Places(id) \ {<<"lc", 0>>})
                                    \cup {<<"stdin", Len(toServer) + 1>>}
        BY <1>a, <1>b, <2>2, <2>3, <3>1, <4>2 DEF Places, ClientSide
      <4>4. <<"lc", 0>> \in Places(id)
        BY <4>1 DEF Places, ClientSide
      <4> QED
        BY <4>3, <4>4 DEF Moves
    <3>3. CASE ~Asks(m, id)
      <4>1. StdinAt(id)' \subseteq StdinAt(id)
        BY <1>a, <1>c, <2>5, <3>3 DEF StdinAt
      <4> QED
        BY <1>a, <1>b, <2>2, <2>3, <4>1 DEF Moves, Places, ClientSide
    <3> QED
      BY <3>2, <3>3
  <2> QED
    BY <2>1, <2>4, <2>5 DEF WriteToServer
<1> QED
  BY <1>1, <1>2, <1>3 DEF ListenClient

LEMMA ListenServerPlaces ==
  ASSUME TypeInv, ListenServer, ~LsForward, NEW id
  PROVE  Moves(id)
<1>a. /\ ClientSide(id)' = ClientSide(id)
      /\ StdoutAt(id)' = StdoutAt(id) /\ DvAt(id)' = DvAt(id)
  BY DEF ListenServer, clientVars, lcVars, serverVars, dvVars, ClientSide, SentAt, LcAt, StdinAt,
     OwedAt, StdoutAt, DvAt
<1>1. CASE LsReceive
  <2>1. srHeld # None /\ srHeld' = None /\ ls = "select" /\ SrAt(id)' = {}
    BY <1>1 DEF LsReceive, SrAt
  <2>2. CASE Answers(srHeld, id)
    <3>1. SrAt(id) = {<<"sr", 0>>} /\ LsAt(id)' \subseteq {<<"ls", 0>>}
      BY <2>1, <2>2 DEF SrAt, LsAt
    <3>2. <<"sr", 0>> \notin ClientSide(id) \cup StdoutAt(id) \cup DvAt(id)
      BY DEF ClientSide, SentAt, LcAt, StdinAt, OwedAt, StdoutAt, DvAt
    <3>3. Places(id)' \subseteq (Places(id) \ {<<"sr", 0>>}) \cup {<<"ls", 0>>}
      BY <1>a, <2>1, <3>1, <3>2 DEF Places, ServerSide
    <3>4. <<"sr", 0>> \in Places(id)
      BY <3>1 DEF Places, ServerSide
    <3> QED
      BY <3>3, <3>4 DEF Moves
  <2>3. CASE ~Answers(srHeld, id)
    <3>1. LsAt(id)' = {}
      <4>1. CASE ~srHeld.ok
        BY <1>1, <2>1, <4>1 DEF LsReceive, LsAt
      <4>2. CASE srHeld.ok
        BY <1>1, <2>3, <4>2 DEF LsReceive, LsAt
      <4> QED
        BY <4>1, <4>2
    <3> QED
      BY <1>a, <2>1, <3>1 DEF Moves, Places, ServerSide
  <2> QED
    BY <2>2, <2>3
<1>2. CASE LsLookup \/ LsDelete \/ LsEmit \/ LsShutdown
  <2>1. SrAt(id)' = SrAt(id)
    BY <1>2 DEF LsLookup, LsDelete, LsEmit, LsShutdown, SrAt
  <2>2. LsAt(id)' \subseteq LsAt(id)
    BY <1>2 DEF LsLookup, LsDelete, LsEmit, LsShutdown, LsAt
  <2> QED
    BY <1>a, <2>1, <2>2 DEF Moves, Places, ServerSide
<1> QED
  BY <1>1, <1>2 DEF ListenServer

LEMMA DiverterPlaces ==
  ASSUME TypeInv, Diverter, ~DvRead, NEW id
  PROVE  Moves(id)
<1>a. /\ ClientSide(id)' = ClientSide(id) /\ LsAt(id)' = LsAt(id)
  BY DEF Diverter, clientVars, lcVars, serverVars, lsVars, ClientSide, SentAt, LcAt, StdinAt,
     OwedAt, LsAt
<1>b. StdoutAt(id)' = StdoutAt(id)
  BY DEF Diverter, DvRead, DvStop, DvRoute, DvWriteFirst, DvWriteSecond, StdoutAt
<1>1. CASE DvStop \/ DvRoute \/ DvWriteFirst
  <2>1. UNCHANGED srHeld /\ dv' \in {"stopped", "read", "first", "second"}
    BY <1>1 DEF DvStop, DvRoute, DvWriteFirst
  <2>2. SrAt(id)' = SrAt(id)
    BY <2>1 DEF SrAt
  <2>3. DvAt(id)' \subseteq DvAt(id)
    <3>1. CASE dv' = "second"
      <4>1. DvRoute /\ diverted /\ dv = "route" /\ Recognise(dvMsg)
        BY <1>1, <3>1 DEF DvStop, DvRoute, DvWriteFirst
      <4>2. dvMsg \in ServerMsg /\ torn \in BOOLEAN
        BY <4>1 DEF TypeInv, TypeOK, DvTypeOK, Working
      <4>3. dvMsg'.id = dvMsg.id /\ dvMsg'.method = dvMsg.method
        BY <4>1, <4>2, RecogniseType
      <4> QED
        BY <4>1, <4>3 DEF DvAt, Answers, IsResponse
    <3>2. CASE dv' # "second"
      BY <2>1, <3>2 DEF DvAt
    <3> QED
      BY <3>1, <3>2
  <2> QED
    BY <1>a, <1>b, <2>2, <2>3 DEF Moves, Places, ServerSide
<1>2. CASE DvWriteSecond
  <2>1. DvAt(id)' = {} /\ dv = "second"
    BY <1>2 DEF DvWriteSecond, DvAt
  <2>2. CASE UNCHANGED srHeld
    <3>1. SrAt(id)' = SrAt(id)
      BY <2>2 DEF SrAt
    <3> QED
      BY <1>a, <1>b, <2>1, <3>1 DEF Moves, Places, ServerSide
  <2>3. CASE srHeld = None /\ srHeld' = dvMsg /\ Answers(dvMsg, id)
    <3>1. DvAt(id) = {<<"dv", 0>>} /\ SrAt(id) = {} /\ SrAt(id)' \subseteq {<<"sr", 0>>}
      BY <2>1, <2>3 DEF DvAt, SrAt
    <3>2. <<"dv", 0>> \notin ClientSide(id) \cup StdoutAt(id) \cup LsAt(id)
      BY DEF ClientSide, SentAt, LcAt, StdinAt, OwedAt, StdoutAt, LsAt
    <3>3. Places(id)' \subseteq (Places(id) \ {<<"dv", 0>>}) \cup {<<"sr", 0>>}
      BY <1>a, <1>b, <2>1, <3>1, <3>2 DEF Places, ServerSide
    <3>4. <<"dv", 0>> \in Places(id)
      BY <3>1 DEF Places, ServerSide
    <3> QED
      BY <3>3, <3>4 DEF Moves
  <2>4. CASE srHeld' = dvMsg /\ ~Answers(dvMsg, id)
    <3>1. SrAt(id)' = {}
      BY <2>4 DEF SrAt
    <3> QED
      BY <1>a, <1>b, <2>1, <3>1 DEF Moves, Places, ServerSide
  <2> QED
    BY <1>2, <2>2, <2>3, <2>4 DEF DvWriteSecond
<1> QED
  BY <1>1, <1>2 DEF Diverter

\* The diverter takes the first of what the server has written; the rest moves up.
LEMMA DvReadPlaces ==
  ASSUME TypeInv, Diverter, DvRead, NEW id, \A p, q \in Places(id) : p = q
  PROVE  (\A p, q \in Places(id)' : p = q) /\ (Places(id)' # {} => Places(id) # {})
<1> DEFINE Rest == SrAt(id) \cup LsAt(id) \cup ClientSide(id)
<1>a. /\ ClientSide(id)' = ClientSide(id) /\ LsAt(id)' = LsAt(id) /\ SrAt(id)' = SrAt(id)
  BY DEF Diverter, DvRead, clientVars, lcVars, serverVars, lsVars, ClientSide, SentAt, LcAt,
     StdinAt, OwedAt, LsAt, SrAt
<1>b. /\ serverOut \in Seq(ServerMsg) /\ serverOut # <<>> /\ serverOut' = Tail(serverOut)
      /\ dvMsg' = serverOut[1] /\ DvAt(id) = {} /\ dv' = "route"
  BY DEF DvRead, DvAt, TypeInv, TypeOK, ServerTypeOK
<1>c. \A i \in DOMAIN serverOut' :
        i \in Nat /\ i > 0 /\ i + 1 \in DOMAIN serverOut /\ serverOut'[i] = serverOut[i + 1]
  BY <1>b
<1>d. 1 \in DOMAIN serverOut
  BY <1>b
<1>1. Places(id) = Rest \cup StdoutAt(id) /\ Places(id)' = Rest \cup StdoutAt(id)' \cup DvAt(id)'
  BY <1>a, <1>b DEF Places, ServerSide
<1>2. Rest \cap StdoutAt(id) = {}
  BY DEF ClientSide, SentAt, LcAt, StdinAt, OwedAt, StdoutAt, LsAt, SrAt
<1>3. \A p \in StdoutAt(id)' :
        \E i \in DOMAIN serverOut' : p = <<"stdout", i>> /\ <<"stdout", i + 1>> \in StdoutAt(id)
  BY <1>c DEF StdoutAt
<1>4. CASE Answers(dvMsg', id)
  <2>1. <<"stdout", 1>> \in StdoutAt(id)
    BY <1>b, <1>d, <1>4 DEF StdoutAt
  <2>2. Rest = {}
    BY <1>1, <1>2, <2>1
  <2>3. StdoutAt(id)' = {}
    <3> SUFFICES ASSUME NEW i \in DOMAIN serverOut', <<"stdout", i + 1>> \in StdoutAt(id)
                 PROVE  FALSE
      BY <1>3
    <3>1. <<"stdout", i + 1>> = <<"stdout", 1>>
      BY <1>1, <2>1
    <3> QED
      BY <1>c, <3>1
  <2>4. \A p \in DvAt(id)' : p = <<"dv", 0>>
    BY DEF DvAt
  <2> QED
    BY <1>1, <2>1, <2>2, <2>3, <2>4
<1>5. CASE ~Answers(dvMsg', id)
  <2>1. DvAt(id)' = {}
    BY <1>5 DEF DvAt
  <2>2. \A p, q \in StdoutAt(id)' : p = q
    <3> SUFFICES ASSUME NEW i \in DOMAIN serverOut', <<"stdout", i + 1>> \in StdoutAt(id),
                        NEW j \in DOMAIN serverOut', <<"stdout", j + 1>> \in StdoutAt(id)
                 PROVE  <<"stdout", i>> = <<"stdout", j>>
      BY <1>3
    <3>1. <<"stdout", i + 1>> = <<"stdout", j + 1>>
      BY <1>1
    <3> QED
      BY <1>c, <3>1
  <2>3. StdoutAt(id)' # {} => StdoutAt(id) # {}
    BY <1>3
  <2>4. StdoutAt(id)' # {} => Rest = {}
    BY <1>1, <1>2, <2>3
  <2> HIDE DEF Rest
  <2> QED
    BY <1>1, <2>1, <2>2, <2>3, <2>4
<1> QED
  BY <1>4, <1>5

LEMMA ServerPlaces ==
  ASSUME TypeInv, Server, \A m \in owed : IsRequest(m), NEW id
  PROVE  /\ Moves(id)
         /\ \A m \in owed' : IsRequest(m)
<1>a. /\ UNCHANGED toServer
      /\ SentAt(id)' = SentAt(id) /\ LcAt(id)' = LcAt(id)
      /\ DvAt(id)' = DvAt(id) /\ SrAt(id)' = SrAt(id) /\ LsAt(id)' = LsAt(id)
  BY DEF Server, clientVars, lcVars, dvVars, lsVars, SentAt, LcAt, DvAt, SrAt, LsAt
<1>b. /\ toServer \in Seq(ClientMsg) /\ taken \in Nat /\ serverOut \in Seq(ServerMsg)
  BY DEF TypeInv, TypeOK, ServerTypeOK
<1>1. CASE ServerTake
  <2> DEFINE m == toServer[taken + 1]
  <2>1. /\ taken < Len(toServer) /\ taken' = taken + 1 /\ UNCHANGED serverOut
        /\ owed' = owed \cup {n \in {m} : IsRequest(n)}
    BY <1>1 DEF ServerTake
  <2>2. \A n \in owed' : IsRequest(n)
    BY <2>1
  <2>3. StdoutAt(id)' = StdoutAt(id)
    BY <2>1 DEF StdoutAt
  <2>4. StdinAt(id)' \subseteq StdinAt(id) \ {<<"stdin", taken + 1>>}
    BY <1>a, <1>b, <2>1 DEF StdinAt
  <2>5. CASE Asks(m, id)
    <3>1. <<"stdin", taken + 1>> \in Places(id)
      BY <1>b, <2>1, <2>5 DEF StdinAt, Places, ClientSide
    <3>2. OwedAt(id)' \subseteq OwedAt(id) \cup {<<"owed", m>>}
      BY <2>1 DEF OwedAt
    <3>3. <<"stdin", taken + 1>> \notin SentAt(id) \cup LcAt(id) \cup OwedAt(id) \cup ServerSide(id)
      BY DEF SentAt, LcAt, OwedAt, ServerSide, StdoutAt, DvAt, SrAt, LsAt
    <3>4. ServerSide(id)' = ServerSide(id)
      BY <1>a, <2>3 DEF ServerSide
    <3>5. Places(id)' \subseteq (Places(id) \ {<<"stdin", taken + 1>>}) \cup {<<"owed", m>>}
      BY <1>a, <2>4, <3>2, <3>3, <3>4 DEF Places, ClientSide
    <3> QED
      BY <2>2, <3>1, <3>5 DEF Moves
  <2>6. CASE ~Asks(m, id)
    <3>1. OwedAt(id)' \subseteq OwedAt(id)
      BY <2>1, <2>6 DEF OwedAt, Asks
    <3> QED
      BY <1>a, <2>2, <2>3, <2>4, <3>1 DEF Moves, Places, ClientSide, ServerSide
  <2> QED
    BY <2>5, <2>6
<1>2. ASSUME NEW m \in owed, ServerReply(m)
      PROVE  /\ Moves(id)
             /\ \A n \in owed' : IsRequest(n)
  <2> DEFINE r == [id |-> m.id, method |-> None, ok |-> TRUE, re |-> m.method]
  <2>1. owed' = owed \ {m} /\ UNCHANGED taken /\ serverOut' = Append(serverOut, r)
    BY <1>2 DEF ServerReply
  <2>2. \A n \in owed' : IsRequest(n)
    BY <2>1
  <2>3. StdinAt(id)' = StdinAt(id)
    BY <1>a, <2>1 DEF StdinAt
  <2>4. OwedAt(id)' \subseteq OwedAt(id) \ {<<"owed", m>>}
    BY <2>1 DEF OwedAt
  <2>5. CASE m.id = id
    <3>1. <<"owed", m>> \in Places(id)
      BY <2>5 DEF OwedAt, Places, ClientSide
    <3> DEFINE to == <<"stdout", Len(serverOut) + 1>>
    <3>2. StdoutAt(id)' \subseteq StdoutAt(id) \cup {to}
      BY <1>b, <2>1 DEF StdoutAt
    <3>3. <<"owed", m>> \notin SentAt(id) \cup LcAt(id) \cup StdinAt(id) \cup ServerSide(id)
      BY DEF SentAt, LcAt, StdinAt, ServerSide, StdoutAt, DvAt, SrAt, LsAt
    <3>4. ServerSide(id)' \subseteq ServerSide(id) \cup {to}
      BY <1>a, <3>2 DEF ServerSide
    <3> HIDE DEF to
    <3>5. Places(id)' \subseteq (Places(id) \ {<<"owed", m>>}) \cup {to}
      BY <1>a, <2>3, <2>4, <3>3, <3>4 DEF Places, ClientSide
    <3> QED
      BY <2>2, <3>1, <3>5 DEF Moves
  <2>6. CASE m.id # id
    <3>1. ~Answers(r, id)
      BY <2>6 DEF Answers
    <3>2. StdoutAt(id)' \subseteq StdoutAt(id)
      BY <1>b, <2>1, <3>1 DEF StdoutAt
    <3> QED
      BY <1>a, <2>2, <2>3, <2>4, <3>2 DEF Moves, Places, ClientSide, ServerSide
  <2> QED
    BY <2>5, <2>6
<1>3. ASSUME NEW m \in Unsolicited, ServerSay(m)
      PROVE  Places(id)' \subseteq Places(id) /\ \A n \in owed' : IsRequest(n)
  <2>1. UNCHANGED <<owed, taken>> /\ serverOut' = Append(serverOut, m)
    BY <1>3 DEF ServerSay
  <2>2. ~Answers(m, id)
    BY ServerAssumption DEF Answers
  <2>3. StdoutAt(id)' \subseteq StdoutAt(id)
    BY <1>b, <2>1, <2>2 DEF StdoutAt
  <2>4. StdinAt(id)' = StdinAt(id) /\ OwedAt(id)' = OwedAt(id)
    BY <1>a, <2>1 DEF StdinAt, OwedAt
  <2> QED
    BY <1>a, <2>1, <2>3, <2>4 DEF Moves, Places, ClientSide, ServerSide
<1>4. CASE ServerExit
  <2>1. UNCHANGED <<owed, taken, serverOut>>
    BY <1>4 DEF ServerExit
  <2>2. StdinAt(id)' = StdinAt(id) /\ OwedAt(id)' = OwedAt(id) /\ StdoutAt(id)' = StdoutAt(id)
    BY <1>a, <2>1 DEF StdinAt, OwedAt, StdoutAt
  <2> QED
    BY <1>a, <2>1, <2>2 DEF Moves, Places, ClientSide, ServerSide
<1> QED
  BY <1>1, <1>2, <1>3, <1>4 DEF Server, Moves

\* The other steps, but for a send of the client, move no message.
LEMMA OtherPlaces ==
  ASSUME PassThrough \/ RuntimeAbort \/ BrokenPipe \/ Caller \/ (Client /\ UNCHANGED clientSent)
           \/ UNCHANGED vars,
         NEW id
  PROVE  Places(id)' \subseteq Places(id)
<1>1. ServerSide(id)' = ServerSide(id)
  BY DEF PassThrough, RuntimeAbort, BrokenPipe, Caller, CallerFrame, Client, vars, dvVars, lsVars, ServerSide,
     StdoutAt, DvAt, SrAt, LsAt
<1>2. UNCHANGED <<clientSent, clientRead, lcMsg, toServer, taken, owed>>
  BY DEF PassThrough, RuntimeAbort, BrokenPipe, Caller, CallerFrame, Client, vars, clientVars, lcVars,
     serverVars
<1>3. SentAt(id)' = SentAt(id) /\ StdinAt(id)' = StdinAt(id) /\ OwedAt(id)' = OwedAt(id)
  BY <1>2 DEF SentAt, StdinAt, OwedAt
<1>4. LcAt(id)' \subseteq LcAt(id)
  BY <1>2 DEF PassThrough, RuntimeAbort, BrokenPipe, Caller, CallerFrame, AcceptSwitch, ConfirmProxyMode,
     TakeShutdownRequest, Shutdown, Client, vars, lcVars, LcAt
<1> QED
  BY <1>1, <1>3, <1>4 DEF Places, ClientSide

\* Appending to a sequence adds its index to the set of those with a property, if
\* the new element has it.
LEMMA CountOfAppend ==
  ASSUME NEW S, NEW s \in Seq(S), NEW e \in S, NEW T
  PROVE  LET now  == {i \in DOMAIN s : s[i] \in T}
             next == {i \in DOMAIN Append(s, e) : Append(s, e)[i] \in T}
         IN  /\ Cardinality(now) \in Nat
             /\ Cardinality(next) = IF e \in T THEN Cardinality(now) + 1 ELSE Cardinality(now)
<1> DEFINE now  == {i \in DOMAIN s : s[i] \in T}
           next == {i \in DOMAIN Append(s, e) : Append(s, e)[i] \in T}
<1>1. DOMAIN s = 1..Len(s) /\ Len(s) \in Nat
  OBVIOUS
<1>2. IsFiniteSet(now)
  <2>1. IsFiniteSet(1..Len(s))
    BY <1>1, FS_Interval
  <2>2. now \subseteq 1..Len(s)
    BY <1>1
  <2> QED
    BY <2>1, <2>2, FS_Subset
<1>3. Cardinality(now) \in Nat
  BY <1>2, FS_CardinalityType
<1>4. next = IF e \in T THEN now \cup {Len(s) + 1} ELSE now
  OBVIOUS
<1>5. Len(s) + 1 \notin now
  BY <1>1
<1> HIDE DEF now, next
<1>6. Cardinality(now \cup {Len(s) + 1}) = Cardinality(now) + 1
  BY <1>2, <1>5, FS_AddElement
<1>7. Cardinality(next) = IF e \in T THEN Cardinality(now) + 1 ELSE Cardinality(now)
  BY <1>4, <1>6
<1> QED
  BY <1>3, <1>7 DEF now, next

LEMMA CountsType == TypeInv => \A id : Asked(id) \in Nat /\ Answered(id) \in Nat
<1> SUFFICES ASSUME TypeInv, NEW id PROVE Asked(id) \in Nat /\ Answered(id) \in Nat
  OBVIOUS
<1>1. Len(clientSent) \in Nat /\ Len(lspOut) \in Nat
  BY DEF TypeInv, TypeOK, ClientTypeOK, LsTypeOK
<1>2. Requests(id) \subseteq 1..Len(clientSent) /\ Responses(id) \subseteq 1..Len(lspOut)
  BY DEF Requests, Responses, TypeInv, TypeOK, ClientTypeOK, LsTypeOK
<1>3. IsFiniteSet(Requests(id)) /\ IsFiniteSet(Responses(id))
  <2>1. IsFiniteSet(1..Len(clientSent)) /\ IsFiniteSet(1..Len(lspOut))
    BY <1>1, FS_Interval
  <2> QED
    BY <1>2, <2>1, FS_Subset
<1> QED
  BY <1>3, FS_CardinalityType DEF Asked, Answered

LEMMA AskedOfAppend ==
  ASSUME TypeInv, NEW m \in ClientMsg, clientSent' = Append(clientSent, m), NEW id
  PROVE  Asked(id) \in Nat /\ Asked(id)' = IF Asks(m, id) THEN Asked(id) + 1 ELSE Asked(id)
<1> DEFINE T == {n \in ClientMsg : Asks(n, id)}
<1>1. clientSent \in Seq(ClientMsg)
  BY DEF TypeInv, TypeOK, ClientTypeOK
<1>2. Requests(id) = {i \in DOMAIN clientSent : clientSent[i] \in T}
  BY <1>1 DEF Requests, Asks
<1>3. Requests(id)' = {i \in DOMAIN Append(clientSent, m) : Append(clientSent, m)[i] \in T}
  BY <1>1 DEF Requests, Asks
<1>4. m \in T <=> Asks(m, id)
  OBVIOUS
<1> HIDE DEF T
<1>5. /\ Cardinality(Requests(id)) \in Nat
      /\ Cardinality(Requests(id)')
           = IF m \in T THEN Cardinality(Requests(id)) + 1 ELSE Cardinality(Requests(id))
  BY <1>1, <1>2, <1>3, CountOfAppend
<1> QED
  BY <1>4, <1>5 DEF Asked

LEMMA AnsweredOfAppend ==
  ASSUME TypeInv, NEW m \in ServerMsg, lspOut' = Append(lspOut, m), NEW id
  PROVE  Answered(id) \in Nat
         /\ Answered(id)' = IF Answers(m, id) THEN Answered(id) + 1 ELSE Answered(id)
<1> DEFINE T == {n \in ServerMsg : Answers(n, id)}
<1>1. lspOut \in Seq(ServerMsg)
  BY DEF TypeInv, TypeOK, LsTypeOK
<1>2. Responses(id) = {i \in DOMAIN lspOut : lspOut[i] \in T}
  BY <1>1 DEF Responses, Answers
<1>3. Responses(id)' = {i \in DOMAIN Append(lspOut, m) : Append(lspOut, m)[i] \in T}
  BY <1>1 DEF Responses, Answers
<1>4. m \in T <=> Answers(m, id)
  OBVIOUS
<1> HIDE DEF T
<1>5. /\ Cardinality(Responses(id)) \in Nat
      /\ Cardinality(Responses(id)')
           = IF m \in T THEN Cardinality(Responses(id)) + 1 ELSE Cardinality(Responses(id))
  BY <1>1, <1>2, <1>3, CountOfAppend
<1> QED
  BY <1>4, <1>5 DEF Answered

\* The client's side of the rule: an id is used again only after its answer.
LEMMA ClientSendOneOf ==
  ASSUME TypeInv, Client, NEW m \in ClientMsgs, ClientSend(m), NEW id \in Ids, OneOf(id)
  PROVE  OneOf(id)'
<1>a. /\ m \in ClientMsg /\ clientSent' = Append(clientSent, m) /\ UNCHANGED lspOut
      /\ Asks(m, id) => Asked(id) = Answered(id)
      /\ clientSent \in Seq(ClientMsg) /\ clientRead \in 0..Len(clientSent) /\ UNCHANGED clientRead
  BY ClientAssumption
     DEF Client, ClientSend, lsVars, lcVars, Asks, Asked, Answered, TypeInv, TypeOK, ClientTypeOK
<1>b. /\ ServerSide(id)' = ServerSide(id)
      /\ LcAt(id)' = LcAt(id) /\ StdinAt(id)' = StdinAt(id) /\ OwedAt(id)' = OwedAt(id)
  BY DEF Client, dvVars, lsVars, lcVars, serverVars, ServerSide, StdoutAt, DvAt, SrAt, LsAt, LcAt,
     StdinAt, OwedAt
<1>c. Asked(id) \in Nat /\ Asked(id)' = IF Asks(m, id) THEN Asked(id) + 1 ELSE Asked(id)
  BY <1>a, AskedOfAppend
<1>d. Answered(id)' = Answered(id)
  BY <1>a DEF Answered, Responses
<1>e. /\ \A p, q \in Places(id) : p = q
      /\ Asked(id) \in {Answered(id), Answered(id) + 1}
      /\ Places(id) # {} => Asked(id) = Answered(id) + 1
  BY DEF OneOf
<1>f. SentAt(id)' \subseteq SentAt(id) \cup {<<"sent", Len(clientSent) + 1>>}
  BY <1>a DEF SentAt
<1>1. CASE Asks(m, id)
  <2>1. Places(id) = {}
    BY <1>a, <1>c, <1>e, <1>1
  <2>2. Places(id)' \subseteq {<<"sent", Len(clientSent) + 1>>}
    BY <1>b, <1>f, <2>1 DEF Places, ClientSide
  <2> QED
    BY <1>a, <1>c, <1>d, <1>1, <2>2 DEF OneOf
<1>2. CASE ~Asks(m, id)
  <2>1. SentAt(id)' \subseteq SentAt(id)
    BY <1>a, <1>2 DEF SentAt
  <2>2. Places(id)' \subseteq Places(id)
    BY <1>b, <2>1 DEF Places, ClientSide
  <2> QED
    BY <1>c, <1>d, <1>e, <1>2, <2>2 DEF OneOf
<1> QED
  BY <1>1, <1>2

LEMMA LsForwardOneOf ==
  ASSUME TypeInv, ListenServer, LsForward, NEW id \in Ids, OneOf(id)
  PROVE  OneOf(id)'
<1>a. ls = "forward" /\ lsMsg \in ServerMsg /\ lspOut' = Append(lspOut, lsMsg) /\ LsAt(id)' = {}
  BY DEF LsForward, TypeInv, Working, LsAt
<1>b. /\ ClientSide(id)' = ClientSide(id)
      /\ StdoutAt(id)' = StdoutAt(id) /\ DvAt(id)' = DvAt(id) /\ SrAt(id)' = SrAt(id)
  BY DEF ListenServer, LsForward, clientVars, lcVars, serverVars, dvVars, ClientSide, SentAt, LcAt,
     StdinAt, OwedAt, StdoutAt, DvAt, SrAt
<1>c. Answered(id) \in Nat
      /\ Answered(id)' = IF Answers(lsMsg, id) THEN Answered(id) + 1 ELSE Answered(id)
  BY <1>a, AnsweredOfAppend
<1>d. Asked(id)' = Asked(id)
  BY DEF ListenServer, clientVars, Asked, Requests
<1>e. Places(id)' = Places(id) \ {<<"ls", 0>>}
  <2>1. LsAt(id) \subseteq {<<"ls", 0>>}
    BY DEF LsAt
  <2>2. <<"ls", 0>> \notin ClientSide(id) \cup StdoutAt(id) \cup DvAt(id) \cup SrAt(id)
    BY DEF ClientSide, SentAt, LcAt, StdinAt, OwedAt, StdoutAt, DvAt, SrAt
  <2> QED
    BY <1>a, <1>b, <2>1, <2>2 DEF Places, ServerSide
<1>f. /\ \A p, q \in Places(id) : p = q
      /\ Asked(id) \in {Answered(id), Answered(id) + 1}
      /\ Places(id) # {} => Asked(id) = Answered(id) + 1
  BY DEF OneOf
<1>1. CASE Answers(lsMsg, id)
  <2>1. <<"ls", 0>> \in Places(id)
    BY <1>a, <1>1 DEF LsAt, Places, ServerSide
  <2>2. Places(id)' = {} /\ Asked(id) = Answered(id) + 1
    BY <1>e, <1>f, <2>1
  <2> QED
    BY <1>c, <1>d, <1>1, <2>2 DEF OneOf
<1>2. CASE ~Answers(lsMsg, id)
  BY <1>c, <1>d, <1>e, <1>f, <1>2 DEF OneOf
<1> QED
  BY <1>1, <1>2

LEMMA NextOneAtATime == TypeInv /\ OneAtATime /\ [Next]_vars => OneAtATime'
<1> SUFFICES ASSUME TypeInv, OneAtATime, [Next]_vars PROVE OneAtATime'
  OBVIOUS
<1>1. \A m \in owed : IsRequest(m)
  BY DEF OneAtATime
<1>2. \A m \in owed' : IsRequest(m)
  <2>1. CASE Server
    BY <1>1, <2>1, ServerPlaces
  <2>2. CASE UNCHANGED owed
    BY <1>1, <2>2
  <2> QED
    BY <2>1, <2>2 DEF Next, ListenClient, ListenServer, Diverter, PassThrough, RuntimeAbort, BrokenPipe, Caller,
       CallerFrame, Client, vars, serverVars
<1>3. ASSUME NEW id \in Ids PROVE OneOf(id)'
  <2>1. OneOf(id)
    BY DEF OneAtATime
  <2>2. CASE ListenClient
    BY <2>1, <2>2, ListenClientPlaces, OneOfMoved DEF ListenClient, clientVars, lsVars
  <2>3. CASE ListenServer /\ ~LsForward
    <3>1. UNCHANGED <<clientSent, lspOut>>
      BY <2>3 DEF ListenServer, clientVars, LsReceive, LsLookup, LsDelete, LsEmit, LsShutdown
    <3> QED
      BY <2>1, <2>3, <3>1, ListenServerPlaces, OneOfMoved
  <2>4. CASE ListenServer /\ LsForward
    BY <2>1, <2>4, LsForwardOneOf
  <2>5. CASE Diverter /\ ~DvRead
    BY <2>1, <2>5, DiverterPlaces, OneOfMoved DEF Diverter, clientVars, lsVars
  <2>6. CASE Diverter /\ DvRead
    <3>1. (\A p, q \in Places(id)' : p = q) /\ (Places(id)' # {} => Places(id) # {})
      BY <2>1, <2>6, DvReadPlaces DEF OneOf
    <3>2. Asked(id)' = Asked(id) /\ Answered(id)' = Answered(id)
      BY <2>6 DEF Diverter, clientVars, lsVars, Asked, Answered, Requests, Responses
    <3> QED
      BY <2>1, <3>1, <3>2 DEF OneOf
  <2>7. CASE Server
    BY <1>1, <2>1, <2>7, ServerPlaces, OneOfMoved DEF Server, clientVars, lsVars
  <2>8. ASSUME Client, NEW m \in ClientMsgs, ClientSend(m) PROVE OneOf(id)'
    BY <2>1, <2>8, ClientSendOneOf
  <2>9. CASE \/ PassThrough \/ RuntimeAbort \/ BrokenPipe \/ Caller \/ (Client /\ UNCHANGED clientSent)
             \/ UNCHANGED vars
    <3>1. UNCHANGED <<clientSent, lspOut>>
      BY <2>9 DEF PassThrough, RuntimeAbort, BrokenPipe, Caller, CallerFrame, Client, vars, clientVars, lsVars
    <3>2. Places(id)' \subseteq Places(id)
      BY <2>9, OtherPlaces
    <3> QED
      BY <2>1, <3>1, <3>2, OneOfMoved DEF Moves
  <2>10. Client => (\E m \in ClientMsgs : ClientSend(m)) \/ UNCHANGED clientSent
    BY DEF Client, ClientClose, ClientStopsReading
  <2> QED
    BY <2>2, <2>3, <2>4, <2>5, <2>6, <2>7, <2>8, <2>9, <2>10 DEF Next
<1> QED
  BY <1>2, <1>3 DEF OneAtATime

LEMMA OneAtATimeInvariant == Spec => []OneAtATime
<1> QED
  BY InitOneAtATime, NextOneAtATime, TypeInvInvariant, PTL DEF Spec

\* The listeners meet in the unlocked map only if the client has two requests under
\* way: the id being entered and the id being looked up are both without an answer,
\* and they are two, since an id is in one place at a time.
THEOREM RaceTakesTwo == Spec => []RaceNeedsTwoRequests
<1>1. TypeInv /\ OneAtATime => RaceNeedsTwoRequests
  <2> SUFFICES ASSUME TypeInv, OneAtATime, MapRace
               PROVE  \E a, b \in Ids :
                        /\ a # b
                        /\ \A id \in {a, b} : Cardinality(Requests(id)) > Cardinality(Responses(id))
    BY DEF RaceNeedsTwoRequests
  <2> DEFINE a == lcMsg.id
             b == lsMsg.id
  <2>1. /\ lc = "register" /\ ls \in {"lookup", "delete"}
        /\ lcMsg \in ClientMsg /\ IsRequest(lcMsg) /\ lsMsg \in ServerMsg
    BY DEF MapRace, TypeInv, Working
  <2>2. IsResponse(lsMsg)
    BY <2>1 DEF TypeInv, Working
  <2>3. a \in Ids /\ b \in Ids
    BY <2>1, <2>2 DEF ClientMsg, ServerMsg, IsRequest, IsResponse
  <2>4. <<"lc", 0>> \in Places(a)
    BY <2>1 DEF Places, ClientSide, LcAt, Asks
  <2>5. <<"ls", 0>> \in Places(b)
    BY <2>1, <2>2 DEF Places, ServerSide, LsAt, Answers
  <2>6. OneOf(a) /\ OneOf(b)
    BY <2>3 DEF OneAtATime
  <2>7. a # b
    BY <2>4, <2>5, <2>6 DEF OneOf
  <2>8. ASSUME NEW id \in {a, b} PROVE Cardinality(Requests(id)) > Cardinality(Responses(id))
    <3>1. OneOf(id) /\ Places(id) # {}
      BY <2>4, <2>5, <2>6
    <3>2. Asked(id) = Answered(id) + 1
      BY <3>1 DEF OneOf
    <3>3. Asked(id) \in Nat /\ Answered(id) \in Nat
      BY CountsType
    <3> QED
      BY <3>2, <3>3 DEF Asked, Answered
  <2> QED
    BY <2>3, <2>7, <2>8
<1> QED
  BY <1>1, OneAtATimeInvariant, TypeInvInvariant, PTL

-----------------------------------------------------------------------------
(* Bookmarks                                                               *)

\* The client uses no two ids that StringOrInt.UnmarshalJSON makes one, like the
\* number 1 and the string "1".
KeysApart == \A a, b \in Ids : KeyOf[a] = KeyOf[b] => a = b

\* The requests of the client that listenClient has still to enter in the buffer,
\* and those it has entered and the server has not answered.
BeforeRegister == {"offerSwitch", "closePass", "divert", "awaitConfirm", "register"}
Unregistered ==
  {m \in {clientSent[i] : i \in clientRead + 1..Len(clientSent)}
           \cup (IF lc \in BeforeRegister THEN {lcMsg} ELSE {}) : IsRequest(m)}
Registered ==
  {m \in (IF lc = "forward" THEN {lcMsg} ELSE {})
           \cup {toServer[i] : i \in taken + 1..Len(toServer)} \cup owed : IsRequest(m)}
Unmatched == {m \in AwaitingLookup : IsResponse(m)}

\* The buffer follows each request on its whole way; BookmarksKept looks at it only
\* between the server and the lookup.
BookmarkInv ==
  ~raced =>
    /\ \A m \in Unregistered : buffer[KeyOf[m.id]] = None
    /\ \A m \in Registered : buffer[KeyOf[m.id]] = m.method
    /\ \A m \in Unmatched : buffer[KeyOf[m.id]] = m.re /\ m.re # None
    /\ ls = "delete" => lsMethod = lsMsg.re /\ buffer[KeyOf[lsMsg.id]] = lsMsg.re
    /\ ls \in {"emit", "forward"} /\ IsResponse(lsMsg) => buffer[KeyOf[lsMsg.id]] = None
    /\ \A id \in Ids : buffer[KeyOf[id]] # None => Asked(id) > Answered(id)

LEMMA InitBookmarks == Init => BookmarkInv
<1> SUFFICES ASSUME Init PROVE BookmarkInv
  OBVIOUS
<1>1. Unregistered = {} /\ Registered = {} /\ Unmatched = {}
  BY DEF Init, Unregistered, Registered, Unmatched, AwaitingLookup, BeforeRegister
<1>2. \A id \in Ids : buffer[KeyOf[id]] = None
  BY ConversionAssumption DEF Init
<1>3. ls \in {"off", "select"}
  BY DEF Init
<1> QED
  BY <1>1, <1>2, <1>3 DEF BookmarkInv

\* Two messages on their way at different places have different keys.
LEMMA PlacesApart ==
  ASSUME KeysApart, OneAtATime, NEW a \in Ids, NEW b \in Ids,
         NEW p \in Places(a), NEW q \in Places(b), p # q
  PROVE  KeyOf[a] # KeyOf[b]
<1>1. OneOf(a)
  BY DEF OneAtATime
<1>2. a # b
  BY <1>1 DEF OneOf
<1> QED
  BY <1>2 DEF KeysApart

\* The requests and responses that bookmarks are about have an id, and a place.
LEMMA SentPlace ==
  ASSUME TypeInv, NEW i \in clientRead + 1..Len(clientSent), IsRequest(clientSent[i])
  PROVE  LET id == clientSent[i].id IN id \in Ids /\ <<"sent", i>> \in Places(id)
<1>1. clientSent[i] \in ClientMsg
  BY DEF TypeInv, TypeOK, ClientTypeOK
<1>2. clientSent[i].id \in Ids
  BY <1>1 DEF ClientMsg, IsRequest
<1> QED
  BY <1>2 DEF Places, ClientSide, SentAt, Asks

LEMMA LcPlace ==
  ASSUME TypeInv, lc \in BeforeRegister \cup {"forward"}, IsRequest(lcMsg)
  PROVE  lcMsg.id \in Ids /\ lcMsg.method \in Methods /\ <<"lc", 0>> \in Places(lcMsg.id)
<1>1. lcMsg \in ClientMsg
  BY DEF TypeInv, Working, BeforeRegister
<1>2. lcMsg.id \in Ids /\ lcMsg.method \in Methods
  BY <1>1 DEF ClientMsg, IsRequest
<1> QED
  BY <1>2 DEF Places, ClientSide, LcAt, Asks, BeforeRegister

LEMMA StdinPlace ==
  ASSUME TypeInv, NEW i \in taken + 1..Len(toServer), IsRequest(toServer[i])
  PROVE  LET id == toServer[i].id IN id \in Ids /\ <<"stdin", i>> \in Places(id)
<1>1. toServer[i] \in ClientMsg
  BY DEF TypeInv, TypeOK, ServerTypeOK
<1>2. toServer[i].id \in Ids
  BY <1>1 DEF ClientMsg, IsRequest
<1> QED
  BY <1>2 DEF Places, ClientSide, StdinAt, Asks

LEMMA OwedPlace ==
  ASSUME TypeInv, OneAtATime, NEW m \in owed
  PROVE  /\ m.id \in Ids /\ m.method \in Methods /\ IsRequest(m)
         /\ <<"owed", m>> \in Places(m.id)
<1>1. m \in ClientMsg /\ IsRequest(m)
  BY DEF TypeInv, TypeOK, ServerTypeOK, OneAtATime
<1>2. m.id \in Ids /\ m.method \in Methods
  BY <1>1 DEF ClientMsg, IsRequest
<1> QED
  BY <1>1, <1>2 DEF Places, ClientSide, OwedAt

LEMMA LsPlace ==
  ASSUME TypeInv, ls \in {"lookup", "delete", "emit", "forward"}, IsResponse(lsMsg)
  PROVE  lsMsg.id \in Ids /\ <<"ls", 0>> \in Places(lsMsg.id)
<1>1. lsMsg \in ServerMsg
  BY DEF TypeInv, Working
<1>2. lsMsg.id \in Ids
  BY <1>1 DEF ServerMsg, IsResponse
<1> QED
  BY <1>2 DEF Places, ServerSide, LsAt, Answers

LEMMA UnmatchedPlace ==
  ASSUME TypeInv, NEW m \in Unmatched
  PROVE  /\ m.id \in Ids
         /\ \E p \in Places(m.id) :
              p # <<"lc", 0>> /\ (p = <<"ls", 0>> => ls = "lookup" /\ lsMsg = m)
<1>1. m \in ServerMsg /\ IsResponse(m)
  <2>1. \A i \in DOMAIN serverOut : serverOut[i] \in ServerMsg
    BY DEF TypeInv, TypeOK, ServerTypeOK
  <2>2. srHeld # None => srHeld \in ServerMsg
    BY DEF TypeInv, TypeOK, SharedTypeOK
  <2> QED
    BY <2>1, <2>2 DEF Unmatched, AwaitingLookup, TypeInv, Working
<1>2. m.id \in Ids
  BY <1>1 DEF ServerMsg, IsResponse
<1>3. CASE \E i \in DOMAIN serverOut : m = serverOut[i]
  <2>1. PICK i \in DOMAIN serverOut : m = serverOut[i]
    BY <1>3
  <2>2. <<"stdout", i>> \in Places(m.id)
    BY <1>1, <2>1 DEF Places, ServerSide, StdoutAt, Answers
  <2> QED
    BY <1>2, <2>2
<1>4. CASE dv \in {"route", "second"} /\ m = dvMsg
  <2>1. <<"dv", 0>> \in Places(m.id)
    BY <1>1, <1>4 DEF Places, ServerSide, DvAt, Answers
  <2> QED
    BY <1>2, <2>1
<1>5. CASE srHeld # None /\ m = srHeld
  <2>1. <<"sr", 0>> \in Places(m.id)
    BY <1>1, <1>5 DEF Places, ServerSide, SrAt, Answers
  <2> QED
    BY <1>2, <2>1
<1>6. CASE ls = "lookup" /\ m = lsMsg
  <2>1. <<"ls", 0>> \in Places(m.id)
    BY <1>1, <1>6 DEF Places, ServerSide, LsAt, Answers
  <2> QED
    BY <1>2, <1>6, <2>1
<1> QED
  BY <1>3, <1>4, <1>5, <1>6 DEF Unmatched, AwaitingLookup

\* A step that leaves the buffer and listenServer alone needs to bring no new message
\* and to change no count.
LEMMA BookmarksKeep ==
  ASSUME BookmarkInv, UNCHANGED <<buffer, raced, clientSent, lspOut, ls, lsMsg, lsMethod>>,
         Unregistered' \subseteq Unregistered, Registered' \subseteq Registered,
         Unmatched' \subseteq Unmatched
  PROVE  BookmarkInv'
<1>1. \A id : Asked(id)' = Asked(id) /\ Answered(id)' = Answered(id)
  BY DEF Asked, Answered, Requests, Responses
<1> QED
  BY <1>1 DEF BookmarkInv

LEMMA LcRegisterBookmarks ==
  ASSUME KeysApart, TypeInv, OneAtATime, BookmarkInv, ListenClient, LcRegister
  PROVE  BookmarkInv'
<1> SUFFICES ASSUME ~raced' PROVE BookmarkInv'
  BY DEF BookmarkInv
<1> DEFINE k == KeyOf[lcMsg.id]
<1>a. /\ lc = "register" /\ lc' = "forward" /\ ~raced
      /\ buffer' = [buffer EXCEPT ![k] = lcMsg.method]
      /\ UNCHANGED <<clientSent, clientRead, lcMsg, toServer, taken, owed, lspOut, ls, lsMsg,
                     lsMethod>>
  BY MeetType DEF ListenClient, LcRegister, clientVars, serverVars, lsVars, TypeInv, TypeOK,
     SharedTypeOK
<1>b. buffer \in [Keys -> Methods \cup {None}]
  BY DEF TypeInv, TypeOK, SharedTypeOK
<1>c. /\ lcMsg.id \in Ids /\ lcMsg.method \in Methods /\ IsRequest(lcMsg)
      /\ <<"lc", 0>> \in Places(lcMsg.id)
  BY <1>a, LcPlace DEF TypeInv, Working, BeforeRegister
<1>d. \A id \in Ids : KeyOf[id] \in Keys
  BY ConversionAssumption
<1> HIDE DEF k
<1>e. buffer'[k] = lcMsg.method /\ \A j \in Keys : j # k => buffer'[j] = buffer[j]
  BY <1>a, <1>b, <1>c, <1>d DEF k
<1>f. ASSUME NEW id \in Ids, NEW p \in Places(id), p # <<"lc", 0>>
      PROVE  buffer'[KeyOf[id]] = buffer[KeyOf[id]]
  BY <1>c, <1>d, <1>e, <1>f, PlacesApart DEF k
<1>1. \A m \in Unregistered' : buffer'[KeyOf[m.id]] = None
  <2> SUFFICES ASSUME NEW i \in clientRead + 1..Len(clientSent), IsRequest(clientSent[i])
               PROVE  buffer'[KeyOf[clientSent[i].id]] = None
    BY <1>a DEF Unregistered, BeforeRegister
  <2>1. clientSent[i] \in Unregistered
    BY DEF Unregistered
  <2>2. clientSent[i].id \in Ids /\ <<"sent", i>> \in Places(clientSent[i].id)
    BY SentPlace
  <2>3. <<"sent", i>> # <<"lc", 0>>
    OBVIOUS
  <2>4. buffer'[KeyOf[clientSent[i].id]] = buffer[KeyOf[clientSent[i].id]]
    BY <1>f, <2>2, <2>3
  <2> QED
    BY <1>a, <2>1, <2>4 DEF BookmarkInv
<1>2. \A m \in Registered' : buffer'[KeyOf[m.id]] = m.method
  <2>1. buffer'[KeyOf[lcMsg'.id]] = lcMsg'.method
    BY <1>a, <1>e DEF k
  <2>2. ASSUME NEW i \in taken + 1..Len(toServer), IsRequest(toServer[i])
        PROVE  buffer'[KeyOf[toServer[i].id]] = toServer[i].method
    <3>1. toServer[i] \in Registered
      BY <2>2 DEF Registered
    <3>2. toServer[i].id \in Ids /\ <<"stdin", i>> \in Places(toServer[i].id)
      BY <2>2, StdinPlace
    <3>3. <<"stdin", i>> # <<"lc", 0>>
      OBVIOUS
    <3>4. buffer'[KeyOf[toServer[i].id]] = buffer[KeyOf[toServer[i].id]]
      BY <1>f, <3>2, <3>3
    <3> QED
      BY <1>a, <3>1, <3>4 DEF BookmarkInv
  <2>3. ASSUME NEW m \in owed PROVE buffer'[KeyOf[m.id]] = m.method
    <3>1. m.id \in Ids /\ IsRequest(m) /\ <<"owed", m>> \in Places(m.id)
      BY OwedPlace
    <3>2. <<"owed", m>> # <<"lc", 0>>
      OBVIOUS
    <3>3. buffer'[KeyOf[m.id]] = buffer[KeyOf[m.id]]
      BY <1>f, <3>1, <3>2
    <3>4. m \in Registered
      BY <3>1 DEF Registered
    <3> QED
      BY <1>a, <3>3, <3>4 DEF BookmarkInv
  <2> QED
    BY <1>a, <2>1, <2>2, <2>3 DEF Registered
<1>3. \A m \in Unmatched' : buffer'[KeyOf[m.id]] = m.re /\ m.re # None
  <2>1. Unmatched' = Unmatched
    BY DEF ListenClient, dvVars, lsVars, Unmatched, AwaitingLookup
  <2> SUFFICES ASSUME NEW m \in Unmatched
               PROVE  buffer'[KeyOf[m.id]] = m.re /\ m.re # None
    BY <2>1
  <2>2. m.id \in Ids /\ \E p \in Places(m.id) : p # <<"lc", 0>>
    BY UnmatchedPlace
  <2>3. buffer'[KeyOf[m.id]] = buffer[KeyOf[m.id]]
    BY <1>f, <2>2
  <2> QED
    BY <1>a, <2>3 DEF BookmarkInv
<1>4. ls' \in {"emit", "forward"} /\ IsResponse(lsMsg') => buffer'[KeyOf[lsMsg'.id]] = None
  <2> SUFFICES ASSUME ls \in {"emit", "forward"}, IsResponse(lsMsg)
               PROVE  buffer'[KeyOf[lsMsg.id]] = None
    BY <1>a
  <2>1. lsMsg.id \in Ids /\ <<"ls", 0>> \in Places(lsMsg.id)
    BY LsPlace
  <2>2. buffer'[KeyOf[lsMsg.id]] = buffer[KeyOf[lsMsg.id]]
    BY <1>f, <2>1
  <2> QED
    BY <1>a, <2>2 DEF BookmarkInv
<1>5. \A id \in Ids : buffer'[KeyOf[id]] # None => Asked(id)' > Answered(id)'
  <2> SUFFICES ASSUME NEW id \in Ids, buffer'[KeyOf[id]] # None PROVE Asked(id)' > Answered(id)'
    OBVIOUS
  <2>1. Asked(id)' = Asked(id) /\ Answered(id)' = Answered(id)
    BY <1>a DEF Asked, Answered, Requests, Responses
  <2>2. CASE id = lcMsg.id
    <3>1. OneOf(id) /\ Places(id) # {}
      BY <1>c, <2>2 DEF OneAtATime
    <3> QED
      BY <2>1, <3>1, CountsType DEF OneOf
  <2>3. CASE id # lcMsg.id
    <3>1. KeyOf[id] # k
      BY <1>c, <2>3 DEF KeysApart, k
    <3>2. buffer[KeyOf[id]] # None
      BY <1>d, <1>e, <3>1
    <3> QED
      BY <1>a, <2>1, <3>2 DEF BookmarkInv
  <2> QED
    BY <2>2, <2>3
<1>6. ls' = "delete" => lsMethod' = lsMsg'.re /\ buffer'[KeyOf[lsMsg'.id]] = lsMsg'.re
  <2> SUFFICES ASSUME ls = "delete"
               PROVE  lsMethod = lsMsg.re /\ buffer'[KeyOf[lsMsg.id]] = lsMsg.re
    BY <1>a
  <2>1. lsMsg.id \in Ids /\ <<"ls", 0>> \in Places(lsMsg.id)
    BY LsPlace DEF TypeInv, Working
  <2>2. buffer'[KeyOf[lsMsg.id]] = buffer[KeyOf[lsMsg.id]]
    BY <1>f, <2>1
  <2> QED
    BY <1>a, <2>2 DEF BookmarkInv
<1> QED
  BY <1>1, <1>2, <1>3, <1>4, <1>5, <1>6 DEF BookmarkInv

LEMMA LsDeleteBookmarks ==
  ASSUME KeysApart, TypeInv, OneAtATime, BookmarkInv, ListenServer, LsDelete
  PROVE  BookmarkInv'
<1> SUFFICES ASSUME ~raced' PROVE BookmarkInv'
  BY DEF BookmarkInv
<1> DEFINE k == KeyOf[lsMsg.id]
<1>a. /\ ls = "delete" /\ ls' \in {"emit", "forward"} /\ ~raced
      /\ buffer' = [buffer EXCEPT ![k] = None]
      /\ UNCHANGED <<clientSent, clientRead, lc, lcMsg, toServer, taken, owed, lspOut, lsMsg,
                     srHeld, serverOut, dv, dvMsg>>
  BY MeetType DEF ListenServer, LsDelete, clientVars, lcVars, serverVars, dvVars, TypeInv, TypeOK,
     SharedTypeOK
<1>b. buffer \in [Keys -> Methods \cup {None}]
  BY DEF TypeInv, TypeOK, SharedTypeOK
<1>c. /\ lsMsg.id \in Ids /\ <<"ls", 0>> \in Places(lsMsg.id)
  BY <1>a, LsPlace DEF TypeInv, Working
<1>d. \A id \in Ids : KeyOf[id] \in Keys
  BY ConversionAssumption
<1> HIDE DEF k
<1>e. buffer'[k] = None /\ \A j \in Keys : j # k => buffer'[j] = buffer[j]
  BY <1>a, <1>b, <1>c, <1>d DEF k
<1>f. ASSUME NEW id \in Ids, NEW p \in Places(id), p # <<"ls", 0>>
      PROVE  buffer'[KeyOf[id]] = buffer[KeyOf[id]]
  BY <1>c, <1>d, <1>e, <1>f, PlacesApart DEF k
<1>1. \A m \in Unregistered' : buffer'[KeyOf[m.id]] = None
  <2> SUFFICES ASSUME NEW m \in Unregistered PROVE buffer'[KeyOf[m.id]] = None
    BY <1>a DEF Unregistered
  <2>1. buffer[KeyOf[m.id]] = None
    BY <1>a DEF BookmarkInv
  <2>2. m.id \in Ids
    BY SentPlace, LcPlace DEF Unregistered
  <2> QED
    BY <1>d, <1>e, <2>1, <2>2
<1>2. \A m \in Registered' : buffer'[KeyOf[m.id]] = m.method
  <2> SUFFICES ASSUME NEW m \in Registered PROVE buffer'[KeyOf[m.id]] = m.method
    BY <1>a DEF Registered
  <2>1. buffer[KeyOf[m.id]] = m.method
    BY <1>a DEF BookmarkInv
  <2>2. m.id \in Ids /\ \E p \in Places(m.id) : p # <<"ls", 0>>
    <3>1. CASE lc = "forward" /\ m = lcMsg
      BY <3>1, LcPlace DEF Registered
    <3>2. CASE \E i \in taken + 1..Len(toServer) : m = toServer[i]
      <4>1. PICK i \in taken + 1..Len(toServer) : m = toServer[i]
        BY <3>2
      <4>2. m.id \in Ids /\ <<"stdin", i>> \in Places(m.id)
        BY <4>1, StdinPlace DEF Registered
      <4> QED
        BY <4>2
    <3>3. CASE m \in owed
      BY <3>3, OwedPlace
    <3> QED
      BY <3>1, <3>2, <3>3 DEF Registered
  <2> QED
    BY <1>f, <2>1, <2>2
<1>3. \A m \in Unmatched' : buffer'[KeyOf[m.id]] = m.re /\ m.re # None
  <2> SUFFICES ASSUME NEW m \in Unmatched PROVE buffer'[KeyOf[m.id]] = m.re /\ m.re # None
    BY <1>a DEF Unmatched, AwaitingLookup
  <2>1. m.id \in Ids /\ \E p \in Places(m.id) : p # <<"ls", 0>>
    BY <1>a, UnmatchedPlace
  <2> QED
    BY <1>a, <1>f, <2>1 DEF BookmarkInv
<1>4. buffer'[KeyOf[lsMsg'.id]] = None
  BY <1>a, <1>e DEF k
<1>5. \A id \in Ids : buffer'[KeyOf[id]] # None => Asked(id)' > Answered(id)'
  <2> SUFFICES ASSUME NEW id \in Ids, buffer'[KeyOf[id]] # None PROVE Asked(id)' > Answered(id)'
    OBVIOUS
  <2>1. Asked(id)' = Asked(id) /\ Answered(id)' = Answered(id)
    BY <1>a DEF Asked, Answered, Requests, Responses
  <2>2. buffer[KeyOf[id]] # None
    BY <1>d, <1>e
  <2> QED
    BY <1>a, <2>1, <2>2 DEF BookmarkInv
<1>6. ls' # "delete"
  BY <1>a
<1> QED
  BY <1>1, <1>2, <1>3, <1>4, <1>5, <1>6 DEF BookmarkInv

LEMMA ListenClientBookmarks ==
  ASSUME KeysApart, TypeInv, OneAtATime, BookmarkInv, ListenClient
  PROVE  BookmarkInv'
<1>a. UNCHANGED <<clientSent, taken, owed, lspOut, ls, lsMsg, lsMethod>>
  BY DEF ListenClient, clientVars, serverVars, lsVars
<1>b. Unmatched' = Unmatched
  BY DEF ListenClient, dvVars, lsVars, Unmatched, AwaitingLookup
<1>c. /\ clientSent \in Seq(ClientMsg) /\ clientRead \in Nat
      /\ toServer \in Seq(ClientMsg) /\ taken \in Nat /\ taken <= Len(toServer)
  BY DEF TypeInv, TypeOK, ClientTypeOK, ServerTypeOK
<1>1. CASE LcRegister
  BY <1>1, LcRegisterBookmarks
<1>2. CASE LcReceive
  <2> DEFINE m == clientSent[clientRead + 1]
  <2>1. /\ lc = "select" /\ clientRead < Len(clientSent) /\ clientRead' = clientRead + 1
        /\ UNCHANGED <<buffer, raced, toServer>>
    BY <1>2 DEF LcReceive, bufVars
  <2>2. \/ lc' = "select"
        \/ lcMsg' = m /\ (lc' = "forward" => ~IsRequest(m))
    <3>1. CASE m.ok
      BY <1>2, <3>1 DEF LcReceive, Dispatch
    <3>2. CASE ~m.ok
      BY <1>2, <2>1, <3>2 DEF LcReceive
    <3> QED
      BY <3>1, <3>2
  <2>3. clientRead + 1 \in clientRead + 1..Len(clientSent)
    BY <1>c, <2>1
  <2>4. m \in {clientSent[i] : i \in clientRead + 1..Len(clientSent)}
    BY <2>3
  <2>5. {clientSent[i] : i \in clientRead' + 1..Len(clientSent)}
          \subseteq {clientSent[i] : i \in clientRead + 1..Len(clientSent)}
    BY <1>c, <2>1
  <2> HIDE DEF m
  <2>6. Unregistered' \subseteq Unregistered
    BY <1>a, <2>2, <2>4, <2>5 DEF Unregistered, BeforeRegister
  <2>7. Registered' \subseteq Registered
    BY <1>a, <2>1, <2>2 DEF Registered
  <2> QED
    BY <1>a, <1>b, <2>1, <2>6, <2>7, BookmarksKeep
<1>3. CASE LcEof \/ LcClosePassThrough \/ LcDivert \/ LcRaise \/ LcShutdown
  <2>1. UNCHANGED <<clientRead, lcMsg, toServer, buffer, raced>>
    BY <1>3 DEF LcEof, LcClosePassThrough, LcDivert, LcRaise, LcShutdown, bufVars
  <2>2. (lc' \in BeforeRegister => lc \in BeforeRegister) /\ lc' # "forward"
    BY <1>3 DEF LcEof, LcClosePassThrough, LcDivert, LcRaise, LcShutdown, BeforeRegister
  <2>3. Unregistered' \subseteq Unregistered
    BY <1>a, <2>1, <2>2 DEF Unregistered
  <2>4. Registered' \subseteq Registered
    BY <1>a, <2>1, <2>2 DEF Registered
  <2> QED
    BY <1>a, <1>b, <2>1, <2>3, <2>4, BookmarksKeep
<1>4. CASE LcForward \/ LcFlushExit
  <2> DEFINE Written(m) ==
               /\ UNCHANGED toServer \/ toServer' = Append(toServer, m)
               /\ \/ lc = "forward" /\ m = lcMsg
                  \/ lc = "flushExit" /\ ~IsRequest(m)
  <2>1. PICK m \in ClientMsg : Written(m)
    <3>1. CASE LcForward
      BY <3>1 DEF LcForward, WriteToServer, TypeInv, Working
    <3>2. CASE LcFlushExit
      BY <3>2, ExitMsgType DEF LcFlushExit, WriteToServer, IsExit, IsRequest
    <3> QED
      BY <1>4, <3>1, <3>2
  <2>2. UNCHANGED <<clientRead, lcMsg, buffer, raced>> /\ lc' \in {"select", "done"}
    BY <1>4 DEF LcForward, LcFlushExit, bufVars
  <2>3. Unregistered' \subseteq Unregistered
    BY <1>a, <2>2 DEF Unregistered, BeforeRegister
  <2>4. Registered' \subseteq Registered
    <3>1. \A i \in taken + 1..Len(toServer') :
            toServer'[i] = m \/ (i \in taken + 1..Len(toServer) /\ toServer'[i] = toServer[i])
      BY <1>c, <2>1
    <3>2. IsRequest(m) => m \in Registered
      BY <2>1 DEF Registered
    <3>3. \A n \in Registered' : n = m \/ n \in Registered
      BY <1>a, <2>2, <3>1 DEF Registered
    <3>4. \A n \in Registered' : IsRequest(n)
      BY DEF Registered
    <3> QED
      BY <3>2, <3>3, <3>4
  <2> QED
    BY <1>a, <1>b, <2>2, <2>3, <2>4, BookmarksKeep
<1> QED
  BY <1>1, <1>2, <1>3, <1>4 DEF ListenClient

LEMMA ListenServerBookmarks ==
  ASSUME KeysApart, TypeInv, OneAtATime, BookmarkInv, ListenServer
  PROVE  BookmarkInv'
<1>a. UNCHANGED <<clientSent, clientRead, lc, lcMsg, toServer, taken, owed, serverOut, dv, dvMsg>>
  BY DEF ListenServer, clientVars, lcVars, serverVars, dvVars
<1>b. Unregistered' = Unregistered /\ Registered' = Registered
  BY <1>a DEF Unregistered, Registered
<1>c. \A id : Asked(id)' = Asked(id)
  BY <1>a DEF Asked, Requests
<1>1. CASE LsDelete
  BY <1>1, LsDeleteBookmarks
<1>2. CASE LsReceive
  <2>1. /\ srHeld # None /\ srHeld' = None /\ ls = "select"
        /\ UNCHANGED <<buffer, raced, lspOut>>
    BY <1>2 DEF LsReceive, bufVars
  <2>2. \/ ls' = "select"
        \/ ls' = "lookup" /\ lsMsg' = srHeld
        \/ ls' = "forward" /\ ~IsResponse(lsMsg')
    <3>1. CASE srHeld.ok
      BY <1>2, <3>1 DEF LsReceive
    <3>2. CASE ~srHeld.ok
      BY <1>2, <2>1, <3>2 DEF LsReceive
    <3> QED
      BY <3>1, <3>2
  <2>3. Unmatched' \subseteq Unmatched
    BY <1>a, <2>1, <2>2 DEF Unmatched, AwaitingLookup
  <2>4. \A id : Answered(id)' = Answered(id)
    BY <2>1 DEF Answered, Responses
  <2> QED
    BY <1>b, <1>c, <2>1, <2>2, <2>3, <2>4 DEF BookmarkInv
<1>3. CASE LsLookup
  <2> SUFFICES ASSUME ~raced' PROVE BookmarkInv'
    BY DEF BookmarkInv
  <2>1. /\ ls = "lookup" /\ ~raced /\ lsMethod' = buffer[KeyOf[lsMsg.id]]
        /\ UNCHANGED <<srHeld, lsMsg, buffer, lspOut>>
        /\ ls' = IF lsMethod' = None THEN "forward" ELSE "delete"
    BY <1>3, MeetType DEF LsLookup, TypeInv, TypeOK, SharedTypeOK
  <2>2. lsMsg \in Unmatched
    BY <2>1 DEF Unmatched, AwaitingLookup, TypeInv, Working
  <2>3. buffer[KeyOf[lsMsg.id]] = lsMsg.re /\ lsMsg.re # None
    BY <2>1, <2>2 DEF BookmarkInv
  <2>4. ls' = "delete"
    BY <2>1, <2>3
  <2>5. Unmatched' \subseteq Unmatched
    BY <1>a, <2>1, <2>4 DEF Unmatched, AwaitingLookup
  <2>6. \A id : Answered(id)' = Answered(id)
    BY <2>1 DEF Answered, Responses
  <2> QED
    BY <1>b, <1>c, <2>1, <2>3, <2>4, <2>5, <2>6 DEF BookmarkInv
<1>4. CASE LsEmit \/ LsShutdown
  <2>1. /\ UNCHANGED <<srHeld, lsMsg, lsMethod, buffer, raced, lspOut>>
        /\ (ls = "emit" /\ ls' = "forward") \/ ls' = "done"
    BY <1>4 DEF LsEmit, LsShutdown, bufVars
  <2>2. Unmatched' \subseteq Unmatched
    BY <1>a, <2>1 DEF Unmatched, AwaitingLookup
  <2>3. \A id : Answered(id)' = Answered(id)
    BY <2>1 DEF Answered, Responses
  <2> QED
    BY <1>b, <1>c, <2>1, <2>2, <2>3 DEF BookmarkInv
<1>5. CASE LsForward
  <2>1. /\ ls = "forward" /\ ls' = "select" /\ UNCHANGED <<srHeld, buffer, raced>>
        /\ lsMsg \in ServerMsg /\ lspOut' = Append(lspOut, lsMsg)
    BY <1>5 DEF LsForward, bufVars, TypeInv, Working
  <2>2. Unmatched' \subseteq Unmatched
    BY <1>a, <2>1 DEF Unmatched, AwaitingLookup
  <2>3. ~raced => \A id \in Ids : buffer[KeyOf[id]] # None => Asked(id)' > Answered(id)'
    <3> SUFFICES ASSUME ~raced, NEW id \in Ids, buffer[KeyOf[id]] # None
                 PROVE  Asked(id)' > Answered(id)'
      OBVIOUS
    <3>1. Asked(id) > Answered(id)
      BY DEF BookmarkInv
    <3>2. ~Answers(lsMsg, id)
      BY <2>1 DEF BookmarkInv, Answers
    <3>3. Answered(id)' = Answered(id)
      BY <2>1, <3>2, AnsweredOfAppend
    <3> QED
      BY <1>c, <3>1, <3>3
  <2> QED
    BY <1>b, <2>1, <2>2, <2>3 DEF BookmarkInv
<1> QED
  BY <1>1, <1>2, <1>3, <1>4, <1>5 DEF ListenServer

LEMMA DiverterBookmarks ==
  ASSUME TypeInv, BookmarkInv, Diverter
  PROVE  BookmarkInv'
<1>a. UNCHANGED <<clientSent, clientRead, lc, lcMsg, toServer, taken, owed, lspOut, ls, lsMsg,
                  lsMethod, buffer, raced>>
  BY DEF Diverter, clientVars, lcVars, serverVars, lsVars, bufVars
<1>b. Unregistered' = Unregistered /\ Registered' = Registered
  BY <1>a DEF Unregistered, Registered
<1>1. CASE DvRead
  <2>1. /\ serverOut \in Seq(ServerMsg) /\ serverOut # <<>> /\ serverOut' = Tail(serverOut)
        /\ dvMsg' = serverOut[1] /\ UNCHANGED srHeld
    BY <1>1 DEF DvRead, TypeInv, TypeOK, ServerTypeOK
  <2>2. {serverOut'[i] : i \in DOMAIN serverOut'} \subseteq {serverOut[i] : i \in DOMAIN serverOut}
    <3>1. \A i \in DOMAIN serverOut' :
            i + 1 \in DOMAIN serverOut /\ serverOut'[i] = serverOut[i + 1]
      BY <2>1
    <3> QED
      BY <3>1
  <2>3. dvMsg' \in {serverOut[i] : i \in DOMAIN serverOut}
    <3>1. 1 \in DOMAIN serverOut
      BY <2>1
    <3> QED
      BY <2>1, <3>1
  <2>4. Unmatched' \subseteq Unmatched
    BY <1>a, <2>1, <2>2, <2>3 DEF AwaitingLookup, Unmatched
  <2> QED
    BY <1>a, <1>b, <2>4, BookmarksKeep
<1>2. CASE DvStop \/ DvWriteFirst \/ DvWriteSecond \/ (DvRoute /\ ~diverted)
  <2>1. Unmatched' \subseteq Unmatched
    BY <1>a, <1>2 DEF DvStop, DvRoute, DvWriteFirst, DvWriteSecond, AwaitingLookup, Unmatched
  <2> QED
    BY <1>a, <1>b, <2>1, BookmarksKeep
\* A response keeps its id and its method when it is not recognised.
<1>3. CASE DvRoute /\ diverted
  <2>1. /\ dv = "route" /\ Recognise(dvMsg) /\ UNCHANGED <<srHeld, serverOut>>
        /\ dvMsg \in ServerMsg /\ torn \in BOOLEAN
    BY <1>3 DEF DvRoute, TypeInv, TypeOK, DvTypeOK, Working
  <2>2. dvMsg'.id = dvMsg.id /\ dvMsg'.method = dvMsg.method /\ dvMsg'.re = dvMsg.re
    BY <2>1, RecogniseType
  <2>3. \A m \in Unmatched' : m \in Unmatched \/ (m = dvMsg' /\ dvMsg \in Unmatched)
    BY <1>a, <2>1, <2>2 DEF Unmatched, AwaitingLookup, IsResponse
  <2>4. \A id : Asked(id)' = Asked(id) /\ Answered(id)' = Answered(id)
    BY <1>a DEF Asked, Answered, Requests, Responses
  <2> QED
    BY <1>a, <1>b, <2>2, <2>3, <2>4 DEF BookmarkInv
<1> QED
  BY <1>1, <1>2, <1>3 DEF Diverter

LEMMA ServerBookmarks ==
  ASSUME TypeInv, OneAtATime, BookmarkInv, Server
  PROVE  BookmarkInv'
<1>a. UNCHANGED <<clientSent, clientRead, lc, lcMsg, toServer, lspOut, ls, lsMsg,
                  lsMethod, buffer, raced, dv, dvMsg, srHeld>>
  BY DEF Server, clientVars, lcVars, dvVars, lsVars, bufVars
<1>b. Unregistered' = Unregistered
  BY <1>a DEF Unregistered
<1>c. toServer \in Seq(ClientMsg) /\ taken \in Nat /\ serverOut \in Seq(ServerMsg)
  BY DEF TypeInv, TypeOK, ServerTypeOK
<1>1. CASE ServerTake
  <2>1. /\ taken < Len(toServer) /\ taken' = taken + 1 /\ UNCHANGED serverOut
        /\ owed' = owed \cup {m \in {toServer[taken + 1]} : IsRequest(m)}
    BY <1>1 DEF ServerTake
  <2>2. taken + 1 \in taken + 1..Len(toServer)
    BY <1>c, <2>1
  <2>3. {toServer[i] : i \in taken' + 1..Len(toServer)}
          \subseteq {toServer[i] : i \in taken + 1..Len(toServer)}
    BY <1>c, <2>1
  <2>4. Registered' \subseteq Registered
    BY <1>a, <2>1, <2>2, <2>3 DEF Registered
  <2>5. Unmatched' = Unmatched
    BY <1>a, <2>1 DEF Unmatched, AwaitingLookup
  <2> QED
    BY <1>a, <1>b, <2>4, <2>5, BookmarksKeep
<1>2. ASSUME NEW m \in owed, ServerReply(m) PROVE BookmarkInv'
  <2> DEFINE r == [id |-> m.id, method |-> None, ok |-> TRUE, re |-> m.method]
  <2>1. owed' = owed \ {m} /\ UNCHANGED taken /\ serverOut' = Append(serverOut, r)
    BY <1>2 DEF ServerReply
  <2>2. Registered' \subseteq Registered
    BY <1>a, <2>1 DEF Registered
  <2>3. m \in Registered /\ m.method \in Methods
    BY OwedPlace DEF Registered
  <2>4. r.id = m.id /\ r.re = m.method /\ m.method # None
    BY <2>3, NoneAssumption
  <2>5. \A n \in Unmatched' : n = r \/ n \in Unmatched
    BY <1>a, <1>c, <2>1 DEF Unmatched, AwaitingLookup
  <2>6. \A id : Asked(id)' = Asked(id) /\ Answered(id)' = Answered(id)
    BY <1>a DEF Asked, Answered, Requests, Responses
  <2> HIDE DEF r
  <2> QED
    BY <1>a, <1>b, <2>2, <2>3, <2>4, <2>5, <2>6 DEF BookmarkInv
<1>3. ASSUME NEW m \in Unsolicited, ServerSay(m) PROVE BookmarkInv'
  <2>1. UNCHANGED <<owed, taken>> /\ serverOut' = Append(serverOut, m) /\ ~IsResponse(m)
    BY <1>3, ServerAssumption DEF ServerSay
  <2>2. Registered' = Registered
    BY <1>a, <2>1 DEF Registered
  <2>3. Unmatched' \subseteq Unmatched
    BY <1>a, <1>c, <2>1 DEF Unmatched, AwaitingLookup
  <2> QED
    BY <1>a, <1>b, <2>2, <2>3, BookmarksKeep
<1>4. CASE ServerExit
  <2>1. UNCHANGED <<owed, taken, serverOut>>
    BY <1>4 DEF ServerExit
  <2> QED
    BY <1>a, <1>b, <2>1, BookmarksKeep DEF Registered, Unmatched, AwaitingLookup
<1> QED
  BY <1>1, <1>2, <1>3, <1>4 DEF Server

\* The client asks anew only when it has the answer, and then the bookmark is gone.
LEMMA ClientSendBookmarks ==
  ASSUME TypeInv, BookmarkInv, Client, NEW m \in ClientMsgs, ClientSend(m)
  PROVE  BookmarkInv'
<1>a. /\ m \in ClientMsg /\ clientSent' = Append(clientSent, m)
      /\ IsRequest(m) => Asked(m.id) = Answered(m.id)
      /\ UNCHANGED <<clientRead, lc, lcMsg, toServer, taken, owed, lspOut, ls, lsMsg,
                     lsMethod, buffer, raced, dv, dvMsg, srHeld, serverOut>>
  BY ClientAssumption DEF Client, ClientSend, lcVars, dvVars, lsVars, bufVars, serverVars, Asked,
     Answered
<1>b. clientSent \in Seq(ClientMsg) /\ clientRead \in 0..Len(clientSent)
  BY DEF TypeInv, TypeOK, ClientTypeOK
<1>1. Registered' = Registered /\ Unmatched' = Unmatched
  BY <1>a DEF Registered, Unmatched, AwaitingLookup
<1>2. \A n \in Unregistered' : n = m \/ n \in Unregistered
  <2>1. \A i \in clientRead + 1..Len(clientSent') :
          clientSent'[i] = m
            \/ (i \in clientRead + 1..Len(clientSent) /\ clientSent'[i] = clientSent[i])
    BY <1>a, <1>b
  <2> QED
    BY <1>a, <2>1 DEF Unregistered
<1>3. ~raced /\ IsRequest(m) => buffer[KeyOf[m.id]] = None
  <2>1. IsRequest(m) => m.id \in Ids
    BY <1>a DEF ClientMsg, IsRequest
  <2>2. Asked(m.id) \in Nat /\ Answered(m.id) \in Nat
    BY CountsType
  <2> QED
    BY <1>a, <2>1, <2>2 DEF BookmarkInv
<1>4. \A id : Asked(id) > Answered(id) => Asked(id)' > Answered(id)'
  <2> SUFFICES ASSUME NEW id, Asked(id) > Answered(id) PROVE Asked(id)' > Answered(id)'
    OBVIOUS
  <2>1. Asked(id)' = IF Asks(m, id) THEN Asked(id) + 1 ELSE Asked(id)
    BY <1>a, AskedOfAppend
  <2>2. Answered(id)' = Answered(id)
    BY <1>a DEF Answered, Responses
  <2> QED
    BY <2>1, <2>2, CountsType
<1>5. \A n \in Unregistered' : IsRequest(n)
  BY DEF Unregistered
<1> QED
  BY <1>a, <1>1, <1>2, <1>3, <1>4, <1>5 DEF BookmarkInv

LEMMA NextBookmarks ==
  ASSUME KeysApart, TypeInv, OneAtATime, BookmarkInv, [Next]_vars
  PROVE  BookmarkInv'
<1>1. CASE Caller
  <2>1. UNCHANGED <<clientSent, clientRead, lcMsg, toServer, taken, owed, lspOut, ls, lsMsg,
                    lsMethod, buffer, raced, dv, dvMsg, srHeld, serverOut>>
    BY <1>1 DEF Caller, CallerFrame, clientVars, dvVars, lsVars, bufVars, serverVars
  <2>2. /\ lc' \in BeforeRegister => lc \in BeforeRegister
        /\ lc' = "forward" => (lc = "forward" \/ ~IsRequest(lcMsg))
    BY <1>1 DEF Caller, AcceptSwitch, ConfirmProxyMode, TakeShutdownRequest, Shutdown, Dispatch,
       BeforeRegister
  <2>3. Unregistered' \subseteq Unregistered
    BY <2>1, <2>2 DEF Unregistered
  <2>4. Registered' \subseteq Registered
    BY <2>1, <2>2 DEF Registered
  <2>5. Unmatched' = Unmatched
    BY <2>1 DEF Unmatched, AwaitingLookup
  <2> QED
    BY <2>1, <2>3, <2>4, <2>5, BookmarksKeep
<1>2. CASE PassThrough \/ BrokenPipe \/ (Client /\ UNCHANGED clientSent) \/ UNCHANGED vars
  <2>1. UNCHANGED <<clientSent, clientRead, lc, lcMsg, toServer, taken, owed, lspOut, ls, lsMsg,
                    lsMethod, buffer, raced, dv, dvMsg, srHeld, serverOut>>
    BY <1>2 DEF PassThrough, BrokenPipe, Client, vars, clientVars, lcVars, dvVars, lsVars,
       bufVars, serverVars
  <2>2. Unregistered' = Unregistered /\ Registered' = Registered /\ Unmatched' = Unmatched
    BY <2>1 DEF Unregistered, Registered, Unmatched, AwaitingLookup
  <2> QED
    BY <2>1, <2>2, BookmarksKeep
<1>3. Client => (\E m \in ClientMsgs : ClientSend(m)) \/ (Client /\ UNCHANGED clientSent)
  BY DEF Client, ClientClose, ClientStopsReading
<1>4. CASE RuntimeAbort
  BY <1>4 DEF RuntimeAbort, BookmarkInv
<1> QED
  BY <1>1, <1>2, <1>3, <1>4, ListenClientBookmarks, ListenServerBookmarks, DiverterBookmarks,
     ServerBookmarks, ClientSendBookmarks DEF Next

LEMMA BookmarkInvariant == KeysApart => (Spec => []BookmarkInv)
<1> SUFFICES ASSUME KeysApart PROVE Spec => []BookmarkInv
  OBVIOUS
<1>1. TypeInv /\ OneAtATime /\ BookmarkInv /\ [Next]_vars => BookmarkInv'
  BY NextBookmarks
<1> QED
  BY <1>1, InitBookmarks, OneAtATimeInvariant, TypeInvInvariant, PTL DEF Spec

\* While the listeners have not met in the map, no bookmark is lost or overwritten
\* before the lookup of its response.
THEOREM BookmarksStay == KeysApart => (Spec => []BookmarksKept)
<1> SUFFICES ASSUME KeysApart PROVE Spec => []BookmarksKept
  OBVIOUS
<1>1. OneAtATime /\ BookmarkInv => BookmarksKept
  BY DEF OneAtATime, BookmarkInv, BookmarksKept, Registered, Unmatched
<1> QED
  BY <1>1, BookmarkInvariant, OneAtATimeInvariant, PTL

\* And no bookmark outlives the answer to its request.
THEOREM BookmarksGo == KeysApart => (Spec => []BookmarksOnlyForWaiting)
<1> SUFFICES ASSUME KeysApart PROVE Spec => []BookmarksOnlyForWaiting
  OBVIOUS
<1>1. BookmarkInv => BookmarksOnlyForWaiting
  BY DEF BookmarkInv, BookmarksOnlyForWaiting, Asked, Answered
<1> QED
  BY <1>1, BookmarkInvariant, PTL

-----------------------------------------------------------------------------
(* The metrics emitted                                                     *)

\* What listenServer has done with, and the methods of a sequence of responses.
Handled     == IF ls = "forward" THEN Append(lspOut, lsMsg) ELSE lspOut
Answering(s) == [i \in DOMAIN s |-> s[i].re]

\* MetricsMatchResponses does not say that what is about to be emitted belongs to
\* the response in hand.
MetricsInv ==
  ~raced =>
    /\ emitted = Answering(Only(Handled, Counted))
    /\ ls = "emit" => lsMsg \in Counted /\ lsMethod = lsMsg.re

LEMMA AnsweringOfAppend ==
  ASSUME NEW S, NEW s \in Seq(S), NEW e \in S
  PROVE  Answering(Append(s, e)) = Append(Answering(s), e.re)
<1>1. \A i \in DOMAIN Append(s, e) :
        Append(s, e)[i] = IF i \in DOMAIN s THEN s[i] ELSE e
  OBVIOUS
<1>2. Len(Answering(s)) = Len(s)
  BY DEF Answering
<1>3. DOMAIN Append(s, e) = 1..Len(s) + 1 /\ DOMAIN s = 1..Len(s) /\ Len(s) \in Nat
  OBVIOUS
<1>4. Append(Answering(s), e.re)
        = [i \in 1..Len(s) + 1 |-> IF i \in DOMAIN s THEN s[i].re ELSE e.re]
  BY <1>2, <1>3 DEF Answering
<1> QED
  BY <1>1, <1>3, <1>4 DEF Answering

LEMMA InitMetrics == Init => MetricsInv
<1> SUFFICES ASSUME Init PROVE MetricsInv
  OBVIOUS
<1>1. Handled = <<>> /\ ls # "emit" /\ emitted = <<>>
  BY DEF Init, Handled
<1>2. Answering(<<>>) = <<>>
  BY DEF Answering
<1> QED
  BY <1>1, <1>2, OnlyOfEmpty DEF MetricsInv

\* A message that is now done with counts if it is in Counted.
LEMMA HandledNext ==
  ASSUME TypeInv, NEW m \in ServerMsg, Handled = lspOut, Handled' = Append(lspOut, m)
  PROVE  /\ Only(Handled', Counted)
              = IF m \in Counted THEN Append(Only(Handled, Counted), m) ELSE Only(Handled, Counted)
         /\ Answering(Append(Only(Handled, Counted), m))
              = Append(Answering(Only(Handled, Counted)), m.re)
<1>1. lspOut \in Seq(ServerMsg)
  BY DEF TypeInv, TypeOK, LsTypeOK
<1>2. Only(lspOut, Counted) \in Seq(ServerMsg)
  <2>1. Only(lspOut, Counted) \in Seq(ServerMsg \cap Counted)
    BY <1>1, OnlyType
  <2> QED
    BY <2>1, SeqMonotonic
<1>3. Only(Append(lspOut, m), Counted)
        = IF m \in Counted THEN Append(Only(lspOut, Counted), m) ELSE Only(lspOut, Counted)
  BY <1>1, OnlyOfAppend
<1>4. Answering(Append(Only(lspOut, Counted), m)) = Append(Answering(Only(lspOut, Counted)), m.re)
  BY <1>2, AnsweringOfAppend
<1> QED
  BY <1>3, <1>4

LEMMA NextMetrics ==
  TypeInv /\ BookmarkInv /\ MetricsInv /\ [Next]_vars => MetricsInv'
<1> SUFFICES ASSUME TypeInv, BookmarkInv, MetricsInv, [Next]_vars, ~raced' PROVE MetricsInv'
  BY DEF MetricsInv
<1>a. raced => raced'
  <2> USE MeetType DEF TypeInv, TypeOK, SharedTypeOK
  <2>1. CASE ListenClient
    BY <2>1 DEF ListenClient, LcReceive, LcEof, LcClosePassThrough, LcDivert, LcRegister, LcRaise,
       LcForward, LcShutdown, LcFlushExit, bufVars
  <2>2. CASE ListenServer
    BY <2>2 DEF ListenServer, LsReceive, LsLookup, LsDelete, LsEmit, LsForward, LsShutdown, bufVars
  <2>3. CASE ~ListenClient /\ ~ListenServer
    BY <2>3 DEF Next, Diverter, PassThrough, RuntimeAbort, BrokenPipe, Caller, CallerFrame, Client, Server,
       vars, bufVars
  <2> QED
    BY <2>1, <2>2, <2>3
<1>b. /\ ~raced
      /\ emitted = Answering(Only(Handled, Counted))
      /\ ls = "emit" => lsMsg \in Counted /\ lsMethod = lsMsg.re
  BY <1>a DEF MetricsInv
<1>1. CASE UNCHANGED <<ls, lsMsg, lsMethod, lspOut, emitted>>
  <2>1. Handled' = Handled
    BY <1>1 DEF Handled
  <2> QED
    BY <1>b, <1>1, <2>1 DEF MetricsInv
<1>2. CASE LsReceive
  <2>1. srHeld \in ServerMsg
    BY <1>2 DEF LsReceive, TypeInv, TypeOK, SharedTypeOK
  <2>2. ls = "select" /\ UNCHANGED <<emitted, lspOut>> /\ Handled = lspOut
    BY <1>2 DEF LsReceive, Handled
  <2>3. CASE ls' \in {"select", "lookup"}
    <3>1. Handled' = Handled
      BY <2>2, <2>3 DEF Handled
    <3> QED
      BY <1>b, <2>2, <2>3, <3>1 DEF MetricsInv
  <2>4. CASE ls' = "forward" /\ lsMsg' = srHeld /\ ~IsResponse(srHeld)
    <3>1. Handled' = Append(lspOut, srHeld)
      BY <2>2, <2>4 DEF Handled
    <3>2. srHeld \notin Counted
      BY <2>4 DEF Counted
    <3>3. Only(Handled', Counted) = Only(Handled, Counted)
      BY <2>1, <2>2, <3>1, <3>2, HandledNext
    <3> QED
      BY <1>b, <2>2, <2>4, <3>3 DEF MetricsInv
  <2>5. \/ ls' \in {"select", "lookup"}
        \/ ls' = "forward" /\ lsMsg' = srHeld /\ ~IsResponse(srHeld)
    <3>1. CASE srHeld.ok
      BY <1>2, <3>1 DEF LsReceive
    <3>2. CASE ~srHeld.ok
      BY <1>2, <3>2 DEF LsReceive
    <3> QED
      BY <3>1, <3>2
  <2> QED
    BY <2>3, <2>4, <2>5
<1>3. CASE LsLookup
  <2>1. /\ ls = "lookup" /\ lsMethod' = buffer[KeyOf[lsMsg.id]]
        /\ ls' = IF lsMethod' = None THEN "forward" ELSE "delete"
        /\ UNCHANGED <<lspOut, emitted>>
    BY <1>3 DEF LsLookup
  <2>2. lsMsg \in Unmatched
    BY <2>1 DEF Unmatched, AwaitingLookup, TypeInv, Working
  <2>3. ls' = "delete"
    BY <1>b, <2>1, <2>2 DEF BookmarkInv
  <2>4. Handled' = Handled
    BY <2>1, <2>3 DEF Handled
  <2> QED
    BY <1>b, <2>1, <2>3, <2>4 DEF MetricsInv
<1>4. CASE LsDelete
  <2>1. /\ ls = "delete" /\ UNCHANGED <<lspOut, emitted, lsMsg, lsMethod>>
        /\ ls' = IF lsMethod \in Metered /\ DurationEnabled THEN "emit" ELSE "forward"
    BY <1>4 DEF LsDelete
  <2>2. lsMsg \in ServerMsg /\ IsResponse(lsMsg)
    BY <2>1 DEF TypeInv, Working
  <2>3. lsMethod = lsMsg.re /\ Handled = lspOut
    BY <1>b, <2>1 DEF BookmarkInv, Handled
  <2>4. lsMsg \in Counted <=> ls' = "emit"
    BY <2>1, <2>2, <2>3 DEF Counted
  <2>5. CASE ls' = "emit"
    <3>1. Handled' = Handled
      BY <2>1, <2>5 DEF Handled
    <3> QED
      BY <1>b, <2>1, <2>3, <2>4, <2>5, <3>1 DEF MetricsInv
  <2>6. CASE ls' = "forward"
    <3>1. Handled' = Append(lspOut, lsMsg)
      BY <2>1, <2>6 DEF Handled
    <3>2. Only(Handled', Counted) = Only(Handled, Counted)
      BY <2>2, <2>3, <2>4, <2>6, <3>1, HandledNext
    <3> QED
      BY <1>b, <2>1, <2>6, <3>2 DEF MetricsInv
  <2> QED
    BY <2>1, <2>5, <2>6
<1>5. CASE LsEmit
  <2>1. /\ ls = "emit" /\ ls' = "forward" /\ emitted' = Append(emitted, lsMethod)
        /\ UNCHANGED <<lspOut, lsMsg>>
    BY <1>5 DEF LsEmit
  <2>2. lsMsg \in Counted /\ lsMethod = lsMsg.re /\ lsMsg \in ServerMsg
    BY <1>b, <2>1 DEF Counted
  <2>3. Handled = lspOut /\ Handled' = Append(lspOut, lsMsg)
    BY <2>1 DEF Handled
  <2>4. Answering(Only(Handled', Counted)) = Append(Answering(Only(Handled, Counted)), lsMsg.re)
    BY <2>2, <2>3, HandledNext
  <2> QED
    BY <1>b, <2>1, <2>2, <2>4 DEF MetricsInv
<1>6. CASE LsForward
  <2>1. /\ ls = "forward" /\ ls' = "select" /\ lspOut' = Append(lspOut, lsMsg)
        /\ UNCHANGED emitted
    BY <1>6 DEF LsForward
  <2>2. Handled' = Handled
    BY <2>1 DEF Handled
  <2> QED
    BY <1>b, <2>1, <2>2 DEF MetricsInv
<1>7. CASE LsShutdown
  <2>1. ls = "select" /\ ls' = "done" /\ UNCHANGED <<lspOut, emitted>>
    BY <1>7 DEF LsShutdown
  <2>2. Handled' = Handled
    BY <2>1 DEF Handled
  <2> QED
    BY <1>b, <2>1, <2>2 DEF MetricsInv
<1>8. ~ListenServer => UNCHANGED <<ls, lsMsg, lsMethod, lspOut, emitted>>
  BY DEF Next, ListenClient, Diverter, PassThrough, RuntimeAbort, BrokenPipe, Caller, CallerFrame, Client,
     Server, vars, lsVars
<1> QED
  BY <1>1, <1>2, <1>3, <1>4, <1>5, <1>6, <1>7, <1>8 DEF ListenServer

\* While the listeners have not met in the map, the durations emitted are those of the
\* metered requests answered, each once, in order and under its own method.
THEOREM EachDurationOnce == KeysApart => (Spec => []MetricsMatchResponses)
<1> SUFFICES ASSUME KeysApart PROVE Spec => []MetricsMatchResponses
  OBVIOUS
<1>1. MetricsInv => MetricsMatchResponses
  BY DEF MetricsInv, MetricsMatchResponses, Handled, Answering
<1> QED
  BY <1>1, InitMetrics, NextMetrics, BookmarkInvariant, TypeInvInvariant, PTL DEF Spec

-----------------------------------------------------------------------------
(* The ledger                                                              *)

\* The metrics as the ledger counts them: from the delete on.
Durations == IF ls = "emit" THEN Append(emitted, lsMethod) ELSE emitted

LEMMA InitLedger == Init => Ledger!Init
  BY DEF Init, Ledger!Init

LEMMA NextLedger ==
  ASSUME TypeInv, BookmarkInv, [Next]_vars
  PROVE  [Ledger!Next]_(Ledger!ledgerVars)
<1>a. \A id \in Ids : KeyOf[id] \in Keys
  BY ConversionAssumption
<1>b. raced \in BOOLEAN
  BY DEF TypeInv, TypeOK, SharedTypeOK
<1>s. ASSUME UNCHANGED <<buffer, raced, Durations>> PROVE UNCHANGED Ledger!ledgerVars
  BY <1>s DEF Ledger!ledgerVars, Durations
<1>m. MayMeet => raced' \in {raced, TRUE} /\ raced' \in BOOLEAN
  BY <1>b DEF MayMeet
<1>1. CASE ListenClient /\ LcRegister
  <2> DEFINE k == KeyOf[lcMsg.id]
  <2>1. /\ lc = "register" /\ buffer' = [buffer EXCEPT ![k] = lcMsg.method]
        /\ MayMeet /\ UNCHANGED <<ls, lsMethod, emitted>>
    BY <1>1 DEF ListenClient, LcRegister, lsVars
  <2>2. lcMsg.id \in Ids /\ lcMsg.method \in Methods /\ IsRequest(lcMsg)
    BY <2>1, LcPlace DEF TypeInv, Working, BeforeRegister
  <2>3. lcMsg \in Unregistered
    BY <2>1, <2>2 DEF Unregistered, BeforeRegister
  <2>4. buffer[k] = None \/ raced'
    BY <1>b, <2>1, <2>3, MeetType DEF BookmarkInv
  <2>5. raced' \in {raced, TRUE}
    BY <1>m, <2>1
  <2>6. Durations' = Durations
    BY <2>1 DEF Durations
  <2>7. k \in Keys
    BY <1>a, <2>2
  <2> HIDE DEF k
  <2>8. Ledger!Request(k, lcMsg.method)
    BY <2>1, <2>4, <2>5, <2>6 DEF Ledger!Request, Ledger!MayRace, Durations
  <2> QED
    BY <2>2, <2>7, <2>8 DEF Ledger!Next
<1>2. CASE ListenServer /\ LsDelete
  <2> DEFINE k == KeyOf[lsMsg.id]
  <2>1. /\ ls = "delete" /\ buffer' = [buffer EXCEPT ![k] = None]
        /\ MayMeet /\ UNCHANGED <<lsMethod, emitted>>
        /\ ls' = IF lsMethod \in Metered /\ DurationEnabled THEN "emit" ELSE "forward"
    BY <1>2 DEF LsDelete
  <2>2. lsMsg.id \in Ids
    BY <2>1, LsPlace DEF TypeInv, Working
  <2>3. buffer[k] = lsMethod \/ raced
    BY <2>1 DEF BookmarkInv
  <2>4. lsMethod \in Methods
    BY <2>1 DEF TypeInv, TypeOK, LsTypeOK, Working
  <2>5. raced' \in {raced, TRUE}
    BY <1>m, <2>1
  <2>6. Durations' = IF lsMethod \in Metered /\ DurationEnabled
                     THEN Append(Durations, lsMethod) ELSE Durations
    BY <2>1 DEF Durations
  <2>7. k \in Keys
    BY <1>a, <2>2
  <2> HIDE DEF k
  <2>8. Ledger!Answer(k, lsMethod)
    BY <2>1, <2>3, <2>5, <2>6 DEF Ledger!Answer, Ledger!MayRace, Durations
  <2> QED
    BY <2>4, <2>7, <2>8 DEF Ledger!Next
<1>3. CASE ListenServer /\ LsLookup
  <2>1. /\ ls = "lookup" /\ ls' \in {"forward", "delete"} /\ MayMeet
        /\ UNCHANGED <<buffer, emitted>>
    BY <1>3 DEF LsLookup
  <2>2. Durations' = Durations
    BY <2>1 DEF Durations
  <2>3. CASE raced' = raced
    BY <1>s, <2>1, <2>2, <2>3
  <2>4. CASE raced'
    <3>1. Ledger!Race
      BY <2>1, <2>2, <2>4 DEF Ledger!Race, Durations
    <3> QED
      BY <3>1 DEF Ledger!Next
  <2> QED
    BY <1>m, <2>1, <2>3, <2>4
<1>4. CASE ListenServer /\ (LsReceive \/ LsEmit \/ LsForward \/ LsShutdown)
  <2>1. UNCHANGED <<buffer, raced>>
    BY <1>4 DEF LsReceive, LsEmit, LsForward, LsShutdown, bufVars
  <2>2. Durations' = Durations
    <3>1. CASE LsEmit
      BY <3>1 DEF LsEmit, Durations
    <3>2. CASE LsReceive
      <4>1. ls = "select" /\ ls' # "emit" /\ UNCHANGED emitted
        BY <3>2 DEF LsReceive
      <4> QED
        BY <4>1 DEF Durations
    <3>3. CASE LsForward \/ LsShutdown
      BY <3>3 DEF LsForward, LsShutdown, Durations
    <3> QED
      BY <1>4, <3>1, <3>2, <3>3
  <2> QED
    BY <1>s, <2>1, <2>2
<1>5. CASE UNCHANGED <<buffer, raced, ls, lsMethod, emitted>>
  BY <1>s, <1>5 DEF Durations
<1>6. ListenClient => LcRegister \/ UNCHANGED <<buffer, raced, ls, lsMethod, emitted>>
  BY DEF ListenClient, LcReceive, LcEof, LcClosePassThrough, LcDivert, LcRaise, LcForward,
     LcShutdown, LcFlushExit, lsVars, bufVars
<1>8. CASE RuntimeAbort
  <2>1. UNCHANGED <<buffer, ls, lsMethod, emitted>> /\ raced'
    BY <1>8 DEF RuntimeAbort, lsVars
  <2>2. Ledger!Race
    BY <2>1 DEF Ledger!Race, Durations
  <2> QED
    BY <2>2 DEF Ledger!Next
<1>7. ~ListenClient /\ ~ListenServer /\ ~RuntimeAbort
        => UNCHANGED <<buffer, raced, ls, lsMethod, emitted>>
  BY DEF Next, Diverter, PassThrough, BrokenPipe, Caller, CallerFrame, Client, Server, vars,
     lsVars, bufVars
<1> QED
  BY <1>1, <1>2, <1>3, <1>4, <1>5, <1>6, <1>7, <1>8 DEF ListenServer

\* To the reader of the metrics, the steps of the two listeners are the two of a
\* ledger: a request is entered, an answer strikes it out and yields its duration.
THEOREM ImplementsLedger == KeysApart => (Spec => MetersAtomically)
<1> SUFFICES ASSUME KeysApart PROVE Spec => MetersAtomically
  OBVIOUS
<1>1. TypeInv /\ BookmarkInv /\ [Next]_vars => [Ledger!Next]_(Ledger!ledgerVars)
  BY NextLedger
<1> QED
  BY <1>1, InitLedger, BookmarkInvariant, TypeInvInvariant, PTL
     DEF Spec, MetersAtomically, Ledger!Spec

=============================================================================
