-------------------------- MODULE AgentServerProofs --------------------------
(* Proofs about AgentServer: the end of a service and the end of an agent,  *)
(* for any number of services and connections, any queue sizes and any     *)
(* number of messages.                                                     *)
EXTENDS AgentServer, TLAPS

-----------------------------------------------------------------------------
(* OnUnRegister.                                                           *)

\* The loop of the server waits in the Stop of s.
ServerWaits(s) == pc \in {"kick", "stopping"} /\ cur = s

StopType ==
    /\ spc \in [Services -> {"idle", "busy", "blocked", "drain", "lastbusy", "done"}]
    /\ squit \in [Services -> BOOLEAN]
    /\ unreg \in [Services -> Nat]
    /\ upc \in [Services -> {"none", "wait", "delete", "end"}]
    /\ pc \in {"kick", "stopping"} => cur \in Services

\* Who fired quit first waits, and nobody else: a call of OnUnRegister is still
\* to come from one waiter at most, and from none after the first call.
OneStopper ==
    \A s \in Services :
       /\ unreg[s] > 0 \/ upc[s] = "wait" \/ ServerWaits(s) => squit[s]
       /\ upc[s] = "wait" => unreg[s] = 0 /\ ~ServerWaits(s)
       /\ ServerWaits(s) => unreg[s] = 0

StopperInv == StopType /\ OneStopper /\ UnRegisterIsLast

LEMMA StopperInit == Init => StopperInv
  BY DEF Init, StopperInv, StopType, OneStopper, UnRegisterIsLast, ServerWaits

\* What the loops of the services do: one that has ended does not start again.
LEMMA StopperSvc ==
    ASSUME StopperInv, NEW s \in Services, SvcLoop(s) PROVE StopperInv'
<1> USE DEF StopperInv, StopType, OneStopper, UnRegisterIsLast, ServerWaits, srvVars
<1>1. CASE SvcTake(s)
  BY <1>1 DEF SvcTake
<1>2. CASE SvcReturn(s)
  BY <1>2 DEF SvcReturn
<1>3. CASE SvcQuit(s)
  BY <1>3 DEF SvcQuit
<1>4. CASE SvcDrain(s)
  BY <1>4 DEF SvcDrain
<1> QED
  BY <1>1, <1>2, <1>3, <1>4 DEF SvcLoop

\* The three ways to stop a service.
LEMMA StopperStops ==
    ASSUME StopperInv, NEW s \in Services,
           \/ UnRegister(s) \/ UnRegisterWait(s) \/ UnRegisterDelete(s)
           \/ KickOff(s) \/ KickOffEnd \/ ReleaseStop(s) \/ ReleaseStopped
    PROVE  StopperInv'
<1> USE DEF StopperInv, StopType, OneStopper, UnRegisterIsLast, ServerWaits, srvVars, svcVars
<1>1. CASE UnRegister(s)
  BY <1>1 DEF UnRegister
<1>2. CASE UnRegisterWait(s)
  BY <1>2 DEF UnRegisterWait, Stopped
<1>3. CASE UnRegisterDelete(s)
  BY <1>3 DEF UnRegisterDelete
<1>4. CASE KickOff(s)
  BY <1>4 DEF KickOff
<1>5. CASE KickOffEnd
  BY <1>5 DEF KickOffEnd, Stopped
<1>6. CASE ReleaseStop(s)
  BY <1>6 DEF ReleaseStop
<1>7. CASE ReleaseStopped
  BY <1>7 DEF ReleaseStopped, Stopped
<1> QED
  BY <1>1, <1>2, <1>3, <1>4, <1>5, <1>6, <1>7

\* The other steps leave the Stop of every service where it is.
LEMMA StopperOther ==
    ASSUME StopperInv,
           UNCHANGED <<spc, squit, unreg, upc, cur>>,
           pc' = pc \/ pc' \notin {"kick", "stopping"}
    PROVE  StopperInv'
  BY DEF StopperInv, StopType, OneStopper, UnRegisterIsLast, ServerWaits

LEMMA StopperStep == StopperInv /\ [Next]_vars => StopperInv'
<1> SUFFICES ASSUME StopperInv, [Next]_vars PROVE StopperInv'
  OBVIOUS
<1> USE DEF srvVars, svcVars
<1> DEFINE Same == /\ UNCHANGED <<spc, squit, unreg, upc, cur>>
                   /\ pc' = pc \/ pc' \notin {"kick", "stopping"}
<1>1. CASE ServerLoop
  <2>1. CASE KickOffEnd \/ ReleaseStopped \/ \E s \in Services : ReleaseStop(s)
    <3>1. Services # {}
      BY <2>1 DEF StopperInv, StopType, KickOffEnd, ReleaseStopped
    <3> QED
      BY <2>1, <3>1, StopperStops
  <2>2. CASE Receive \/ Release \/ ReleaseDrain \/ ReleaseEnd
    <3>1. Same
      BY <2>2 DEF Receive, Release, ReleaseDrain, ReleaseEnd
    <3> QED
      BY <3>1, StopperOther
  <2>3. CASE LisQuit \/ LisClose \/ LisWait \/ LisEnd
    <3>1. Same
      BY <2>3 DEF LisQuit, LisClose, LisWait, LisEnd
    <3> QED
      BY <3>1, StopperOther
  <2> QED
    BY <1>1, <2>1, <2>2, <2>3 DEF ServerLoop
<1>2. CASE GracefulStop \/ Acceptor \/ AccFail
  <2>1. Same
    BY <1>2 DEF GracefulStop, Acceptor, AccTest, AccListen, AccDone, AccFail
  <2> QED
    BY <2>1, StopperOther
<1>3. ASSUME NEW s \in Services, LocalSend(s) \/ LateReply(s) PROVE StopperInv'
  <2>1. Same
    BY <1>3 DEF LocalSend, LateReply
  <2> QED
    BY <2>1, StopperOther
<1>4. ASSUME NEW s \in Services,
             SvcLoop(s) \/ KickOff(s) \/ UnRegister(s) \/ UnRegisterWait(s) \/ UnRegisterDelete(s)
      PROVE  StopperInv'
  BY <1>4, StopperSvc, StopperStops
<1>5. ASSUME NEW c \in Conns,
             ConnLoop(c) \/ AccConn(c) \/ PeerGone(c) \/ \E s \in Services : Read(c, s)
      PROVE  StopperInv'
  <2>1. Same
    BY <1>5 DEF ConnLoop, Handle, AddConn, Push, Remove, AccConn, PeerGone, Read
  <2> QED
    BY <2>1, StopperOther
<1>6. CASE UNCHANGED vars
  BY <1>6, StopperOther DEF vars
<1> QED
  BY <1>1, <1>2, <1>3, <1>4, <1>5, <1>6 DEF Next

\* OnUnRegister runs at most once for a service, after its loop has ended,
\* however UnRegister, kick-offs and Release meet.
THEOREM UnRegisterRunsLast == Spec => []UnRegisterIsLast
<1>1. StopperInv => UnRegisterIsLast
  BY DEF StopperInv
<1> QED
  BY <1>1, StopperInit, StopperStep, PTL DEF Spec

-----------------------------------------------------------------------------
(* The end of the agent.                                                   *)

ListenerType ==
    /\ acc \in {"start", "listen", "accept", "done", "end"}
    /\ lis \in {"none", "open", "closed"}
    /\ lquit \in BOOLEAN /\ connsNil \in BOOLEAN
    /\ conn \in [Conns -> {"none", "raw", "init", "up", "closed", "gone"}]
    /\ reader \in [Conns -> {"none", "read", "push", "end"}]

\* A connection is read exactly while it is in Listener.conns.
ReadersHaveConns ==
    \A c \in Conns : reader[c] \in {"read", "push"} <=> conn[c] \in {"up", "closed"}

\* The port is opened once; before that there is no connection.
OpenedOnce ==
    /\ acc \in {"start", "listen"} => lis = "none"
    /\ lis = "none" => \A c \in Conns : conn[c] = "none"

\* How far GracefulStop has come: the port is closed before it waits for the
\* acceptor and the handlers, no handler is left when it waits for the
\* connections, and no connection when it ends.  A port that is opened after
\* quit brings no handler past the test of quit.
StopPhases ==
    /\ pc \in {"lisclose", "liswait", "liscv", "wg", "end"} => lquit
    /\ pc \in {"liswait", "liscv"} => lis = "closed"
    /\ pc = "liscv" => \A c \in Conns : conn[c] \notin {"raw", "init"}
    /\ connsNil => /\ lis = "closed"
                   /\ \A c \in Conns : conn[c] \in {"none", "gone"}
    /\ pc \in {"wg", "end"} /\ lis # "closed" => \A c \in Conns : conn[c] \in {"none", "raw", "gone"}
    /\ pc = "end" => \A s \in Services : spc[s] = "done"

FinalInv == ListenerType /\ ReadersHaveConns /\ OpenedOnce /\ StopPhases

LEMMA FinalInit == Init => FinalInv
  BY ZenonT(60) DEF Init, FinalInv, ListenerType, ReadersHaveConns, OpenedOnce, StopPhases

\* Release and the listener's GracefulStop.
LEMMA FinalServer == ASSUME FinalInv, ServerLoop PROVE FinalInv'
<1> USE DEF FinalInv, ListenerType, ReadersHaveConns, OpenedOnce, StopPhases,
            srvVars, svcVars, lisVars, connVars
<1>1. CASE Receive \/ KickOffEnd \/ Release \/ ReleaseStopped
  BY <1>1 DEF Receive, KickOffEnd, Release, ReleaseStopped
<1>2. CASE ReleaseDrain
  BY <1>2 DEF ReleaseDrain
<1>3. ASSUME NEW s \in Services, ReleaseStop(s) PROVE FinalInv'
  BY <1>3 DEF ReleaseStop
<1>4. CASE ReleaseEnd
  BY <1>4 DEF ReleaseEnd
<1>5. CASE LisQuit
  BY <1>5 DEF LisQuit
<1>6. CASE LisClose
  BY <1>6 DEF LisClose
<1>7. CASE LisWait
  BY <1>7 DEF LisWait, Serving
<1>8. CASE LisEnd
  BY <1>8 DEF LisEnd
<1> QED
  BY <1>1, <1>2, <1>3, <1>4, <1>5, <1>6, <1>7, <1>8 DEF ServerLoop

\* The acceptor: it accepts nothing once the port is closed.
LEMMA FinalAcceptor ==
    ASSUME FinalInv, Acceptor \/ AccFail \/ \E c \in Conns : AccConn(c) PROVE FinalInv'
<1> USE DEF FinalInv, ListenerType, ReadersHaveConns, OpenedOnce, StopPhases,
            srvVars, svcVars, lisVars, connVars
<1>1. CASE AccTest
  BY <1>1 DEF AccTest
<1>2. CASE AccListen
  BY <1>2 DEF AccListen
<1>3. CASE AccFail
  BY <1>3 DEF AccFail
<1>4. CASE AccDone
  BY <1>4 DEF AccDone
<1>5. ASSUME NEW c \in Conns, AccConn(c) PROVE FinalInv'
  BY <1>5 DEF AccConn
<1> QED
  BY <1>1, <1>2, <1>3, <1>4, <1>5 DEF Acceptor

\* The handlers and the readers.
LEMMA FinalConn ==
    ASSUME FinalInv, NEW c \in Conns,
           ConnLoop(c) \/ PeerGone(c) \/ \E s \in Services : Read(c, s)
    PROVE  FinalInv'
<1> USE DEF FinalInv, ListenerType, ReadersHaveConns, OpenedOnce, StopPhases,
            srvVars, svcVars, lisVars
<1>1. CASE Handle(c)
  BY <1>1 DEF Handle
<1>2. CASE AddConn(c)
  BY <1>2 DEF AddConn
<1>3. CASE Push(c)
  BY <1>3 DEF Push
<1>4. CASE Remove(c)
  BY <1>4 DEF Remove
<1>5. CASE PeerGone(c)
  BY <1>5 DEF PeerGone
<1>6. ASSUME NEW s \in Services, Read(c, s) PROVE FinalInv'
  BY <1>6 DEF Read
<1> QED
  BY <1>1, <1>2, <1>3, <1>4, <1>5, <1>6 DEF ConnLoop

\* The services: one that has ended stays so, whatever is pushed to it.
LEMMA FinalService ==
    ASSUME FinalInv, StopType, NEW s \in Services,
           \/ SvcLoop(s) \/ LocalSend(s) \/ LateReply(s) \/ KickOff(s)
           \/ UnRegister(s) \/ UnRegisterWait(s) \/ UnRegisterDelete(s)
    PROVE  FinalInv'
<1> USE DEF FinalInv, ListenerType, ReadersHaveConns, OpenedOnce, StopPhases, StopType,
            srvVars, svcVars, lisVars, connVars
<1>1. CASE SvcLoop(s)
  BY <1>1 DEF SvcLoop, SvcTake, SvcReturn, SvcQuit, SvcDrain
<1>2. CASE LocalSend(s) \/ LateReply(s)
  BY <1>2 DEF LocalSend, LateReply
<1>3. CASE KickOff(s)
  BY <1>3 DEF KickOff
<1>4. CASE UnRegister(s) \/ UnRegisterWait(s) \/ UnRegisterDelete(s)
  BY <1>4 DEF UnRegister, UnRegisterWait, UnRegisterDelete
<1> QED
  BY <1>1, <1>2, <1>3, <1>4

LEMMA FinalStep == FinalInv /\ StopType /\ [Next]_vars => FinalInv'
<1> SUFFICES ASSUME FinalInv, StopType, [Next]_vars PROVE FinalInv'
  OBVIOUS
<1>1. CASE GracefulStop
  BY <1>1 DEF GracefulStop, FinalInv, ListenerType, ReadersHaveConns, OpenedOnce, StopPhases,
              svcVars, lisVars, connVars
<1>2. CASE UNCHANGED vars
  BY <1>2 DEF vars, FinalInv, ListenerType, ReadersHaveConns, OpenedOnce, StopPhases,
              srvVars, svcVars, lisVars, connVars
<1> QED
  BY <1>1, <1>2, FinalServer, FinalAcceptor, FinalConn, FinalService DEF Next

\* When the server is done its services have ended, and no connection is read
\* nor will be, unless the acceptor had failed before the stop.
THEOREM StopLeavesNothing == Spec => []StopIsFinal
<1>1. FinalInv => StopIsFinal
  BY DEF FinalInv, ListenerType, ReadersHaveConns, StopPhases, StopIsFinal, AcceptFailed
<1>2. StopperInv => StopType
  BY DEF StopperInv
<1> QED
  BY <1>1, <1>2, StopperInit, StopperStep, FinalInit, FinalStep, PTL DEF Spec
=============================================================================
