----------------------------- MODULE AgentServer -----------------------------
(***************************************************************************)
(* How messages run through an agent, and how it stops: its TCP listener   *)
(* (common/network/listener.go), the loop of skymeshServer.Serve and       *)
(* Release (agent/server.go), and the services' loops (agent/service.go).  *)
(*                                                                         *)
(* Goroutines: the acceptor, which runs Listener.Serve; a handler and a    *)
(* reader for each TCP connection; the loop of the server, which becomes   *)
(* Release and, inside it, the listener's GracefulStop; a loop for each    *)
(* service; the callers of UnRegister and GracefulStop.  A step is what    *)
(* one of them does between two points where it waits or another gets in.  *)
(*                                                                         *)
(* Services are registered from the start: ControlPlane is about how they  *)
(* come and go.  Message contents do not matter here, only where they are. *)
(***************************************************************************)
EXTENDS Integers, Sequences, FiniteSets

CONSTANTS
    Services, Conns,
    RecvQueueSize, ServiceQueueSize,
    MaxMessages     \* bound: messages read or sent locally, and late replies

ASSUME QueueSizes ==
    /\ RecvQueueSize \in Nat \ {0} /\ ServiceQueueSize \in Nat \ {0}
    /\ MaxMessages \in Nat

None == "none"

VARIABLES
    pc,             \* the server's loop
    cur,            \* the service whose Stop it waits for
    todo,           \* the services Release has still to stop
    quit,           \* skymeshServer.quit has fired
    errQueue,       \* the listener's Serve has failed
    recvQueue,      \* messages, by the service they are for
    table,          \* handleServices
    msgQueue,       \* per service: "data" and "reg"
    spc,            \* the services' loops
    squit,          \* skymeshService.quit has fired
    regNotify,      \* replies in regNotify
    unreg,          \* calls of OnUnRegister
    upc,            \* where the application's UnRegister of a service is
    acc,            \* the acceptor
    lis,            \* Listener.lis and its socket
    lquit, ldone,   \* Listener.quit, Listener.done
    connsNil,       \* Listener.conns is nil
    conn,           \* each TCP connection
    reader,         \* its loopRead
    held,           \* the message its OnMessage sends to recvQueue
    messages        \* how many there have been

srvVars == <<pc, cur, todo, quit, errQueue, table>>
svcVars == <<msgQueue, spc, squit, regNotify, unreg>>
lisVars == <<acc, lis, lquit, ldone, connsNil>>
connVars == <<conn, reader, held>>
vars == <<srvVars, recvQueue, svcVars, upc, lisVars, connVars, messages>>

Init ==
    /\ pc = "loop" /\ cur = None /\ todo = {} /\ quit = FALSE /\ errQueue = FALSE
    /\ recvQueue = <<>>
    /\ table = Services
    /\ msgQueue = [s \in Services |-> <<>>]
    /\ spc = [s \in Services |-> "idle"]
    /\ squit = [s \in Services |-> FALSE]
    /\ regNotify = [s \in Services |-> 0]
    /\ unreg = [s \in Services |-> 0]
    /\ upc = [s \in Services |-> "none"]
    /\ acc = "start" /\ lis = "none" /\ lquit = FALSE /\ ldone = FALSE /\ connsNil = FALSE
    /\ conn = [c \in Conns |-> "none"]
    /\ reader = [c \in Conns |-> "none"]
    /\ held = [c \in Conns |-> None]
    /\ messages = 0

-----------------------------------------------------------------------------
(* The services' loops.                                                    *)

\* PushMessage: a full queue drops the message.
PushMessage(s, m) ==
    msgQueue' = IF Len(msgQueue[s]) < ServiceQueueSize
                THEN [msgQueue EXCEPT ![s] = Append(@, m)] ELSE msgQueue

\* The loop takes a message: OnMessage runs, or OnRegister and the reply.
SvcTake(s) ==
    /\ spc[s] = "idle" /\ msgQueue[s] # <<>>
    /\ msgQueue' = [msgQueue EXCEPT ![s] = Tail(@)]
    /\ IF Head(msgQueue[s]) = "data"
       THEN spc' = [spc EXCEPT ![s] = "busy"] /\ UNCHANGED regNotify
       ELSE IF regNotify[s] = 0
            THEN regNotify' = [regNotify EXCEPT ![s] = 1] /\ UNCHANGED spc
            ELSE spc' = [spc EXCEPT ![s] = "blocked"] /\ UNCHANGED regNotify
    /\ UNCHANGED <<srvVars, recvQueue, squit, unreg, upc, lisVars, connVars, messages>>

\* OnMessage returns.
SvcReturn(s) ==
    /\ spc[s] \in {"busy", "lastbusy"}
    /\ spc' = [spc EXCEPT ![s] = IF @ = "busy" THEN "idle" ELSE "drain"]
    /\ UNCHANGED <<srvVars, recvQueue, msgQueue, squit, regNotify, unreg, upc, lisVars,
                   connVars, messages>>

SvcQuit(s) ==
    /\ spc[s] = "idle" /\ squit[s]
    /\ spc' = [spc EXCEPT ![s] = "drain"]
    /\ UNCHANGED <<srvVars, recvQueue, msgQueue, squit, regNotify, unreg, upc, lisVars,
                   connVars, messages>>

\* What is left in the queue is handled, except replies to Register.
SvcDrain(s) ==
    /\ spc[s] = "drain"
    /\ IF msgQueue[s] = <<>>
       THEN spc' = [spc EXCEPT ![s] = "done"] /\ UNCHANGED msgQueue
       ELSE /\ msgQueue' = [msgQueue EXCEPT ![s] = Tail(@)]
            /\ spc' = [spc EXCEPT ![s] = IF Head(msgQueue[s]) = "data"
                                         THEN "lastbusy" ELSE @]
    /\ UNCHANGED <<srvVars, recvQueue, squit, regNotify, unreg, upc, lisVars, connVars, messages>>

SvcLoop(s) == SvcTake(s) \/ SvcReturn(s) \/ SvcQuit(s) \/ SvcDrain(s)

\* Mutant: Stop does not wait.
Stopped_NoWait(s) == unreg' = [unreg EXCEPT ![s] = @ + 1]

\* Stop waits for the loop, and then OnUnRegister runs.
Stopped(s) == spc[s] = "done" /\ unreg' = [unreg EXCEPT ![s] = @ + 1]

-----------------------------------------------------------------------------
(* UnRegister, called by the application.                                  *)

\* Up to the quit of Stop: who fires it second goes on without waiting.
UnRegister(s) ==
    /\ upc[s] = "none" /\ s \in table
    /\ squit' = [squit EXCEPT ![s] = TRUE]
    /\ upc' = [upc EXCEPT ![s] = IF squit[s] THEN "delete" ELSE "wait"]
    /\ UNCHANGED <<srvVars, recvQueue, msgQueue, spc, regNotify, unreg, lisVars, connVars, messages>>

UnRegisterWait(s) ==
    /\ upc[s] = "wait"
    /\ Stopped(s)
    /\ upc' = [upc EXCEPT ![s] = "delete"]
    /\ UNCHANGED <<srvVars, recvQueue, msgQueue, spc, squit, regNotify, lisVars, connVars, messages>>

UnRegisterDelete(s) ==
    /\ upc[s] = "delete"
    /\ table' = table \ {s}
    /\ upc' = [upc EXCEPT ![s] = "end"]
    /\ UNCHANGED <<pc, cur, todo, quit, errQueue, recvQueue, svcVars, lisVars, connVars, messages>>

-----------------------------------------------------------------------------
(* The loop of the server.                                                 *)

\* A message for a service that is not there is dropped.
Route ==
    /\ recvQueue # <<>>
    /\ recvQueue' = Tail(recvQueue)
    /\ IF Head(recvQueue) \in table THEN PushMessage(Head(recvQueue), "data")
                                    ELSE UNCHANGED msgQueue

Receive ==
    /\ pc = "loop"
    /\ Route
    /\ UNCHANGED <<srvVars, spc, squit, regNotify, unreg, upc, lisVars, connVars, messages>>

\* RegServiceEvent, late: Register has its answer, or has given up.
LateReply(s) ==
    /\ pc = "loop" /\ s \in table
    /\ messages < MaxMessages
    /\ messages' = messages + 1
    /\ PushMessage(s, "reg")
    /\ UNCHANGED <<srvVars, recvQueue, spc, squit, regNotify, unreg, upc, lisVars, connVars>>

\* KickOffEvent: UnRegister by the loop itself.
KickOff(s) ==
    /\ pc = "loop" /\ s \in table
    /\ squit' = [squit EXCEPT ![s] = TRUE]
    /\ IF squit[s] THEN table' = table \ {s} /\ UNCHANGED <<pc, cur>>
                   ELSE pc' = "kick" /\ cur' = s /\ UNCHANGED table
    /\ UNCHANGED <<todo, quit, errQueue, recvQueue, msgQueue, spc, regNotify, unreg, upc,
                   lisVars, connVars, messages>>

KickOffEnd ==
    /\ pc = "kick"
    /\ Stopped(cur)
    /\ table' = table \ {cur}
    /\ pc' = "loop" /\ cur' = None
    /\ UNCHANGED <<todo, quit, errQueue, recvQueue, msgQueue, spc, squit, regNotify, upc,
                   lisVars, connVars, messages>>

\* GracefulStop of the server.
GracefulStop ==
    /\ ~quit /\ quit' = TRUE
    /\ UNCHANGED <<pc, cur, todo, errQueue, table, recvQueue, svcVars, upc, lisVars, connVars, messages>>

\* Release begins: on quit, or because the listener failed.
Release ==
    /\ pc = "loop" /\ (quit \/ errQueue)
    /\ pc' = "drain"
    /\ UNCHANGED <<cur, todo, quit, errQueue, table, recvQueue, svcVars, upc, lisVars, connVars, messages>>

ReleaseDrain ==
    /\ pc = "drain"
    /\ IF recvQueue # <<>>
       THEN Route /\ UNCHANGED <<pc, todo>>
       ELSE pc' = "stop" /\ todo' = table /\ UNCHANGED <<recvQueue, msgQueue>>
    /\ UNCHANGED <<cur, quit, errQueue, table, spc, squit, regNotify, unreg, upc, lisVars,
                   connVars, messages>>

\* Stop of the next service.
ReleaseStop(s) ==
    /\ pc = "stop" /\ s \in todo
    /\ todo' = todo \ {s}
    /\ squit' = [squit EXCEPT ![s] = TRUE]
    /\ IF squit[s] THEN UNCHANGED <<pc, cur>> ELSE pc' = "stopping" /\ cur' = s
    /\ UNCHANGED <<quit, errQueue, table, recvQueue, msgQueue, spc, regNotify, unreg, upc,
                   lisVars, connVars, messages>>

ReleaseStopped ==
    /\ pc = "stopping"
    /\ Stopped(cur)
    /\ pc' = "stop" /\ cur' = None
    /\ UNCHANGED <<todo, quit, errQueue, table, recvQueue, msgQueue, spc, squit, regNotify, upc,
                   lisVars, connVars, messages>>

\* serviceWG.Wait, and done.
ReleaseEnd ==
    /\ pc = "wg" /\ \A s \in Services : spc[s] = "done"
    /\ pc' = "end"
    /\ UNCHANGED <<cur, todo, quit, errQueue, table, recvQueue, svcVars, upc, lisVars, connVars, messages>>

-----------------------------------------------------------------------------
(* The listener's GracefulStop, called by Release.                         *)

\* serveWG counts the acceptor and the handlers.
Serving == acc = "accept" \/ \E c \in Conns : conn[c] \in {"raw", "init"}

LisQuit ==
    /\ pc = "stop" /\ todo = {}
    /\ pc' = "lisclose" /\ lquit' = TRUE
    /\ UNCHANGED <<cur, todo, quit, errQueue, table, recvQueue, svcVars, upc, acc, lis, ldone, connsNil,
                   connVars, messages>>

\* The first critical section; the tables are emptied when the sidecar is done.
LisClose ==
    /\ pc = "lisclose"
    /\ IF lis = "open"
       THEN lis' = "closed" /\ pc' = "liswait" /\ UNCHANGED <<ldone, table>>
       ELSE ldone' = TRUE /\ pc' = "wg" /\ table' = {} /\ UNCHANGED lis
    /\ UNCHANGED <<cur, todo, quit, errQueue, recvQueue, svcVars, upc, acc, lquit, connsNil, connVars, messages>>

\* Mutant: the connections are closed without waiting for the handlers.
LisWait_NoWait ==
    /\ pc = "liswait"
    /\ conn' = [c \in Conns |-> IF conn[c] = "up" THEN "closed" ELSE conn[c]]
    /\ pc' = "liscv"
    /\ UNCHANGED <<cur, todo, quit, errQueue, table, recvQueue, svcVars, upc, lisVars, reader,
                   held, messages>>

\* serveWG.Wait, then every connection is closed.
LisWait ==
    /\ pc = "liswait" /\ ~Serving
    /\ conn' = [c \in Conns |-> IF conn[c] = "up" THEN "closed" ELSE conn[c]]
    /\ pc' = "liscv"
    /\ UNCHANGED <<cur, todo, quit, errQueue, table, recvQueue, svcVars, upc, lisVars, reader,
                   held, messages>>

\* Mutant: the stop does not wait for the connections.
LisEnd_NoWait ==
    /\ pc = "liscv"
    /\ connsNil' = TRUE /\ ldone' = TRUE /\ pc' = "wg" /\ table' = {}
    /\ UNCHANGED <<cur, todo, quit, errQueue, recvQueue, svcVars, upc, acc, lis, lquit, connVars, messages>>

\* The condition variable: no connection is left.
LisEnd ==
    /\ pc = "liscv" /\ \A c \in Conns : conn[c] \notin {"up", "closed"}
    /\ connsNil' = TRUE /\ ldone' = TRUE /\ pc' = "wg" /\ table' = {}
    /\ UNCHANGED <<cur, todo, quit, errQueue, recvQueue, svcVars, upc, acc, lis, lquit, connVars, messages>>

ServerLoop ==
    \/ Receive \/ KickOffEnd \/ Release \/ ReleaseDrain \/ ReleaseStopped \/ ReleaseEnd
    \/ LisQuit \/ LisClose \/ LisWait \/ LisEnd
    \/ \E s \in Services : ReleaseStop(s)

-----------------------------------------------------------------------------
(* The acceptor and the connections.                                       *)

\* Serve: the test of quit, then the critical section that opens the port.
AccTest ==
    /\ acc = "start"
    /\ acc' = IF lquit THEN "end" ELSE "listen"
    /\ errQueue' = (errQueue \/ lquit)
    /\ UNCHANGED <<pc, cur, todo, quit, table, recvQueue, svcVars, upc, lis, lquit, ldone, connsNil,
                   connVars, messages>>

AccListen ==
    /\ acc = "listen"
    /\ \/ acc' = "accept" /\ lis' = "open" /\ UNCHANGED errQueue
       \/ acc' = "end" /\ errQueue' = TRUE /\ UNCHANGED lis
    /\ UNCHANGED <<pc, cur, todo, quit, table, recvQueue, svcVars, upc, lquit, ldone, connsNil, connVars, messages>>

AccConn(c) ==
    /\ acc = "accept" /\ lis = "open"
    /\ conn[c] = "none"
    /\ conn' = [conn EXCEPT ![c] = "raw"]
    /\ UNCHANGED <<srvVars, recvQueue, svcVars, upc, lisVars, reader, held, messages>>

\* Accept fails: GracefulStop has closed the port, or the system refuses.
\* Serve closes the port if nobody has, and gives serveWG back.
AccFail ==
    /\ acc = "accept"
    /\ acc' = IF lquit THEN "done" ELSE "end"
    /\ errQueue' = (errQueue \/ ~lquit)
    /\ lis' = "closed"
    /\ UNCHANGED <<pc, cur, todo, quit, table, recvQueue, svcVars, upc, lquit, ldone, connsNil, connVars, messages>>

\* Serve returns after the stop, and the sidecar calls the server's GracefulStop.
AccDone ==
    /\ acc = "done" /\ ldone
    /\ acc' = "end" /\ quit' = TRUE
    /\ UNCHANGED <<pc, cur, todo, errQueue, table, recvQueue, svcVars, upc, lis, lquit, ldone, connsNil,
                   connVars, messages>>

Acceptor == AccTest \/ AccListen \/ AccDone \/ (lis = "closed" /\ AccFail)

\* handleRawConn: the test of quit, then addConn and the loops.
Handle(c) ==
    /\ conn[c] = "raw"
    /\ conn' = [conn EXCEPT ![c] = IF lquit THEN "gone" ELSE "init"]
    /\ UNCHANGED <<srvVars, recvQueue, svcVars, upc, lisVars, reader, held, messages>>

AddConn(c) ==
    /\ conn[c] = "init"
    /\ IF connsNil THEN conn' = [conn EXCEPT ![c] = "gone"] /\ UNCHANGED reader
       ELSE /\ conn' = [conn EXCEPT ![c] = "up"]
            /\ reader' = [reader EXCEPT ![c] = "read"]
    /\ UNCHANGED <<srvVars, recvQueue, svcVars, upc, lisVars, held, messages>>

\* loopRead and OnMessage: the send to recvQueue waits for room.
Read(c, s) ==
    /\ reader[c] = "read" /\ conn[c] = "up"
    /\ messages < MaxMessages
    /\ messages' = messages + 1
    /\ reader' = [reader EXCEPT ![c] = "push"]
    /\ held' = [held EXCEPT ![c] = s]
    /\ UNCHANGED <<srvVars, recvQueue, svcVars, upc, lisVars, conn>>

Push(c) ==
    /\ reader[c] = "push"
    /\ Len(recvQueue) < RecvQueueSize
    /\ recvQueue' = Append(recvQueue, held[c])
    /\ reader' = [reader EXCEPT ![c] = "read"]
    /\ held' = [held EXCEPT ![c] = None]
    /\ UNCHANGED <<srvVars, svcVars, upc, lisVars, conn, messages>>

\* The read fails: the peer has gone.
PeerGone(c) ==
    /\ reader[c] = "read" /\ conn[c] = "up"
    /\ conn' = [conn EXCEPT ![c] = "closed"]
    /\ UNCHANGED <<srvVars, recvQueue, svcVars, upc, lisVars, reader, held, messages>>

\* Both loops end after Close, and removeConn runs.
Remove(c) ==
    /\ reader[c] = "read" /\ conn[c] = "closed"
    /\ reader' = [reader EXCEPT ![c] = "end"]
    /\ conn' = [conn EXCEPT ![c] = "gone"]
    /\ UNCHANGED <<srvVars, recvQueue, svcVars, upc, lisVars, held, messages>>

ConnLoop(c) == Handle(c) \/ AddConn(c) \/ Push(c) \/ Remove(c)

\* A service of the same process sends: past the table, no queue of the server.
LocalSend(s) ==
    /\ s \in table
    /\ messages < MaxMessages
    /\ messages' = messages + 1
    /\ PushMessage(s, "data")
    /\ UNCHANGED <<srvVars, recvQueue, spc, squit, regNotify, unreg, upc, lisVars, connVars>>

-----------------------------------------------------------------------------
Next ==
    \/ ServerLoop \/ GracefulStop \/ Acceptor \/ AccFail
    \/ \E s \in Services :
          \/ SvcLoop(s) \/ LocalSend(s) \/ LateReply(s) \/ KickOff(s)
          \/ UnRegister(s) \/ UnRegisterWait(s) \/ UnRegisterDelete(s)
    \/ \E c \in Conns :
          ConnLoop(c) \/ AccConn(c) \/ PeerGone(c) \/ \E s \in Services : Read(c, s)

Spec == Init /\ [][Next]_vars

\* Every goroutine that can run goes on, and OnMessage returns.  The peers,
\* the application's calls and the network promise nothing.
LiveSpec ==
    /\ Spec
    /\ WF_vars(ServerLoop) /\ WF_vars(Acceptor)
    /\ \A s \in Services : WF_vars(SvcLoop(s))
    /\ \A s \in Services : WF_vars(UnRegisterWait(s) \/ UnRegisterDelete(s))
    /\ \A c \in Conns : WF_vars(ConnLoop(c))

-----------------------------------------------------------------------------
(* Correctness.                                                            *)

\* OnUnRegister is the last callback of a service: its loop has ended, and
\* of UnRegister, a kick-off and Release only one calls it (service.go:229).
UnRegisterIsLast ==
    \A s \in Services : unreg[s] <= 1 /\ (unreg[s] = 1 => spc[s] = "done")

\* The acceptor had failed before the stop, which then closes nothing.
AcceptFailed == lis = "closed" /\ ~connsNil

\* When the server is done no service runs any more and no connection is
\* read, nor will one be (listener.go:164, server.go:346).
StopIsFinal ==
    pc = "end" =>
       /\ \A s \in Services : spc[s] = "done"
       /\ AcceptFailed \/ \A c \in Conns : reader[c] \in {"none", "end"} /\ conn[c] # "init"

\* What keeps a stop from ending: a reader that waits for room in recvQueue,
\* which nobody empties now, or a service that waits for room in regNotify.
Stuck ==
    \/ pc = "liscv" /\ \E c \in Conns : reader[c] = "push" /\ Len(recvQueue) = RecvQueueSize
    \/ \E s \in Services : spc[s] = "blocked"

\* Serve passed its test of quit before the stop and opened the port after it.
LateServe == ldone /\ lis = "open"

\* Nothing else does: GracefulStop ends, the acceptor too.
StopEnds == quit ~> Stuck \/ (pc = "end" /\ (acc = "end" \/ LateServe))
=============================================================================
