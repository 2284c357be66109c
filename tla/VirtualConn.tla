----------------------------- MODULE VirtualConn -----------------------------
(***************************************************************************)
(* The virtual connections of the gRPC extension (extension/grpc): a       *)
(* dialer service and a listener service carry net.Conn streams over mesh  *)
(* messages.  Each keeps its connections in a ConnMgr, whose checker       *)
(* closes the ones that have received nothing for SessionExpiredSecond.    *)
(*                                                                         *)
(* The mesh delivers the messages between two services in order, and loses *)
(* any of them: a full msgQueue drops, a broken TCP connection drops what  *)
(* it has not written, and nobody is told.  Sending may also fail openly.  *)
(*                                                                         *)
(* Goroutines at each end: the one of the service, which handles messages; *)
(* the application's, which dial, write and close; and the checker.  A     *)
(* step is one critical section of ConnMgr.mu or one send.  A connection   *)
(* is known by its connID; the identifiers of a model are all different    *)
(* (the code's come round after 2^16 dials).  The table conns and the list *)
(* connLruList change together under mu, and are one sequence here.        *)
(***************************************************************************)
EXTENDS Integers, Sequences, SequencesExt

CONSTANTS
    MaxDials,       \* bound: calls of dial, and so connIDs
    Limits,         \* bounds <<d, n>>: with d dials, n things that applications
                    \* and faults do in all
    SessionExpiredSecond,
    MaxExpiredConnNumPerCheck,
    Backlog         \* room of the listener's channel connected

ASSUME ConnBounds ==
    /\ MaxDials \in Nat /\ Limits \subseteq (0..MaxDials) \X Nat /\ Backlog \in Nat
    /\ SessionExpiredSecond \in Nat /\ MaxExpiredConnNumPerCheck \in Nat \ {0}

Ends == {"dialer", "listener"}
Peer(e) == IF e = "dialer" THEN "listener" ELSE "dialer"
Ids == 1..MaxDials

VARIABLES
    net,            \* messages on their way to each end
    budget,         \* what applications and faults may still do
    work,           \* the data message OnMessage has found the connection of
    lru,            \* ConnMgr: the connections, least recently used first
    age,            \* seconds since lastUpTime, up to the first expired value
    sendSeq, recvSeq,
    sent,           \* what Write accepted
    got,            \* what was put into cbuf
    done,           \* how often done was closed
    app,            \* what the application does with a connection
    dials,          \* the last connID given out
    connected,      \* the listener's accept channel
    chk,            \* what the checker has still to close
    told,           \* the checker has sent the Close of the first of them
    dropped         \* connections that left a ConnMgr without DelConn

netVars == <<net, budget>>
connVars == <<sendSeq, recvSeq, sent, got>>
mgrVars == <<lru, age, done, dropped>>
appVars == <<app, dials, connected>>
chkVars == <<chk, told>>
vars == <<netVars, work, connVars, mgrVars, appVars, chkVars>>

Has(e, id) == \E i \in 1..Len(lru[e]) : lru[e][i] = id

Init ==
    /\ net = [e \in Ends |-> <<>>]
    /\ \E l \in Limits : dials = MaxDials - l[1] /\ budget = l[2]
    /\ work = [e \in Ends |-> <<>>]
    /\ lru = [e \in Ends |-> <<>>]
    /\ age = [e \in Ends |-> [id \in Ids |-> 0]]
    /\ sendSeq = [e \in Ends |-> [id \in Ids |-> 0]]
    /\ recvSeq = [e \in Ends |-> [id \in Ids |-> 0]]
    /\ sent = [e \in Ends |-> [id \in Ids |-> <<>>]]
    /\ got = [e \in Ends |-> [id \in Ids |-> <<>>]]
    /\ done = [e \in Ends |-> [id \in Ids |-> 0]]
    /\ app = [e \in Ends |-> [id \in Ids |-> "none"]]
    /\ connected = <<>>
    /\ chk = [e \in Ends |-> <<>>]
    /\ told = [e \in Ends |-> FALSE]
    /\ dropped = [e \in Ends |-> {}]

-----------------------------------------------------------------------------
(* SkymeshConn and ConnMgr.                                                *)

Msg(c, id) == [cmd |-> c, id |-> id, seq |-> 0, data |-> 0]

\* PackPacket and SendByHandle, n times: any of the messages may be lost.
\* The call that sends them costs c of the budget, and so does every loss.
Post(e, m, n, q, c) ==
    \E k \in 0..n :
       /\ c + n - k <= budget
       /\ budget' = budget - (c + n - k)
       /\ net' = [q EXCEPT ![Peer(e)] = @ \o [i \in 1..k |-> m]]

\* SendByHandle returns an error.
Fails(c) == c < budget /\ budget' = budget - (c + 1) /\ UNCHANGED net

\* OnMessage has taken the first message.
Taken(e) == [net EXCEPT ![e] = Tail(@)]

\* AddConn puts the connection behind the others.
AddConn(e, id) == lru' = [lru EXCEPT ![e] = Append(@, id)]

\* GetConn moves it there.
GetConn(e, id) == lru' = [lru EXCEPT ![e] = Append(RemoveFirst(@, id), id)]

\* Mutant: OnClose runs before the lookup.
DelConn_CloseFirst(e, id) ==
    /\ lru' = [lru EXCEPT ![e] = RemoveFirst(@, id)]
    /\ done' = [done EXCEPT ![e][id] = @ + 1]
    /\ UNCHANGED <<age, dropped>>

\* Mutant: the connection is forgotten and done stays open.
DelConn_NoClose(e, id) ==
    /\ lru' = [lru EXCEPT ![e] = RemoveFirst(@, id)]
    /\ UNCHANGED <<done, age, dropped>>

\* DelConn closes done and forgets the connection, if it is there.
DelConn(e, id) ==
    /\ IF Has(e, id)
       THEN /\ lru' = [lru EXCEPT ![e] = RemoveFirst(@, id)]
            /\ done' = [done EXCEPT ![e][id] = @ + 1]
       ELSE UNCHANGED <<lru, done>>
    /\ UNCHANGED <<age, dropped>>

\* DelConns: done stays open.  (So it does in Close of the ConnMgr, which
\* OnUnRegister calls; here both services stay registered.)
Forget(e) ==
    /\ dropped' = [dropped EXCEPT ![e] = @ \cup Range(lru[e])]
    /\ lru' = [lru EXCEPT ![e] = <<>>]
    /\ UNCHANGED <<age, done>>

-----------------------------------------------------------------------------
(* The dialer: dial.                                                       *)

\* GenerateConnID and NewSkymeshConn, which takes the time.
DialNew ==
    /\ dials < MaxDials
    /\ dials' = dials + 1
    /\ budget > 0 /\ budget' = budget - 1
    /\ app' = [app EXCEPT !["dialer"][dials'] = "new"]
    /\ UNCHANGED <<net, work, connVars, mgrVars, connected, chkVars>>

DialAdd(id) ==
    /\ app["dialer"][id] = "new"
    /\ AddConn("dialer", id)
    /\ app' = [app EXCEPT !["dialer"][id] = "added"]
    /\ UNCHANGED <<netVars, work, connVars, age, done, dropped, dials, connected, chkVars>>

\* Connect.  When it fails dial returns no connection, and the ConnMgr keeps it.
DialConnect(id) ==
    /\ app["dialer"][id] = "added"
    /\ \/ /\ Post("dialer", Msg("Connect", id), 1, net, 0)
          /\ app' = [app EXCEPT !["dialer"][id] = "held"]
       \/ /\ Fails(0)
          /\ app' = [app EXCEPT !["dialer"][id] = "failed"]
    /\ UNCHANGED <<work, connVars, mgrVars, dials, connected, chkVars>>

-----------------------------------------------------------------------------
(* The application.  Nothing stops it from writing to a closed connection. *)

\* Write.  The sequence number moves on unless SendByHandle reports an error.
Write(e, id) ==
    /\ app[e][id] \in {"held", "closing", "closed"}
    /\ \/ /\ Post(e, [cmd |-> "Data", id |-> id, seq |-> sendSeq[e][id], data |-> budget],
                  1, net, 1)
          /\ sendSeq' = [sendSeq EXCEPT ![e][id] = @ + 1]
          /\ sent' = [sent EXCEPT ![e][id] = Append(@, budget)]
       \/ Fails(1) /\ UNCHANGED <<sendSeq, sent>>
    /\ UNCHANGED <<work, recvSeq, got, mgrVars, app, dials, connected, chkVars>>

\* Close: the message, then DelConn.
CloseSend(e, id) ==
    /\ app[e][id] = "held"
    /\ Post(e, Msg("Close", id), 1, net, 1)
    /\ app' = [app EXCEPT ![e][id] = "closing"]
    /\ UNCHANGED <<work, connVars, mgrVars, dials, connected, chkVars>>

CloseDel(e, id) ==
    /\ app[e][id] = "closing"
    /\ DelConn(e, id)
    /\ app' = [app EXCEPT ![e][id] = "closed"]
    /\ UNCHANGED <<netVars, work, connVars, dials, connected, chkVars>>

\* The listener's Accept.
Accept ==
    /\ connected # <<>>
    /\ app' = [app EXCEPT !["listener"][Head(connected)] = "held"]
    /\ connected' = Tail(connected)
    /\ UNCHANGED <<netVars, work, connVars, mgrVars, dials, chkVars>>

-----------------------------------------------------------------------------
(* OnMessage of the listener and of the dialer.                            *)

Arrives(e, c) == work[e] = <<>> /\ net[e] # <<>> /\ Head(net[e]).cmd = c

\* Only the listener is asked to connect; a full channel turns the new
\* connection away from Accept and leaves it in the ConnMgr.
OnConnect ==
    LET id == Head(net["listener"]).id IN
    /\ Arrives("listener", "Connect")
    /\ UNCHANGED budget /\ net' = Taken("listener")
    /\ AddConn("listener", id)
    /\ age' = [age EXCEPT !["listener"][id] = 0]
    /\ connected' = IF Len(connected) < Backlog THEN Append(connected, id) ELSE connected
    /\ UNCHANGED <<work, connVars, done, dropped, app, dials, chkVars>>

\* Data: look the connection up, or answer with resetConn.
OnDataGet(e) ==
    LET m == Head(net[e]) IN
    /\ Arrives(e, "Data")
    /\ IF Has(e, m.id)
       THEN /\ GetConn(e, m.id)
            /\ UNCHANGED budget /\ net' = Taken(e)
            /\ work' = [work EXCEPT ![e] = <<m>>]
       ELSE /\ Post(e, Msg("Close", m.id), 1, Taken(e), 0)
            /\ UNCHANGED <<lru, work>>
    /\ UNCHANGED <<connVars, age, done, dropped, appVars, chkVars>>

\* Mutant: a sequence number from the future is taken.
OnRecv_NoSeq(e) ==
    LET m == work[e][1] IN
    /\ work[e] # <<>>
    /\ age' = [age EXCEPT ![e][m.id] = 0]
    /\ IF recvSeq[e][m.id] <= m.seq
       THEN /\ recvSeq' = [recvSeq EXCEPT ![e][m.id] = m.seq + 1]
            /\ got' = [got EXCEPT ![e][m.id] = Append(@, m.data)]
            /\ UNCHANGED netVars
       ELSE /\ Post(e, Msg("Close", m.id), 2, net, 0)
            /\ UNCHANGED <<recvSeq, got>>
    /\ work' = [work EXCEPT ![e] = <<>>]
    /\ UNCHANGED <<lru, done, dropped, sendSeq, sent, appVars, chkVars>>

\* OnRecv: a message out of sequence is answered with Close by OnRecv and
\* again by resetConn, and the connection stays.  Put fails once the reader
\* has seen that done is closed.
OnRecv(e) ==
    LET m == work[e][1] IN
    /\ work[e] # <<>>
    /\ age' = [age EXCEPT ![e][m.id] = 0]
    /\ IF recvSeq[e][m.id] = m.seq
       THEN /\ recvSeq' = [recvSeq EXCEPT ![e][m.id] = @ + 1]
            /\ \/ /\ got' = [got EXCEPT ![e][m.id] = Append(@, m.data)]
                  /\ UNCHANGED netVars
               \/ /\ done[e][m.id] > 0
                  /\ Post(e, Msg("Close", m.id), 1, net, 0)
                  /\ UNCHANGED got
       ELSE /\ Post(e, Msg("Close", m.id), 2, net, 0)
            /\ UNCHANGED <<recvSeq, got>>
    /\ work' = [work EXCEPT ![e] = <<>>]
    /\ UNCHANGED <<lru, done, dropped, sendSeq, sent, appVars, chkVars>>

OnClose(e) ==
    /\ Arrives(e, "Close")
    /\ UNCHANGED budget /\ net' = Taken(e)
    /\ DelConn(e, Head(net[e]).id)
    /\ UNCHANGED <<work, connVars, appVars, chkVars>>

\* OnInstOffline at the listener, which watches the dialer's name since the
\* first Connect: the dialer's service is gone, or is said to be.
OnInstOffline ==
    /\ lru["listener"] # <<>>
    /\ budget > 0 /\ budget' = budget - 1
    /\ Forget("listener")
    /\ UNCHANGED <<net, work, connVars, appVars, chkVars>>

-----------------------------------------------------------------------------
(* The checker of a ConnMgr.                                               *)

\* A second passes.
Tick ==
    /\ age' = [e \in Ends |-> [id \in Ids |->
          IF (Has(e, id) \/ app[e][id] = "new") /\ age[e][id] <= SessionExpiredSecond
          THEN age[e][id] + 1 ELSE age[e][id]]]
    /\ UNCHANGED <<netVars, work, connVars, lru, done, dropped, appVars, chkVars>>

Expired(e, id) == age[e][id] > SessionExpiredSecond

\* The connections CheckExpired collects: expired ones from the front.
Collected(e) ==
    LET n == Max({k \in 0..Len(lru[e]) :
                   k <= MaxExpiredConnNumPerCheck
                   /\ \A i \in 1..k : Expired(e, lru[e][i])})
    IN  SubSeq(lru[e], 1, n)

CheckExpired(e) ==
    /\ chk[e] = <<>>
    /\ Collected(e) # <<>>
    /\ chk' = [chk EXCEPT ![e] = Collected(e)]
    /\ UNCHANGED <<netVars, work, connVars, mgrVars, appVars, told>>

\* Close of each of them, after the unlock: the message, then DelConn.
CheckSend(e) ==
    /\ chk[e] # <<>> /\ ~told[e]
    /\ Post(e, Msg("Close", Head(chk[e])), 1, net, 0)
    /\ told' = [told EXCEPT ![e] = TRUE]
    /\ UNCHANGED <<work, connVars, mgrVars, appVars, chk>>

\* Mutant: Close gives up when its message was not sent.
CheckDel_IfSent(e) ==
    /\ told[e]
    /\ IF net[Peer(e)] # <<>> /\ Last(net[Peer(e)]) = Msg("Close", Head(chk[e]))
       THEN DelConn(e, Head(chk[e])) ELSE UNCHANGED mgrVars
    /\ chk' = [chk EXCEPT ![e] = Tail(@)]
    /\ told' = [told EXCEPT ![e] = FALSE]
    /\ UNCHANGED <<netVars, work, connVars, appVars>>

CheckDel(e) ==
    /\ told[e]
    /\ DelConn(e, Head(chk[e]))
    /\ chk' = [chk EXCEPT ![e] = Tail(@)]
    /\ told' = [told EXCEPT ![e] = FALSE]
    /\ UNCHANGED <<netVars, work, connVars, appVars>>

-----------------------------------------------------------------------------
(* The goroutines.                                                         *)

\* The rest of the calls of dial and Close that have begun.
Calls ==
    \/ \E id \in Ids : DialAdd(id) \/ DialConnect(id)
    \/ \E e \in Ends, id \in Ids : CloseDel(e, id)

Service(e) ==
    \/ e = "listener" /\ OnConnect
    \/ OnDataGet(e) \/ OnRecv(e) \/ OnClose(e)

Checker(e) == CheckExpired(e) \/ CheckSend(e) \/ CheckDel(e)

Next ==
    \/ DialNew \/ Calls \/ Accept \/ OnInstOffline \/ Tick
    \/ \E e \in Ends, id \in Ids : Write(e, id) \/ CloseSend(e, id)
    \/ \E e \in Ends : Service(e) \/ Checker(e)

Spec == Init /\ [][Next]_vars

\* Time passes; the services handle what arrives; the checkers run; a call
\* of dial or Close goes on.  The application promises nothing.
LiveSpec ==
    /\ Spec
    /\ WF_vars(Tick) /\ WF_vars(Calls)
    /\ \A e \in Ends : WF_vars(Service(e)) /\ WF_vars(Checker(e))

-----------------------------------------------------------------------------
(* Correctness.                                                            *)

\* What one end has received on a connection is a prefix of what the other
\* end's Write accepted, whatever the mesh loses (recvSeq, conn.go:36).
StreamPrefix ==
    \A e \in Ends, id \in Ids : IsPrefix(got[e][id], sent[Peer(e)][id])

\* No two of Close, the checker and a Close message close the same done:
\* closing a closed channel panics (conn.go:69).
DoneClosedOnce == \A e \in Ends, id \in Ids : done[e][id] <= 1

\* A connection that left its ConnMgr has done closed, so that its reader
\* ends; OnInstOffline's DelConns is the exception.
RemovedIsClosed ==
    \A id \in Ids :
       /\ app["dialer"][id] \notin {"none", "new"} =>
             Has("dialer", id) \/ done["dialer"][id] > 0
       /\ app["listener"][id] # "none" =>
             Has("listener", id) \/ done["listener"][id] > 0 \/ id \in dropped["listener"]

\* When one end has closed a connection both ends forget it for good, also
\* when the Close message and every reset are lost: the checker sees to it.
\* (Every behaviour of the model has finitely many dials.)
HalfOpenEnds ==
    <>[](\A id \in Ids :
           (\E e \in Ends : done[e][id] > 0) => \A e \in Ends : ~Has(e, id))
=============================================================================
