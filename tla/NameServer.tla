----------------------------- MODULE NameServer -----------------------------
(***************************************************************************)
(* The skymesh name server (nameserver/): the registry of the services of  *)
(* one app, the leader elections between services of one name, the         *)
(* two-stage confirmation that puts a stateful service online, and the     *)
(* sessions through which agents are notified.                             *)
(*                                                                         *)
(* Server.Serve is one goroutine that takes a message from msg_queue and   *)
(* runs its handler to the end: one action per handler.  The tick handler  *)
(* is a loop that sends on every round, so it is split into one step per   *)
(* round; no other message is handled before it is over (Idle).  Each      *)
(* connection has a reader and a writer goroutine that change the sessions *)
(* meanwhile: the writer may close it while the reader still handles the   *)
(* messages of its last read.                                              *)
(*                                                                         *)
(* A handler's arguments range over all servers and handles: a message     *)
(* waits in msg_queue, so its sender may be gone when it is handled.  `out'*)
(* holds what the last step sent, per server and in order; modules that    *)
(* compose the name server with agents put it on their channels.           *)
(***************************************************************************)
EXTENDS Integers, Sequences, SequencesExt

CONSTANTS
    Servers,      \* serverAddr of the agents ("ip:port")
    Conns,        \* lisConnReceiver objects (connections accepted)
    Names,        \* service names
    Handles,      \* service address handles
    NameOf,       \* serviceAddr.ServiceName of each handle
    ServerOf,     \* ServiceInfo.serverAddr of each handle: MakeServiceHandle
                  \* hashes it with the name and the id (agent/server.go:125)
    NoServer, NoConn, NoHandle,   \* "", nil and INVALID_SERVICE_HANDLE
    ServiceKeepaliveTime,         \* Config, in seconds
    ConfirmExpiredSecond,         \* define.go:7
    CheckAliveMaxNumPerTickPerApp,  \* define.go:6
    MaxTime       \* bound: the clock stops here

ASSUME NoValues ==
    NoServer \notin Servers /\ NoConn \notin Conns /\ NoHandle \notin Handles

ASSUME NameOfType == NameOf \in [Handles -> Names] /\ ServerOf \in [Handles -> Servers]

ASSUME TimesType ==
    /\ ServiceKeepaliveTime \in Nat \ {0}
    /\ ConfirmExpiredSecond \in Nat \ {0}
    /\ CheckAliveMaxNumPerTickPerApp \in Nat \ {0}
    /\ MaxTime \in Nat

VARIABLES
    now,            \* time.Now().Unix()
    conns,          \* lr.serverAddress of each connection that is being read
    closed,         \* those among them whose Close has fired
    sessions,       \* SessionMgr.sessions: the connection of a server
    overlapped,     \* history: connections announced while another one of the
                    \* same address was still being read
    apps,           \* the app is in Server.apps
    handleServices, \* keys of Server.handleServices
    services,       \* keys of AppInfo.services
    svclruList,     \* AppInfo.svclruList, front first
    lastRecvHbTime, \* ServiceInfo.lastRecvHbTime of a registered handle
    electionCandidates, electionLeaders,           \* per service name
    routers, confirmDeadline, onlineSvcHandle,     \* NameRouter, per name
    expired,        \* OnTick: handles checkServiceAlive has yet to kick off
    unchecked,      \* OnTick: names checkConfirmExpired has yet to visit
    out             \* messages sent by the last step, per server

sessVars == <<conns, closed, sessions, overlapped>>
regVars == <<apps, handleServices, services, svclruList, lastRecvHbTime>>
electVars == <<electionCandidates, electionLeaders>>
routerVars == <<routers, confirmDeadline, onlineSvcHandle>>
tickVars == <<expired, unchecked>>
vars == <<now, sessVars, regVars, electVars, routerVars, tickVars, out>>

-----------------------------------------------------------------------------
(* The messages the name server sends (proto/ssproto.proto).               *)

Results == {"OK", "ERR_APP_NOT_REGISTER", "ERR_SERVICE_REGISTER_LINEUP",
            "ERR_ROUTER_PREPARE_TIMEOUT"}
ElectionEvents == {"RunForLeader", "GiveUpLeader"}
ElectionResults == {"OK", "RunForFail", "AlreadyLeader", "QuitCandidate"}
RouterCmds == {"Prepare", "PrepareAbort"}

RegisterAppRsp(leaders) == [cmd |-> "RSP_REGISTER_APP", leaders |-> leaders]
RegisterServiceRsp(h, r) == [cmd |-> "RSP_REGISTER_SERVICE", handle |-> h, result |-> r]
ServiceOnline(h, isOnline) ==
    [cmd |-> "NOTIFY_SERVICE_ONLINE", handle |-> h, isOnline |-> isOnline]
OthersOnline(hs) == [cmd |-> "NOTIFY_SERVICES_ONLINE", handles |-> hs]
SyncAttr(h) == [cmd |-> "NOTIFY_SERVICE_SYNCATTR", handle |-> h]
ElectionResult(h, e, r) ==
    [cmd |-> "NOTIFY_SERVICE_ELECTION_RESULT", handle |-> h, event |-> e, result |-> r]
KickOff(h) == [cmd |-> "NOTIFY_SERVICE_KICK_OFF", handle |-> h]
RouterUpdate(n, c) == [cmd |-> "REQ_AGENT_ROUTER_UPDATE", name |-> n, routerCmd |-> c]

Messages ==
    [cmd : {"RSP_REGISTER_APP"}, leaders : SUBSET Handles]
    \cup [cmd : {"RSP_REGISTER_SERVICE"}, handle : Handles, result : Results]
    \cup [cmd : {"NOTIFY_SERVICE_ONLINE"}, handle : Handles, isOnline : BOOLEAN]
    \cup [cmd : {"NOTIFY_SERVICES_ONLINE"}, handles : SUBSET Handles]
    \cup [cmd : {"NOTIFY_SERVICE_SYNCATTR", "NOTIFY_SERVICE_KICK_OFF"}, handle : Handles]
    \cup [cmd : {"NOTIFY_SERVICE_ELECTION_RESULT"}, handle : Handles,
          event : ElectionEvents, result : ElectionResults]
    \cup [cmd : {"REQ_AGENT_ROUTER_UPDATE"}, name : Names, routerCmd : RouterCmds]

Silent == [s \in Servers |-> << >>]

\* GetSession of each server in S, and lr.Send if it has a session.  Send only
\* buffers: a connection that is closed by then loses the message, and so may an
\* open one (ConnWriter).
SendTo(S, m) ==
    [s \in Servers |-> IF s \in S /\ sessions[s] # NoConn THEN <<m>> ELSE << >>]

\* First everything a sends, then everything b sends.
Then(a, b) == [s \in Servers |-> a[s] \o b[s]]

\* Broadcast(excludeSi, b): the servers of registered services, each once.
Broadcast(exclude, m) ==
    SendTo({s \in Servers \ exclude : \E h \in services : ServerOf[h] = s}, m)

BroadcastOnlineToOthers(h, isOnline) ==
    Broadcast({ServerOf[h]}, ServiceOnline(h, isOnline))

\* NotifyConfirmResult once GetItem has found the service.
NotifyConfirmResult(h, result) ==
    Then(SendTo({ServerOf[h]}, RegisterServiceRsp(h, result)),
         IF result = "OK" THEN BroadcastOnlineToOthers(h, TRUE) ELSE Silent)

\* BroadcastCmd of the NameRouter of name n.
BroadcastCmd(n, c) ==
    SendTo({s \in Servers : routers[n][s] # "Absent"}, RouterUpdate(n, c))

-----------------------------------------------------------------------------
(* Connections and the clock.                                              *)

Clock ==
    /\ now < MaxTime
    /\ now' = now + 1
    /\ out' = Silent
    /\ UNCHANGED <<sessVars, regVars, electVars, routerVars, tickVars>>

\* A connection object nothing refers to stands for one accepted later.
Unused(c) == conns[c] = NoServer /\ \A s \in Servers : sessions[s] # c

OthersOf(c, s) == {d \in Conns \ {c} : conns[d] = s}

\* Mutant: AddSession keeps the session that is there.
OnNotifiedAgentInfo_KeepOld(c, s) ==
    /\ conns[c] = s \/ Unused(c)
    /\ conns' = [conns EXCEPT ![c] = s]
    /\ sessions' = [sessions EXCEPT ![s] = IF @ = NoConn THEN c ELSE @]
    /\ overlapped' = IF OthersOf(c, s) = {} THEN overlapped
                     ELSE overlapped \cup {c} \cup OthersOf(c, s)
    /\ out' = Silent
    /\ UNCHANGED <<now, closed, regVars, electVars, routerVars, tickVars>>

\* The reader of connection c gets AGENT_INFO, or the REQ_REGISTER_APP that
\* follows it, maybe after the writer has closed c: AddSession replaces the
\* session that is there, whoever left it.
OnNotifiedAgentInfo(c, s) ==
    /\ conns[c] = s \/ Unused(c)
    /\ conns' = [conns EXCEPT ![c] = s]
    /\ sessions' = [sessions EXCEPT ![s] = c]
    /\ overlapped' = IF OthersOf(c, s) = {} THEN overlapped
                     ELSE overlapped \cup {c} \cup OthersOf(c, s)
    /\ out' = Silent
    /\ UNCHANGED <<now, closed, regVars, electVars, routerVars, tickVars>>

\* Conn.Close of c, once, by its reader or its writer: RemoveSession goes by
\* address, whoever holds it.
OnClosed(c) ==
    /\ conns[c] # NoServer
    /\ c \notin closed
    /\ closed' = closed \cup {c}
    /\ sessions' = [sessions EXCEPT ![conns[c]] = NoConn]
    /\ out' = Silent
    /\ UNCHANGED <<now, conns, overlapped, regVars, electVars, routerVars, tickVars>>

\* The reader of c, which has closed c or finds it closed, returns: nothing
\* looks at lr.serverAddress any more.
ReaderEnds(c) ==
    /\ c \in closed
    /\ closed' = closed \ {c}
    /\ conns' = [conns EXCEPT ![c] = NoServer]
    /\ overlapped' = overlapped \ {c}
    /\ out' = Silent
    /\ UNCHANGED <<now, sessions, regVars, electVars, routerVars, tickVars>>

-----------------------------------------------------------------------------
(* Registration.                                                           *)

Idle == expired = << >> /\ unchecked = {}

Leaders == {electionLeaders[n] : n \in Names} \ {NoHandle}

\* RegisterApp, with NotifyOthersOnlineToSelf: one notification for each
\* service of another server, confirmed or not, in the order of a Go map.
RegisterApp(s) ==
    /\ Idle
    /\ sessions[s] # NoConn
    /\ apps' = TRUE
    /\ out' = Then(SendTo({s}, RegisterAppRsp(Leaders)),
                   SendTo({s}, OthersOnline({h \in services : ServerOf[h] # s})))
    /\ UNCHANGED <<now, sessVars, handleServices, services, svclruList,
                   lastRecvHbTime, electVars, routerVars, tickVars>>

\* RegisterService of a handle already registered returns an error and sends
\* nothing.
RegisterServiceAgain(h) ==
    /\ Idle
    /\ h \in handleServices
    /\ out' = Silent
    /\ UNCHANGED <<now, sessVars, regVars, electVars, routerVars, tickVars>>

RegisterServiceNoApp(h) ==
    /\ Idle
    /\ h \notin handleServices
    /\ ~apps
    /\ out' = SendTo({ServerOf[h]}, RegisterServiceRsp(h, "ERR_APP_NOT_REGISTER"))
    /\ UNCHANGED <<now, sessVars, regVars, electVars, routerVars, tickVars>>

\* AddItem of a new ServiceInfo, with handleServices.
AddItem(h) ==
    /\ handleServices' = handleServices \cup {h}
    /\ services' = services \cup {h}
    /\ svclruList' = Append(svclruList, h)
    /\ lastRecvHbTime' = [lastRecvHbTime EXCEPT ![h] = now]

HasRouters(n) == \E s \in Servers : routers[n][s] # "Absent"

\* Mutant: the routers keep their state.
AllRouters_Keep(n, state) == routers

\* The loops that give every router of a name one state.
AllRouters(n, state) ==
    [routers EXCEPT ![n] =
        [s \in Servers |-> IF @[s] = "Absent" THEN "Absent" ELSE state]]

\* Start2StageConfirm and StartConfirm.  A NameRouter object exists only with
\* a router in it, so "no NameRouter" and "no routers" are one case.  MaxTime
\* bounds the deadlines: none is set that the clock cannot reach.
Start2StageConfirm(h) ==
    LET n == NameOf[h] IN
    \/ /\ onlineSvcHandle[n] # NoHandle
       /\ out' = NotifyConfirmResult(h, "ERR_SERVICE_REGISTER_LINEUP")
       /\ UNCHANGED routerVars
    \/ /\ onlineSvcHandle[n] = NoHandle
       /\ ~HasRouters(n)
       /\ out' = NotifyConfirmResult(h, "OK")
       /\ UNCHANGED routerVars
    \/ /\ onlineSvcHandle[n] = NoHandle
       /\ HasRouters(n)
       /\ now + ConfirmExpiredSecond <= MaxTime
       /\ routers' = AllRouters(n, "Preparing")
       /\ confirmDeadline' = [confirmDeadline EXCEPT ![n] = now + ConfirmExpiredSecond]
       /\ onlineSvcHandle' = [onlineSvcHandle EXCEPT ![n] = h]
       /\ out' = BroadcastCmd(n, "Prepare")

\* RegisterService of a new handle.
RegisterService(h, isStateful) ==
    /\ Idle
    /\ h \notin handleServices
    /\ apps
    /\ AddItem(h)
    /\ IF isStateful
       THEN Start2StageConfirm(h)
       ELSE out' = NotifyConfirmResult(h, "OK") /\ UNCHANGED routerVars
    /\ UNCHANGED <<now, sessVars, apps, electVars, tickVars>>

\* Mutant: the list keeps its order.
MoveToBack_Stay(h) == svclruList

MoveToBack(h) == Append(RemoveFirst(svclruList, h), h)

OnServiceHeartbeat(h) ==
    /\ Idle
    /\ h \in handleServices
    /\ lastRecvHbTime' = [lastRecvHbTime EXCEPT ![h] = now]
    /\ svclruList' = MoveToBack(h)
    /\ out' = Silent
    /\ UNCHANGED <<now, sessVars, apps, handleServices, services,
                   electVars, routerVars, tickVars>>

OnServiceSyncAttr(h) ==
    /\ Idle
    /\ h \in handleServices
    /\ out' = Broadcast({ServerOf[h]}, SyncAttr(h))
    /\ UNCHANGED <<now, sessVars, regVars, electVars, routerVars, tickVars>>

-----------------------------------------------------------------------------
(* Elections.                                                              *)

\* Mutant: whoever runs leads.
OnServiceRunForElection_TakeOver(h) ==
    /\ Idle
    /\ h \in handleServices
    /\ electionCandidates' = [electionCandidates EXCEPT ![NameOf[h]] = @ \cup {h}]
    /\ electionLeaders' = [electionLeaders EXCEPT ![NameOf[h]] = h]
    /\ out' = Broadcast({}, ElectionResult(h, "RunForLeader", "OK"))
    /\ UNCHANGED <<now, sessVars, regVars, routerVars, tickVars>>

OnServiceRunForElection(h) ==
    LET n == NameOf[h]
        toInitiator(r) == SendTo({ServerOf[h]}, ElectionResult(h, "RunForLeader", r))
    IN
    /\ Idle
    /\ h \in handleServices
    /\ electionCandidates' = [electionCandidates EXCEPT ![n] = @ \cup {h}]
    /\ \/ /\ electionLeaders[n] = NoHandle
          /\ h \notin electionCandidates[n]
          /\ electionLeaders' = [electionLeaders EXCEPT ![n] = h]
          /\ out' = Broadcast({}, ElectionResult(h, "RunForLeader", "OK"))
       \/ /\ electionLeaders[n] = h
          /\ h \in electionCandidates[n]
          /\ out' = toInitiator("AlreadyLeader")
          /\ UNCHANGED electionLeaders
       \/ /\ IF h \in electionCandidates[n] THEN electionLeaders[n] # h
                                            ELSE electionLeaders[n] # NoHandle
          /\ out' = toInitiator("RunForFail")
          /\ UNCHANGED electionLeaders
    /\ UNCHANGED <<now, sessVars, regVars, routerVars, tickVars>>

\* The candidates with the latest heartbeat: the loop over the candidate map
\* keeps the first of equals, in the order of a Go map.
Freshest(cands) ==
    {h \in cands : \A g \in cands : lastRecvHbTime[g] <= lastRecvHbTime[h]}

\* OnServiceGiveupElection of a registered handle; `rest' is what its caller
\* sends after it.
GiveupElection(h, rest) ==
    LET n == NameOf[h]
        others == electionCandidates[n] \ {h}
    IN
    \/ /\ h \notin electionCandidates[n]
       /\ out' = rest
       /\ UNCHANGED electVars
    \/ /\ h \in electionCandidates[n]
       /\ electionLeaders[n] # h
       /\ electionCandidates' = [electionCandidates EXCEPT ![n] = others]
       /\ out' = Then(SendTo({ServerOf[h]},
                             ElectionResult(h, "GiveUpLeader", "QuitCandidate")), rest)
       /\ UNCHANGED electionLeaders
    \/ /\ h \in electionCandidates[n]
       /\ electionLeaders[n] = h
       /\ electionCandidates' = [electionCandidates EXCEPT ![n] = others]
       /\ \/ \E newLeader \in Freshest(others) :
                /\ electionLeaders' = [electionLeaders EXCEPT ![n] = newLeader]
                /\ out' = Then(Broadcast({}, ElectionResult(newLeader, "RunForLeader", "OK")),
                               rest)
          \/ /\ others = {}
             /\ electionLeaders' = [electionLeaders EXCEPT ![n] = NoHandle]
             /\ out' = Then(Broadcast({}, ElectionResult(h, "GiveUpLeader", "OK")), rest)

OnServiceGiveupElection(h) ==
    /\ Idle
    /\ h \in handleServices
    /\ GiveupElection(h, Silent)
    /\ UNCHANGED <<now, sessVars, regVars, routerVars, tickVars>>

-----------------------------------------------------------------------------
(* Unregistration, by request (UnRegister) or for silence (the tick).      *)

\* Mutant: the list element stays behind.
RemoveItem_KeepElement(h) ==
    /\ handleServices' = handleServices \ {h}
    /\ services' = services \ {h}
    /\ lastRecvHbTime' = [lastRecvHbTime EXCEPT ![h] = 0]
    /\ UNCHANGED svclruList

\* RemoveItem, with handleServices.
RemoveItem(h) ==
    /\ handleServices' = handleServices \ {h}
    /\ services' = services \ {h}
    /\ svclruList' = RemoveFirst(svclruList, h)
    /\ lastRecvHbTime' = [lastRecvHbTime EXCEPT ![h] = 0]

\* Mutant: the service does not leave its election.
UnRegisterService_StayCandidate(h, kickOff) ==
    /\ h \in handleServices
    /\ out' = BroadcastOnlineToOthers(h, FALSE)
    /\ UNCHANGED electVars
    /\ RemoveItem(h)

\* Server.UnRegisterService(h, kickOff) of a registered handle: it leaves its
\* election first, while it still counts as registered.
UnRegisterService(h, kickOff) ==
    /\ h \in handleServices
    /\ GiveupElection(h,
          Then(BroadcastOnlineToOthers(h, FALSE),
               IF kickOff THEN SendTo({ServerOf[h]}, KickOff(h)) ELSE Silent))
    /\ RemoveItem(h)

UnRegister(h) ==
    /\ Idle
    /\ UnRegisterService(h, FALSE)
    /\ UNCHANGED <<now, sessVars, apps, routerVars, tickVars>>

\* The messages that end in an error and send nothing: RegisterApp without a
\* session, any other request about a handle that is not registered, and
\* OnRegisterNameRouter without the app or for a router that is there.
RejectApp(s) ==
    /\ Idle
    /\ sessions[s] = NoConn
    /\ out' = Silent
    /\ UNCHANGED <<now, sessVars, regVars, electVars, routerVars, tickVars>>

RejectHandle(h) ==
    /\ Idle
    /\ h \notin handleServices
    /\ out' = Silent
    /\ UNCHANGED <<now, sessVars, regVars, electVars, routerVars, tickVars>>

RejectRouter(s, n) ==
    /\ Idle
    /\ apps => routers[n][s] # "Absent"
    /\ out' = Silent
    /\ UNCHANGED <<now, sessVars, regVars, electVars, routerVars, tickVars>>

\* OnRegisterNameRouter: AddNameRouter and NameRouter.AddItem.
OnRegisterNameRouter(s, n) ==
    /\ Idle
    /\ apps
    /\ routers[n][s] = "Absent"
    /\ IF onlineSvcHandle[n] # NoHandle
       THEN /\ routers' = [routers EXCEPT ![n][s] = "Preparing"]
            /\ out' = SendTo({s}, RouterUpdate(n, "Prepare"))
       ELSE /\ routers' = [routers EXCEPT ![n][s] = "Ready"]
            /\ out' = Silent
    /\ UNCHANGED <<now, sessVars, regVars, electVars, confirmDeadline, onlineSvcHandle,
                   tickVars>>

-----------------------------------------------------------------------------
(* The tick: checkServiceAlive, then checkConfirmExpired.                  *)

\* Mutant: a second too early.
IsExpired_Early(h) == lastRecvHbTime[h] + ServiceKeepaliveTime <= now + 1

IsExpired(h) == lastRecvHbTime[h] + ServiceKeepaliveTime <= now

\* Mutant: the limit is one too small.
IsScanEnd_Short(k) ==
    /\ \A i \in 1 .. k : IsExpired(svclruList[i])
    /\ k < CheckAliveMaxNumPerTickPerApp
    /\ k < Len(svclruList) /\ k < CheckAliveMaxNumPerTickPerApp - 1
          => ~IsExpired(svclruList[k + 1])

\* How far the scan of the list gets: it stops at the end, at the limit for
\* one tick, and at the first service that is still alive.
IsScanEnd(k) ==
    /\ \A i \in 1 .. k : IsExpired(svclruList[i])
    /\ k <= CheckAliveMaxNumPerTickPerApp
    /\ k < Len(svclruList) /\ k < CheckAliveMaxNumPerTickPerApp
          => ~IsExpired(svclruList[k + 1])

OnTick ==
    /\ Idle
    /\ apps
    /\ \E k \in 0 .. Len(svclruList) :
          IsScanEnd(k) /\ expired' = SubSeq(svclruList, 1, k)
    /\ unchecked' = Names
    /\ out' = Silent
    /\ UNCHANGED <<now, sessVars, regVars, electVars, routerVars>>

KickExpired ==
    /\ expired # << >>
    /\ UnRegisterService(Head(expired), TRUE)
    /\ expired' = Tail(expired)
    /\ UNCHANGED <<now, sessVars, apps, routerVars, unchecked>>

\* CommitConfirm: the outcome goes to the routers and to the service, if it is
\* still registered, and the NameRouter is free for the next service.  A
\* commit itself is not sent to the routers: the service's online notice is.
CommitConfirm(n, cmd, result) ==
    LET h == onlineSvcHandle[n] IN
    /\ out' = Then(IF cmd = "Commit" THEN Silent ELSE BroadcastCmd(n, cmd),
                   IF h \in services THEN NotifyConfirmResult(h, result)
                                     ELSE Silent)
    /\ confirmDeadline' = [confirmDeadline EXCEPT ![n] = 0]
    /\ onlineSvcHandle' = [onlineSvcHandle EXCEPT ![n] = NoHandle]
    /\ routers' = AllRouters(n, "Ready")

\* Mutant: only a tick in the very second of the deadline ends it.
ConfirmDue_Exact(n) == onlineSvcHandle[n] # NoHandle /\ confirmDeadline[n] = now

ConfirmDue(n) == onlineSvcHandle[n] # NoHandle /\ confirmDeadline[n] <= now

CheckExpired(n) ==
    /\ expired = << >>
    /\ n \in unchecked
    /\ unchecked' = unchecked \ {n}
    /\ IF ConfirmDue(n)
       THEN CommitConfirm(n, "PrepareAbort", "ERR_ROUTER_PREPARE_TIMEOUT")
       ELSE out' = Silent /\ UNCHANGED routerVars
    /\ UNCHANGED <<now, sessVars, regVars, electVars, expired>>

-----------------------------------------------------------------------------
Init ==
    /\ now = 0
    /\ conns = [c \in Conns |-> NoServer]
    /\ closed = {}
    /\ sessions = [s \in Servers |-> NoConn]
    /\ overlapped = {}
    /\ apps = FALSE
    /\ handleServices = {}
    /\ services = {}
    /\ svclruList = << >>
    /\ lastRecvHbTime = [h \in Handles |-> 0]
    /\ electionCandidates = [n \in Names |-> {}]
    /\ electionLeaders = [n \in Names |-> NoHandle]
    /\ routers = [n \in Names |-> [s \in Servers |-> "Absent"]]
    /\ confirmDeadline = [n \in Names |-> 0]
    /\ onlineSvcHandle = [n \in Names |-> NoHandle]
    /\ expired = << >>
    /\ unchecked = {}
    /\ out = Silent

\* What Server.onMessage dispatches on.
Handle ==
    \/ \E s \in Servers : RegisterApp(s) \/ RejectApp(s)
    \/ \E h \in Handles :
          \/ RegisterServiceAgain(h)
          \/ RegisterServiceNoApp(h)
          \/ \E isStateful \in BOOLEAN : RegisterService(h, isStateful)
          \/ UnRegister(h)
          \/ OnServiceHeartbeat(h)
          \/ OnServiceSyncAttr(h)
          \/ OnServiceRunForElection(h)
          \/ OnServiceGiveupElection(h)
          \/ RejectHandle(h)
    \/ \E s \in Servers, n \in Names : OnRegisterNameRouter(s, n) \/ RejectRouter(s, n)
    \/ OnTick

Tick == KickExpired \/ \E n \in Names : CheckExpired(n)

Receive ==
    \/ \E c \in Conns, s \in Servers : OnNotifiedAgentInfo(c, s)
    \/ \E c \in Conns : OnClosed(c) \/ ReaderEnds(c)

Next == Clock \/ Receive \/ Handle \/ Tick

Spec == Init /\ [][Next]_vars
\* The Serve loop goes on taking messages, the ticker keeps queueing ticks
\* (a blocking send, server.go:125) and time passes.
Fairness ==
    /\ WF_vars(Clock) /\ WF_vars(OnTick) /\ WF_vars(KickExpired)
    /\ \A n \in Names : WF_vars(CheckExpired(n))

-----------------------------------------------------------------------------
(* Properties.                                                             *)

RouterStates == {"Absent", "Preparing", "Ready"}

\* Every variable of the name server holds a value of its Go type.
TypeOK ==
    /\ now \in 0 .. MaxTime
    /\ conns \in [Conns -> Servers \cup {NoServer}]
    /\ closed \in SUBSET Conns
    /\ sessions \in [Servers -> Conns \cup {NoConn}]
    /\ overlapped \in SUBSET Conns
    /\ apps \in BOOLEAN
    /\ handleServices \in SUBSET Handles
    /\ services \in SUBSET Handles
    /\ svclruList \in Seq(Handles)
    /\ lastRecvHbTime \in [Handles -> 0 .. MaxTime]
    /\ electionCandidates \in [Names -> SUBSET Handles]
    /\ electionLeaders \in [Names -> Handles \cup {NoHandle}]
    /\ routers \in [Names -> [Servers -> RouterStates]]
    /\ confirmDeadline \in [Names -> 0 .. MaxTime]
    /\ onlineSvcHandle \in [Names -> Handles \cup {NoHandle}]
    /\ expired \in Seq(Handles)
    /\ unchecked \in SUBSET Names
    /\ out \in [Servers -> Seq(Messages)]

\* Server.handleServices, AppInfo.services and the LRU list hold the same
\* services, each once: the handlers look a handle up in the first and then
\* dereference what the second returns without a check (app.go:252, 309), and
\* the tick finds the services to kick off in the third only.
RegistryConsistent ==
    /\ handleServices = services
    /\ {svclruList[i] : i \in 1 .. Len(svclruList)} = services
    /\ \A i, j \in 1 .. Len(svclruList) : svclruList[i] = svclruList[j] => i = j
    /\ services # {} => apps

\* A name has a leader exactly when it has candidates, the leader is one of
\* them and all are registered services of that name.  The branch "candidates
\* but no leader??" (app.go:318) is never taken and a dead service never leads.
ElectionConsistent ==
    \A n \in Names :
        /\ electionCandidates[n] \subseteq {h \in services : NameOf[h] = n}
        /\ electionCandidates[n] # {} => electionLeaders[n] \in electionCandidates[n]
        /\ electionCandidates[n] = {} => electionLeaders[n] = NoHandle

\* The LRU list is ordered by the last heartbeat, oldest in front, which is
\* what lets checkServiceAlive stop at the first service that is alive.
LruOrdered ==
    \A i, j \in 1 .. Len(svclruList) :
        i <= j => lastRecvHbTime[svclruList[i]] <= lastRecvHbTime[svclruList[j]]

\* A router is being prepared only while a service of its name waits for
\* confirmation ("should not happen", router.go:68); then there are routers, all
\* of them are being prepared and the deadline lies ahead or is checked next.
ConfirmConsistent ==
    \A n \in Names :
        IF onlineSvcHandle[n] = NoHandle
        THEN /\ \A s \in Servers : routers[n][s] # "Preparing"
             /\ confirmDeadline[n] = 0
        ELSE /\ NameOf[onlineSvcHandle[n]] = n
             /\ HasRouters(n)
             /\ \A s \in Servers : routers[n][s] # "Ready"
             /\ confirmDeadline[n] <= now + ConfirmExpiredSecond
             /\ confirmDeadline[n] >= ConfirmExpiredSecond

\* Silent for ServiceKeepaliveTime, stated apart from the scan's own test.
Overdue(h) == now - lastRecvHbTime[h] >= ServiceKeepaliveTime

\* The handles the tick has collected are registered, silent for long enough and
\* distinct when their turn comes: no service is kicked off too early or twice.
KickTargetsExpired ==
    /\ \A i \in 1 .. Len(expired) : expired[i] \in services /\ Overdue(expired[i])
    /\ \A i, j \in 1 .. Len(expired) : expired[i] = expired[j] => i = j

\* An agent whose connection is open can be notified: its session leads to that
\* connection, also after the reader of an earlier one has added its session
\* again behind the writer's Close and left it leading to a dead connection.
\* Excepted are connections of one address that overlapped: there the late close
\* of the old one takes the session of the new (receiver.go:74).
SessionHeld ==
    \A c \in Conns :
        conns[c] # NoServer /\ c \notin closed /\ c \notin overlapped
        => sessions[conns[c]] = c

\* The tick's scan misses no silent service: when it stops before the limit
\* of one tick, every service that is due is among those collected.
ScanComplete ==
    [][unchecked = {} /\ unchecked' # {}
         => \/ Len(expired') = CheckAliveMaxNumPerTickPerApp
            \/ \A h \in services :
                  Overdue(h) => \E i \in 1 .. Len(expired') : expired'[i] = h]_vars

\* A leader is never deposed: it stops leading only by leaving the election or
\* the registry, and its successor is a candidate with the latest heartbeat.
LeaderStable ==
    [][\A n \in Names :
         electionLeaders[n] # NoHandle /\ electionLeaders'[n] # electionLeaders[n]
         => /\ electionLeaders[n] \notin electionCandidates'[n]
            /\ \A g \in electionCandidates'[n] :
                  lastRecvHbTime[g] <= lastRecvHbTime[electionLeaders'[n]]]_vars

\* A service that is silent for ServiceKeepaliveTime is kicked off or heard of
\* again, with any limit on the number of services a tick handles.
ExpiredServiceIsRemoved ==
    \A h \in Handles :
        (h \in services /\ Overdue(h)) ~> ~(h \in services /\ Overdue(h))

\* The confirmation of a stateful service ends, so that the next service of
\* that name need not queue up for ever (ERR_SERVICE_REGISTER_LINEUP).
ConfirmEnds ==
    \A n \in Names : onlineSvcHandle[n] # NoHandle ~> onlineSvcHandle[n] = NoHandle

\* "An instance goes online only after every NameRouter has confirmed it in two
\* stages" (comment of IsStateful, server.go:69): no server is told that a
\* service is online while its confirmation is still under way.
OnlineOnlyAfterConfirm ==
    \A s \in Servers : \A i \in 1 .. Len(out[s]) :
        out[s][i].cmd = "NOTIFY_SERVICES_ONLINE"
        => \A n \in Names : onlineSvcHandle[n] \notin out[s][i].handles
=============================================================================
