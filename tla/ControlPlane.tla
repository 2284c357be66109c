---------------------------- MODULE ControlPlane ----------------------------
(***************************************************************************)
(* The name server together with the control plane of the agents: the      *)
(* registration of services (agent/server.go, agent/sidecar.go) and the    *)
(* agents' view of the elections (agent/election.go), over one FIFO        *)
(* connection per agent.                                                   *)
(*                                                                         *)
(* up[s] is what agent s has sent and the name server has not handled yet: *)
(* the connection and the name server's msg_queue.  down[s] is what agent  *)
(* s has not handled yet: the connection and its eventQueue.  Agent s runs *)
(* one event loop (Serve), and any number of API goroutines beside it.     *)
(* Connections stay up; the name server may drop a request (its msg_queue  *)
(* is full), agents lose no event.  Services are stateless.                *)
(***************************************************************************)
EXTENDS NameServer

CONSTANTS
    MaxQueue,       \* bound: agents call while fewer messages are under way
    QueueFills,     \* whether msg_queue can be full when a request arrives
    RepliesLate,    \* whether a reply can take more than 3 seconds
    EarlyUnRegister, \* whether UnRegister is called before Register returns
    Tickers         \* whether the tickers of agents and name server run

ASSUME CPConstantsType ==
    /\ MaxQueue \in Nat \ {0}
    /\ {QueueFills, RepliesLate, EarlyUnRegister, Tickers} \subseteq BOOLEAN

VARIABLES
    started,        \* agents whose sidecar is initialised
    svc,            \* progress of Register / presence in handleServices
    waiters,        \* Register calls waiting for a service that is gone
    removing,       \* UnRegister calls between Stop and the deletes
    leader,         \* skymeshElection.leader, per agent and name
    candidates,     \* handles in skymeshElection.candidates of their agent
    up, down

agentVars == <<started, svc, waiters, removing, leader, candidates>>
allVars == <<vars, agentVars, up, down>>

\* "sent": the request is sent, the service is not in the maps yet;
\* "waiting": in the maps, no reply yet; "failed": Register has timed out or got
\* an error; "up": Register has returned the service.
SvcStates == {"none", "sent", "waiting", "failed", "up"}
InMaps(h) == svc[h] \in {"waiting", "failed", "up"}

\* Who runs UnRegister: the application, Register, or the event loop.
Callers == {"api", "register", "serve"}

Request(c, h) == [cmd |-> c, handle |-> h]
Requests ==
    [cmd : {"REGISTER_APP"}]
    \cup [cmd : {"REGISTER_SERVICE", "UNREGISTER_SERVICE", "HEARTBEAT",
                 "RUN_FOR_LEADER", "GIVE_UP_LEADER"}, handle : Handles]

SendUp(s, m) == up' = [up EXCEPT ![s] = Append(@, m)]

\* What the name server sends reaches the event queues in order.
Deliver == down' = [s \in Servers |-> down[s] \o out'[s]]

\* A step of an agent: the name server stands still.
AgentStep == UNCHANGED vars

-----------------------------------------------------------------------------
(* API calls on agent ServerOf[h].                                         *)

UnderWay == MapThenSumSet(LAMBDA s : Len(up[s]) + Len(down[s]), Servers)

CallsAllowed(s) == s \in started /\ UnderWay < MaxQueue

\* Sidecar.Init: the connection is up, AGENT_INFO and REQ_REGISTER_APP go out.
Start(s) ==
    /\ s \notin started
    /\ \E c \in Conns : Unused(c) /\ OnNotifiedAgentInfo(c, s)
    /\ started' = started \cup {s}
    /\ SendUp(s, [cmd |-> "REGISTER_APP"])
    /\ UNCHANGED <<svc, waiters, removing, leader, candidates, down>>

\* Register, up to RegisterServiceToNameServer.  Bound: one Register of a url
\* is before the insertion at a time.
RegisterSend(h) ==
    /\ CallsAllowed(ServerOf[h])
    /\ svc[h] = "none"
    /\ svc' = [svc EXCEPT ![h] = "sent"]
    /\ SendUp(ServerOf[h], Request("REGISTER_SERVICE", h))
    /\ AgentStep
    /\ UNCHANGED <<started, waiters, removing, leader, candidates, down>>

\* Register: the service enters the maps and the call waits for the reply.
RegisterInsert(h) ==
    /\ svc[h] = "sent"
    /\ svc' = [svc EXCEPT ![h] = "waiting"]
    /\ AgentStep
    /\ UNCHANGED <<started, waiters, removing, leader, candidates, up, down>>

\* UnRegister up to svc.Stop.  Bound: a caller is in one UnRegister(h) at a time.
UnRegisterStop(h, caller) ==
    /\ caller \notin removing[h]
    /\ removing' = [removing EXCEPT ![h] = @ \cup {caller}]
    /\ SendUp(ServerOf[h], Request("UNREGISTER_SERVICE", h))

ReplyUnderWay(h) ==
    LET s == ServerOf[h] IN
    \/ Contains(up[s], Request("REGISTER_SERVICE", h))
    \/ \E r \in Results : Contains(down[s], RegisterServiceRsp(h, r))

\* Register gives up, after 3 seconds or on an error reply: it unregisters what
\* the maps hold under its url, if anything.
RegisterFail(h) ==
    /\ \/ /\ \/ svc[h] = "waiting" /\ (RepliesLate \/ ~ReplyUnderWay(h))
             \/ svc[h] = "failed"
          /\ svc' = [svc EXCEPT ![h] = "failed"]
          /\ UNCHANGED waiters
       \/ /\ h \in waiters
          /\ waiters' = waiters \ {h}
          /\ UNCHANGED svc
    /\ IF InMaps(h) THEN UnRegisterStop(h, "register") ELSE UNCHANGED <<removing, up>>
    /\ AgentStep
    /\ UNCHANGED <<started, leader, candidates, down>>

UnRegisterCall(h) ==
    /\ CallsAllowed(ServerOf[h])
    /\ InMaps(h)
    /\ svc[h] = "up" \/ EarlyUnRegister
    /\ UnRegisterStop(h, "api")
    /\ AgentStep
    /\ UNCHANGED <<started, svc, waiters, leader, candidates, down>>

\* UnRegister, the deletes: by url and handle, whichever service is there now.
UnRegisterDelete(h, caller) ==
    /\ caller \in removing[h]
    /\ removing' = [removing EXCEPT ![h] = @ \ {caller}]
    /\ svc' = [svc EXCEPT ![h] = IF InMaps(h) THEN "none" ELSE @]
    /\ waiters' = IF svc[h] = "waiting" THEN waiters \cup {h} ELSE waiters
    /\ AgentStep
    /\ UNCHANGED <<started, leader, candidates, up, down>>

\* keepalive sends a heartbeat for every service in the maps; here for one.
Keepalive(h) ==
    /\ Tickers
    /\ CallsAllowed(ServerOf[h])
    /\ InMaps(h)
    /\ SendUp(ServerOf[h], Request("HEARTBEAT", h))
    /\ AgentStep
    /\ UNCHANGED <<agentVars, down>>

\* runForElection: refused while the service counts as a candidate here.  The
\* caller's service may be one that is not registered any more, or not yet.
RunForElection(h) ==
    /\ CallsAllowed(ServerOf[h])
    /\ h \notin candidates
    /\ candidates' = candidates \cup {h}
    /\ SendUp(ServerOf[h], Request("RUN_FOR_LEADER", h))
    /\ AgentStep
    /\ UNCHANGED <<started, svc, waiters, removing, leader, down>>

GiveUpElection(h) ==
    /\ CallsAllowed(ServerOf[h])
    /\ h \in candidates
    /\ SendUp(ServerOf[h], Request("GIVE_UP_LEADER", h))
    /\ AgentStep
    /\ UNCHANGED <<agentVars, down>>

-----------------------------------------------------------------------------
(* The name server handles the next message of agent s.                    *)

HandleRequest(s) ==
    LET m == Head(up[s]) IN
    /\ up[s] # << >>
    /\ up' = [up EXCEPT ![s] = Tail(@)]
    /\ \/ m.cmd = "REGISTER_APP" /\ RegisterApp(s)
       \/ /\ m.cmd = "REGISTER_SERVICE"
          /\ \/ RegisterServiceAgain(m.handle)
             \/ RegisterServiceNoApp(m.handle)
             \/ RegisterService(m.handle, FALSE)
       \/ /\ m.cmd = "UNREGISTER_SERVICE"
          /\ UnRegister(m.handle) \/ RejectHandle(m.handle)
       \/ /\ m.cmd = "HEARTBEAT"
          /\ OnServiceHeartbeat(m.handle) \/ RejectHandle(m.handle)
       \/ /\ m.cmd = "RUN_FOR_LEADER"
          /\ OnServiceRunForElection(m.handle) \/ RejectHandle(m.handle)
       \/ /\ m.cmd = "GIVE_UP_LEADER"
          /\ OnServiceGiveupElection(m.handle) \/ RejectHandle(m.handle)
    /\ Deliver
    /\ UNCHANGED agentVars

\* The reader of the connection finds msg_queue full and drops the request.
DropRequest(s) ==
    /\ QueueFills
    /\ up[s] # << >>
    /\ up' = [up EXCEPT ![s] = Tail(@)]
    /\ AgentStep
    /\ UNCHANGED <<agentVars, down>>

NameServerTick ==
    /\ Tickers
    /\ Clock \/ OnTick \/ Tick
    /\ Deliver
    /\ UNCHANGED <<agentVars, up>>

-----------------------------------------------------------------------------
(* The event loop of agent s handles the next event.                       *)

\* onRegisterApp: the leaders of all names that have one.
OnRegisterApp(s, m) ==
    /\ leader' = [leader EXCEPT ![s] =
          [n \in Names |->
             IF \E h \in m.leaders : NameOf[h] = n
             THEN CHOOSE h \in m.leaders : NameOf[h] = n ELSE @[n]]]
    /\ UNCHANGED <<started, svc, waiters, removing, candidates, up>>

\* RegServiceEvent: a handle that is not in the maps is only logged.
\* A service that is being stopped may drop the reply with the rest of its queue.
OnRegisterRsp(s, m) ==
    /\ \/ svc' = [svc EXCEPT ![m.handle] =
                     IF @ = "waiting" THEN (IF m.result = "OK" THEN "up" ELSE "failed")
                                      ELSE @]
       \/ removing[m.handle] # {} /\ UNCHANGED svc
    /\ UNCHANGED <<started, waiters, removing, leader, candidates, up>>

\* Mutants: the new leader leaves the candidates instead of the old one; a new
\* leader is taken for a repeated notice.
OnRunForElectionResult_DropNew(s, m) ==
    LET n == NameOf[m.handle] IN
    /\ IF m.result = "OK"
       THEN /\ leader' = [leader EXCEPT ![s][n] = m.handle]
            /\ candidates' = candidates \ {m.handle}
       ELSE UNCHANGED <<leader, candidates>>
    /\ UNCHANGED <<started, svc, waiters, removing, up>>

OnRunForElectionResult_FirstOnly(s, m) ==
    LET n == NameOf[m.handle] IN
    /\ leader' = IF m.result = "OK" /\ leader[s][n] = NoHandle
                 THEN [leader EXCEPT ![s][n] = m.handle] ELSE leader
    /\ UNCHANGED <<started, svc, waiters, removing, candidates, up>>

\* onRunForElectionResultNotify: the old leader, if another, is no candidate
\* any more.
OnRunForElectionResult(s, m) ==
    LET n == NameOf[m.handle]
        old == leader[s][n]
    IN
    /\ IF m.result = "OK"
       THEN /\ leader' = [leader EXCEPT ![s][n] = m.handle]
            /\ candidates' = IF old # m.handle /\ old # NoHandle /\ ServerOf[old] = s
                             THEN candidates \ {old} ELSE candidates
       ELSE UNCHANGED <<leader, candidates>>
    /\ UNCHANGED <<started, svc, waiters, removing, up>>

\* Mutant: the leader is reset for a candidate that quits only.
OnGiveUpElectionResult_KeepLeader(s, m) ==
    LET n == NameOf[m.handle] IN
    /\ candidates' = IF ServerOf[m.handle] = s THEN candidates \ {m.handle} ELSE candidates
    /\ leader' = IF m.result = "QuitCandidate" /\ leader[s][n] = m.handle
                 THEN [leader EXCEPT ![s][n] = NoHandle] ELSE leader
    /\ UNCHANGED <<started, svc, waiters, removing, up>>

\* onGiveUpElectionResultNotify.
OnGiveUpElectionResult(s, m) ==
    LET n == NameOf[m.handle] IN
    /\ candidates' = IF ServerOf[m.handle] = s THEN candidates \ {m.handle} ELSE candidates
    /\ leader' = IF m.result = "OK" /\ leader[s][n] = m.handle
                 THEN [leader EXCEPT ![s][n] = NoHandle] ELSE leader
    /\ UNCHANGED <<started, svc, waiters, removing, up>>

\* Mutant: the kicked off service stays.
OnKickOff_Ignore(s, m) == UNCHANGED <<agentVars, up>>

\* KickOffEvent: UnRegister on the event loop, which waits for it.
OnKickOff(s, m) ==
    /\ IF InMaps(m.handle) THEN UnRegisterStop(m.handle, "serve")
                           ELSE UNCHANGED <<removing, up>>
    /\ UNCHANGED <<started, svc, waiters, leader, candidates>>

\* OnlineEvent, SyncAttrEvent and RouterUpdateEvent do not touch this state.
OtherCmds == {"NOTIFY_SERVICE_ONLINE", "NOTIFY_SERVICES_ONLINE",
              "NOTIFY_SERVICE_SYNCATTR", "REQ_AGENT_ROUTER_UPDATE"}

HandleEvent(s) ==
    LET m == Head(down[s]) IN
    /\ down[s] # << >>
    /\ \A h \in Handles : ServerOf[h] = s => "serve" \notin removing[h]
    /\ down' = [down EXCEPT ![s] = Tail(@)]
    /\ \/ m.cmd = "RSP_REGISTER_APP" /\ OnRegisterApp(s, m)
       \/ m.cmd = "RSP_REGISTER_SERVICE" /\ OnRegisterRsp(s, m)
       \/ /\ m.cmd = "NOTIFY_SERVICE_ELECTION_RESULT"
          /\ \/ m.event = "RunForLeader" /\ OnRunForElectionResult(s, m)
             \/ m.event = "GiveUpLeader" /\ OnGiveUpElectionResult(s, m)
       \/ m.cmd = "NOTIFY_SERVICE_KICK_OFF" /\ OnKickOff(s, m)
       \/ m.cmd \in OtherCmds /\ UNCHANGED <<agentVars, up>>
    /\ AgentStep

-----------------------------------------------------------------------------
CPInit ==
    /\ Init
    /\ started = {}
    /\ svc = [h \in Handles |-> "none"]
    /\ waiters = {}
    /\ removing = [h \in Handles |-> {}]
    /\ leader = [s \in Servers |-> [n \in Names |-> NoHandle]]
    /\ candidates = {}
    /\ up = [s \in Servers |-> << >>]
    /\ down = [s \in Servers |-> << >>]

ApiCall ==
    \/ \E s \in Servers : Start(s)
    \/ \E h \in Handles :
          \/ RegisterSend(h)
          \/ RegisterInsert(h)
          \/ RegisterFail(h)
          \/ UnRegisterCall(h)
          \/ \E caller \in Callers : UnRegisterDelete(h, caller)
          \/ Keepalive(h)
          \/ RunForElection(h)
          \/ GiveUpElection(h)

CPNext ==
    \/ ApiCall
    \/ \E s \in Servers : HandleRequest(s) \/ DropRequest(s) \/ HandleEvent(s)
    \/ NameServerTick

CPSpec == CPInit /\ [][CPNext]_allVars

-----------------------------------------------------------------------------
(* Properties.                                                             *)

AgentTypeOK ==
    /\ started \in SUBSET Servers
    /\ svc \in [Handles -> SvcStates]
    /\ waiters \in SUBSET Handles
    /\ removing \in [Handles -> SUBSET Callers]
    /\ leader \in [Servers -> [Names -> Handles \cup {NoHandle}]]
    /\ candidates \in SUBSET Handles
    /\ up \in [Servers -> Seq(Requests)]
    /\ down \in [Servers -> Seq(Messages)]

\* The agents' variables and the name server's hold values of their Go types.
CPTypeOK == TypeOK /\ AgentTypeOK

\* Nothing of agent s is under way.
Quiet(s) ==
    /\ Idle
    /\ up[s] = << >>
    /\ down[s] = << >>
    /\ \A h \in Handles : ServerOf[h] = s => removing[h] = {} /\ svc[h] # "sent"

\* An agent holds one of its own services for the leader (IsLeader) only while
\* it is, or the notice that ends it is on its way: there are never two leaders
\* for good.
NoStaleSelfLeader ==
    \A h \in Handles :
        LET s == ServerOf[h]
            n == NameOf[h]
            ends(m) == /\ m.cmd = "NOTIFY_SERVICE_ELECTION_RESULT"
                       /\ m.result = "OK"
                       /\ NameOf[m.handle] = n
                       /\ (m.handle = h) = (m.event = "GiveUpLeader")
        IN leader[s][n] = h /\ electionLeaders[n] # h
           => \E i \in 1 .. Len(down[s]) : ends(down[s][i])

\* The agent of the leader knows that it leads once it has handled its events.
LeaderKnows ==
    \A n \in Names :
        LET h == electionLeaders[n] IN
        h # NoHandle /\ Quiet(ServerOf[h]) => leader[ServerOf[h]][n] = h

\* A service that is a candidate at the name server is one at its agent, once
\* nothing is under way: otherwise it could never give up the election.
CandidatesKnown ==
    \A h \in Handles :
        Quiet(ServerOf[h]) /\ h \in electionCandidates[NameOf[h]] => h \in candidates

\* A service that Register has returned is registered at the name server, once
\* nothing is under way.
UpIsRegistered ==
    \A h \in Handles : Quiet(ServerOf[h]) /\ svc[h] = "up" => h \in services
=============================================================================
