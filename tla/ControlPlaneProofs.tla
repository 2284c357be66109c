------------------------- MODULE ControlPlaneProofs -------------------------
(***************************************************************************)
(* Proofs about NameServer and about ControlPlane, which composes it with  *)
(* the agents, for every number of servers, connections, names, services   *)
(* and agents and every value of the times and limits.                     *)
(*                                                                         *)
(* The first part is about the name server alone.  The second is about the *)
(* composed system:                                                        *)
(*   - whatever the agents do, its name server behaves as NameServer       *)
(*     specifies, so every theorem of the first part holds in it too;      *)
(*   - what agents believe about leaders and candidates follows the name   *)
(*     server (by what the events under way will do to an agent);          *)
(*   - what Register has returned is registered (by what requests and      *)
(*     events about a service are under way).                              *)
(***************************************************************************)
EXTENDS ControlPlane, SequenceTheorems, TLAPS

-----------------------------------------------------------------------------
(* The LRU list.                                                           *)

\* list.Remove of an element that is in a list of distinct elements takes out
\* that element and keeps the order of the others.
LEMMA RemoveFirstProperties ==
    ASSUME NEW S, NEW l \in Seq(S), NEW k \in 1 .. Len(l),
           \A i, j \in 1 .. Len(l) : l[i] = l[j] => i = j
    PROVE  /\ RemoveFirst(l, l[k]) \in Seq(S)
           /\ Len(RemoveFirst(l, l[k])) = Len(l) - 1
           /\ \A j \in 1 .. Len(l) - 1 :
                 RemoveFirst(l, l[k])[j] = IF j < k THEN l[j] ELSE l[j + 1]
<1> DEFINE I == {i \in 1 .. Len(l) : l[i] = l[k]}
<1>1. I = {k}
  OBVIOUS
<1>2. Min(I) = k
  BY <1>1 DEF Min
<1>3. RemoveFirst(l, l[k]) = RemoveAt(l, k)
  BY <1>1, <1>2 DEF RemoveFirst, SelectInSeq
<1> DEFINE a == SubSeq(l, 1, k - 1)
           b == SubSeq(l, k + 1, Len(l))
<1>4. a \in Seq(S) /\ Len(a) = k - 1 /\ \A i \in 1 .. k - 1 : a[i] = l[i]
  BY SubSeqProperties
<1>5. b \in Seq(S) /\ Len(b) = Len(l) - k /\ \A i \in 1 .. Len(l) - k : b[i] = l[k + i]
  BY SubSeqProperties
<1> HIDE DEF a, b
<1>6. a \o b \in Seq(S) /\ Len(a \o b) = Len(l) - 1
  BY <1>4, <1>5, ConcatProperties
<1>7. ASSUME NEW j \in 1 .. Len(l) - 1
      PROVE  (a \o b)[j] = IF j < k THEN l[j] ELSE l[j + 1]
  BY <1>4, <1>5, ConcatProperties
<1>8. QED
  BY <1>3, <1>6, <1>7 DEF RemoveAt, a, b

Distinct(l) == \A i, j \in 1 .. Len(l) : l[i] = l[j] => i = j
Elements(l) == {l[i] : i \in 1 .. Len(l)}

\* b holds its elements in the order in which a holds them.
SubOrder(b, a) ==
    \A i, j \in 1 .. Len(b) :
        i <= j => \E p, q \in 1 .. Len(a) : p <= q /\ b[i] = a[p] /\ b[j] = a[q]

\* The same in terms of what the list holds.
LEMMA RemoveFirstElements ==
    ASSUME NEW S, NEW l \in Seq(S), Distinct(l), NEW h \in Elements(l)
    PROVE  /\ RemoveFirst(l, h) \in Seq(S)
           /\ Elements(RemoveFirst(l, h)) = Elements(l) \ {h}
           /\ Distinct(RemoveFirst(l, h))
           /\ SubOrder(RemoveFirst(l, h), l)
<1>1. PICK k \in 1 .. Len(l) : l[k] = h
  BY DEF Elements
<1> DEFINE m == RemoveFirst(l, l[k])
<1>2. /\ m \in Seq(S)
      /\ Len(m) = Len(l) - 1
      /\ \A j \in 1 .. Len(l) - 1 : m[j] = IF j < k THEN l[j] ELSE l[j + 1]
  BY RemoveFirstProperties DEF Distinct
<1> HIDE DEF m
<1>3. Elements(m) \subseteq Elements(l) \ {l[k]}
  <2> SUFFICES ASSUME NEW j \in 1 .. Len(m) PROVE m[j] \in Elements(l) \ {l[k]}
    BY DEF Elements
  <2> DEFINE p == IF j < k THEN j ELSE j + 1
  <2>1. p \in 1 .. Len(l) /\ p # k /\ m[j] = l[p]
    BY <1>2
  <2> HIDE DEF p
  <2>2. QED
    BY <2>1 DEF Elements, Distinct
<1>4. ASSUME NEW p \in 1 .. Len(l), l[p] # l[k]
      PROVE  \E j \in 1 .. Len(m) : m[j] = l[p]
  <2>1. CASE p < k
    BY <1>2, <2>1
  <2>2. CASE p > k
    <3>1. p - 1 \in 1 .. Len(m) /\ m[p - 1] = l[p]
      BY <1>2, <2>2
    <3>2. QED
      BY <3>1
  <2>3. QED
    BY <1>4, <2>1, <2>2
<1>5. Elements(m) = Elements(l) \ {l[k]}
  BY <1>3, <1>4 DEF Elements
<1>6. Distinct(m)
  <2> SUFFICES ASSUME NEW i \in 1 .. Len(m), NEW j \in 1 .. Len(m), m[i] = m[j]
               PROVE  i = j
    BY DEF Distinct
  <2> DEFINE at(n) == IF n < k THEN n ELSE n + 1
  <2>1. at(i) \in 1 .. Len(l) /\ m[i] = l[at(i)]
    BY <1>2
  <2>2. at(j) \in 1 .. Len(l) /\ m[j] = l[at(j)]
    BY <1>2
  <2>3. at(i) = at(j) => i = j
    OBVIOUS
  <2> HIDE DEF at
  <2>4. QED
    BY <2>1, <2>2, <2>3 DEF Distinct
<1>7. SubOrder(m, l)
  <2> SUFFICES ASSUME NEW i \in 1 .. Len(m), NEW j \in 1 .. Len(m), i <= j
               PROVE  \E p, q \in 1 .. Len(l) : p <= q /\ m[i] = l[p] /\ m[j] = l[q]
    BY DEF SubOrder
  <2> DEFINE p == IF i < k THEN i ELSE i + 1
             q == IF j < k THEN j ELSE j + 1
  <2>1. p \in 1 .. Len(l) /\ q \in 1 .. Len(l) /\ p <= q /\ m[i] = l[p] /\ m[j] = l[q]
    BY <1>2
  <2>2. QED
    BY <2>1
<1>8. QED
  BY <1>1, <1>2, <1>5, <1>6, <1>7 DEF m

-----------------------------------------------------------------------------
(* What the handlers send.                                                 *)

Outputs == [Servers -> Seq(Messages)]

\* Every constructor yields a message of the protocol.
LEMMA MessageTypes ==
    /\ \A hs \in SUBSET Handles :
          RegisterAppRsp(hs) \in Messages /\ OthersOnline(hs) \in Messages
    /\ \A h \in Handles :
          /\ \A r \in Results : RegisterServiceRsp(h, r) \in Messages
          /\ \A b \in BOOLEAN : ServiceOnline(h, b) \in Messages
          /\ SyncAttr(h) \in Messages
          /\ KickOff(h) \in Messages
          /\ \A e \in ElectionEvents, r \in ElectionResults :
                ElectionResult(h, e, r) \in Messages
    /\ \A n \in Names, c \in RouterCmds : RouterUpdate(n, c) \in Messages
BY DEF Messages, RegisterAppRsp, OthersOnline, RegisterServiceRsp, ServiceOnline,
       SyncAttr, KickOff, ElectionResult, RouterUpdate

LEMMA SilentType == Silent \in Outputs
BY DEF Silent, Outputs

LEMMA SendToType == ASSUME NEW S, NEW m \in Messages PROVE SendTo(S, m) \in Outputs
BY DEF SendTo, Outputs

LEMMA ThenType == ASSUME NEW a \in Outputs, NEW b \in Outputs PROVE Then(a, b) \in Outputs
BY ConcatProperties DEF Then, Outputs

LEMMA BroadcastType ==
    ASSUME NEW S, NEW m \in Messages PROVE Broadcast(S, m) \in Outputs
BY SendToType DEF Broadcast

LEMMA NotifyConfirmResultType ==
    ASSUME NEW h \in Handles, NEW r \in Results
    PROVE  NotifyConfirmResult(h, r) \in Outputs
<1>1. SendTo({ServerOf[h]}, RegisterServiceRsp(h, r)) \in Outputs
  BY SendToType, MessageTypes
<1>2. BroadcastOnlineToOthers(h, TRUE) \in Outputs
  BY BroadcastType, MessageTypes DEF BroadcastOnlineToOthers
<1>3. QED
  BY <1>1, <1>2, ThenType, SilentType DEF NotifyConfirmResult

LEMMA BroadcastCmdType ==
    ASSUME NEW n \in Names, NEW c \in RouterCmds PROVE BroadcastCmd(n, c) \in Outputs
BY SendToType, MessageTypes DEF BroadcastCmd
-----------------------------------------------------------------------------
(* Type correctness.                                                       *)

\* What UnRegisterService and OnServiceHeartbeat need to know of the list.
LEMMA ListFacts ==
    ASSUME TypeOK, RegistryConsistent, NEW h \in handleServices
    PROVE  /\ h \in Handles
           /\ Distinct(svclruList)
           /\ Elements(svclruList) = services
           /\ RemoveFirst(svclruList, h) \in Seq(Handles)
           /\ Elements(RemoveFirst(svclruList, h)) = services \ {h}
           /\ Distinct(RemoveFirst(svclruList, h))
           /\ SubOrder(RemoveFirst(svclruList, h), svclruList)
<1>1. h \in Handles /\ svclruList \in Seq(Handles)
  BY DEF TypeOK
<1>2. Distinct(svclruList) /\ Elements(svclruList) = services /\ h \in services
  BY DEF RegistryConsistent, Distinct, Elements
<1>3. QED
  BY <1>1, <1>2, RemoveFirstElements

LEMMA GiveupElectionType ==
    ASSUME TypeOK, NEW h \in Handles, NEW rest \in Outputs, GiveupElection(h, rest)
    PROVE  /\ electionCandidates' \in [Names -> SUBSET Handles]
           /\ electionLeaders' \in [Names -> Handles \cup {NoHandle}]
           /\ out' \in Outputs
<1> DEFINE n == NameOf[h]
<1>1. n \in Names
  BY NameOfType
<1>2. /\ SendTo({ServerOf[h]}, ElectionResult(h, "GiveUpLeader", "QuitCandidate")) \in Outputs
      /\ Broadcast({}, ElectionResult(h, "GiveUpLeader", "OK")) \in Outputs
      /\ \A g \in Handles : Broadcast({}, ElectionResult(g, "RunForLeader", "OK")) \in Outputs
  BY SendToType, BroadcastType, MessageTypes DEF ElectionEvents, ElectionResults
<1>3. out' \in Outputs
  BY <1>1, <1>2, ThenType DEF GiveupElection, Freshest, TypeOK
<1>4. electionCandidates' \in [Names -> SUBSET Handles]
  <2>1. electionCandidates[n] \ {h} \in SUBSET Handles
    BY <1>1 DEF TypeOK
  <2>2. \/ electionCandidates' = electionCandidates
        \/ electionCandidates' = [electionCandidates EXCEPT ![n] = electionCandidates[n] \ {h}]
    BY DEF GiveupElection, electVars
  <2>3. QED
    BY <1>1, <2>1, <2>2 DEF TypeOK
<1>5. electionLeaders' \in [Names -> Handles \cup {NoHandle}]
  <2>1. electionCandidates[n] \subseteq Handles
    BY <1>1 DEF TypeOK
  <2>2. \/ electionLeaders' = electionLeaders
        \/ \E g \in electionCandidates[n] \cup {NoHandle} :
              electionLeaders' = [electionLeaders EXCEPT ![n] = g]
    BY DEF GiveupElection, Freshest, electVars
  <2>3. QED
    BY <1>1, <2>1, <2>2 DEF TypeOK
<1>6. QED
  BY <1>3, <1>4, <1>5

LEMMA UnRegisterServiceType ==
    ASSUME TypeOK, RegistryConsistent, NEW h, NEW kickOff \in BOOLEAN,
           UnRegisterService(h, kickOff)
    PROVE  /\ h \in Handles
           /\ handleServices' \in SUBSET Handles
           /\ services' \in SUBSET Handles
           /\ svclruList' \in Seq(Handles)
           /\ lastRecvHbTime' \in [Handles -> 0 .. MaxTime]
           /\ electionCandidates' \in [Names -> SUBSET Handles]
           /\ electionLeaders' \in [Names -> Handles \cup {NoHandle}]
           /\ out' \in Outputs
<1>1. h \in handleServices /\ h \in Handles
  BY DEF UnRegisterService, TypeOK
<1>2. BroadcastOnlineToOthers(h, FALSE) \in Outputs
  BY <1>1, BroadcastType, MessageTypes DEF BroadcastOnlineToOthers
<1>3. SendTo({ServerOf[h]}, KickOff(h)) \in Outputs
  BY <1>1, SendToType, MessageTypes
<1> DEFINE rest == Then(BroadcastOnlineToOthers(h, FALSE),
                        IF kickOff THEN SendTo({ServerOf[h]}, KickOff(h)) ELSE Silent)
<1>4. rest \in Outputs
  BY <1>2, <1>3, ThenType, SilentType
<1>5. GiveupElection(h, rest)
  BY DEF UnRegisterService
<1> HIDE DEF rest
<1>6. /\ electionCandidates' \in [Names -> SUBSET Handles]
      /\ electionLeaders' \in [Names -> Handles \cup {NoHandle}]
      /\ out' \in Outputs
  BY <1>1, <1>4, <1>5, GiveupElectionType
<1>7. svclruList' \in Seq(Handles)
  BY <1>1, ListFacts DEF UnRegisterService, RemoveItem
<1>8. /\ handleServices' \in SUBSET Handles
      /\ services' \in SUBSET Handles
      /\ lastRecvHbTime' \in [Handles -> 0 .. MaxTime]
  BY <1>1, TimesType DEF UnRegisterService, RemoveItem, TypeOK
<1>9. QED
  BY <1>1, <1>6, <1>7, <1>8
\* The messages that are refused.
Reject ==
    \/ \E s \in Servers : RejectApp(s)
    \/ \E h \in Handles : RejectHandle(h)
    \/ \E s \in Servers, n \in Names : RejectRouter(s, n)

\* Each step keeps every variable within its type.
LEMMA TypeStep == TypeOK /\ RegistryConsistent /\ [Next]_vars => TypeOK'
<1> SUFFICES ASSUME TypeOK, RegistryConsistent, [Next]_vars
             PROVE  TypeOK'
  OBVIOUS
<1> USE DEF sessVars, regVars, electVars, routerVars, tickVars
<1>1. CASE Clock
  BY <1>1, SilentType, TimesType DEF Clock, TypeOK, Outputs
<1>2. CASE Receive
  <2>1. ASSUME NEW c \in Conns, NEW s \in Servers, OnNotifiedAgentInfo(c, s)
        PROVE  TypeOK'
    BY <2>1, SilentType DEF OnNotifiedAgentInfo, OthersOf, TypeOK, Outputs
  <2>2. ASSUME NEW c \in Conns, OnClosed(c)
        PROVE  TypeOK'
    BY <2>2, SilentType DEF OnClosed, TypeOK, Outputs
  <2>3. ASSUME NEW c \in Conns, ReaderEnds(c)
        PROVE  TypeOK'
    BY <2>3, SilentType DEF ReaderEnds, TypeOK, Outputs
  <2>4. QED
    BY <1>2, <2>1, <2>2, <2>3 DEF Receive
<1>3. ASSUME NEW s \in Servers, RegisterApp(s)
      PROVE  TypeOK'
  <2>1. Leaders \in SUBSET Handles
    BY DEF Leaders, TypeOK
  <2>2. out' \in Outputs
    BY <1>3, <2>1, SendToType, ThenType, MessageTypes DEF RegisterApp, TypeOK
  <2>3. QED
    BY <1>3, <2>2 DEF RegisterApp, TypeOK, Outputs
<1>4. ASSUME NEW h \in Handles, RegisterServiceAgain(h) \/ RegisterServiceNoApp(h)
      PROVE  TypeOK'
  <2>1. SendTo({ServerOf[h]}, RegisterServiceRsp(h, "ERR_APP_NOT_REGISTER")) \in Outputs
    BY SendToType, MessageTypes DEF Results
  <2>2. QED
    BY <1>4, <2>1, SilentType DEF RegisterServiceAgain, RegisterServiceNoApp, TypeOK, Outputs
<1>5. ASSUME NEW h \in Handles, NEW isStateful \in BOOLEAN,
             RegisterService(h, isStateful)
      PROVE  TypeOK'
  <2> DEFINE n == NameOf[h]
  <2>1. n \in Names
    BY NameOfType
  <2>2. /\ NotifyConfirmResult(h, "OK") \in Outputs
        /\ NotifyConfirmResult(h, "ERR_SERVICE_REGISTER_LINEUP") \in Outputs
        /\ BroadcastCmd(n, "Prepare") \in Outputs
    BY <2>1, NotifyConfirmResultType, BroadcastCmdType DEF Results, RouterCmds
  <2>3. /\ handleServices' \in SUBSET Handles
        /\ services' \in SUBSET Handles
        /\ svclruList' \in Seq(Handles)
        /\ lastRecvHbTime' \in [Handles -> 0 .. MaxTime]
    BY <1>5, AppendProperties DEF RegisterService, AddItem, TypeOK
  <2>4. out' \in Outputs
    BY <1>5, <2>2 DEF RegisterService, Start2StageConfirm
  <2>5. /\ confirmDeadline' \in [Names -> 0 .. MaxTime]
        /\ onlineSvcHandle' \in [Names -> Handles \cup {NoHandle}]
    <3>1. now + ConfirmExpiredSecond <= MaxTime => now + ConfirmExpiredSecond \in 0 .. MaxTime
      BY TimesType DEF TypeOK
    <3>2. QED
      BY <1>5, <2>1, <3>1 DEF RegisterService, Start2StageConfirm, TypeOK
  <2>6. routers' \in [Names -> [Servers -> RouterStates]]
    <3> DEFINE f == [r \in Servers |-> IF routers[n][r] = "Absent" THEN "Absent" ELSE "Preparing"]
    <3>1. f \in [Servers -> RouterStates]
      BY DEF RouterStates
    <3>2. routers' = routers \/ routers' = [routers EXCEPT ![n] = f]
      BY <1>5 DEF RegisterService, Start2StageConfirm, AllRouters
    <3> HIDE DEF f
    <3>3. QED
      BY <2>1, <3>1, <3>2 DEF TypeOK
  <2>7. QED
    BY <1>5, <2>3, <2>4, <2>5, <2>6 DEF RegisterService, TypeOK, Outputs
<1>6. ASSUME NEW h \in Handles, OnServiceHeartbeat(h)
      PROVE  TypeOK'
  <2>1. svclruList' \in Seq(Handles)
    BY <1>6, ListFacts, AppendProperties DEF OnServiceHeartbeat, MoveToBack
  <2>2. QED
    BY <1>6, <2>1, SilentType DEF OnServiceHeartbeat, TypeOK, Outputs
<1>7. ASSUME NEW h \in Handles, OnServiceSyncAttr(h)
      PROVE  TypeOK'
  <2>1. out' \in Outputs
    BY <1>7, BroadcastType, MessageTypes DEF OnServiceSyncAttr
  <2>2. QED
    BY <1>7, <2>1 DEF OnServiceSyncAttr, TypeOK, Outputs
<1>8. ASSUME NEW h \in Handles, OnServiceRunForElection(h)
      PROVE  TypeOK'
  <2>1. NameOf[h] \in Names
    BY NameOfType
  <2>2. /\ Broadcast({}, ElectionResult(h, "RunForLeader", "OK")) \in Outputs
        /\ SendTo({ServerOf[h]}, ElectionResult(h, "RunForLeader", "AlreadyLeader")) \in Outputs
        /\ SendTo({ServerOf[h]}, ElectionResult(h, "RunForLeader", "RunForFail")) \in Outputs
    BY BroadcastType, SendToType, MessageTypes DEF ElectionEvents, ElectionResults
  <2>3. out' \in Outputs
    BY <1>8, <2>2 DEF OnServiceRunForElection
  <2>4. QED
    BY <1>8, <2>1, <2>3 DEF OnServiceRunForElection, TypeOK, Outputs
<1>9. ASSUME NEW h \in Handles, OnServiceGiveupElection(h)
      PROVE  TypeOK'
  <2>1. /\ electionCandidates' \in [Names -> SUBSET Handles]
        /\ electionLeaders' \in [Names -> Handles \cup {NoHandle}]
        /\ out' \in Outputs
    BY <1>9, GiveupElectionType, SilentType DEF OnServiceGiveupElection
  <2>2. QED
    BY <1>9, <2>1 DEF OnServiceGiveupElection, TypeOK, Outputs
<1>10. ASSUME NEW h \in Handles, UnRegister(h)
       PROVE  TypeOK'
  BY <1>10, UnRegisterServiceType DEF UnRegister, TypeOK, Outputs
<1>11. ASSUME NEW s \in Servers, NEW n \in Names, OnRegisterNameRouter(s, n)
       PROVE  TypeOK'
  <2>1. out' \in Outputs
    BY <1>11, SendToType, SilentType, MessageTypes DEF OnRegisterNameRouter, RouterCmds
  <2>2. routers' \in [Names -> [Servers -> RouterStates]]
    <3>1. ASSUME NEW st \in RouterStates
          PROVE  [routers EXCEPT ![n][s] = st] \in [Names -> [Servers -> RouterStates]]
      <4>1. [routers[n] EXCEPT ![s] = st] \in [Servers -> RouterStates]
        BY DEF TypeOK
      <4>2. QED
        BY <4>1 DEF TypeOK
    <3>2. QED
      BY <1>11, <3>1 DEF OnRegisterNameRouter, RouterStates
  <2>3. QED
    BY <1>11, <2>1, <2>2 DEF OnRegisterNameRouter, TypeOK, Outputs
<1>12. CASE OnTick
  <2>1. expired' \in Seq(Handles)
    BY <1>12, SubSeqProperties DEF OnTick, TypeOK
  <2>2. QED
    BY <1>12, <2>1, SilentType DEF OnTick, TypeOK, Outputs
<1>13. CASE Reject
  BY <1>13, SilentType DEF Reject, RejectApp, RejectHandle, RejectRouter, TypeOK, Outputs
<1>14. CASE KickExpired
  <2>1. expired' \in Seq(Handles)
    BY <1>14, HeadTailProperties DEF KickExpired, TypeOK
  <2>2. QED
    BY <1>14, <2>1, UnRegisterServiceType DEF KickExpired, TypeOK, Outputs
<1>15. ASSUME NEW n \in Names, CheckExpired(n)
       PROVE  TypeOK'
  <2> DEFINE h == onlineSvcHandle[n]
             told == IF h \in services
                     THEN NotifyConfirmResult(h, "ERR_ROUTER_PREPARE_TIMEOUT")
                     ELSE Silent
  <2>1. told \in Outputs
    BY NotifyConfirmResultType, SilentType DEF TypeOK, Results
  <2>2. BroadcastCmd(n, "PrepareAbort") \in Outputs
    BY BroadcastCmdType DEF RouterCmds
  <2>3. out' \in Outputs
    BY <1>15, <2>1, <2>2, ThenType, SilentType DEF CheckExpired, CommitConfirm
  <2>4. /\ confirmDeadline' \in [Names -> 0 .. MaxTime]
        /\ onlineSvcHandle' \in [Names -> Handles \cup {NoHandle}]
    <3>1. \/ confirmDeadline' = confirmDeadline
          \/ confirmDeadline' = [confirmDeadline EXCEPT ![n] = 0]
      BY <1>15 DEF CheckExpired, CommitConfirm
    <3>2. \/ onlineSvcHandle' = onlineSvcHandle
          \/ onlineSvcHandle' = [onlineSvcHandle EXCEPT ![n] = NoHandle]
      BY <1>15 DEF CheckExpired, CommitConfirm
    <3>3. 0 \in 0 .. MaxTime
      BY TimesType
    <3>4. QED
      BY <3>1, <3>2, <3>3 DEF TypeOK
  <2>5. routers' \in [Names -> [Servers -> RouterStates]]
    <3> DEFINE f == [r \in Servers |-> IF routers[n][r] = "Absent" THEN "Absent" ELSE "Ready"]
    <3>1. f \in [Servers -> RouterStates]
      BY DEF RouterStates
    <3>2. routers' = routers \/ routers' = [routers EXCEPT ![n] = f]
      BY <1>15 DEF CheckExpired, CommitConfirm, AllRouters
    <3> HIDE DEF f
    <3>3. QED
      BY <3>1, <3>2 DEF TypeOK
  <2>6. QED
    BY <1>15, <2>3, <2>4, <2>5 DEF CheckExpired, TypeOK, Outputs
<1>16. CASE UNCHANGED vars
  BY <1>16 DEF vars, TypeOK
<1>17. QED
  BY <1>1, <1>2, <1>3, <1>4, <1>5, <1>6, <1>7, <1>8, <1>9, <1>10, <1>11, <1>12, <1>13,
     <1>14, <1>15, <1>16 DEF Next, Handle, Tick, Reject
-----------------------------------------------------------------------------
(* The registry and its LRU list.                                          *)

\* The steps that touch the registry.
LEMMA RegistrySteps ==
    ASSUME [Next]_vars
    PROVE  \/ UNCHANGED <<apps, handleServices, services, svclruList,
                          lastRecvHbTime>>
           \/ \E s \in Servers : RegisterApp(s)
           \/ \E h \in Handles, b \in BOOLEAN : RegisterService(h, b)
           \/ \E h \in Handles : OnServiceHeartbeat(h)
           \/ \E h, b : UnRegisterService(h, b) /\ UNCHANGED <<apps, now>>
<1> USE DEF regVars
<1>1. CASE Clock
  BY <1>1 DEF Clock
<1>2. CASE Receive
  BY <1>2 DEF Receive, OnNotifiedAgentInfo, OnClosed, ReaderEnds
<1>3. CASE Handle
  <2>1. ASSUME NEW h \in Handles, RegisterServiceAgain(h) \/ RegisterServiceNoApp(h)
        PROVE  UNCHANGED regVars
    BY <2>1 DEF RegisterServiceAgain, RegisterServiceNoApp
  <2>2. ASSUME NEW h \in Handles,
               \/ OnServiceSyncAttr(h)
               \/ OnServiceRunForElection(h)
               \/ OnServiceGiveupElection(h)
        PROVE  UNCHANGED regVars
    BY <2>2 DEF OnServiceSyncAttr, OnServiceRunForElection, OnServiceGiveupElection
  <2>3. ASSUME NEW s \in Servers, NEW n \in Names, OnRegisterNameRouter(s, n)
        PROVE  UNCHANGED regVars
    BY <2>3 DEF OnRegisterNameRouter
  <2>4. OnTick \/ Reject => UNCHANGED regVars
    BY DEF OnTick, Reject, RejectApp, RejectHandle, RejectRouter
  <2>5. ASSUME NEW h \in Handles, UnRegister(h)
        PROVE  UnRegisterService(h, FALSE) /\ UNCHANGED <<apps, now>>
    BY <2>5 DEF UnRegister
  <2>6. QED
    BY <1>3, <2>1, <2>2, <2>3, <2>4, <2>5 DEF Handle, Reject
<1>4. CASE KickExpired
  BY <1>4 DEF KickExpired
<1>5. ASSUME NEW n \in Names, CheckExpired(n)
      PROVE  UNCHANGED regVars
  BY <1>5 DEF CheckExpired
<1>6. CASE UNCHANGED vars
  BY <1>6 DEF vars
<1>7. QED
  BY <1>1, <1>2, <1>3, <1>4, <1>5, <1>6 DEF Next, Tick

\* Appending a new element to a list of distinct elements.
LEMMA AppendElements ==
    ASSUME NEW S, NEW l \in Seq(S), NEW h \in S, Distinct(l), h \notin Elements(l)
    PROVE  /\ Elements(Append(l, h)) = Elements(l) \cup {h}
           /\ Distinct(Append(l, h))
<1>1. /\ Len(Append(l, h)) = Len(l) + 1
      /\ \A i \in 1 .. Len(l) : Append(l, h)[i] = l[i]
      /\ Append(l, h)[Len(l) + 1] = h
  BY AppendProperties
<1>2. Len(l) \in Nat
  BY LenProperties
<1> DEFINE m == Append(l, h)
<1> HIDE DEF m
<1>3. Distinct(m)
  BY <1>1, <1>2 DEF Distinct, Elements, m
<1>4. Elements(m) = Elements(l) \cup {h}
  BY <1>1, <1>2 DEF Elements, m
<1>5. QED
  BY <1>3, <1>4 DEF m

LEMMA RegistryStep ==
    TypeOK /\ RegistryConsistent /\ [Next]_vars => RegistryConsistent'
<1> SUFFICES ASSUME TypeOK, RegistryConsistent, [Next]_vars
             PROVE  RegistryConsistent'
  OBVIOUS
<1>1. CASE UNCHANGED <<apps, handleServices, services, svclruList, lastRecvHbTime>>
  BY <1>1 DEF RegistryConsistent
<1>2. ASSUME NEW s \in Servers, RegisterApp(s)
      PROVE  RegistryConsistent'
  BY <1>2 DEF RegisterApp, RegistryConsistent
<1>3. ASSUME NEW h \in Handles, NEW b \in BOOLEAN, RegisterService(h, b)
      PROVE  RegistryConsistent'
  <2>1. svclruList \in Seq(Handles) /\ Distinct(svclruList) /\ Elements(svclruList) = services
    BY DEF TypeOK, RegistryConsistent, Distinct, Elements
  <2>2. h \notin services /\ apps /\ apps' = apps /\ AddItem(h)
    BY <1>3 DEF RegisterService, RegistryConsistent
  <2>3. Elements(svclruList') = services' /\ Distinct(svclruList')
    BY <2>1, <2>2, AppendElements DEF AddItem
  <2>4. handleServices' = services'
    BY <2>2 DEF AddItem, TypeOK, RegistryConsistent
  <2>5. QED
    BY <2>2, <2>3, <2>4 DEF RegistryConsistent, Elements, Distinct
<1>4. ASSUME NEW h \in Handles, OnServiceHeartbeat(h)
      PROVE  RegistryConsistent'
  <2> DEFINE l == RemoveFirst(svclruList, h)
  <2>1. h \in services /\ svclruList' = Append(l, h)
        /\ UNCHANGED <<apps, handleServices, services>>
    BY <1>4 DEF OnServiceHeartbeat, MoveToBack, RegistryConsistent
  <2>2. l \in Seq(Handles) /\ Elements(l) = services \ {h} /\ Distinct(l)
    BY <1>4, ListFacts DEF OnServiceHeartbeat
  <2> HIDE DEF l
  <2>3. Elements(svclruList') = services' /\ Distinct(svclruList')
    <3>1. h \notin Elements(l)
      BY <2>2
    <3>2. Elements(Append(l, h)) = (services \ {h}) \cup {h} /\ Distinct(Append(l, h))
      BY <1>4, <2>2, <3>1, AppendElements
    <3>3. QED
      BY <2>1, <3>2
  <2>4. QED
    BY <2>1, <2>3 DEF RegistryConsistent, Elements, Distinct
<1>5. ASSUME NEW h, NEW b, UnRegisterService(h, b), UNCHANGED <<apps, now>>
      PROVE  RegistryConsistent'
  <2>1. h \in handleServices /\ RemoveItem(h)
    BY <1>5 DEF UnRegisterService
  <2>2. Elements(svclruList') = services' /\ Distinct(svclruList')
    BY <2>1, ListFacts DEF RemoveItem
  <2>3. handleServices' = services'
    BY <2>1 DEF RemoveItem, TypeOK, RegistryConsistent
  <2>4. services' # {} => apps'
    BY <1>5, <2>1 DEF RemoveItem, RegistryConsistent
  <2>5. QED
    BY <2>2, <2>3, <2>4 DEF RegistryConsistent, Elements, Distinct
<1>6. QED
  BY <1>1, <1>2, <1>3, <1>4, <1>5, RegistrySteps
\* The steps on the list, for its order by heartbeat.
HbNotAhead == \A h \in Handles : lastRecvHbTime[h] <= now

LEMMA HbStep == TypeOK /\ HbNotAhead /\ [Next]_vars => HbNotAhead'
<1> SUFFICES ASSUME TypeOK, HbNotAhead, [Next]_vars
             PROVE  HbNotAhead'
  OBVIOUS
<1>1. now \in Nat /\ lastRecvHbTime \in [Handles -> Nat]
  BY TimesType DEF TypeOK
<1>2. now' = now \/ now' = now + 1
  BY DEF Next, Receive, Handle, Tick, vars, Clock, OnNotifiedAgentInfo, OnClosed,
     ReaderEnds, RegisterApp,
     RegisterServiceAgain, RegisterServiceNoApp, RegisterService, UnRegister,
     OnServiceHeartbeat, OnServiceSyncAttr, OnServiceRunForElection, OnServiceGiveupElection,
     OnRegisterNameRouter, OnTick, RejectApp, RejectHandle, RejectRouter, KickExpired, CheckExpired
<1>3. \A h \in Handles : lastRecvHbTime'[h] \in {lastRecvHbTime[h], now, 0}
  BY <1>1, RegistrySteps DEF RegisterApp, RegisterService, AddItem, OnServiceHeartbeat,
     UnRegisterService, RemoveItem
<1>4. QED
  BY <1>1, <1>2, <1>3 DEF HbNotAhead

\* l is ordered by the times hb.
OrderedBy(l, hb) == \A i, j \in 1 .. Len(l) : i <= j => hb[l[i]] <= hb[l[j]]

LEMMA LruStep ==
    TypeOK /\ RegistryConsistent /\ HbNotAhead /\ LruOrdered /\ [Next]_vars => LruOrdered'
<1> SUFFICES ASSUME TypeOK, RegistryConsistent, HbNotAhead, LruOrdered, [Next]_vars
             PROVE  LruOrdered'
  OBVIOUS
<1>1. /\ now \in Nat
      /\ lastRecvHbTime \in [Handles -> Nat]
      /\ svclruList \in Seq(Handles)
      /\ \A g \in Handles : lastRecvHbTime[g] <= now
      /\ OrderedBy(svclruList, lastRecvHbTime)
  BY TimesType DEF TypeOK, HbNotAhead, LruOrdered, OrderedBy
<1>2. CASE UNCHANGED <<apps, handleServices, services, svclruList, lastRecvHbTime>>
  BY <1>2 DEF LruOrdered
<1>3. ASSUME NEW s \in Servers, RegisterApp(s)
      PROVE  LruOrdered'
  BY <1>3 DEF RegisterApp, LruOrdered
\* A list ordered by the old times, without h, and then h with the time now.
<1>4. ASSUME NEW l \in Seq(Handles), NEW h \in Handles, h \notin Elements(l),
             OrderedBy(l, lastRecvHbTime),
             svclruList' = Append(l, h),
             lastRecvHbTime' = [lastRecvHbTime EXCEPT ![h] = now]
      PROVE  LruOrdered'
  <2>1. /\ Len(Append(l, h)) = Len(l) + 1
        /\ \A i \in 1 .. Len(l) : Append(l, h)[i] = l[i]
        /\ Append(l, h)[Len(l) + 1] = h
        /\ Len(l) \in Nat
    BY <1>4, AppendProperties, LenProperties
  <2>2. \A i \in 1 .. Len(l) : l[i] \in Handles /\ lastRecvHbTime'[l[i]] = lastRecvHbTime[l[i]]
    BY <1>1, <1>4, ElementOfSeq DEF Elements
  <2>3. lastRecvHbTime'[h] = now
    BY <1>1, <1>4
  <2>4. ASSUME NEW i \in 1 .. Len(l) + 1, NEW j \in 1 .. Len(l) + 1, i <= j
        PROVE  lastRecvHbTime'[svclruList'[i]] <= lastRecvHbTime'[svclruList'[j]]
    <3>1. CASE j <= Len(l)
      BY <1>4, <2>1, <2>2, <2>4, <3>1 DEF OrderedBy
    <3>2. CASE j = Len(l) + 1 /\ i <= Len(l)
      BY <1>1, <1>4, <2>1, <2>2, <2>3, <3>2
    <3>3. CASE j = Len(l) + 1 /\ i = Len(l) + 1
      BY <1>1, <1>4, <2>1, <2>3, <3>3
    <3>4. QED
      BY <2>1, <2>4, <3>1, <3>2, <3>3
  <2>5. QED
    BY <1>4, <2>1, <2>4 DEF LruOrdered
<1>5. ASSUME NEW h \in Handles, NEW b \in BOOLEAN, RegisterService(h, b)
      PROVE  LruOrdered'
  <2>1. h \notin Elements(svclruList)
    BY <1>5 DEF RegisterService, RegistryConsistent, Elements
  <2>2. QED
    BY <1>1, <1>4, <1>5, <2>1 DEF RegisterService, AddItem
\* A part of an ordered list is ordered.
<1>6. ASSUME NEW h \in handleServices
      PROVE  OrderedBy(RemoveFirst(svclruList, h), lastRecvHbTime)
  <2> DEFINE l == RemoveFirst(svclruList, h)
  <2>1. SubOrder(l, svclruList)
    BY ListFacts
  <2> HIDE DEF l
  <2>2. OrderedBy(l, lastRecvHbTime)
    <3> SUFFICES ASSUME NEW i \in 1 .. Len(l), NEW j \in 1 .. Len(l), i <= j
                 PROVE  lastRecvHbTime[l[i]] <= lastRecvHbTime[l[j]]
      BY DEF OrderedBy
    <3>1. PICK p \in 1 .. Len(svclruList), q \in 1 .. Len(svclruList) :
             p <= q /\ l[i] = svclruList[p] /\ l[j] = svclruList[q]
      BY <2>1 DEF SubOrder
    <3>2. QED
      BY <3>1 DEF LruOrdered
  <2>3. QED
    BY <2>2 DEF l
<1>7. ASSUME NEW h \in Handles, OnServiceHeartbeat(h)
      PROVE  LruOrdered'
  <2> DEFINE l == RemoveFirst(svclruList, h)
  <2>1. l \in Seq(Handles) /\ h \notin Elements(l) /\ OrderedBy(l, lastRecvHbTime)
    BY <1>6, <1>7, ListFacts DEF OnServiceHeartbeat
  <2> HIDE DEF l
  <2>2. svclruList' = Append(l, h) /\ lastRecvHbTime' = [lastRecvHbTime EXCEPT ![h] = now]
    BY <1>7 DEF OnServiceHeartbeat, MoveToBack, l
  <2>3. QED
    BY <1>4, <2>1, <2>2
<1>8. ASSUME NEW h, NEW b, UnRegisterService(h, b), UNCHANGED <<apps, now>>
      PROVE  LruOrdered'
  <2> DEFINE l == RemoveFirst(svclruList, h)
  <2>1. h \in handleServices /\ svclruList' = l
        /\ lastRecvHbTime' = [lastRecvHbTime EXCEPT ![h] = 0]
    BY <1>8 DEF UnRegisterService, RemoveItem
  <2>2. l \in Seq(Handles) /\ h \notin Elements(l) /\ OrderedBy(l, lastRecvHbTime)
    BY <1>6, <2>1, ListFacts
  <2> HIDE DEF l
  <2>3. \A i \in 1 .. Len(l) : lastRecvHbTime'[l[i]] = lastRecvHbTime[l[i]]
    BY <1>1, <2>1, <2>2, ElementOfSeq DEF Elements
  <2>4. QED
    BY <2>1, <2>2, <2>3 DEF LruOrdered, OrderedBy
<1>9. QED
  BY <1>2, <1>3, <1>5, <1>7, <1>8, RegistrySteps
-----------------------------------------------------------------------------
(* Elections.                                                              *)

\* The steps that touch the elections or take a service out of the registry.
LEMMA ElectionSteps ==
    ASSUME [Next]_vars
    PROVE  \/ /\ UNCHANGED <<electionCandidates, electionLeaders>>
              /\ services \subseteq services'
           \/ \E h \in Handles : OnServiceRunForElection(h)
           \/ \E h, rest : /\ h \in handleServices
                           /\ GiveupElection(h, rest)
                           /\ services \ {h} \subseteq services'
<1> USE DEF regVars, electVars
<1>1. CASE Clock
  BY <1>1 DEF Clock
<1>2. CASE Receive
  BY <1>2 DEF Receive, OnNotifiedAgentInfo, OnClosed, ReaderEnds
<1>3. CASE Handle
  <2>1. ASSUME NEW s \in Servers, RegisterApp(s)
        PROVE  UNCHANGED electVars /\ services \subseteq services'
    BY <2>1 DEF RegisterApp
  <2>2. ASSUME NEW h \in Handles,
               \/ RegisterServiceAgain(h)
               \/ RegisterServiceNoApp(h)
               \/ \E b \in BOOLEAN : RegisterService(h, b)
        PROVE  UNCHANGED electVars /\ services \subseteq services'
    BY <2>2 DEF RegisterServiceAgain, RegisterServiceNoApp, RegisterService, AddItem
  <2>3. ASSUME NEW h \in Handles, OnServiceSyncAttr(h) \/ OnServiceHeartbeat(h)
        PROVE  UNCHANGED electVars /\ services \subseteq services'
    BY <2>3 DEF OnServiceSyncAttr, OnServiceHeartbeat
  <2>4. ASSUME NEW s \in Servers, NEW n \in Names, OnRegisterNameRouter(s, n)
        PROVE  UNCHANGED electVars /\ services \subseteq services'
    BY <2>4 DEF OnRegisterNameRouter
  <2>5. OnTick \/ Reject => UNCHANGED electVars /\ services \subseteq services'
    BY DEF OnTick, Reject, RejectApp, RejectHandle, RejectRouter
  <2>6. ASSUME NEW h \in Handles, UnRegister(h) \/ OnServiceGiveupElection(h)
        PROVE  \E rest : /\ h \in handleServices
                         /\ GiveupElection(h, rest)
                         /\ services \ {h} \subseteq services'
    BY <2>6 DEF UnRegister, UnRegisterService, RemoveItem, OnServiceGiveupElection
  <2>7. QED
    BY <1>3, <2>1, <2>2, <2>3, <2>4, <2>5, <2>6 DEF Handle, Reject
<1>4. CASE KickExpired
  BY <1>4 DEF KickExpired, UnRegisterService, RemoveItem
<1>5. ASSUME NEW n \in Names, CheckExpired(n)
      PROVE  UNCHANGED electVars /\ services \subseteq services'
  BY <1>5 DEF CheckExpired
<1>6. CASE UNCHANGED vars
  BY <1>6 DEF vars
<1>7. QED
  BY <1>1, <1>2, <1>3, <1>4, <1>5, <1>6 DEF Next, Tick

\* The election of one name.
ElectionOK(n) ==
    /\ electionCandidates[n] \subseteq {h \in services : NameOf[h] = n}
    /\ electionCandidates[n] # {} => electionLeaders[n] \in electionCandidates[n]
    /\ electionCandidates[n] = {} => electionLeaders[n] = NoHandle

LEMMA ElectionStep ==
    TypeOK /\ RegistryConsistent /\ ElectionConsistent /\ [Next]_vars => ElectionConsistent'
<1> SUFFICES ASSUME TypeOK, RegistryConsistent, ElectionConsistent, [Next]_vars,
                    NEW n \in Names
             PROVE  ElectionOK(n)'
  BY DEF ElectionConsistent, ElectionOK
<1>1. ElectionOK(n)
  BY DEF ElectionConsistent, ElectionOK
<1>2. CASE UNCHANGED <<electionCandidates, electionLeaders>> /\ services \subseteq services'
  BY <1>1, <1>2 DEF ElectionOK
<1>3. ASSUME NEW h \in Handles, OnServiceRunForElection(h)
      PROVE  ElectionOK(n)'
  <2>1. h \in services /\ services' = services /\ NameOf[h] \in Names
    BY <1>3, NameOfType DEF OnServiceRunForElection, RegistryConsistent, regVars
  <2>2. CASE NameOf[h] # n
    BY <1>1, <1>3, <2>1, <2>2 DEF OnServiceRunForElection, ElectionOK, TypeOK
  <2>3. CASE NameOf[h] = n
    <3>1. electionCandidates'[n] = electionCandidates[n] \cup {h}
      BY <1>3, <2>3 DEF OnServiceRunForElection, TypeOK
    <3>2. electionLeaders'[n] \in electionCandidates'[n]
      BY <1>1, <1>3, <2>3, <3>1, NoValues DEF OnServiceRunForElection, ElectionOK, TypeOK
    <3>3. QED
      BY <1>1, <2>1, <2>3, <3>1, <3>2 DEF ElectionOK
  <2>4. QED
    BY <2>2, <2>3
<1>4. ASSUME NEW h, NEW rest, h \in handleServices, GiveupElection(h, rest),
             services \ {h} \subseteq services'
      PROVE  ElectionOK(n)'
  <2>1. h \in Handles /\ NameOf[h] \in Names
    BY <1>4, NameOfType DEF TypeOK
  <2>2. CASE NameOf[h] # n
    <3>1. electionCandidates'[n] = electionCandidates[n] /\ electionLeaders'[n] = electionLeaders[n]
      BY <1>4, <2>1, <2>2 DEF GiveupElection, TypeOK, electVars
    <3>2. h \notin electionCandidates[n]
      BY <1>1, <2>2 DEF ElectionOK
    <3>3. QED
      BY <1>1, <1>4, <3>1, <3>2 DEF ElectionOK
  <2>3. CASE NameOf[h] = n
    <3>1. electionCandidates'[n] = electionCandidates[n] \ {h}
      BY <1>4, <2>1, <2>3 DEF GiveupElection, TypeOK, electVars
    <3>2. \/ electionLeaders'[n] = electionLeaders[n] /\ electionLeaders[n] # h
          \/ electionLeaders'[n] = electionLeaders[n] /\ h \notin electionCandidates[n]
          \/ electionLeaders'[n] \in electionCandidates[n] \ {h}
          \/ electionCandidates[n] \ {h} = {} /\ electionLeaders'[n] = NoHandle
      BY <1>4, <2>1, <2>3 DEF GiveupElection, Freshest, TypeOK, electVars
    <3>3. QED
      BY <1>1, <1>4, <2>1, <3>1, <3>2, NoValues DEF ElectionOK
  <2>4. QED
    BY <2>2, <2>3
<1>5. QED
  BY <1>2, <1>3, <1>4, ElectionSteps
-----------------------------------------------------------------------------
(* Sessions.                                                               *)

\* A connection that has not overlapped is the only one of its address.
SessionAlone ==
    \A c, d \in Conns :
        conns[c] # NoServer /\ c \notin overlapped /\ conns[d] = conns[c] => d = c

SessionInv == SessionAlone /\ SessionHeld

LEMMA SessionsStep == TypeOK /\ SessionInv /\ [Next]_vars => SessionInv'
<1> SUFFICES ASSUME TypeOK, SessionAlone, SessionHeld, [Next]_vars
             PROVE  SessionAlone' /\ SessionHeld'
  BY DEF SessionInv
<1>1. CASE UNCHANGED sessVars
  BY <1>1 DEF SessionAlone, SessionHeld, sessVars
<1>2. ASSUME NEW c \in Conns, NEW s \in Servers, OnNotifiedAgentInfo(c, s)
      PROVE  SessionAlone' /\ SessionHeld'
  <2>1. /\ conns' = [conns EXCEPT ![c] = s] /\ sessions' = [sessions EXCEPT ![s] = c]
        /\ closed' = closed /\ overlapped \subseteq overlapped' /\ s # NoServer
        /\ \A d \in Conns \ {c} : conns[d] = s => {c, d} \subseteq overlapped'
    BY <1>2, NoValues DEF OnNotifiedAgentInfo, OthersOf
  <2>2. /\ conns \in [Conns -> Servers \cup {NoServer}]
        /\ sessions \in [Servers -> Conns \cup {NoConn}]
    BY DEF TypeOK
  <2>3. SessionAlone'
    BY <2>1, <2>2 DEF SessionAlone
  <2>4. SessionHeld'
    BY <2>1, <2>2 DEF SessionHeld
  <2>5. QED
    BY <2>3, <2>4
<1>3. ASSUME NEW c \in Conns, OnClosed(c)
      PROVE  SessionAlone' /\ SessionHeld'
  BY <1>3 DEF OnClosed, SessionAlone, SessionHeld, TypeOK
<1>4. ASSUME NEW c \in Conns, ReaderEnds(c)
      PROVE  SessionAlone' /\ SessionHeld'
  BY <1>4 DEF ReaderEnds, SessionAlone, SessionHeld, TypeOK
<1>5. Clock \/ Handle \/ Tick \/ UNCHANGED vars => UNCHANGED sessVars
  BY DEF Clock, Handle, Tick, vars, sessVars, RegisterApp, RegisterServiceAgain,
     RegisterServiceNoApp, RegisterService, UnRegister, OnServiceHeartbeat,
     OnServiceSyncAttr, OnServiceRunForElection, OnServiceGiveupElection,
     OnRegisterNameRouter, OnTick, RejectApp, RejectHandle, RejectRouter, KickExpired, CheckExpired
<1>6. QED
  BY <1>1, <1>2, <1>3, <1>4, <1>5 DEF Next, Receive

-----------------------------------------------------------------------------
(* The tick.                                                               *)

\* The steps on the list of collected handles: it is filled by OnTick,
\* emptied by KickExpired, and while it is not empty no handler runs.
LEMMA TickSteps ==
    ASSUME [Next]_vars
    PROVE  \/ OnTick
           \/ KickExpired
           \/ expired' = expired /\ expired = << >>
           \/ /\ UNCHANGED <<expired, services, lastRecvHbTime>>
              /\ now' = now \/ now' = now + 1
<1> USE DEF tickVars, regVars, Idle
<1>1. CASE Clock
  BY <1>1 DEF Clock
<1>2. CASE Receive
  BY <1>2 DEF Receive, OnNotifiedAgentInfo, OnClosed, ReaderEnds
<1>3. CASE Handle
  BY <1>3 DEF Handle, RegisterApp, RegisterServiceAgain, RegisterServiceNoApp,
     RegisterService, UnRegister, OnServiceHeartbeat, OnServiceSyncAttr,
     OnServiceRunForElection, OnServiceGiveupElection, OnRegisterNameRouter, RejectApp, RejectHandle, RejectRouter
<1>4. ASSUME NEW n \in Names, CheckExpired(n)
      PROVE  expired' = expired /\ expired = << >>
  BY <1>4 DEF CheckExpired
<1>5. CASE UNCHANGED vars
  BY <1>5 DEF vars
<1>6. QED
  BY <1>1, <1>2, <1>3, <1>4, <1>5 DEF Next, Tick

LEMMA KickStep ==
    TypeOK /\ RegistryConsistent /\ KickTargetsExpired /\ [Next]_vars => KickTargetsExpired'
<1> SUFFICES ASSUME TypeOK, RegistryConsistent, KickTargetsExpired, [Next]_vars
             PROVE  KickTargetsExpired'
  OBVIOUS
<1>0. /\ now \in Nat
      /\ lastRecvHbTime \in [Handles -> Nat]
      /\ ServiceKeepaliveTime \in Nat
      /\ services \subseteq Handles
      /\ expired \in Seq(Handles)
      /\ svclruList \in Seq(Handles)
  BY TimesType DEF TypeOK
<1>1. CASE OnTick
  <2>1. PICK k \in 0 .. Len(svclruList) : IsScanEnd(k) /\ expired' = SubSeq(svclruList, 1, k)
    BY <1>1 DEF OnTick
  <2>2. Len(expired') = k /\ \A i \in 1 .. k : expired'[i] = svclruList[i]
    BY <1>0, <2>1, SubSeqProperties
  <2>3. \A i \in 1 .. k : svclruList[i] \in services /\ IsExpired(svclruList[i])
    BY <1>0, <2>1 DEF IsScanEnd, RegistryConsistent
  <2>4. UNCHANGED <<services, lastRecvHbTime, now>>
    BY <1>1 DEF OnTick, regVars
  <2>5. \A i, j \in 1 .. k : svclruList[i] = svclruList[j] => i = j
    <3>1. \A i \in 1 .. k : i \in 1 .. Len(svclruList)
      BY <1>0, <2>1, LenProperties
    <3>2. QED
      BY <3>1 DEF RegistryConsistent
  <2>6. \A i \in 1 .. k : svclruList[i] \in Handles /\ Overdue(svclruList[i])
    BY <1>0, <2>3 DEF IsExpired, Overdue
  <2>7. QED
    BY <2>2, <2>3, <2>4, <2>5, <2>6 DEF KickTargetsExpired, Overdue
<1>2. CASE KickExpired
  <2> DEFINE h == Head(expired)
  <2>1. /\ expired # << >>
        /\ expired' = Tail(expired)
        /\ services' = services \ {h}
        /\ lastRecvHbTime' = [lastRecvHbTime EXCEPT ![h] = 0]
        /\ now' = now
    BY <1>2 DEF KickExpired, UnRegisterService, RemoveItem
  <2>2. /\ h = expired[1]
        /\ Len(expired) \in Nat \ {0}
        /\ Len(expired') = Len(expired) - 1
        /\ \A i \in 1 .. Len(expired') : expired'[i] = expired[i + 1]
    BY <1>0, <2>1, HeadTailProperties, LenProperties
  <2> HIDE DEF h
  <2>3. \A i \in 1 .. Len(expired') : expired'[i] # h /\ expired'[i] \in services
                                      /\ Overdue(expired'[i])
    BY <2>2 DEF KickTargetsExpired
  <2>4. \A i \in 1 .. Len(expired') :
           /\ expired'[i] \in services'
           /\ now' - lastRecvHbTime'[expired'[i]] >= ServiceKeepaliveTime
    BY <1>0, <2>1, <2>3 DEF Overdue
  <2>5. \A i, j \in 1 .. Len(expired') : expired'[i] = expired'[j] => i = j
    BY <2>2 DEF KickTargetsExpired
  <2>6. QED
    BY <2>4, <2>5 DEF KickTargetsExpired, Overdue
<1>3. CASE expired' = expired /\ expired = << >>
  BY <1>3 DEF KickTargetsExpired
<1>4. CASE UNCHANGED <<expired, services, lastRecvHbTime>> /\ (now' = now \/ now' = now + 1)
  <2>1. \A i \in 1 .. Len(expired) : lastRecvHbTime[expired[i]] \in Nat
    BY <1>0 DEF KickTargetsExpired
  <2>2. QED
    BY <1>0, <1>4, <2>1 DEF KickTargetsExpired, Overdue
<1>5. QED
  BY <1>1, <1>2, <1>3, <1>4, TickSteps
-----------------------------------------------------------------------------
(* The two-stage confirmation.                                             *)

\* The steps that touch the NameRouters.
LEMMA RouterSteps ==
    ASSUME [Next]_vars
    PROVE  \/ /\ UNCHANGED <<routers, confirmDeadline, onlineSvcHandle>>
              /\ now' = now \/ now' = now + 1
           \/ /\ now' = now
              /\ \E h \in Handles : Start2StageConfirm(h)
           \/ \E s \in Servers, n \in Names : OnRegisterNameRouter(s, n)
           \/ /\ now' = now
              /\ \E n \in Names : CommitConfirm(n, "PrepareAbort", "ERR_ROUTER_PREPARE_TIMEOUT")
<1> USE DEF routerVars
<1>1. CASE Clock
  BY <1>1 DEF Clock
<1>2. CASE Receive
  BY <1>2 DEF Receive, OnNotifiedAgentInfo, OnClosed, ReaderEnds
<1>3. CASE Handle
  BY <1>3 DEF Handle, RegisterApp, RegisterServiceAgain, RegisterServiceNoApp,
     RegisterService, UnRegister, OnServiceHeartbeat, OnServiceSyncAttr,
     OnServiceRunForElection, OnServiceGiveupElection, OnTick, RejectApp, RejectHandle, RejectRouter
<1>4. CASE Tick
  BY <1>4 DEF Tick, KickExpired, CheckExpired
<1>5. CASE UNCHANGED vars
  BY <1>5 DEF vars
<1>6. QED
  BY <1>1, <1>2, <1>3, <1>4, <1>5 DEF Next

\* The NameRouter of one name.
ConfirmOK(n) ==
    IF onlineSvcHandle[n] = NoHandle
    THEN /\ \A s \in Servers : routers[n][s] # "Preparing"
         /\ confirmDeadline[n] = 0
    ELSE /\ NameOf[onlineSvcHandle[n]] = n
         /\ HasRouters(n)
         /\ \A s \in Servers : routers[n][s] # "Ready"
         /\ confirmDeadline[n] <= now + ConfirmExpiredSecond
         /\ confirmDeadline[n] >= ConfirmExpiredSecond

LEMMA ConfirmStep == TypeOK /\ ConfirmConsistent /\ [Next]_vars => ConfirmConsistent'
<1> SUFFICES ASSUME TypeOK, ConfirmConsistent, [Next]_vars, NEW n \in Names
             PROVE  ConfirmOK(n)'
  BY DEF ConfirmConsistent, ConfirmOK, HasRouters
<1>0. /\ ConfirmOK(n)
      /\ now \in Nat
      /\ ConfirmExpiredSecond \in Nat
      /\ confirmDeadline \in [Names -> Nat]
      /\ routers \in [Names -> [Servers -> RouterStates]]
      /\ onlineSvcHandle \in [Names -> Handles \cup {NoHandle}]
  BY TimesType DEF ConfirmConsistent, ConfirmOK, TypeOK
<1>1. CASE /\ UNCHANGED <<routers, confirmDeadline, onlineSvcHandle>>
           /\ now' = now \/ now' = now + 1
  BY <1>0, <1>1 DEF ConfirmOK, HasRouters
<1>2. ASSUME NEW h \in Handles, Start2StageConfirm(h), now' = now
      PROVE  ConfirmOK(n)'
  <2> DEFINE f == [r \in Servers |-> IF routers[n][r] = "Absent" THEN "Absent" ELSE "Preparing"]
  <2>1. \/ UNCHANGED <<routers, confirmDeadline, onlineSvcHandle>>
        \/ /\ NameOf[h] # n
           /\ routers'[n] = routers[n]
           /\ confirmDeadline'[n] = confirmDeadline[n]
           /\ onlineSvcHandle'[n] = onlineSvcHandle[n]
        \/ /\ NameOf[h] = n
           /\ HasRouters(n)
           /\ routers'[n] = f
           /\ confirmDeadline'[n] = now + ConfirmExpiredSecond
           /\ onlineSvcHandle'[n] = h
    <3> DEFINE m == NameOf[h]
               g == [r \in Servers |-> IF routers[m][r] = "Absent" THEN "Absent" ELSE "Preparing"]
    <3>1. \/ UNCHANGED <<routers, confirmDeadline, onlineSvcHandle>>
          \/ /\ HasRouters(m)
             /\ routers' = [routers EXCEPT ![m] = g]
             /\ confirmDeadline' = [confirmDeadline EXCEPT ![m] = now + ConfirmExpiredSecond]
             /\ onlineSvcHandle' = [onlineSvcHandle EXCEPT ![m] = h]
      BY <1>2 DEF Start2StageConfirm, AllRouters, routerVars
    <3>2. m = n => g = f
      OBVIOUS
    <3> HIDE DEF f, g, m
    <3>3. QED
      BY <1>0, <3>1, <3>2 DEF m
  <2>2. CASE UNCHANGED <<routers, confirmDeadline, onlineSvcHandle>>
    BY <1>0, <1>2, <2>2 DEF ConfirmOK, HasRouters
  <2>3. CASE /\ routers'[n] = routers[n]
             /\ confirmDeadline'[n] = confirmDeadline[n]
             /\ onlineSvcHandle'[n] = onlineSvcHandle[n]
    BY <1>0, <1>2, <2>3 DEF ConfirmOK, HasRouters
  <2>4. CASE /\ NameOf[h] = n
             /\ HasRouters(n)
             /\ routers'[n] = f
             /\ confirmDeadline'[n] = now + ConfirmExpiredSecond
             /\ onlineSvcHandle'[n] = h
    <3>1. HasRouters(n)' /\ \A r \in Servers : routers'[n][r] # "Ready"
      BY <2>4 DEF HasRouters
    <3>2. QED
      BY <1>0, <1>2, <2>4, <3>1, NoValues DEF ConfirmOK
  <2>5. QED
    BY <2>1, <2>2, <2>3, <2>4
<1>3. ASSUME NEW s \in Servers, NEW m \in Names, OnRegisterNameRouter(s, m)
      PROVE  ConfirmOK(n)'
  <2>1. UNCHANGED <<now, confirmDeadline, onlineSvcHandle>>
    BY <1>3 DEF OnRegisterNameRouter
  <2>2. CASE m # n
    <3>1. routers'[n] = routers[n]
      BY <1>0, <1>3, <2>2 DEF OnRegisterNameRouter
    <3>2. QED
      BY <1>0, <2>1, <3>1 DEF ConfirmOK, HasRouters
  <2>3. CASE m = n /\ onlineSvcHandle[n] # NoHandle
    <3>1. routers'[n] = [routers[n] EXCEPT ![s] = "Preparing"]
      BY <1>0, <1>3, <2>3 DEF OnRegisterNameRouter
    <3>2. HasRouters(n)' /\ \A r \in Servers : routers[n][r] # "Ready" => routers'[n][r] # "Ready"
      BY <1>0, <3>1 DEF HasRouters
    <3>3. QED
      BY <1>0, <2>1, <2>3, <3>2 DEF ConfirmOK
  <2>4. CASE m = n /\ onlineSvcHandle[n] = NoHandle
    <3>1. routers'[n] = [routers[n] EXCEPT ![s] = "Ready"]
      BY <1>0, <1>3, <2>4 DEF OnRegisterNameRouter
    <3>2. QED
      BY <1>0, <2>1, <2>4, <3>1 DEF ConfirmOK
  <2>5. QED
    BY <2>2, <2>3, <2>4
<1>4. ASSUME NEW m \in Names, now' = now,
             CommitConfirm(m, "PrepareAbort", "ERR_ROUTER_PREPARE_TIMEOUT")
      PROVE  ConfirmOK(n)'
  <2>1. CASE m # n
    <3>1. /\ routers'[n] = routers[n]
          /\ confirmDeadline'[n] = confirmDeadline[n]
          /\ onlineSvcHandle'[n] = onlineSvcHandle[n]
      BY <1>0, <1>4, <2>1 DEF CommitConfirm, AllRouters
    <3>2. QED
      BY <1>0, <1>4, <3>1 DEF ConfirmOK, HasRouters
  <2>2. CASE m = n
    <3>1. /\ \A r \in Servers : routers'[n][r] # "Preparing"
          /\ confirmDeadline'[n] = 0
          /\ onlineSvcHandle'[n] = NoHandle
      BY <1>0, <1>4, <2>2 DEF CommitConfirm, AllRouters
    <3>2. QED
      BY <3>1 DEF ConfirmOK
  <2>3. QED
    BY <2>1, <2>2
<1>5. QED
  BY <1>1, <1>2, <1>3, <1>4, RouterSteps
-----------------------------------------------------------------------------
(* The theorems.                                                           *)

\* The inductive invariant.  RegistryConsistent makes list.Remove well defined
\* for the types and the order; HbNotAhead makes the back of the list the right
\* place for the service just heard of.
IInv ==
    /\ TypeOK
    /\ RegistryConsistent
    /\ HbNotAhead
    /\ LruOrdered
    /\ ElectionConsistent
    /\ SessionInv
    /\ KickTargetsExpired
    /\ ConfirmConsistent

LEMMA InitIInv == Init => IInv
<1> SUFFICES ASSUME Init PROVE IInv
  OBVIOUS
<1>1. TypeOK
  <2>1. 0 \in 0 .. MaxTime /\ "Absent" \in RouterStates
    BY TimesType DEF RouterStates
  <2>2. routers \in [Names -> [Servers -> RouterStates]]
    BY <2>1 DEF Init
  <2>3. out \in [Servers -> Seq(Messages)]
    BY SilentType DEF Init, Outputs
  <2>4. svclruList \in Seq(Handles) /\ expired \in Seq(Handles)
    BY DEF Init
  <2>5. QED
    BY <2>1, <2>2, <2>3, <2>4 DEF Init, TypeOK
<1>2. RegistryConsistent /\ LruOrdered /\ KickTargetsExpired
  BY DEF Init, RegistryConsistent, LruOrdered, KickTargetsExpired
<1>3. HbNotAhead /\ ElectionConsistent /\ SessionInv /\ ConfirmConsistent
  BY DEF Init, HbNotAhead, ElectionConsistent, SessionInv, SessionAlone, SessionHeld,
     ConfirmConsistent
<1>4. QED
  BY <1>1, <1>2, <1>3 DEF IInv

LEMMA StepIInv == IInv /\ [Next]_vars => IInv'
BY TypeStep, RegistryStep, HbStep, LruStep, ElectionStep, SessionsStep, KickStep, ConfirmStep
   DEF IInv

LEMMA InvariantIInv == Spec => []IInv
<1>1. Init => IInv
  BY InitIInv
<1>2. IInv /\ [Next]_vars => IInv'
  BY StepIInv
<1>3. QED
  BY <1>1, <1>2, PTL DEF Spec

\* Every variable of the name server stays within its type.
THEOREM TypeCorrect == Spec => []TypeOK
<1>1. IInv => TypeOK
  BY DEF IInv
<1>2. QED
  BY <1>1, InvariantIInv, PTL

\* The two maps and the LRU list of the registry always agree: the lookups of
\* app.go:252 and app.go:309 never return nil.
THEOREM RegistryAlwaysConsistent == Spec => []RegistryConsistent
<1>1. IInv => RegistryConsistent
  BY DEF IInv
<1>2. QED
  BY <1>1, InvariantIInv, PTL

\* Candidates and leader of a name always agree and are registered services:
\* "candidates but no leader??" (app.go:318) cannot happen.
THEOREM ElectionAlwaysConsistent == Spec => []ElectionConsistent
<1>1. IInv => ElectionConsistent
  BY DEF IInv
<1>2. QED
  BY <1>1, InvariantIInv, PTL

\* The LRU list is always ordered by heartbeat.
THEOREM LruAlwaysOrdered == Spec => []LruOrdered
<1>1. IInv => LruOrdered
  BY DEF IInv
<1>2. QED
  BY <1>1, InvariantIInv, PTL

\* A router is prepared only within a confirmation: "should not happen"
\* (router.go:68) does not.
THEOREM ConfirmAlwaysConsistent == Spec => []ConfirmConsistent
<1>1. IInv => ConfirmConsistent
  BY DEF IInv
<1>2. QED
  BY <1>1, InvariantIInv, PTL

\* The tick kicks off only registered, silent services, each once.
THEOREM KickSafety == Spec => []KickTargetsExpired
<1>1. IInv => KickTargetsExpired
  BY DEF IInv
<1>2. QED
  BY <1>1, InvariantIInv, PTL

\* The session of an open connection leads to it, whatever the readers and the
\* writers of earlier connections of the agent did, in any order, up to the end
\* of their readers; connections of one address that overlapped are excepted.
THEOREM SessionsAreHeld == Spec => []SessionHeld
<1>1. IInv => SessionHeld
  BY DEF IInv, SessionInv
<1>2. QED
  BY <1>1, InvariantIInv, PTL

\* Whoever was heard of earlier than a silent service is silent too.
LEMMA OlderIsDue ==
    ASSUME NEW a \in Nat, NEW b \in Nat, NEW d \in Nat, NEW t \in Nat, a <= b, b + d <= t
    PROVE  a + d <= t
  OBVIOUS

\* The scan of the tick, which stops at the first service that is alive, misses
\* no service that is due: this is what the order of the list is for.
THEOREM ScanIsComplete == Spec => ScanComplete
<1> DEFINE Due == unchecked = {} /\ unchecked' # {}
               => \/ Len(expired') = CheckAliveMaxNumPerTickPerApp
                  \/ \A h \in services :
                        Overdue(h) => \E i \in 1 .. Len(expired') : expired'[i] = h
<1>1. IInv /\ [Next]_vars => [Due]_vars
  <2> SUFFICES ASSUME IInv, Next, unchecked = {}, unchecked' # {},
                      Len(expired') # CheckAliveMaxNumPerTickPerApp,
                      NEW h \in services, Overdue(h)
               PROVE  \E i \in 1 .. Len(expired') : expired'[i] = h
    OBVIOUS
  <2>1. OnTick
    BY DEF Next, Receive, Handle, Tick, tickVars, Clock, OnNotifiedAgentInfo, OnClosed, ReaderEnds,
       RegisterApp, RegisterServiceAgain, RegisterServiceNoApp, RegisterService, UnRegister,
       OnServiceHeartbeat, OnServiceSyncAttr, OnServiceRunForElection,
       OnServiceGiveupElection, OnRegisterNameRouter, RejectApp, RejectHandle, RejectRouter, KickExpired, CheckExpired
  <2>2. PICK k \in 0 .. Len(svclruList) : IsScanEnd(k) /\ expired' = SubSeq(svclruList, 1, k)
    BY <2>1 DEF OnTick
  <2>3. /\ svclruList \in Seq(Handles)
        /\ now \in Nat
        /\ lastRecvHbTime \in [Handles -> Nat]
        /\ ServiceKeepaliveTime \in Nat
        /\ CheckAliveMaxNumPerTickPerApp \in Nat
    BY TimesType DEF IInv, TypeOK
  <2>4. Len(expired') = k /\ \A i \in 1 .. k : expired'[i] = svclruList[i]
    BY <2>2, <2>3, SubSeqProperties
  <2>5. PICK p \in 1 .. Len(svclruList) : svclruList[p] = h
    BY DEF IInv, RegistryConsistent
  <2>6. ASSUME p > k
        PROVE  FALSE
    <3>1. k + 1 \in 1 .. Len(svclruList) /\ k + 1 <= p /\ k < CheckAliveMaxNumPerTickPerApp
      BY <2>2, <2>3, <2>4, <2>5, <2>6 DEF IsScanEnd
    <3>2. ~IsExpired(svclruList[k + 1])
      BY <2>2, <2>3, <3>1 DEF IsScanEnd
    <3>3. lastRecvHbTime[svclruList[k + 1]] <= lastRecvHbTime[svclruList[p]]
      BY <2>5, <3>1 DEF IInv, LruOrdered
    <3>4. svclruList[k + 1] \in Handles /\ svclruList[p] \in Handles
      BY <2>3, <2>5, <3>1, ElementOfSeq
    <3>5. lastRecvHbTime[svclruList[k + 1]] \in Nat /\ lastRecvHbTime[svclruList[p]] \in Nat
      BY <2>3, <3>4
    <3>6. lastRecvHbTime[svclruList[p]] + ServiceKeepaliveTime <= now
      BY <2>3, <2>5, <3>5 DEF Overdue
    <3>7. ~(lastRecvHbTime[svclruList[k + 1]] + ServiceKeepaliveTime <= now)
      BY <3>2 DEF IsExpired
    <3>8. QED
      BY <2>3, <3>3, <3>5, <3>6, <3>7, OlderIsDue
  <2>7. p \in 1 .. k
    BY <2>2, <2>3, <2>5, <2>6
  <2>8. QED
    BY <2>4, <2>5, <2>7
<1>2. QED
  BY <1>1, InvariantIInv, PTL DEF Spec, ScanComplete

\* A leader is never deposed, and the freshest candidate succeeds it.
THEOREM LeadersAreStable == Spec => LeaderStable
<1> DEFINE Stable(n) ==
             electionLeaders[n] # NoHandle /\ electionLeaders'[n] # electionLeaders[n]
             => /\ electionLeaders[n] \notin electionCandidates'[n]
                /\ \A g \in electionCandidates'[n] :
                      lastRecvHbTime[g] <= lastRecvHbTime[electionLeaders'[n]]
<1>1. IInv /\ [Next]_vars => [\A n \in Names : Stable(n)]_vars
  <2> SUFFICES ASSUME IInv, Next, NEW n \in Names, electionLeaders[n] # NoHandle,
                      electionLeaders'[n] # electionLeaders[n]
               PROVE  /\ electionLeaders[n] \notin electionCandidates'[n]
                      /\ \A g \in electionCandidates'[n] :
                            lastRecvHbTime[g] <= lastRecvHbTime[electionLeaders'[n]]
    OBVIOUS
  <2>0. TypeOK
    BY DEF IInv
  <2>1. ASSUME NEW h \in Handles, OnServiceRunForElection(h)
        PROVE  FALSE
    BY <2>0, <2>1 DEF OnServiceRunForElection, TypeOK
  <2>2. PICK h, rest : h \in handleServices /\ GiveupElection(h, rest)
    BY <2>1, ElectionSteps
  <2>3. h \in Handles /\ NameOf[h] \in Names
    BY <2>0, <2>2, NameOfType DEF TypeOK
  <2>4. NameOf[h] = n /\ electionLeaders[n] = h
    BY <2>0, <2>2, <2>3 DEF GiveupElection, electVars, TypeOK
  <2>5. electionCandidates'[n] = electionCandidates[n] \ {h}
    BY <2>0, <2>2, <2>3, <2>4 DEF GiveupElection, electVars, TypeOK
  <2>6. \/ electionLeaders'[n] \in Freshest(electionCandidates[n] \ {h})
        \/ electionCandidates[n] \ {h} = {}
    BY <2>0, <2>2, <2>3, <2>4 DEF GiveupElection, electVars, TypeOK
  <2>7. QED
    BY <2>4, <2>5, <2>6 DEF Freshest
<1>2. QED
  BY <1>1, InvariantIInv, PTL DEF Spec, LeaderStable

-----------------------------------------------------------------------------
(* The elections of the name server implement Election.                    *)

Contest == INSTANCE Election WITH
    members <- services, candidates <- electionCandidates, leader <- electionLeaders

electionState == <<services, electionCandidates, electionLeaders>>

LEMMA ElectionRun ==
    ASSUME IInv, NEW h \in Handles, OnServiceRunForElection(h)
    PROVE  Contest!Run(h) \/ UNCHANGED electionState
<1> DEFINE n == NameOf[h]
<1>1. /\ n \in Names /\ h # NoHandle
      /\ electionCandidates \in [Names -> SUBSET Handles]
      /\ electionLeaders \in [Names -> Handles \cup {NoHandle}]
  BY NameOfType, NoValues DEF IInv, TypeOK
<1>2. /\ electionCandidates[n] # {} => electionLeaders[n] \in electionCandidates[n]
      /\ electionCandidates[n] = {} => electionLeaders[n] = NoHandle
      /\ NoHandle \notin electionCandidates[n]
  BY <1>1, NoValues DEF IInv, ElectionConsistent
<1>3. h \in services /\ services' = services
  BY DEF OnServiceRunForElection, regVars, IInv, RegistryConsistent
<1>4. electionCandidates' = [electionCandidates EXCEPT ![n] = @ \cup {h}]
  BY DEF OnServiceRunForElection
<1>5. CASE h \in electionCandidates[n]
  <2>1. electionLeaders' = electionLeaders
    BY <1>1, <1>2, <1>5 DEF OnServiceRunForElection
  <2>2. electionCandidates' = electionCandidates
    BY <1>1, <1>4, <1>5
  <2>3. QED
    BY <1>3, <2>1, <2>2 DEF electionState
<1>6. CASE h \notin electionCandidates[n]
  <2>1. IF electionCandidates[n] = {}
        THEN electionLeaders' = [electionLeaders EXCEPT ![n] = h]
        ELSE UNCHANGED electionLeaders
    BY <1>1, <1>2, <1>6 DEF OnServiceRunForElection
  <2>2. QED
    BY <1>3, <1>4, <1>6, <2>1 DEF Contest!Run, Contest!Lead
<1>7. QED
  BY <1>5, <1>6

LEMMA ElectionGiveup ==
    ASSUME NEW h \in Handles, NEW rest, GiveupElection(h, rest)
    PROVE  \/ Contest!Withdraw(h)
           \/ h \notin electionCandidates[NameOf[h]] /\ UNCHANGED electVars
BY DEF GiveupElection, Freshest, electVars, Contest!Withdraw, Contest!Lead

LEMMA ElectionUnregisters ==
    ASSUME IInv, NEW h \in Handles, NEW kickOff, UnRegisterService(h, kickOff)
    PROVE  Contest!Leave(h)
<1>1. h \in services /\ services' = services \ {h}
  BY DEF UnRegisterService, RemoveItem, IInv, RegistryConsistent
<1>2. PICK rest : GiveupElection(h, rest)
  BY DEF UnRegisterService
<1>3. QED
  BY <1>1, <1>2, ElectionGiveup DEF Contest!Leave, electVars

\* What a step of the name server does to the registry and the elections.
LEMMA ContestStep == IInv /\ [Next]_vars => [Contest!Next]_electionState
<1> SUFFICES ASSUME IInv, [Next]_vars
             PROVE  Contest!Next \/ UNCHANGED electionState
  OBVIOUS
<1>1. ASSUME NEW h \in Handles, OnServiceRunForElection(h)
      PROVE  Contest!Next \/ UNCHANGED electionState
  BY <1>1, ElectionRun DEF Contest!Next
<1>2. ASSUME NEW h \in Handles, OnServiceGiveupElection(h)
      PROVE  Contest!Next \/ UNCHANGED electionState
  <2>1. services' = services /\ GiveupElection(h, Silent)
    BY <1>2 DEF OnServiceGiveupElection, regVars
  <2>2. Contest!GiveUp(h) \/ UNCHANGED electionState
    BY <2>1, ElectionGiveup DEF Contest!GiveUp, electionState, electVars
  <2>3. QED
    BY <2>2 DEF Contest!Next
<1>3. ASSUME NEW h \in Handles, UnRegister(h)
      PROVE  Contest!Next
  BY <1>3, ElectionUnregisters DEF UnRegister, Contest!Next
<1>4. CASE KickExpired
  <2>1. Head(expired) \in Handles
    BY <1>4 DEF KickExpired, IInv, TypeOK
  <2>2. QED
    BY <1>4, <2>1, ElectionUnregisters DEF KickExpired, Contest!Next
<1>5. ASSUME NEW h \in Handles, NEW b \in BOOLEAN, RegisterService(h, b)
      PROVE  Contest!Next
  <2>1. Contest!Enter(h)
    BY <1>5 DEF RegisterService, AddItem, electVars, Contest!Enter, IInv, RegistryConsistent
  <2>2. QED
    BY <2>1 DEF Contest!Next
<1>6. CASE \/ Clock \/ Receive \/ OnTick
           \/ \E s \in Servers : RegisterApp(s) \/ RejectApp(s)
           \/ \E h \in Handles : \/ RegisterServiceAgain(h) \/ RegisterServiceNoApp(h)
                                 \/ OnServiceHeartbeat(h) \/ OnServiceSyncAttr(h)
                                 \/ RejectHandle(h)
           \/ \E s \in Servers, n \in Names : OnRegisterNameRouter(s, n) \/ RejectRouter(s, n)
           \/ \E n \in Names : CheckExpired(n)
           \/ UNCHANGED vars
  <2>1. UNCHANGED electionState
    BY <1>6 DEF Clock, Receive, OnTick, RegisterApp, RejectApp, RegisterServiceAgain,
                RegisterServiceNoApp, OnServiceHeartbeat, OnServiceSyncAttr, RejectHandle,
                OnRegisterNameRouter, RejectRouter, CheckExpired, OnNotifiedAgentInfo, OnClosed,
                ReaderEnds,
                vars, regVars, electVars, electionState
  <2>2. QED
    BY <2>1
<1>7. QED
  BY <1>1, <1>2, <1>3, <1>4, <1>5, <1>6 DEF Next, Handle, Tick

\* The registry and the elections of the name server implement Election: services
\* come and go, run and give up one at a time, whoever runs first leads, a leader
\* leads until it leaves (OnServiceGiveupElection, app.go:308), and a service that is
\* unregistered or kicked off leaves its election in the same step.
THEOREM NameServerImplementsElection == Spec => Contest!Spec
<1>1. Init => Contest!Init
  BY DEF Init, Contest!Init
<1>2. IInv /\ [Next]_vars => [Contest!Next]_<<services, electionCandidates, electionLeaders>>
  BY ContestStep DEF electionState
<1>3. QED
  BY <1>1, <1>2, InvariantIInv, PTL DEF Spec, Contest!Spec

-----------------------------------------------------------------------------
(* The composed system.                                                    *)
(*                                                                         *)
(* Every step of the composed system is a step of the name server or leaves *)
(* it alone.                                                                *)

\* A request the name server takes from a queue is a step of one of its handlers.
LEMMA HandleRequestIsHandle ==
    ASSUME NEW s \in Servers, AgentTypeOK, HandleRequest(s)
    PROVE  Next
<1> DEFINE m == Head(up[s])
<1>1. m \in Requests
  BY DEF AgentTypeOK, HandleRequest
<1>2. CASE m.cmd = "REGISTER_APP"
  BY <1>2 DEF HandleRequest, Next, Handle
<1>3. CASE m.cmd # "REGISTER_APP"
  <2>1. m.handle \in Handles
    BY <1>1, <1>3 DEF Requests
  <2>2. \/ RegisterServiceAgain(m.handle)
        \/ RegisterServiceNoApp(m.handle)
        \/ RegisterService(m.handle, FALSE)
        \/ UnRegister(m.handle)
        \/ OnServiceHeartbeat(m.handle)
        \/ OnServiceRunForElection(m.handle)
        \/ OnServiceGiveupElection(m.handle)
        \/ RejectHandle(m.handle)
    BY <1>3 DEF HandleRequest
  <2>3. QED
    BY <2>1, <2>2 DEF Next, Handle
<1>4. QED
  BY <1>2, <1>3

LEMMA ComponentStep ==
    ASSUME AgentTypeOK, [CPNext]_allVars
    PROVE  [Next]_vars
<1>1. CASE ApiCall
  <2>1. ASSUME NEW s \in Servers, Start(s) PROVE Next
    BY <2>1 DEF Start, Next, Receive
  <2>2. ASSUME NEW h \in Handles,
               \/ RegisterSend(h) \/ RegisterInsert(h) \/ RegisterFail(h)
               \/ UnRegisterCall(h)
               \/ \E caller \in Callers : UnRegisterDelete(h, caller)
               \/ Keepalive(h) \/ RunForElection(h) \/ GiveUpElection(h)
        PROVE  UNCHANGED vars
    BY <2>2 DEF RegisterSend, RegisterInsert, RegisterFail, UnRegisterCall, UnRegisterDelete,
                Keepalive, RunForElection, GiveUpElection, AgentStep
  <2>3. QED
    BY <1>1, <2>1, <2>2 DEF ApiCall
<1>2. ASSUME NEW s \in Servers, HandleRequest(s) \/ DropRequest(s) \/ HandleEvent(s)
      PROVE  [Next]_vars
  BY <1>2, HandleRequestIsHandle DEF DropRequest, HandleEvent, AgentStep
<1>3. CASE NameServerTick
  BY <1>3 DEF NameServerTick, Next, Handle
<1>4. CASE UNCHANGED allVars
  BY <1>4 DEF allVars
<1>5. QED
  BY <1>1, <1>2, <1>3, <1>4 DEF CPNext

-----------------------------------------------------------------------------
(* The types of the agents' state.                                         *)

LEMMA SendUpType ==
    ASSUME AgentTypeOK, NEW s \in Servers, NEW m \in Requests, SendUp(s, m)
    PROVE  up' \in [Servers -> Seq(Requests)]
BY DEF AgentTypeOK, SendUp

LEMMA RequestType ==
    ASSUME NEW h \in Handles,
           NEW c \in {"REGISTER_SERVICE", "UNREGISTER_SERVICE", "HEARTBEAT",
                      "RUN_FOR_LEADER", "GIVE_UP_LEADER"}
    PROVE  Request(c, h) \in Requests
BY DEF Request, Requests

LEMMA UnRegisterStopType ==
    ASSUME AgentTypeOK, NEW h \in Handles, NEW caller \in Callers, UnRegisterStop(h, caller)
    PROVE  /\ removing' \in [Handles -> SUBSET Callers]
           /\ up' \in [Servers -> Seq(Requests)]
<1>1. ServerOf[h] \in Servers
  BY NameOfType
<1>2. QED
  BY <1>1, SendUpType, RequestType DEF UnRegisterStop, AgentTypeOK

LEMMA ApiCallType == AgentTypeOK /\ ApiCall => AgentTypeOK'
<1> SUFFICES ASSUME AgentTypeOK, ApiCall PROVE AgentTypeOK'
  OBVIOUS
<1>1. ASSUME NEW s \in Servers, Start(s) PROVE AgentTypeOK'
  <2>1. [cmd |-> "REGISTER_APP"] \in Requests
    BY DEF Requests
  <2>2. QED
    BY <1>1, <2>1, SendUpType DEF Start, AgentTypeOK
<1>2. ASSUME NEW h \in Handles PROVE ServerOf[h] \in Servers
  BY <1>2, NameOfType
<1>3. ASSUME NEW h \in Handles, RegisterSend(h) PROVE AgentTypeOK'
  BY <1>2, <1>3, SendUpType, RequestType DEF RegisterSend, AgentTypeOK, SvcStates
<1>4. ASSUME NEW h \in Handles, RegisterInsert(h) PROVE AgentTypeOK'
  BY <1>4 DEF RegisterInsert, AgentTypeOK, SvcStates
<1>5. ASSUME NEW h \in Handles, RegisterFail(h) PROVE AgentTypeOK'
  <2>1. /\ removing' \in [Handles -> SUBSET Callers]
        /\ up' \in [Servers -> Seq(Requests)]
    BY <1>5, UnRegisterStopType DEF RegisterFail, AgentTypeOK, Callers
  <2>2. svc' \in [Handles -> SvcStates] /\ waiters' \in SUBSET Handles
    BY <1>5 DEF RegisterFail, AgentTypeOK, SvcStates
  <2>3. QED
    BY <1>5, <2>1, <2>2 DEF RegisterFail, AgentTypeOK
<1>6. ASSUME NEW h \in Handles, UnRegisterCall(h) PROVE AgentTypeOK'
  <2>1. /\ removing' \in [Handles -> SUBSET Callers]
        /\ up' \in [Servers -> Seq(Requests)]
    BY <1>6, UnRegisterStopType DEF UnRegisterCall, Callers
  <2>2. QED
    BY <1>6, <2>1 DEF UnRegisterCall, AgentTypeOK
<1>7. ASSUME NEW h \in Handles, NEW caller \in Callers, UnRegisterDelete(h, caller)
      PROVE  AgentTypeOK'
  BY <1>7 DEF UnRegisterDelete, AgentTypeOK, SvcStates
<1>8. ASSUME NEW h \in Handles, Keepalive(h) PROVE AgentTypeOK'
  BY <1>2, <1>8, SendUpType, RequestType DEF Keepalive, AgentTypeOK, agentVars
<1>9. ASSUME NEW h \in Handles, RunForElection(h) PROVE AgentTypeOK'
  BY <1>2, <1>9, SendUpType, RequestType DEF RunForElection, AgentTypeOK
<1>10. ASSUME NEW h \in Handles, GiveUpElection(h) PROVE AgentTypeOK'
  BY <1>2, <1>10, SendUpType, RequestType DEF GiveUpElection, AgentTypeOK, agentVars
<1>11. QED
  BY <1>1, <1>3, <1>4, <1>5, <1>6, <1>7, <1>8, <1>9, <1>10 DEF ApiCall

\* What the name server sends is well typed (TypeOK'), hence what is under way.
LEMMA DeliverType ==
    ASSUME AgentTypeOK, TypeOK', Deliver
    PROVE  down' \in [Servers -> Seq(Messages)]
<1>1. ASSUME NEW s \in Servers PROVE down[s] \o out'[s] \in Seq(Messages)
  BY ConcatProperties DEF AgentTypeOK, TypeOK
<1>2. QED
  BY <1>1 DEF Deliver

LEMMA HandleEventType ==
    ASSUME AgentTypeOK, NEW s \in Servers, HandleEvent(s)
    PROVE  AgentTypeOK'
<1> DEFINE m == Head(down[s])
<1>1. m \in Messages /\ down' \in [Servers -> Seq(Messages)]
  BY DEF HandleEvent, AgentTypeOK
<1>2. CASE m.cmd = "RSP_REGISTER_APP" /\ OnRegisterApp(s, m)
  <2>1. m.leaders \subseteq Handles
    BY <1>1, <1>2 DEF Messages
  <2>2. ASSUME NEW n \in Names
        PROVE  (IF \E h \in m.leaders : NameOf[h] = n
                THEN CHOOSE h \in m.leaders : NameOf[h] = n ELSE leader[s][n])
               \in Handles \cup {NoHandle}
    BY <2>1 DEF AgentTypeOK
  <2> HIDE DEF m
  <2>3. leader' \in [Servers -> [Names -> Handles \cup {NoHandle}]]
    BY <1>2, <2>2 DEF OnRegisterApp, AgentTypeOK
  <2>4. QED
    BY <1>1, <1>2, <2>3 DEF OnRegisterApp, AgentTypeOK
<1>3. CASE m.cmd = "RSP_REGISTER_SERVICE" /\ OnRegisterRsp(s, m)
  <2>1. m.handle \in Handles
    BY <1>1, <1>3 DEF Messages
  <2> HIDE DEF m
  <2>2. QED
    BY <1>1, <1>3, <2>1 DEF OnRegisterRsp, AgentTypeOK, SvcStates
<1>4. CASE m.cmd = "NOTIFY_SERVICE_ELECTION_RESULT"
           /\ (OnRunForElectionResult(s, m) \/ OnGiveUpElectionResult(s, m))
  <2>1. m.handle \in Handles /\ NameOf[m.handle] \in Names
    BY <1>1, <1>4, NameOfType DEF Messages
  <2> HIDE DEF m
  <2> DEFINE L == [Names -> Handles \cup {NoHandle}]
             set(h) == [leader EXCEPT ![s][NameOf[m.handle]] = h]
  <2>2. leader \in [Servers -> L] /\ leader[s] \in L
    BY DEF AgentTypeOK
  <2>3. ASSUME NEW h \in Handles \cup {NoHandle} PROVE set(h) \in [Servers -> L]
    <3>1. [leader[s] EXCEPT ![NameOf[m.handle]] = h] \in L
      BY <2>1, <2>2
    <3>2. QED
      BY <2>2, <3>1
  <2>4. leader' = leader \/ leader' = set(m.handle) \/ leader' = set(NoHandle)
    BY <1>4 DEF OnRunForElectionResult, OnGiveUpElectionResult
  <2>5. leader' \in [Servers -> L]
    BY <2>1, <2>2, <2>3, <2>4
  <2>6. candidates' \in SUBSET Handles
    BY <1>4, <2>1 DEF OnRunForElectionResult, OnGiveUpElectionResult, AgentTypeOK
  <2>7. UNCHANGED <<started, svc, waiters, removing, up>>
    BY <1>4 DEF OnRunForElectionResult, OnGiveUpElectionResult
  <2>8. QED
    BY <1>1, <2>5, <2>6, <2>7 DEF AgentTypeOK
<1>5. CASE m.cmd = "NOTIFY_SERVICE_KICK_OFF" /\ OnKickOff(s, m)
  <2>1. m.handle \in Handles
    BY <1>1, <1>5 DEF Messages
  <2> HIDE DEF m
  <2>2. /\ removing' \in [Handles -> SUBSET Callers]
        /\ up' \in [Servers -> Seq(Requests)]
    BY <1>5, <2>1, UnRegisterStopType DEF OnKickOff, AgentTypeOK, Callers
  <2>3. QED
    BY <1>1, <1>5, <2>2 DEF OnKickOff, AgentTypeOK
<1>6. CASE UNCHANGED <<agentVars, up>>
  BY <1>1, <1>6 DEF AgentTypeOK, agentVars
<1>7. QED
  BY <1>2, <1>3, <1>4, <1>5, <1>6 DEF HandleEvent

\* The inductive invariant of the composed system: the name server's own and
\* the types of the agents' state.
CPInv == IInv /\ AgentTypeOK

LEMMA InitCPInv == CPInit => CPInv
<1> SUFFICES ASSUME CPInit PROVE CPInv
  OBVIOUS
<1>1. IInv
  BY InitIInv DEF CPInit
<1>2. AgentTypeOK
  BY DEF CPInit, AgentTypeOK, SvcStates
<1>3. QED
  BY <1>1, <1>2 DEF CPInv

LEMMA StepCPInv == CPInv /\ [CPNext]_allVars => CPInv'
<1> SUFFICES ASSUME CPInv, [CPNext]_allVars PROVE CPInv'
  OBVIOUS
<1>1. AgentTypeOK /\ IInv
  BY DEF CPInv
<1>2. IInv'
  BY <1>1, ComponentStep, StepIInv
<1>3. TypeOK'
  BY <1>2 DEF IInv
<1> SUFFICES AgentTypeOK'
  BY <1>2 DEF CPInv
<1>4. CASE ApiCall
  BY <1>1, <1>4, ApiCallType
<1>5. ASSUME NEW s \in Servers, HandleRequest(s) PROVE AgentTypeOK'
  <2>1. up' \in [Servers -> Seq(Requests)]
    BY <1>1, <1>5 DEF HandleRequest, AgentTypeOK
  <2>2. down' \in [Servers -> Seq(Messages)]
    BY <1>1, <1>3, <1>5, DeliverType DEF HandleRequest
  <2>3. UNCHANGED agentVars
    BY <1>5 DEF HandleRequest
  <2>4. QED
    BY <1>1, <2>1, <2>2, <2>3 DEF AgentTypeOK, agentVars
<1>6. ASSUME NEW s \in Servers, DropRequest(s) PROVE AgentTypeOK'
  BY <1>1, <1>6 DEF DropRequest, AgentTypeOK, agentVars
<1>7. ASSUME NEW s \in Servers, HandleEvent(s) PROVE AgentTypeOK'
  BY <1>1, <1>7, HandleEventType
<1>8. CASE NameServerTick
  <2>1. down' \in [Servers -> Seq(Messages)]
    BY <1>1, <1>3, <1>8, DeliverType DEF NameServerTick
  <2>2. QED
    BY <1>1, <1>8, <2>1 DEF NameServerTick, AgentTypeOK, agentVars
<1>9. CASE UNCHANGED allVars
  BY <1>1, <1>9 DEF AgentTypeOK, allVars, agentVars
<1>10. QED
  BY <1>4, <1>5, <1>6, <1>7, <1>8, <1>9 DEF CPNext

-----------------------------------------------------------------------------
(* Theorems.                                                               *)

\* The composed system is type correct: no request or event of a wrong shape
\* is ever under way and every handle in it is one of the services' handles.
THEOREM ControlPlaneTypes == CPSpec => []CPTypeOK
<1>1. CPInit => CPInv
  BY InitCPInv
<1>2. CPInv /\ [CPNext]_allVars => CPInv'
  BY StepCPInv
<1>3. CPInv => CPTypeOK
  BY DEF CPInv, CPTypeOK, IInv
<1>4. QED
  BY <1>1, <1>2, <1>3, PTL DEF CPSpec

\* The composed system implements the specification of the name server alone:
\* agents reach it only through its handlers and its sessions, whatever their
\* interleaving, timeouts and retries.
THEOREM ControlPlaneImplementsNameServer == CPSpec => Spec
<1>1. CPInit => CPInv /\ Init
  BY InitCPInv DEF CPInit
<1>2. CPInv /\ [CPNext]_allVars => CPInv'
  BY StepCPInv
<1>3. CPInv /\ [CPNext]_allVars => [Next]_vars
  BY ComponentStep DEF CPInv
<1>4. QED
  BY <1>1, <1>2, <1>3, PTL DEF CPSpec, Spec

\* And so it implements Election: agents that time out, retry, stop or reconnect
\* never make a service lead that does not run, nor depose a leader.
THEOREM ControlPlaneImplementsElection == CPSpec => Contest!Spec
BY ControlPlaneImplementsNameServer, NameServerImplementsElection, PTL

\* The registry and the elections stay consistent under agents that race their
\* own registrations: no handler dereferences a missing service (app.go:252) and
\* no service that is gone leads.
THEOREM ControlPlaneKeepsRegistry ==
    CPSpec => [](RegistryConsistent /\ ElectionConsistent)
<1>1. IInv => RegistryConsistent /\ ElectionConsistent
  BY DEF IInv
<1>2. QED
  BY <1>1, ControlPlaneImplementsNameServer, InvariantIInv, PTL

-----------------------------------------------------------------------------
(* Elections: what an agent believes once it has handled the events q.     *)

ElectionCmd == "NOTIFY_SERVICE_ELECTION_RESULT"

\* Event m is the result of a run for leader (or of giving it up) of handle g.
IsRun(m, g) ==
    m.cmd = ElectionCmd /\ m.event = "RunForLeader" /\ m.result = "OK" /\ m.handle = g
IsGiveUp(m, g) == m.cmd = ElectionCmd /\ m.event = "GiveUpLeader" /\ m.handle = g

\* Another service of h's name leads.
Takes(m, h) == \E g \in Handles \ {h} : NameOf[g] = NameOf[h] /\ IsRun(m, g)

\* Event m makes h the leader at an agent; ends that; or replaces it.
Sets(m, h) == IsRun(m, h) \/ (m.cmd = "RSP_REGISTER_APP" /\ h \in m.leaders)
Ends(m, h) == Takes(m, h) \/ (IsGiveUp(m, h) /\ m.result = "OK")
Unsets(m, h) ==
    \/ Ends(m, h)
    \/ m.cmd = "RSP_REGISTER_APP" /\ \E g \in m.leaders : g # h /\ NameOf[g] = NameOf[h]

\* An agent that holds l for the leader ends up without h, or with h.
Stale(q, l, h) ==
    /\ l = h => \E i \in 1 .. Len(q) : Ends(q[i], h)
    /\ \A i \in 1 .. Len(q) : Sets(q[i], h) => \E j \in i + 1 .. Len(q) : Ends(q[j], h)
Fresh(q, l, h) ==
    \/ l = h /\ \A i \in 1 .. Len(q) : ~ Unsets(q[i], h)
    \/ \E i \in 1 .. Len(q) : Sets(q[i], h) /\ \A j \in i + 1 .. Len(q) : ~ Unsets(q[j], h)

\* It holds h for the leader when it comes to event i.
BelievesAt(q, l, h, i) ==
    \/ l = h /\ \A j \in 1 .. i - 1 : ~ Unsets(q[j], h)
    \/ \E k \in 1 .. i - 1 : Sets(q[k], h) /\ \A j \in k + 1 .. i - 1 : ~ Unsets(q[j], h)

\* With event i, h stops being a candidate at its agent.
Removal(q, l, h, i) == IsGiveUp(q[i], h) \/ (Takes(q[i], h) /\ BelievesAt(q, l, h, i))

\* The events of the agent of h, and whom it takes for the leader of h's name.
EventsOf(h) == down[ServerOf[h]]
BeliefOf(h) == leader[ServerOf[h]][NameOf[h]]

\* Only an agent that has started, and so has a session, calls the name server,
\* and about services of its own.
OwnRequests ==
    /\ \A s \in Servers : up[s] # << >> => s \in started
    /\ \A s \in Servers : \A i \in 1 .. Len(up[s]) :
          up[s][i].cmd # "REGISTER_APP" => ServerOf[up[s][i].handle] = s
StartInv ==
    /\ \A s \in started : sessions[s] # NoConn
    /\ \A h \in Handles : svc[h] # "none" \/ h \in services => ServerOf[h] \in started
    /\ OwnRequests

\* A list of leaders under way has one for a name.
OneLeader(m) ==
    m.cmd = "RSP_REGISTER_APP" =>
        \A g, h \in m.leaders : NameOf[g] = NameOf[h] => g = h
ListsInv == \A h \in Handles : \A i \in 1 .. Len(EventsOf(h)) : OneLeader(EventsOf(h)[i])

\* An agent takes a service for the leader of its own name only.
NamesInv == \A s \in Servers, n \in Names : leader[s][n] # NoHandle => NameOf[leader[s][n]] = n

\* The agent of a service learns whether it leads.
BeliefInv ==
    \A h \in Handles :
        IF electionLeaders[NameOf[h]] = h THEN Fresh(EventsOf(h), BeliefOf(h), h)
                                          ELSE Stale(EventsOf(h), BeliefOf(h), h)

\* A RUN_FOR_LEADER of h is under way.
RunAt(h, i) == up[ServerOf[h]][i] = Request("RUN_FOR_LEADER", h)
RunIn(h) == \E i \in 1 .. Len(up[ServerOf[h]]) : RunAt(h, i)
RemovalIn(h) == \E i \in 1 .. Len(EventsOf(h)) : Removal(EventsOf(h), BeliefOf(h), h, i)

\* A candidate of the name server is one at its agent, and no event under way is
\* going to change that; such an event is there at most once, and after it has
\* left the election.
CandidateOK(h) ==
    /\ h \in electionCandidates[NameOf[h]] => h \in candidates /\ ~ RunIn(h) /\ ~ RemovalIn(h)
    /\ RunIn(h) => h \in candidates /\ ~ RemovalIn(h)
    /\ RemovalIn(h) => h \in candidates
    /\ \A i, j \in 1 .. Len(up[ServerOf[h]]) : RunAt(h, i) /\ RunAt(h, j) => i = j
    /\ \A i, j \in 1 .. Len(EventsOf(h)) :
          /\ Removal(EventsOf(h), BeliefOf(h), h, i)
          /\ Removal(EventsOf(h), BeliefOf(h), h, j)
          => i = j
CandidateInv == \A h \in Handles : CandidateOK(h)

-----------------------------------------------------------------------------
(* Queues of events.                                                       *)

LEMMA Concat ==
    ASSUME NEW S, NEW q \in Seq(S), NEW x \in Seq(S)
    PROVE  /\ q \o x \in Seq(S) /\ Len(q \o x) = Len(q) + Len(x)
           /\ \A i \in 1 .. Len(q) : (q \o x)[i] = q[i]
           /\ \A k \in 1 .. Len(x) : (q \o x)[Len(q) + k] = x[k]
           /\ \A i \in 1 .. Len(q) + Len(x) :
                 i \in 1 .. Len(q) \/ (i - Len(q) \in 1 .. Len(x) /\ i = Len(q) + (i - Len(q)))
BY ConcatProperties

LEMMA TailFacts ==
    ASSUME NEW S, NEW q \in Seq(S), q # << >>
    PROVE  /\ Tail(q) \in Seq(S) /\ Len(Tail(q)) = Len(q) - 1 /\ Len(q) \in Nat \ {0}
           /\ \A i \in 1 .. Len(q) - 1 : Tail(q)[i] = q[i + 1]
           /\ Head(q) = q[1]
BY HeadTailProperties

LEMMA EndsUnset == ASSUME NEW m, NEW h, Ends(m, h) PROVE Unsets(m, h)
BY DEF Unsets

\* New events that do not set h leave an agent without it; one that ends it makes
\* it so.
LEMMA StaleConcat ==
    ASSUME NEW S, NEW q \in Seq(S), NEW x \in Seq(S), NEW l, NEW h,
           \A k \in 1 .. Len(x) : ~ Sets(x[k], h),
           Stale(q, l, h) \/ \E k \in 1 .. Len(x) : Ends(x[k], h)
    PROVE  Stale(q \o x, l, h)
<1> DEFINE y == q \o x
<1>1. /\ Len(y) = Len(q) + Len(x) /\ Len(q) \in Nat /\ Len(x) \in Nat
      /\ \A i \in 1 .. Len(q) : y[i] = q[i]
      /\ \A k \in 1 .. Len(x) : y[Len(q) + k] = x[k]
  BY Concat
<1> HIDE DEF y
<1>2. ASSUME NEW i \in 1 .. Len(y), Sets(y[i], h) PROVE i \in 1 .. Len(q) /\ Sets(q[i], h)
  <2>1. CASE i > Len(q)
    <3>1. i - Len(q) \in 1 .. Len(x) /\ y[Len(q) + (i - Len(q))] = y[i]
      BY <1>1, <2>1
    <3> QED
      BY <1>1, <1>2, <3>1
  <2> QED
    BY <1>1, <1>2, <2>1
<1>3. CASE Stale(q, l, h)
  <2>1. ASSUME NEW i \in 0 .. Len(q), NEW j \in i + 1 .. Len(q), Ends(q[j], h)
        PROVE  \E k \in i + 1 .. Len(y) : Ends(y[k], h)
    BY <1>1, <2>1
  <2>2. l = h => \E k \in 1 .. Len(y) : Ends(y[k], h)
    BY <1>1, <1>3, <2>1 DEF Stale
  <2> QED
    BY <1>1, <1>2, <1>3, <2>1, <2>2 DEF Stale, y
<1>4. ASSUME NEW k \in 1 .. Len(x), Ends(x[k], h) PROVE Stale(y, l, h)
  <2>1. Len(q) + k \in 1 .. Len(y) /\ Ends(y[Len(q) + k], h)
    BY <1>1, <1>4, SMTT(30)
  <2>2. \A i \in 1 .. Len(q) : Len(q) + k \in i + 1 .. Len(y)
    BY <1>1
  <2> QED
    BY <1>2, <2>1, <2>2 DEF Stale
<1> QED
  BY <1>3, <1>4 DEF y

\* New events that do not replace h leave an agent with it; one that sets it makes
\* it so.
LEMMA FreshConcat ==
    ASSUME NEW S, NEW q \in Seq(S), NEW x \in Seq(S), NEW l, NEW h,
           \A k \in 1 .. Len(x) : ~ Unsets(x[k], h),
           Fresh(q, l, h) \/ \E k \in 1 .. Len(x) : Sets(x[k], h)
    PROVE  Fresh(q \o x, l, h)
<1> DEFINE y == q \o x
<1>1. /\ Len(y) = Len(q) + Len(x) /\ Len(q) \in Nat /\ Len(x) \in Nat
      /\ \A i \in 1 .. Len(q) : y[i] = q[i]
      /\ \A k \in 1 .. Len(x) : y[Len(q) + k] = x[k]
  BY Concat
<1> HIDE DEF y
<1>2. ASSUME NEW i \in 1 .. Len(y), Unsets(y[i], h) PROVE i \in 1 .. Len(q) /\ Unsets(q[i], h)
  <2>1. CASE i > Len(q)
    <3>1. i - Len(q) \in 1 .. Len(x) /\ y[Len(q) + (i - Len(q))] = y[i]
      BY <1>1, <2>1
    <3> QED
      BY <1>1, <1>2, <3>1
  <2> QED
    BY <1>1, <1>2, <2>1
<1>3. CASE l = h /\ \A i \in 1 .. Len(q) : ~ Unsets(q[i], h)
  BY <1>2, <1>3 DEF Fresh, y
<1>4. ASSUME NEW i \in 1 .. Len(q), Sets(q[i], h), \A j \in i + 1 .. Len(q) : ~ Unsets(q[j], h)
      PROVE  Fresh(y, l, h)
  <2>1. i \in 1 .. Len(y) /\ Sets(y[i], h)
    BY <1>1, <1>4
  <2>2. \A j \in i + 1 .. Len(y) : ~ Unsets(y[j], h)
    BY <1>1, <1>2, <1>4
  <2> QED
    BY <2>1, <2>2 DEF Fresh
<1>5. ASSUME NEW k \in 1 .. Len(x), Sets(x[k], h) PROVE Fresh(y, l, h)
  <2>1. Len(q) + k \in 1 .. Len(y) /\ Sets(y[Len(q) + k], h)
    BY <1>1, <1>5
  <2>2. \A j \in Len(q) + k + 1 .. Len(y) : ~ Unsets(y[j], h)
    BY <1>1, <1>2
  <2> QED
    BY <2>1, <2>2 DEF Fresh
<1> QED
  BY <1>3, <1>4, <1>5 DEF Fresh, y

\* What is left when the agent has handled the first event, and holds k for the
\* leader then.
LEMMA BelievesTail ==
    ASSUME NEW S, NEW q \in Seq(S), q # << >>, NEW l, NEW k, NEW h,
           k = h <=> Sets(q[1], h) \/ (l = h /\ ~ Unsets(q[1], h)),
           NEW i \in 1 .. Len(q) - 1
    PROVE  BelievesAt(Tail(q), k, h, i) <=> BelievesAt(q, l, h, i + 1)
<1> DEFINE t == Tail(q)
<1>1. /\ Len(t) = Len(q) - 1 /\ Len(q) \in Nat \ {0}
      /\ \A j \in 1 .. Len(q) - 1 : t[j] = q[j + 1]
  BY TailFacts
<1> HIDE DEF t
<1>2. ASSUME BelievesAt(t, k, h, i) PROVE BelievesAt(q, l, h, i + 1)
  <2>1. ASSUME k = h, \A j \in 1 .. i - 1 : ~ Unsets(t[j], h) PROVE BelievesAt(q, l, h, i + 1)
    <3>1. \A j \in 2 .. i : j - 1 \in 1 .. i - 1 /\ t[j - 1] = q[j]
      BY <1>1
    <3>2. \A j \in 2 .. i : ~ Unsets(q[j], h)
      BY <2>1, <3>1
    <3> QED
      BY <1>1, <2>1, <3>2 DEF BelievesAt
  <2>2. ASSUME NEW c \in 1 .. i - 1, Sets(t[c], h), \A j \in c + 1 .. i - 1 : ~ Unsets(t[j], h)
        PROVE  BelievesAt(q, l, h, i + 1)
    <3>1. c + 1 \in 1 .. i /\ Sets(q[c + 1], h)
      BY <1>1, <2>2
    <3>2. \A j \in c + 2 .. i : j - 1 \in c + 1 .. i - 1 /\ t[j - 1] = q[j]
      BY <1>1
    <3>3. \A j \in c + 2 .. i : ~ Unsets(q[j], h)
      BY <2>2, <3>2
    <3> QED
      BY <3>1, <3>3 DEF BelievesAt
  <2> QED
    BY <1>2, <2>1, <2>2 DEF BelievesAt
<1>3. ASSUME BelievesAt(q, l, h, i + 1) PROVE BelievesAt(t, k, h, i)
  <2>1. ASSUME NEW c \in 0 .. i, \A j \in c + 1 .. i : ~ Unsets(q[j], h)
        PROVE  \A j \in c .. i - 1 : j > 0 => ~ Unsets(t[j], h)
    BY <1>1, <2>1
  <2>2. ASSUME l = h, \A j \in 1 .. i : ~ Unsets(q[j], h) PROVE BelievesAt(t, k, h, i)
    <3>1. k = h
      BY <2>2
    <3> QED
      BY <2>1, <2>2, <3>1 DEF BelievesAt
  <2>3. ASSUME NEW c \in 1 .. i, Sets(q[c], h), \A j \in c + 1 .. i : ~ Unsets(q[j], h)
        PROVE  BelievesAt(t, k, h, i)
    <3>1. CASE c = 1
      <4>1. k = h
        BY <2>3, <3>1
      <4> QED
        BY <2>1, <2>3, <3>1, <4>1 DEF BelievesAt
    <3>2. CASE c > 1
      <4>1. c - 1 \in 1 .. i - 1 /\ Sets(t[c - 1], h)
        BY <1>1, <2>3, <3>2
      <4>2. \A j \in (c - 1) + 1 .. i - 1 : ~ Unsets(t[j], h)
        BY <2>1, <2>3
      <4> QED
        BY <4>1, <4>2 DEF BelievesAt
    <3> QED
      BY <3>1, <3>2
  <2> QED
    BY <1>3, <2>2, <2>3 DEF BelievesAt
<1> QED
  BY <1>2, <1>3 DEF t

LEMMA StaleTail ==
    ASSUME NEW S, NEW q \in Seq(S), q # << >>, NEW l, NEW k, NEW h, Stale(q, l, h),
           k = h <=> Sets(q[1], h) \/ (l = h /\ ~ Unsets(q[1], h))
    PROVE  Stale(Tail(q), k, h)
<1> DEFINE t == Tail(q)
<1>1. /\ Len(t) = Len(q) - 1 /\ Len(q) \in Nat \ {0}
      /\ \A j \in 1 .. Len(q) - 1 : t[j] = q[j + 1]
  BY TailFacts
<1> HIDE DEF t
<1>2. ASSUME NEW i \in 1 .. Len(q), NEW j \in i + 1 .. Len(q), Ends(q[j], h)
      PROVE  j - 1 \in i .. Len(t) /\ Ends(t[j - 1], h)
  BY <1>1, <1>2
<1>3. ASSUME k = h PROVE \E i \in 1 .. Len(t) : Ends(t[i], h)
  <2>1. CASE Sets(q[1], h)
    <3>1. PICK j \in 1 + 1 .. Len(q) : Ends(q[j], h)
      BY <1>1, <2>1 DEF Stale
    <3> QED
      BY <1>1, <1>2, <3>1
  <2>2. CASE l = h /\ ~ Unsets(q[1], h)
    <3>1. PICK j \in 1 .. Len(q) : Ends(q[j], h)
      BY <2>2 DEF Stale
    <3>2. j # 1
      BY <2>2, <3>1, EndsUnset
    <3>3. 1 \in 1 .. Len(q) /\ j \in 1 + 1 .. Len(q)
      BY <1>1, <3>1, <3>2
    <3> QED
      BY <1>2, <3>1, <3>3
  <2> QED
    BY <1>3, <2>1, <2>2
<1>4. ASSUME NEW i \in 1 .. Len(t), Sets(t[i], h)
      PROVE  \E j \in i + 1 .. Len(t) : Ends(t[j], h)
  <2>1. i + 1 \in 1 .. Len(q) /\ Sets(q[i + 1], h)
    BY <1>1, <1>4
  <2>2. PICK j \in (i + 1) + 1 .. Len(q) : Ends(q[j], h)
    BY <2>1 DEF Stale
  <2> QED
    BY <1>1, <1>2, <2>1, <2>2
<1> QED
  BY <1>3, <1>4 DEF Stale, t

LEMMA FreshTail ==
    ASSUME NEW S, NEW q \in Seq(S), q # << >>, NEW l, NEW k, NEW h, Fresh(q, l, h),
           k = h <=> Sets(q[1], h) \/ (l = h /\ ~ Unsets(q[1], h))
    PROVE  Fresh(Tail(q), k, h)
<1> DEFINE t == Tail(q)
<1>1. /\ Len(t) = Len(q) - 1 /\ Len(q) \in Nat \ {0}
      /\ \A j \in 1 .. Len(q) - 1 : t[j] = q[j + 1]
  BY TailFacts
<1> HIDE DEF t
<1>2. ASSUME NEW c \in 0 .. Len(q), \A j \in c + 1 .. Len(q) : ~ Unsets(q[j], h)
      PROVE  \A j \in c .. Len(t) : j > 0 => ~ Unsets(t[j], h)
  BY <1>1, <1>2
<1>3. CASE l = h /\ \A i \in 1 .. Len(q) : ~ Unsets(q[i], h)
  <2>1. k = h
    BY <1>1, <1>3
  <2> QED
    BY <1>1, <1>2, <1>3, <2>1 DEF Fresh, t
<1>4. ASSUME NEW i \in 1 .. Len(q), Sets(q[i], h), \A j \in i + 1 .. Len(q) : ~ Unsets(q[j], h)
      PROVE  Fresh(t, k, h)
  <2>1. CASE i = 1
    <3>1. k = h
      BY <1>4, <2>1
    <3> QED
      BY <1>2, <1>4, <2>1, <3>1 DEF Fresh
  <2>2. CASE i > 1
    <3>1. i - 1 \in 1 .. Len(t) /\ Sets(t[i - 1], h)
      BY <1>1, <1>4, <2>2
    <3>2. \A j \in (i - 1) + 1 .. Len(t) : ~ Unsets(t[j], h)
      BY <1>2, <1>4
    <3> QED
      BY <3>1, <3>2 DEF Fresh
  <2> QED
    BY <2>1, <2>2
<1> QED
  BY <1>3, <1>4 DEF Fresh, t

\* The removals that are left are those that were to come after the first event.
LEMMA RemovalTail ==
    ASSUME NEW S, NEW q \in Seq(S), q # << >>, NEW l, NEW k, NEW h,
           k = h <=> Sets(q[1], h) \/ (l = h /\ ~ Unsets(q[1], h)),
           NEW i \in 1 .. Len(q) - 1
    PROVE  Removal(Tail(q), k, h, i) <=> Removal(q, l, h, i + 1)
BY TailFacts, BelievesTail DEF Removal

\* New events do not change what happens with the old ones.
LEMMA RemovalOld ==
    ASSUME NEW S, NEW q \in Seq(S), NEW x \in Seq(S), NEW l, NEW h, NEW i \in 1 .. Len(q)
    PROVE  Removal(q \o x, l, h, i) <=> Removal(q, l, h, i)
<1>1. \A j \in 1 .. Len(q) : (q \o x)[j] = q[j]
  BY Concat
<1>2. 1 .. i - 1 \subseteq 1 .. Len(q)
  OBVIOUS
<1>3. BelievesAt(q \o x, l, h, i) <=> BelievesAt(q, l, h, i)
  BY <1>1, <1>2 DEF BelievesAt
<1> QED
  BY <1>1, <1>3 DEF Removal

\* An agent that is about to learn that h does not lead does not remove it with a
\* new leader that comes later.
LEMMA RemovalNew ==
    ASSUME NEW S, NEW q \in Seq(S), NEW x \in Seq(S), NEW l, NEW h, NEW k \in 1 .. Len(x),
           Stale(q, l, h), \A j \in 1 .. Len(x) : ~ Sets(x[j], h),
           Removal(q \o x, l, h, Len(q) + k)
    PROVE  IsGiveUp(x[k], h)
<1> DEFINE y == q \o x
           i == Len(q) + k
<1>1. /\ Len(q) \in Nat /\ Len(x) \in Nat
      /\ \A j \in 1 .. Len(q) : y[j] = q[j]
      /\ \A j \in 1 .. Len(x) : y[Len(q) + j] = x[j]
  BY Concat
<1> HIDE DEF y
<1>2. ASSUME NEW j \in 1 .. Len(q), Ends(q[j], h) PROVE j \in 1 .. i - 1 /\ Unsets(y[j], h)
  BY <1>1, <1>2, EndsUnset
<1>3. ~ BelievesAt(y, l, h, i)
  <2>1. CASE l = h /\ \A j \in 1 .. i - 1 : ~ Unsets(y[j], h)
    BY <1>2, <2>1 DEF Stale
  <2>2. ASSUME NEW c \in 1 .. i - 1, Sets(y[c], h), \A j \in c + 1 .. i - 1 : ~ Unsets(y[j], h)
        PROVE  FALSE
    <3>1. CASE c > Len(q)
      <4>1. c - Len(q) \in 1 .. Len(x) /\ y[Len(q) + (c - Len(q))] = y[c]
        BY <1>1, <3>1
      <4> QED
        BY <1>1, <2>2, <4>1
    <3>2. CASE c \in 1 .. Len(q)
      <4>1. PICK j \in c + 1 .. Len(q) : Ends(q[j], h)
        BY <1>1, <2>2, <3>2 DEF Stale
      <4>2. j \in c + 1 .. i - 1 /\ Unsets(y[j], h)
        BY <1>1, <1>2, <3>2, <4>1
      <4> QED
        BY <2>2, <4>2
    <3> QED
      BY <1>1, <3>1, <3>2
  <2> QED
    BY <2>1, <2>2 DEF BelievesAt
<1> QED
  BY <1>1, <1>3 DEF Removal, y

-----------------------------------------------------------------------------
(* What the name server sends about elections.                             *)

Neutral(m) == m.cmd \notin {ElectionCmd, "RSP_REGISTER_APP"}
PlainSeq(x) == \A k \in 1 .. Len(x) : Neutral(x[k])
Leads(x, m) == 1 \in 1 .. Len(x) /\ x[1] = m /\ \A k \in 2 .. Len(x) : Neutral(x[k])
PlainOut(o) == \A s \in Servers : PlainSeq(o[s])

LEMMA PlainSilent == PlainOut(Silent)
BY DEF PlainOut, PlainSeq, Silent

LEMMA PlainSendTo == ASSUME NEW S, NEW m, Neutral(m) PROVE PlainOut(SendTo(S, m))
BY DEF PlainOut, PlainSeq, SendTo

LEMMA PlainThen ==
    ASSUME NEW a \in Outputs, NEW b \in Outputs, PlainOut(a), PlainOut(b)
    PROVE  PlainOut(Then(a, b))
<1> SUFFICES ASSUME NEW s \in Servers, NEW k \in 1 .. Len(Then(a, b)[s])
             PROVE  Neutral(Then(a, b)[s][k])
  BY DEF PlainOut, PlainSeq
<1>1. a[s] \in Seq(Messages) /\ b[s] \in Seq(Messages) /\ Then(a, b)[s] = a[s] \o b[s]
  BY DEF Outputs, Then
<1>2. k \in 1 .. Len(a[s]) \/ k - Len(a[s]) \in 1 .. Len(b[s])
  BY <1>1, Concat
<1>3. CASE k \in 1 .. Len(a[s])
  BY <1>1, <1>3, Concat DEF PlainOut, PlainSeq
<1>4. CASE k - Len(a[s]) \in 1 .. Len(b[s])
  <2>1. Then(a, b)[s][Len(a[s]) + (k - Len(a[s]))] = b[s][k - Len(a[s])]
    BY <1>1, <1>4, Concat
  <2>2. Len(a[s]) + (k - Len(a[s])) = k
    BY <1>1
  <2> QED
    BY <1>4, <2>1, <2>2 DEF PlainOut, PlainSeq
<1> QED
  BY <1>2, <1>3, <1>4

\* The events that are not about elections.
LEMMA NeutralMessages ==
    ASSUME NEW h
    PROVE  /\ \A r : Neutral(RegisterServiceRsp(h, r))
           /\ \A b : Neutral(ServiceOnline(h, b))
           /\ Neutral(SyncAttr(h)) /\ Neutral(KickOff(h)) /\ Neutral(OthersOnline(h))
           /\ \A c : Neutral(RouterUpdate(h, c))
BY DEF Neutral, ElectionCmd, RegisterServiceRsp, ServiceOnline, SyncAttr, KickOff, OthersOnline,
   RouterUpdate

LEMMA PlainOnline ==
    ASSUME NEW h \in Handles, NEW b \in BOOLEAN
    PROVE  PlainOut(BroadcastOnlineToOthers(h, b)) /\ BroadcastOnlineToOthers(h, b) \in Outputs
BY PlainSendTo, NeutralMessages, BroadcastType, MessageTypes
   DEF BroadcastOnlineToOthers, Broadcast

LEMMA PlainConfirm ==
    ASSUME NEW h \in Handles, NEW r \in Results
    PROVE  PlainOut(NotifyConfirmResult(h, r))
<1>1. /\ SendTo({ServerOf[h]}, RegisterServiceRsp(h, r)) \in Outputs
      /\ PlainOut(SendTo({ServerOf[h]}, RegisterServiceRsp(h, r)))
  BY SendToType, MessageTypes, PlainSendTo, NeutralMessages
<1>2. BroadcastOnlineToOthers(h, TRUE) \in Outputs /\ PlainOut(BroadcastOnlineToOthers(h, TRUE))
  BY PlainOnline
<1> QED
  BY <1>1, <1>2, PlainSilent, SilentType, PlainThen DEF NotifyConfirmResult

LEMMA PlainCmd ==
    ASSUME NEW n \in Names, NEW c \in RouterCmds
    PROVE  PlainOut(BroadcastCmd(n, c))
BY PlainSendTo, NeutralMessages DEF BroadcastCmd

\* A message that goes out before plain ones.
LEMMA FirstSent ==
    ASSUME NEW S, NEW m \in Messages, NEW rest \in Outputs, PlainOut(rest), NEW s \in Servers
    PROVE  IF s \in S /\ sessions[s] # NoConn THEN Leads(Then(SendTo(S, m), rest)[s], m)
                                              ELSE PlainSeq(Then(SendTo(S, m), rest)[s])
<1>1. rest[s] \in Seq(Messages) /\ PlainSeq(rest[s])
  BY DEF Outputs, PlainOut
<1>2. CASE s \in S /\ sessions[s] # NoConn
  <2>1. Then(SendTo(S, m), rest)[s] = <<m>> \o rest[s]
    BY <1>2 DEF Then, SendTo
  <2>2. <<m>> \in Seq(Messages) /\ Len(<<m>>) = 1 /\ <<m>>[1] = m
    OBVIOUS
  <2> DEFINE y == <<m>> \o rest[s]
  <2>3. /\ Len(y) = 1 + Len(rest[s]) /\ y[1] = m /\ Len(rest[s]) \in Nat
        /\ \A k \in 1 .. Len(rest[s]) : y[1 + k] = rest[s][k]
    BY <1>1, <2>2, Concat
  <2> HIDE DEF y
  <2>4. ASSUME NEW k \in 2 .. Len(y) PROVE Neutral(y[k])
    <3>1. k - 1 \in 1 .. Len(rest[s]) /\ 1 + (k - 1) = k
      BY <2>3
    <3>2. y[1 + (k - 1)] = rest[s][k - 1]
      BY <2>3, <3>1
    <3> QED
      BY <1>1, <3>1, <3>2 DEF PlainSeq
  <2>5. Leads(y, m)
    BY <2>3, <2>4 DEF Leads
  <2> QED
    BY <1>2, <2>1, <2>5 DEF y
<1>3. CASE ~ (s \in S /\ sessions[s] # NoConn)
  <2>1. Then(SendTo(S, m), rest)[s] = << >> \o rest[s]
    BY <1>3 DEF Then, SendTo
  <2>2. << >> \o rest[s] = rest[s]
    BY <1>1
  <2> QED
    BY <1>1, <1>3, <2>1, <2>2
<1> QED
  BY <1>2, <1>3

LEMMA OneSent ==
    ASSUME NEW S, NEW m \in Messages, NEW s \in Servers
    PROVE  IF s \in S /\ sessions[s] # NoConn THEN Leads(SendTo(S, m)[s], m)
                                              ELSE PlainSeq(SendTo(S, m)[s])
BY DEF SendTo, Leads, PlainSeq

\* The steps of the name server, by what they send about elections.
LEMMA SentSteps ==
    ASSUME IInv, Next
    PROVE  \/ UNCHANGED electVars /\ PlainOut(out')
           \/ \E s \in Servers : RegisterApp(s)
           \/ \E h \in Handles : OnServiceRunForElection(h)
           \/ \E h \in Handles, rest \in Outputs :
                 h \in handleServices /\ PlainOut(rest) /\ GiveupElection(h, rest)
<1>1. TypeOK
  BY DEF IInv
<1> DEFINE Goal == \/ UNCHANGED electVars /\ PlainOut(out')
                   \/ \E s \in Servers : RegisterApp(s)
                   \/ \E h \in Handles : OnServiceRunForElection(h)
                   \/ \E h \in Handles, rest \in Outputs :
                         h \in handleServices /\ PlainOut(rest) /\ GiveupElection(h, rest)
<1>2. CASE Clock \/ Receive \/ OnTick
  BY <1>2, PlainSilent DEF Clock, Receive, OnNotifiedAgentInfo, OnClosed, ReaderEnds, OnTick
<1>3. ASSUME NEW h \in Handles,
             RegisterServiceAgain(h) \/ RegisterServiceNoApp(h) \/ OnServiceHeartbeat(h)
             \/ OnServiceSyncAttr(h) \/ RejectHandle(h)
      PROVE  Goal
  BY <1>3, PlainSilent, PlainSendTo, NeutralMessages
     DEF RegisterServiceAgain, RegisterServiceNoApp, OnServiceHeartbeat, OnServiceSyncAttr,
         RejectHandle, Broadcast
<1>4. ASSUME NEW h \in Handles, NEW b \in BOOLEAN, RegisterService(h, b) PROVE Goal
  <2>1. PlainOut(NotifyConfirmResult(h, "OK"))
        /\ PlainOut(NotifyConfirmResult(h, "ERR_SERVICE_REGISTER_LINEUP"))
        /\ PlainOut(BroadcastCmd(NameOf[h], "Prepare"))
    BY PlainConfirm, PlainCmd, NameOfType DEF Results, RouterCmds
  <2> QED
    BY <1>4, <2>1 DEF RegisterService, Start2StageConfirm
<1>5. ASSUME NEW h, NEW b \in BOOLEAN, UnRegisterService(h, b) PROVE Goal
  <2>1. h \in Handles /\ h \in handleServices
    BY <1>1, <1>5 DEF UnRegisterService, TypeOK
  <2> DEFINE tail == IF b THEN SendTo({ServerOf[h]}, KickOff(h)) ELSE Silent
             rest == Then(BroadcastOnlineToOthers(h, FALSE), tail)
  <2>2. tail \in Outputs /\ PlainOut(tail)
    BY <2>1, SendToType, SilentType, MessageTypes, PlainSilent, PlainSendTo, NeutralMessages
  <2> HIDE DEF tail
  <2>3. rest \in Outputs /\ PlainOut(rest)
    BY <2>1, <2>2, PlainOnline, PlainThen, ThenType
  <2>4. GiveupElection(h, rest)
    BY <1>5 DEF UnRegisterService, tail
  <2> HIDE DEF rest
  <2> QED
    BY <2>1, <2>3, <2>4
<1>6. ASSUME NEW h \in Handles, UnRegister(h) PROVE Goal
  BY <1>5, <1>6 DEF UnRegister
<1>7. ASSUME NEW h \in Handles, OnServiceGiveupElection(h) PROVE Goal
  BY <1>7, PlainSilent, SilentType DEF OnServiceGiveupElection
<1>8. ASSUME NEW s \in Servers, NEW n \in Names, OnRegisterNameRouter(s, n) \/ RejectRouter(s, n)
      PROVE  Goal
  BY <1>8, PlainSilent, PlainSendTo, NeutralMessages DEF OnRegisterNameRouter, RejectRouter
<1>9. CASE Tick
  <2>1. CASE KickExpired
    BY <1>5, <2>1 DEF KickExpired
  <2>2. ASSUME NEW n \in Names, CheckExpired(n) PROVE Goal
    <3> DEFINE h == onlineSvcHandle[n]
               a == BroadcastCmd(n, "PrepareAbort")
               b == IF h \in services THEN NotifyConfirmResult(h, "ERR_ROUTER_PREPARE_TIMEOUT")
                                      ELSE Silent
    <3>1. a \in Outputs /\ PlainOut(a)
      BY BroadcastCmdType, PlainCmd DEF RouterCmds
    <3>2. h \in services => h \in Handles
      BY <1>1 DEF TypeOK
    <3>3. b \in Outputs /\ PlainOut(b)
      BY <3>2, NotifyConfirmResultType, PlainConfirm, SilentType, PlainSilent DEF Results
    <3>4. UNCHANGED electVars /\ (out' = Silent \/ out' = Then(a, b))
      BY <2>2 DEF CheckExpired, CommitConfirm
    <3> HIDE DEF a, b
    <3> QED
      BY <3>1, <3>3, <3>4, PlainThen, PlainSilent
  <2> QED
    BY <1>9, <2>1, <2>2 DEF Tick
<1>10. ASSUME NEW s \in Servers, RejectApp(s) PROVE Goal
  BY <1>10, PlainSilent DEF RejectApp
<1> QED
  BY <1>2, <1>3, <1>4, <1>6, <1>7, <1>8, <1>9, <1>10 DEF Next, Handle

-----------------------------------------------------------------------------
(* What a step of the name server tells the agent of h.                    *)

LEMMA NeutralEffect ==
    ASSUME NEW m, NEW h \in Handles, Neutral(m)
    PROVE  /\ ~ Sets(m, h) /\ ~ Unsets(m, h) /\ ~ Ends(m, h) /\ ~ Takes(m, h) /\ ~ IsGiveUp(m, h)
           /\ OneLeader(m)
BY DEF Neutral, Sets, Unsets, Ends, Takes, IsRun, IsGiveUp, OneLeader

\* What a message about an election, or a list of leaders, does.
LEMMA ElectionEffect ==
    ASSUME NEW g \in Handles, NEW e \in ElectionEvents, NEW r \in ElectionResults,
           NEW h \in Handles
    PROVE  LET m == ElectionResult(g, e, r)
               another == g # h /\ NameOf[g] = NameOf[h]
               run == e = "RunForLeader" /\ r = "OK"
           IN  /\ m \in Messages /\ OneLeader(m)
               /\ Sets(m, h) <=> (g = h /\ run)
               /\ Takes(m, h) <=> (another /\ run)
               /\ IsGiveUp(m, h) <=> (g = h /\ e = "GiveUpLeader")
               /\ Ends(m, h) <=> ((another /\ run) \/ (g = h /\ e = "GiveUpLeader" /\ r = "OK"))
               /\ Unsets(m, h) <=> Ends(m, h)
BY MessageTypes DEF ElectionResult, Sets, Unsets, Ends, Takes, IsRun, IsGiveUp, OneLeader,
   ElectionCmd, ElectionEvents

LEMMA LeadersEffect ==
    ASSUME NEW L \in SUBSET Handles, NEW h \in Handles
    PROVE  LET m == RegisterAppRsp(L) IN
           /\ m \in Messages /\ ~ Ends(m, h) /\ ~ Takes(m, h) /\ ~ IsGiveUp(m, h)
           /\ Sets(m, h) <=> h \in L
           /\ Unsets(m, h) <=> \E g \in L : g # h /\ NameOf[g] = NameOf[h]
           /\ OneLeader(m) <=> \A f, g \in L : NameOf[f] = NameOf[g] => f = g
BY MessageTypes DEF RegisterAppRsp, Sets, Unsets, Ends, Takes, IsRun, IsGiveUp, OneLeader,
   ElectionCmd

\* The events x reach the agent of h in a step.
Tells(x, h) ==
    LET n == NameOf[h]
        leaves == h \in electionCandidates[n] /\ h \notin electionCandidates'[n]
    IN
    /\ \A k \in 1 .. Len(x) : OneLeader(x[k])
    /\ electionLeaders'[n] # h => \A k \in 1 .. Len(x) : ~ Sets(x[k], h)
    /\ electionLeaders'[n] # h /\ electionLeaders[n] = h =>
          \E k \in 1 .. Len(x) : Ends(x[k], h)
    /\ electionLeaders'[n] = h => \A k \in 1 .. Len(x) : ~ Unsets(x[k], h)
    /\ electionLeaders'[n] = h /\ electionLeaders[n] # h =>
          \E k \in 1 .. Len(x) : Sets(x[k], h)
    /\ \A k \in 1 .. Len(x) : IsGiveUp(x[k], h) => leaves
    /\ \A k \in 1 .. Len(x) : Takes(x[k], h) /\ electionLeaders[n] = h => leaves
    /\ \A j, k \in 1 .. Len(x) :
          (IsGiveUp(x[j], h) \/ Takes(x[j], h)) /\ (IsGiveUp(x[k], h) \/ Takes(x[k], h)) => j = k

\* No event, or one event m and neutral ones.
LEMMA TellsNothing ==
    ASSUME NEW h \in Handles, NEW x, PlainSeq(x),
           electionLeaders'[NameOf[h]] = h <=> electionLeaders[NameOf[h]] = h
    PROVE  Tells(x, h)
<1>1. \A k \in 1 .. Len(x) :
        /\ ~ Sets(x[k], h) /\ ~ Unsets(x[k], h) /\ ~ Ends(x[k], h)
        /\ ~ Takes(x[k], h) /\ ~ IsGiveUp(x[k], h) /\ OneLeader(x[k])
  BY NeutralEffect DEF PlainSeq
<1> QED
  BY <1>1 DEF Tells

LEMMA TellsOne ==
    ASSUME NEW h \in Handles, NEW x \in Seq(Messages), NEW m, Leads(x, m), OneLeader(m),
           LET n == NameOf[h]
               leaves == h \in electionCandidates[n] /\ h \notin electionCandidates'[n]
           IN  /\ electionLeaders'[n] # h => ~ Sets(m, h)
               /\ electionLeaders'[n] # h /\ electionLeaders[n] = h => Ends(m, h)
               /\ electionLeaders'[n] = h => ~ Unsets(m, h)
               /\ electionLeaders'[n] = h /\ electionLeaders[n] # h => Sets(m, h)
               /\ IsGiveUp(m, h) => leaves
               /\ Takes(m, h) /\ electionLeaders[n] = h => leaves
    PROVE  Tells(x, h)
<1>1. \A k \in 2 .. Len(x) :
        /\ ~ Sets(x[k], h) /\ ~ Unsets(x[k], h) /\ ~ Ends(x[k], h)
        /\ ~ Takes(x[k], h) /\ ~ IsGiveUp(x[k], h) /\ OneLeader(x[k])
  BY NeutralEffect DEF Leads
<1>2. 1 \in 1 .. Len(x) /\ x[1] = m /\ \A k \in 1 .. Len(x) : k = 1 \/ k \in 2 .. Len(x)
  BY DEF Leads
<1> QED
  BY <1>1, <1>2 DEF Tells

\* The leader of a name is a registered service of that name.
LEMMA LeaderFacts ==
    ASSUME IInv, NEW n \in Names, electionLeaders[n] # NoHandle
    PROVE  /\ electionLeaders[n] \in electionCandidates[n]
           /\ electionLeaders[n] \in Handles /\ NameOf[electionLeaders[n]] = n
BY DEF IInv, TypeOK, ElectionConsistent

LEMMA RegisterAppTells ==
    ASSUME IInv, NEW s \in Servers, RegisterApp(s), NEW h \in Handles
    PROVE  Tells(out'[ServerOf[h]], h)
<1> DEFINE n == NameOf[h]
           x == out'[ServerOf[h]]
           rest == SendTo({s}, OthersOnline({g \in services : ServerOf[g] # s}))
<1>1. n \in Names /\ ServerOf[h] \in Servers /\ UNCHANGED electVars /\ TypeOK
  BY NameOfType DEF RegisterApp, IInv
<1>2. Leaders \in SUBSET Handles /\ \A g \in Leaders : electionLeaders[NameOf[g]] = g
  BY LeaderFacts, <1>1 DEF Leaders, TypeOK
<1>3. h \in Leaders <=> electionLeaders[n] = h
  BY <1>1, <1>2, NoValues DEF Leaders
<1>4. rest \in Outputs /\ PlainOut(rest)
  BY <1>1, SendToType, MessageTypes, PlainSendTo, NeutralMessages DEF TypeOK
<1>5. out' = Then(SendTo({s}, RegisterAppRsp(Leaders)), rest)
  BY DEF RegisterApp
<1> HIDE DEF rest
<1>6. RegisterAppRsp(Leaders) \in Messages
  BY <1>2, LeadersEffect
<1>7. SendTo({s}, RegisterAppRsp(Leaders)) \in Outputs /\ x \in Seq(Messages)
  BY <1>1, <1>4, <1>5, <1>6, SendToType, ThenType DEF Outputs
<1>8. Leads(x, RegisterAppRsp(Leaders)) \/ PlainSeq(x)
  BY <1>1, <1>4, <1>5, <1>6, FirstSent
<1> HIDE DEF x
<1>9. CASE PlainSeq(x)
  BY <1>1, <1>9, TellsNothing DEF electVars, x
<1>10. CASE Leads(x, RegisterAppRsp(Leaders))
  <2> DEFINE m == RegisterAppRsp(Leaders)
  <2>1. /\ ~ Ends(m, h) /\ ~ Takes(m, h) /\ ~ IsGiveUp(m, h) /\ OneLeader(m)
        /\ Sets(m, h) <=> electionLeaders[n] = h
        /\ electionLeaders[n] = h => ~ Unsets(m, h)
    BY <1>2, <1>3, LeadersEffect
  <2> HIDE DEF m
  <2>2. Tells(x, h)
    BY <1>1, <1>7, <1>10, <2>1, TellsOne DEF electVars, m
  <2> QED
    BY <2>2 DEF x
<1> QED
  BY <1>8, <1>9, <1>10

\* A notice of an election reaches the agent of h, with neutral events.
LEMMA NoticeTells ==
    ASSUME NEW h \in Handles, NEW g \in Handles, NEW e \in ElectionEvents,
           NEW r \in ElectionResults, NEW x \in Seq(Messages),
           Leads(x, ElectionResult(g, e, r)),
           LET n == NameOf[h]
               another == g # h /\ NameOf[g] = n
               run == e = "RunForLeader" /\ r = "OK"
               ends == (another /\ run) \/ (g = h /\ e = "GiveUpLeader" /\ r = "OK")
               leaves == h \in electionCandidates[n] /\ h \notin electionCandidates'[n]
           IN  /\ electionLeaders'[n] # h => ~ (g = h /\ run)
               /\ electionLeaders'[n] # h /\ electionLeaders[n] = h => ends
               /\ electionLeaders'[n] = h => ~ ends
               /\ electionLeaders'[n] = h /\ electionLeaders[n] # h => g = h /\ run
               /\ g = h /\ e = "GiveUpLeader" => leaves
               /\ another /\ run /\ electionLeaders[n] = h => leaves
    PROVE  Tells(x, h)
<1> DEFINE m == ElectionResult(g, e, r)
           another == g # h /\ NameOf[g] = NameOf[h]
           run == e = "RunForLeader" /\ r = "OK"
<1>1. /\ OneLeader(m)
      /\ Sets(m, h) <=> (g = h /\ run)
      /\ Takes(m, h) <=> (another /\ run)
      /\ IsGiveUp(m, h) <=> (g = h /\ e = "GiveUpLeader")
      /\ Ends(m, h) <=> ((another /\ run) \/ (g = h /\ e = "GiveUpLeader" /\ r = "OK"))
      /\ Unsets(m, h) <=> Ends(m, h)
  BY ElectionEffect
<1> HIDE DEF m
<1>2. Leads(x, m)
  BY DEF m
<1> QED
  BY <1>1, <1>2, TellsOne

LEMMA RunTells ==
    ASSUME IInv, \A f \in services : sessions[ServerOf[f]] # NoConn,
           NEW g \in Handles, OnServiceRunForElection(g), NEW h \in Handles
    PROVE  Tells(out'[ServerOf[h]], h)
<1> DEFINE n == NameOf[h]
           s == ServerOf[h]
<1>1. /\ n \in Names /\ NameOf[g] \in Names /\ s \in Servers /\ ServerOf[g] \in Servers
      /\ electionLeaders \in [Names -> Handles \cup {NoHandle}]
      /\ services \in SUBSET Handles
  BY NameOfType DEF IInv, TypeOK
<1>2. g \in services
  BY DEF IInv, RegistryConsistent, OnServiceRunForElection
<1>3. "RunForLeader" \in ElectionEvents
      /\ \A r \in {"OK", "AlreadyLeader", "RunForFail"} : r \in ElectionResults
  BY DEF ElectionEvents, ElectionResults
<1>4. \A r \in {"OK", "AlreadyLeader", "RunForFail"} :
         ElectionResult(g, "RunForLeader", r) \in Messages
  BY <1>3, MessageTypes
<1>5. CASE /\ electionLeaders[NameOf[g]] = NoHandle
           /\ electionLeaders' = [electionLeaders EXCEPT ![NameOf[g]] = g]
           /\ out' = Broadcast({}, ElectionResult(g, "RunForLeader", "OK"))
  <2> DEFINE m == ElectionResult(g, "RunForLeader", "OK")
             S == {t \in Servers \ {} : \E f \in services : ServerOf[f] = t}
  <2>1. out' = SendTo(S, m) /\ m \in Messages
    BY <1>4, <1>5 DEF Broadcast
  <2>2. h = g => s \in S
    BY <1>1, <1>2
  <2>3. IF s \in S /\ sessions[s] # NoConn THEN Leads(out'[s], m) ELSE PlainSeq(out'[s])
    BY <1>1, <2>1, OneSent
  <2>4. out'[s] \in Seq(Messages)
    BY <1>1, <2>1, SendToType DEF Outputs
  <2>5. Leads(out'[s], m) \/ (PlainSeq(out'[s]) /\ h # g)
    BY <1>2, <2>2, <2>3
  <2>6. electionLeaders'[n] = IF n = NameOf[g] THEN g ELSE electionLeaders[n]
    BY <1>1, <1>5
  <2>7. NoHandle # h /\ NoHandle # g
    BY NoValues
  <2> HIDE DEF s, n, S
  <2>8. /\ PlainSeq(out'[s]) /\ ~ Leads(out'[s], m) =>
              (electionLeaders'[n] = h <=> electionLeaders[n] = h)
        /\ electionLeaders[NameOf[g]] # h
        /\ electionLeaders'[n] = h /\ electionLeaders[n] # h => g = h
        /\ electionLeaders'[n] # h => g # h /\ electionLeaders[n] # h
        /\ electionLeaders'[n] = h => g = h \/ NameOf[g] # n
    BY <1>5, <2>5, <2>6, <2>7 DEF n
  <2>9. CASE Leads(out'[s], m)
    <3>1. Leads(out'[s], ElectionResult(g, "RunForLeader", "OK"))
      BY <2>9
    <3> QED
      BY <1>3, <2>4, <2>8, <3>1, NoticeTells DEF n, s
  <2>10. CASE ~ Leads(out'[s], m)
    BY <2>5, <2>8, <2>10, TellsNothing DEF n, s
  <2> QED
    BY <2>9, <2>10
<1>6. ASSUME NEW r \in {"AlreadyLeader", "RunForFail"},
             electionLeaders' = electionLeaders,
             out' = SendTo({ServerOf[g]}, ElectionResult(g, "RunForLeader", r))
      PROVE  Tells(out'[s], h)
  <2>1. Leads(out'[s], ElectionResult(g, "RunForLeader", r)) \/ PlainSeq(out'[s])
    BY <1>1, <1>4, <1>6, OneSent
  <2>2. out'[s] \in Seq(Messages)
    BY <1>1, <1>4, <1>6, SendToType DEF Outputs
  <2>3. r # "OK" /\ r \in ElectionResults
    BY <1>3
  <2>4. CASE PlainSeq(out'[s])
    BY <1>6, <2>4, TellsNothing
  <2>5. CASE Leads(out'[s], ElectionResult(g, "RunForLeader", r))
    BY <1>3, <1>6, <2>2, <2>3, <2>5, NoticeTells
  <2> QED
    BY <2>1, <2>4, <2>5
<1> QED
  BY <1>5, <1>6 DEF OnServiceRunForElection

LEMMA GiveUpTells ==
    ASSUME IInv, \A f \in services : sessions[ServerOf[f]] # NoConn,
           NEW g \in handleServices, NEW rest \in Outputs, PlainOut(rest),
           GiveupElection(g, rest), NEW h \in Handles
    PROVE  Tells(out'[ServerOf[h]], h)
<1> DEFINE n == NameOf[g]
           s == ServerOf[h]
           others == electionCandidates[n] \ {g}
<1>1. /\ electionCandidates \in [Names -> SUBSET Handles]
      /\ electionLeaders \in [Names -> Handles \cup {NoHandle}]
      /\ services \in SUBSET Handles /\ handleServices = services
  BY DEF IInv, TypeOK, RegistryConsistent
<1>2. /\ g \in Handles /\ g \in services /\ n \in Names /\ NameOf[h] \in Names
      /\ s \in Servers /\ ServerOf[g] \in Servers
  BY <1>1, NameOfType
<1>3. \A f \in electionCandidates[n] : f \in services /\ f \in Handles /\ NameOf[f] = n
  BY <1>1, <1>2 DEF IInv, ElectionConsistent
<1>4. /\ {"RunForLeader", "GiveUpLeader"} \subseteq ElectionEvents
      /\ {"OK", "QuitCandidate"} \subseteq ElectionResults
  BY DEF ElectionEvents, ElectionResults
<1>5. NoHandle # h /\ NoHandle # g
  BY <1>2, NoValues
<1>6. rest[s] \in Seq(Messages) /\ PlainSeq(rest[s])
  BY <1>2 DEF Outputs, PlainOut
<1>7. ASSUME NEW S, NEW m \in Messages, out' = Then(SendTo(S, m), rest)
      PROVE  /\ out'[s] \in Seq(Messages)
             /\ IF s \in S /\ sessions[s] # NoConn THEN Leads(out'[s], m)
                                                   ELSE PlainSeq(out'[s])
  <2>1. out' \in Outputs
    BY <1>7, SendToType, ThenType
  <2> QED
    BY <1>2, <1>7, <2>1, FirstSent DEF Outputs
<1>8. ASSUME electionCandidates' = [electionCandidates EXCEPT ![n] = others]
      PROVE  h = g => h \notin electionCandidates'[NameOf[h]]
  BY <1>1, <1>2, <1>8
<1>9. CASE g \notin electionCandidates[n] /\ out' = rest /\ UNCHANGED electVars
  BY <1>6, <1>9, TellsNothing DEF electVars
<1>10. CASE /\ g \in electionCandidates[n]
            /\ electionCandidates' = [electionCandidates EXCEPT ![n] = others]
            /\ electionLeaders' = electionLeaders
            /\ electionLeaders[n] # g
            /\ out' = Then(SendTo({ServerOf[g]},
                                  ElectionResult(g, "GiveUpLeader", "QuitCandidate")), rest)
  <2> DEFINE m == ElectionResult(g, "GiveUpLeader", "QuitCandidate")
  <2>1. m \in Messages
    BY <1>2, <1>4, MessageTypes
  <2>2. out'[s] \in Seq(Messages) /\ (Leads(out'[s], m) \/ PlainSeq(out'[s]))
    BY <1>7, <1>10, <2>1
  <2>3. CASE PlainSeq(out'[s])
    BY <1>10, <2>3, TellsNothing
  <2>4. CASE Leads(out'[s], m)
    <3>1. Leads(out'[s], ElectionResult(g, "GiveUpLeader", "QuitCandidate"))
      BY <2>4
    <3> HIDE DEF others
    <3> QED
      BY <1>2, <1>4, <1>8, <1>10, <2>2, <3>1, NoticeTells
  <2> QED
    BY <2>2, <2>3, <2>4
\* The notice goes to all agents with a service, and only the services f and g
\* are affected.
<1>11. ASSUME NEW f \in electionCandidates[n], NEW e \in ElectionEvents,
              electionLeaders[n] = g, g \in electionCandidates[n],
              electionCandidates' = [electionCandidates EXCEPT ![n] = others],
              \/ e = "RunForLeader" /\ f # g
                 /\ electionLeaders' = [electionLeaders EXCEPT ![n] = f]
              \/ e = "GiveUpLeader" /\ f = g
                 /\ electionLeaders' = [electionLeaders EXCEPT ![n] = NoHandle],
              out' = Then(Broadcast({}, ElectionResult(f, e, "OK")), rest)
       PROVE  Tells(out'[s], h)
  <2> DEFINE m == ElectionResult(f, e, "OK")
             S == {t \in Servers \ {} : \E d \in services : ServerOf[d] = t}
  <2>1. f \in Handles /\ f \in services /\ NameOf[f] = n /\ NoHandle # f
    BY <1>3, NoValues
  <2>2. m \in Messages
    BY <1>4, <2>1, MessageTypes
  <2>3. out' = Then(SendTo(S, m), rest)
    BY <1>11 DEF Broadcast
  <2>4. h \in services => s \in S
    BY <1>2
  <2>5. out'[s] \in Seq(Messages) /\ (Leads(out'[s], m) \/ (PlainSeq(out'[s]) /\ h # g /\ h # f))
    BY <1>2, <1>7, <2>1, <2>2, <2>3, <2>4
  <2>6. electionLeaders'[NameOf[h]] =
          IF NameOf[h] = n THEN (IF e = "RunForLeader" THEN f ELSE NoHandle)
                           ELSE electionLeaders[NameOf[h]]
    BY <1>1, <1>2, <1>11
  <2>7. h = g => h \notin electionCandidates'[NameOf[h]] /\ h \in electionCandidates[NameOf[h]]
    BY <1>8, <1>11
  <2>8. /\ f = g <=> e # "RunForLeader"
        /\ e # "RunForLeader" <=> e = "GiveUpLeader"
    BY <1>11
  <2> HIDE DEF S, others
  <2>9. CASE Leads(out'[s], m)
    <3>1. Leads(out'[s], ElectionResult(f, e, "OK"))
      BY <2>9
    <3>2. "OK" \in ElectionResults /\ electionLeaders[n] = g
      BY <1>4, <1>11
    <3>3. CASE NameOf[h] = n
      BY <1>5, <2>1, <2>5, <2>6, <2>7, <2>8, <3>1, <3>2, <3>3, NoticeTells
    <3>4. CASE NameOf[h] # n
      <4>1. h # f /\ h # g
        BY <2>1, <3>4
      <4> QED
        BY <1>5, <2>1, <2>5, <2>6, <2>7, <2>8, <3>1, <3>2, <3>4, <4>1, NoticeTells
    <3> QED
      BY <3>3, <3>4
  <2>10. CASE PlainSeq(out'[s]) /\ h # g /\ h # f
    <3>1. electionLeaders'[NameOf[h]] = h <=> electionLeaders[NameOf[h]] = h
      BY <1>5, <1>11, <2>6, <2>10
    <3> QED
      BY <2>10, <3>1, TellsNothing
  <2> QED
    BY <2>5, <2>9, <2>10
<1>12. ASSUME NEW f \in Freshest(others), electionLeaders[n] = g, g \in electionCandidates[n],
              electionCandidates' = [electionCandidates EXCEPT ![n] = others],
              electionLeaders' = [electionLeaders EXCEPT ![n] = f],
              out' = Then(Broadcast({}, ElectionResult(f, "RunForLeader", "OK")), rest)
       PROVE  Tells(out'[s], h)
  <2>1. f \in electionCandidates[n] /\ f # g
    BY DEF Freshest
  <2> QED
    BY <1>4, <1>11, <1>12, <2>1
<1>13. CASE /\ g \in electionCandidates[n]
            /\ electionLeaders[n] = g
            /\ electionCandidates' = [electionCandidates EXCEPT ![n] = others]
            /\ electionLeaders' = [electionLeaders EXCEPT ![n] = NoHandle]
            /\ out' = Then(Broadcast({}, ElectionResult(g, "GiveUpLeader", "OK")), rest)
  BY <1>4, <1>11, <1>13
<1> HIDE DEF others, s
<1>14. Tells(out'[s], h)
  BY <1>9, <1>10, <1>12, <1>13 DEF GiveupElection, s, others
<1> QED
  BY <1>14 DEF s

LEMMA NextTells ==
    ASSUME IInv, StartInv, Next, NEW h \in Handles
    PROVE  Tells(out'[ServerOf[h]], h)
<1>1. \A f \in services : sessions[ServerOf[f]] # NoConn
  BY DEF StartInv, IInv, TypeOK
<1>2. CASE UNCHANGED electVars /\ PlainOut(out')
  <2>1. PlainSeq(out'[ServerOf[h]])
    BY <1>2, NameOfType DEF PlainOut
  <2> QED
    BY <1>2, <2>1, TellsNothing DEF electVars
<1>3. ASSUME NEW s \in Servers, RegisterApp(s) PROVE Tells(out'[ServerOf[h]], h)
  BY <1>3, RegisterAppTells
<1>4. ASSUME NEW g \in Handles, OnServiceRunForElection(g) PROVE Tells(out'[ServerOf[h]], h)
  BY <1>1, <1>4, RunTells
<1>5. ASSUME NEW g \in Handles, NEW rest \in Outputs, g \in handleServices, PlainOut(rest),
             GiveupElection(g, rest)
      PROVE  Tells(out'[ServerOf[h]], h)
  BY <1>1, <1>5, GiveUpTells
<1> QED
  BY <1>2, <1>3, <1>4, <1>5, SentSteps

-----------------------------------------------------------------------------
(* The steps of the composed system, by what they do to the queues.        *)

ServiceCmds == {"REGISTER_SERVICE", "UNREGISTER_SERVICE", "HEARTBEAT", "RUN_FOR_LEADER",
                "GIVE_UP_LEADER"}

\* A step of a call about service h.
ServiceCall(h) ==
    \/ RegisterSend(h) \/ RegisterInsert(h) \/ RegisterFail(h) \/ UnRegisterCall(h)
    \/ (\E caller \in Callers : UnRegisterDelete(h, caller))
    \/ Keepalive(h) \/ RunForElection(h) \/ GiveUpElection(h)

\* A step of the name server that its agents hear of.
ServerStep == NameServerTick \/ \E s \in Servers : HandleRequest(s)

LEMMA CPSteps ==
    ASSUME [CPNext]_allVars
    PROVE  \/ \E s \in Servers : Start(s)
           \/ \E h \in Handles : ServiceCall(h)
           \/ ServerStep
           \/ \E s \in Servers : DropRequest(s)
           \/ \E s \in Servers : HandleEvent(s)
           \/ UNCHANGED allVars
BY DEF CPNext, ApiCall, ServiceCall, ServerStep

\* The queue of s after a request is sent, or taken.
LEMMA SentUp ==
    ASSUME AgentTypeOK, NEW s \in Servers, NEW m \in Requests, SendUp(s, m)
    PROVE  /\ \A t \in Servers \ {s} : up'[t] = up[t]
           /\ Len(up'[s]) = Len(up[s]) + 1 /\ Len(up[s]) \in Nat
           /\ \A i \in 1 .. Len(up[s]) : up'[s][i] = up[s][i]
           /\ up'[s][Len(up[s]) + 1] = m
<1>1. up \in [Servers -> Seq(Requests)] /\ up'[s] = Append(up[s], m)
  BY DEF AgentTypeOK, SendUp
<1>2. up[s] \in Seq(Requests)
  BY <1>1
<1> QED
  BY <1>1, <1>2, AppendProperties DEF SendUp

LEMMA TakenUp ==
    ASSUME AgentTypeOK, NEW s \in Servers, up[s] # << >>, up' = [up EXCEPT ![s] = Tail(@)]
    PROVE  /\ \A t \in Servers \ {s} : up'[t] = up[t]
           /\ Len(up'[s]) = Len(up[s]) - 1 /\ Len(up[s]) \in Nat \ {0}
           /\ \A i \in 1 .. Len(up[s]) - 1 : up'[s][i] = up[s][i + 1]
           /\ Head(up[s]) = up[s][1] /\ up[s][1] \in Requests
<1>1. up \in [Servers -> Seq(Requests)] /\ up'[s] = Tail(up[s])
  BY DEF AgentTypeOK
<1>2. up[s] \in Seq(Requests)
  BY <1>1
<1> QED
  BY <1>1, <1>2, TailFacts

\* A call sends at most one request, about its own service, for an agent that has
\* started.
LEMMA CallFacts ==
    ASSUME AgentTypeOK, StartInv, NEW h \in Handles, ServiceCall(h)
    PROVE  /\ UNCHANGED <<vars, started, leader, down>>
           /\ up' = up \/ (\E c \in ServiceCmds \ {"RUN_FOR_LEADER"} :
                              SendUp(ServerOf[h], Request(c, h))) \/ RunForElection(h)
           /\ up' # up => ServerOf[h] \in started
           /\ candidates' = candidates \/ RunForElection(h)
           /\ svc'[h] # "none" => ServerOf[h] \in started
           /\ \A g \in Handles \ {h} : svc'[g] = svc[g]
<1>1. svc \in [Handles -> SvcStates]
  BY DEF AgentTypeOK
<1>2. svc[h] # "none" => ServerOf[h] \in started
  BY DEF StartInv
<1>3. CASE RegisterSend(h)
  BY <1>1, <1>3 DEF RegisterSend, CallsAllowed, AgentStep, ServiceCmds
<1>4. CASE RegisterInsert(h)
  BY <1>1, <1>2, <1>4 DEF RegisterInsert, AgentStep
<1>5. CASE RegisterFail(h)
  <2>1. /\ UNCHANGED <<vars, started, leader, down, candidates>>
        /\ up' = up \/ SendUp(ServerOf[h], Request("UNREGISTER_SERVICE", h))
        /\ up' # up => svc[h] # "none"
    BY <1>1, <1>5 DEF RegisterFail, UnRegisterStop, InMaps, AgentStep
  <2>2. /\ svc'[h] # "none" => svc[h] # "none"
        /\ \A g \in Handles \ {h} : svc'[g] = svc[g]
    BY <1>1, <1>5 DEF RegisterFail
  <2> QED
    BY <1>2, <2>1, <2>2 DEF ServiceCmds
<1>6. CASE UnRegisterCall(h)
  BY <1>1, <1>2, <1>6 DEF UnRegisterCall, UnRegisterStop, CallsAllowed, AgentStep, ServiceCmds
<1>7. ASSUME NEW caller \in Callers, UnRegisterDelete(h, caller)
      PROVE  /\ UNCHANGED <<vars, started, leader, down, up, candidates>>
             /\ svc'[h] # "none" => svc[h] # "none"
             /\ \A g \in Handles \ {h} : svc'[g] = svc[g]
  BY <1>1, <1>7 DEF UnRegisterDelete, InMaps, AgentStep
<1>8. CASE Keepalive(h)
  BY <1>1, <1>2, <1>8 DEF Keepalive, CallsAllowed, AgentStep, agentVars, ServiceCmds
<1>9. CASE RunForElection(h)
  BY <1>1, <1>2, <1>9 DEF RunForElection, CallsAllowed, AgentStep
<1>10. CASE GiveUpElection(h)
  BY <1>1, <1>2, <1>10 DEF GiveUpElection, CallsAllowed, AgentStep, agentVars, ServiceCmds
<1> QED
  BY <1>2, <1>3, <1>4, <1>5, <1>6, <1>7, <1>8, <1>9, <1>10 DEF ServiceCall

\* A request is handled for its own service.
LEMMA RequestFacts ==
    ASSUME IInv, AgentTypeOK, NEW s \in Servers, HandleRequest(s)
    PROVE  /\ UNCHANGED <<sessVars, agentVars>> /\ Deliver
           /\ \A h \in Handles : h \in services' /\ h \notin services
                 => up[s][1] = Request("REGISTER_SERVICE", h)
           /\ \A h \in Handles :
                 /\ h \in electionCandidates'[NameOf[h]]
                 /\ h \notin electionCandidates[NameOf[h]]
                 => up[s][1] = Request("RUN_FOR_LEADER", h)
<1> DEFINE m == Head(up[s])
<1>1. up[s] # << >> /\ up' = [up EXCEPT ![s] = Tail(@)] /\ Deliver /\ UNCHANGED agentVars
  BY DEF HandleRequest
<1>2. m = up[s][1] /\ m \in Requests
  BY <1>1, TakenUp
<1> HIDE DEF m
<1>3. TypeOK /\ \A h \in Handles : NameOf[h] \in Names
  BY NameOfType DEF IInv
<1>4. m.cmd # "REGISTER_APP" => m.handle \in Handles /\ m = Request(m.cmd, m.handle)
  BY <1>2 DEF Requests, Request
<1>5. CASE m.cmd = "REGISTER_APP" /\ RegisterApp(s)
  BY <1>1, <1>5 DEF RegisterApp, electVars
<1>6. CASE /\ m.cmd = "REGISTER_SERVICE"
           /\ \/ RegisterServiceAgain(m.handle) \/ RegisterServiceNoApp(m.handle)
              \/ RegisterService(m.handle, FALSE)
  BY <1>1, <1>2, <1>4, <1>6
     DEF RegisterServiceAgain, RegisterServiceNoApp, RegisterService, AddItem, electVars, regVars
<1>7. ASSUME NEW g \in Handles, NEW rest, GiveupElection(g, rest), NEW h \in Handles,
             h \in electionCandidates'[NameOf[h]]
      PROVE  h \in electionCandidates[NameOf[h]]
  <2>1. \/ electionCandidates' = electionCandidates
        \/ electionCandidates' =
             [electionCandidates EXCEPT ![NameOf[g]] = electionCandidates[NameOf[g]] \ {g}]
    BY <1>7 DEF GiveupElection, electVars
  <2>2. electionCandidates \in [Names -> SUBSET Handles]
    BY <1>3 DEF TypeOK
  <2> QED
    BY <1>3, <1>7, <2>1, <2>2
<1>8. ASSUME RejectHandle(m.handle) PROVE UNCHANGED <<sessVars, services, electVars>>
  BY <1>8 DEF RejectHandle, regVars
<1>9. CASE m.cmd = "UNREGISTER_SERVICE" /\ UnRegister(m.handle)
  <2>1. UNCHANGED sessVars /\ services' \subseteq services
    BY <1>9 DEF UnRegister, UnRegisterService, RemoveItem
  <2>2. \E rest : GiveupElection(m.handle, rest)
    BY <1>9 DEF UnRegister, UnRegisterService
  <2> QED
    BY <1>1, <1>4, <1>7, <1>9, <2>1, <2>2
<1>10. CASE m.cmd = "HEARTBEAT" /\ OnServiceHeartbeat(m.handle)
  BY <1>1, <1>10 DEF OnServiceHeartbeat, electVars
<1>11. CASE m.cmd = "RUN_FOR_LEADER" /\ OnServiceRunForElection(m.handle)
  <2>1. /\ UNCHANGED <<sessVars, services>>
        /\ electionCandidates' = [electionCandidates EXCEPT ![NameOf[m.handle]] = @ \cup {m.handle}]
    BY <1>11 DEF OnServiceRunForElection, regVars
  <2>2. electionCandidates \in [Names -> SUBSET Handles]
    BY <1>3 DEF TypeOK
  <2>3. \A h \in Handles \ {m.handle} :
           h \in electionCandidates'[NameOf[h]] => h \in electionCandidates[NameOf[h]]
    BY <1>3, <2>1, <2>2
  <2> QED
    BY <1>1, <1>2, <1>4, <1>11, <2>1, <2>3
<1>12. CASE m.cmd = "GIVE_UP_LEADER" /\ OnServiceGiveupElection(m.handle)
  <2>1. UNCHANGED <<sessVars, services>> /\ GiveupElection(m.handle, Silent)
    BY <1>12 DEF OnServiceGiveupElection, regVars
  <2> QED
    BY <1>1, <1>4, <1>7, <1>12, <2>1
<1> QED
  BY <1>1, <1>5, <1>6, <1>8, <1>9, <1>10, <1>11, <1>12 DEF HandleRequest, electVars, m

\* The ticker of the name server adds nothing.
LEMMA TickFacts ==
    ASSUME IInv, NameServerTick
    PROVE  /\ UNCHANGED <<sessVars, agentVars, up>> /\ Deliver /\ services' \subseteq services
           /\ \A h \in Handles : h \in electionCandidates'[NameOf[h]] =>
                 h \in electionCandidates[NameOf[h]]
<1>1. TypeOK /\ \A h \in Handles : NameOf[h] \in Names
  BY NameOfType DEF IInv
<1>2. UNCHANGED <<agentVars, up>> /\ Deliver /\ (Clock \/ OnTick \/ Tick)
  BY DEF NameServerTick
<1>3. CASE Clock \/ OnTick \/ \E n \in Names : CheckExpired(n)
  BY <1>2, <1>3 DEF Clock, OnTick, CheckExpired, regVars, electVars
<1>4. CASE KickExpired
  <2> DEFINE g == Head(expired)
  <2>1. g \in Handles
    BY <1>1, <1>4 DEF KickExpired, UnRegisterService, TypeOK
  <2>2. UNCHANGED sessVars /\ services' \subseteq services
    BY <1>4 DEF KickExpired, UnRegisterService, RemoveItem
  <2>3. \/ electionCandidates' = electionCandidates
        \/ electionCandidates' =
             [electionCandidates EXCEPT ![NameOf[g]] = electionCandidates[NameOf[g]] \ {g}]
    BY <1>4 DEF KickExpired, UnRegisterService, GiveupElection, electVars
  <2>4. electionCandidates \in [Names -> SUBSET Handles]
    BY <1>1 DEF TypeOK
  <2> HIDE DEF g
  <2>5. \A h \in Handles : h \in electionCandidates'[NameOf[h]] =>
           h \in electionCandidates[NameOf[h]]
    BY <1>1, <2>1, <2>3, <2>4
  <2> QED
    BY <1>2, <2>2, <2>5
<1> QED
  BY <1>2, <1>3, <1>4 DEF Tick

\* The event loop sends at most the UNREGISTER_SERVICE of a service that is kicked off.
LEMMA EventFacts ==
    ASSUME AgentTypeOK, NEW s \in Servers, HandleEvent(s)
    PROVE  /\ UNCHANGED <<vars, started>> /\ down[s] # << >>
           /\ down[s] \in Seq(Messages) /\ down[s][1] \in Messages
           /\ down' = [down EXCEPT ![s] = Tail(@)]
           /\ up' = up \/ \E g \in Handles : /\ SendUp(ServerOf[g], Request("UNREGISTER_SERVICE", g))
                                            /\ svc[g] # "none"
           /\ \A g \in Handles : svc'[g] # "none" => svc[g] # "none"
<1> DEFINE m == Head(down[s])
<1>1. /\ UNCHANGED vars /\ down[s] # << >> /\ down' = [down EXCEPT ![s] = Tail(@)]
      /\ down[s] \in Seq(Messages) /\ svc \in [Handles -> SvcStates]
  BY DEF HandleEvent, AgentStep, AgentTypeOK
<1>2. m = down[s][1] /\ down[s][1] \in Messages
  BY <1>1, TailFacts
<1> HIDE DEF m
<1>3. CASE OnRegisterApp(s, m)
  BY <1>1, <1>2, <1>3 DEF OnRegisterApp
<1>4. CASE m.cmd = "RSP_REGISTER_SERVICE" /\ OnRegisterRsp(s, m)
  <2>1. UNCHANGED <<started, up>>
    BY <1>4 DEF OnRegisterRsp
  <2>2. \A g \in Handles : svc'[g] # "none" => svc[g] # "none"
    BY <1>1, <1>4 DEF OnRegisterRsp
  <2> QED
    BY <1>1, <1>2, <2>1, <2>2
<1>5. CASE OnRunForElectionResult(s, m) \/ OnGiveUpElectionResult(s, m)
  BY <1>1, <1>2, <1>5 DEF OnRunForElectionResult, OnGiveUpElectionResult
<1>6. CASE m.cmd = "NOTIFY_SERVICE_KICK_OFF" /\ OnKickOff(s, m)
  <2>1. m.handle \in Handles
    BY <1>2, <1>6 DEF Messages
  <2>2. /\ UNCHANGED <<started, svc>>
        /\ up' = up \/ (/\ SendUp(ServerOf[m.handle], Request("UNREGISTER_SERVICE", m.handle))
                        /\ svc[m.handle] # "none")
    BY <1>1, <1>6 DEF OnKickOff, UnRegisterStop, InMaps
  <2> QED
    BY <1>1, <1>2, <2>1, <2>2
<1>7. CASE UNCHANGED <<agentVars, up>>
  BY <1>1, <1>2, <1>7 DEF agentVars
<1> QED
  BY <1>3, <1>4, <1>5, <1>6, <1>7 DEF HandleEvent, m

-----------------------------------------------------------------------------
(* Only agents that have started take part.                                *)

\* OwnRequests after one more request, or after one is taken.
LEMMA OwnSent ==
    ASSUME AgentTypeOK, OwnRequests, NEW s \in Servers, NEW m \in Requests, SendUp(s, m),
           s \in started', started \subseteq started',
           m.cmd # "REGISTER_APP" => ServerOf[m.handle] = s
    PROVE  OwnRequests'
<1>1. /\ \A t \in Servers \ {s} : up'[t] = up[t]
      /\ Len(up'[s]) = Len(up[s]) + 1 /\ Len(up[s]) \in Nat
      /\ \A i \in 1 .. Len(up[s]) : up'[s][i] = up[s][i]
      /\ up'[s][Len(up[s]) + 1] = m
  BY SentUp
<1>2. \A t \in Servers : up'[t] # << >> => t \in started'
  BY <1>1 DEF OwnRequests
<1>3. ASSUME NEW t \in Servers, NEW i \in 1 .. Len(up'[t]), up'[t][i].cmd # "REGISTER_APP"
      PROVE  ServerOf[up'[t][i].handle] = t
  <2>1. CASE t = s
    <3>1. i \in 1 .. Len(up[s]) \/ i = Len(up[s]) + 1
      BY <1>1, <2>1
    <3> QED
      BY <1>1, <1>3, <2>1, <3>1 DEF OwnRequests
  <2>2. CASE t # s
    BY <1>1, <1>3, <2>2 DEF OwnRequests
  <2> QED
    BY <2>1, <2>2
<1> QED
  BY <1>2, <1>3 DEF OwnRequests

LEMMA OwnTaken ==
    ASSUME AgentTypeOK, OwnRequests, NEW s \in Servers, up[s] # << >>,
           up' = [up EXCEPT ![s] = Tail(@)], started' = started
    PROVE  OwnRequests'
<1>1. /\ \A t \in Servers \ {s} : up'[t] = up[t]
      /\ Len(up'[s]) = Len(up[s]) - 1 /\ Len(up[s]) \in Nat \ {0}
      /\ \A i \in 1 .. Len(up[s]) - 1 : up'[s][i] = up[s][i + 1]
  BY TakenUp
<1>2. \A t \in Servers : up'[t] # << >> => t \in started'
  BY <1>1 DEF OwnRequests
<1>3. ASSUME NEW t \in Servers, NEW i \in 1 .. Len(up'[t]), up'[t][i].cmd # "REGISTER_APP"
      PROVE  ServerOf[up'[t][i].handle] = t
  <2>1. CASE t = s
    <3>1. i + 1 \in 1 .. Len(up[s]) /\ up'[s][i] = up[s][i + 1]
      BY <1>1, <2>1
    <3> QED
      BY <1>3, <2>1, <3>1 DEF OwnRequests
  <2>2. CASE t # s
    BY <1>1, <1>3, <2>2 DEF OwnRequests
  <2> QED
    BY <2>1, <2>2
<1> QED
  BY <1>2, <1>3 DEF OwnRequests

LEMMA StepStartInv ==
    ASSUME CPInv, CPInv', StartInv, [CPNext]_allVars
    PROVE  StartInv'
<1>1. IInv /\ AgentTypeOK /\ OwnRequests /\ TypeOK' /\ \A h \in Handles : ServerOf[h] \in Servers
  BY NameOfType DEF CPInv, StartInv, IInv
<1>2. /\ \A s \in started : sessions[s] # NoConn
      /\ \A h \in Handles : svc[h] # "none" \/ h \in services => ServerOf[h] \in started
  BY DEF StartInv
<1> DEFINE Known == \A h \in Handles : svc[h] # "none" \/ h \in services => ServerOf[h] \in started
<1> SUFFICES OwnRequests' /\ (\A s \in started : sessions[s] # NoConn)' /\ Known'
  BY DEF StartInv
<1>3. ASSUME NEW s \in Servers, Start(s)
      PROVE  OwnRequests' /\ (\A t \in started : sessions[t] # NoConn)' /\ Known'
  <2>1. PICK c \in Conns : OnNotifiedAgentInfo(c, s)
    BY <1>3 DEF Start
  <2>2. sessions' = [sessions EXCEPT ![s] = c] /\ UNCHANGED services /\ c # NoConn
    BY <2>1, NoValues DEF OnNotifiedAgentInfo, regVars
  <2>3. sessions \in [Servers -> Conns \cup {NoConn}] /\ started \subseteq Servers
    BY <1>1 DEF IInv, TypeOK, AgentTypeOK
  <2>4. started' = started \cup {s} /\ UNCHANGED svc /\ SendUp(s, [cmd |-> "REGISTER_APP"])
    BY <1>3 DEF Start
  <2>5. [cmd |-> "REGISTER_APP"] \in Requests
    BY DEF Requests
  <2>6. OwnRequests'
    BY <1>1, <2>4, <2>5, OwnSent
  <2>7. (\A t \in started : sessions[t] # NoConn)'
    BY <1>2, <2>2, <2>3, <2>4
  <2> QED
    BY <1>2, <2>2, <2>4, <2>6, <2>7
<1>4. ASSUME NEW h \in Handles, ServiceCall(h)
      PROVE  OwnRequests' /\ (\A t \in started : sessions[t] # NoConn)' /\ Known'
  <2>1. /\ UNCHANGED <<vars, started, leader, down>>
        /\ up' = up \/ (\E c \in ServiceCmds \ {"RUN_FOR_LEADER"} :
                           SendUp(ServerOf[h], Request(c, h))) \/ RunForElection(h)
        /\ up' # up => ServerOf[h] \in started
        /\ svc'[h] # "none" => ServerOf[h] \in started
        /\ \A g \in Handles \ {h} : svc'[g] = svc[g]
    BY <1>1, <1>4, CallFacts
  <2>2. UNCHANGED <<sessions, services>>
    BY <2>1 DEF vars, sessVars, regVars
  <2>3. up' = up \/ \E c \in ServiceCmds : SendUp(ServerOf[h], Request(c, h))
    BY <2>1 DEF RunForElection, ServiceCmds
  <2>4. ASSUME NEW c \in ServiceCmds, SendUp(ServerOf[h], Request(c, h)), up' # up
        PROVE  OwnRequests'
    <3>1. Request(c, h) \in Requests /\ Request(c, h).handle = h
      BY RequestType DEF ServiceCmds, Request
    <3> QED
      BY <1>1, <2>1, <2>4, <3>1, OwnSent
  <2>5. ASSUME up' = up PROVE OwnRequests'
    BY <1>1, <2>1, <2>5 DEF OwnRequests
  <2>6. OwnRequests'
    BY <2>3, <2>4, <2>5
  <2> QED
    BY <1>2, <2>1, <2>2, <2>6
<1>5. ASSUME NEW s \in Servers, HandleRequest(s)
      PROVE  OwnRequests' /\ (\A t \in started : sessions[t] # NoConn)' /\ Known'
  <2>1. /\ UNCHANGED <<sessVars, agentVars>>
        /\ \A h \in Handles : h \in services' /\ h \notin services
              => up[s][1] = Request("REGISTER_SERVICE", h)
    BY <1>1, <1>5, RequestFacts
  <2>2. up[s] # << >> /\ up' = [up EXCEPT ![s] = Tail(@)]
    BY <1>5 DEF HandleRequest
  <2>3. OwnRequests'
    BY <1>1, <2>1, <2>2, OwnTaken DEF agentVars
  <2>4. ASSUME NEW h \in Handles, h \in services', h \notin services PROVE ServerOf[h] \in started
    <3>1. up[s][1] = Request("REGISTER_SERVICE", h) /\ 1 \in 1 .. Len(up[s])
      BY <1>1, <2>1, <2>2, <2>4, TakenUp
    <3>2. ServerOf[h] = s /\ s \in started
      BY <1>1, <2>2, <3>1 DEF OwnRequests, Request
    <3> QED
      BY <3>2
  <2> QED
    BY <1>2, <2>1, <2>3, <2>4 DEF sessVars, agentVars
<1>6. CASE NameServerTick
  <2>1. UNCHANGED <<sessVars, agentVars, up>> /\ services' \subseteq services
    BY <1>1, <1>6, TickFacts
  <2> QED
    BY <1>1, <1>2, <2>1 DEF OwnRequests, sessVars, agentVars
<1>7. ASSUME NEW s \in Servers, DropRequest(s)
      PROVE  OwnRequests' /\ (\A t \in started : sessions[t] # NoConn)' /\ Known'
  <2>1. /\ UNCHANGED <<sessions, services, started, svc>>
        /\ up[s] # << >> /\ up' = [up EXCEPT ![s] = Tail(@)]
    BY <1>7 DEF DropRequest, AgentStep, agentVars, vars, sessVars, regVars
  <2> QED
    BY <1>1, <1>2, <2>1, OwnTaken
<1>8. ASSUME NEW s \in Servers, HandleEvent(s)
      PROVE  OwnRequests' /\ (\A t \in started : sessions[t] # NoConn)' /\ Known'
  <2>1. /\ UNCHANGED <<vars, started>>
        /\ up' = up \/ \E g \in Handles : /\ SendUp(ServerOf[g], Request("UNREGISTER_SERVICE", g))
                                         /\ svc[g] # "none"
        /\ \A g \in Handles : svc'[g] # "none" => svc[g] # "none"
    BY <1>1, <1>8, EventFacts
  <2>2. UNCHANGED <<sessions, services, started>>
    BY <2>1 DEF vars, sessVars, regVars
  <2>3. ASSUME NEW g \in Handles, SendUp(ServerOf[g], Request("UNREGISTER_SERVICE", g)),
               svc[g] # "none"
        PROVE  OwnRequests'
    <3>1. /\ Request("UNREGISTER_SERVICE", g) \in Requests
          /\ Request("UNREGISTER_SERVICE", g).handle = g
      BY RequestType DEF Request
    <3> QED
      BY <1>1, <1>2, <2>2, <2>3, <3>1, OwnSent
  <2>4. ASSUME up' = up PROVE OwnRequests'
    BY <1>1, <2>2, <2>4 DEF OwnRequests
  <2>5. OwnRequests'
    BY <2>1, <2>3, <2>4
  <2> QED
    BY <1>2, <2>1, <2>2, <2>5
<1>9. CASE UNCHANGED allVars
  <2>1. UNCHANGED <<sessions, services, started, svc, up>>
    BY <1>9 DEF allVars, vars, sessVars, regVars, agentVars
  <2> QED
    BY <1>1, <1>2, <2>1 DEF OwnRequests
<1> HIDE DEF Known
<1> QED
  BY <1>3, <1>4, <1>5, <1>6, <1>7, <1>8, <1>9, CPSteps DEF ServerStep

-----------------------------------------------------------------------------
(* What the event loop makes of an event.                                  *)

\* The leader at agent s, and the candidates, after event m.
LEMMA ListEvent ==
    ASSUME AgentTypeOK, NamesInv, NEW s \in Servers, NEW m \in Messages,
           m.cmd = "RSP_REGISTER_APP", OnRegisterApp(s, m),
           \A h \in Handles : ServerOf[h] = s => OneLeader(m)
    PROVE  /\ candidates' = candidates /\ NamesInv' /\ \A t \in Servers \ {s} : leader'[t] = leader[t]
           /\ \A h \in Handles : ServerOf[h] = s =>
                 (leader'[s][NameOf[h]] = h <=>
                     Sets(m, h) \/ (leader[s][NameOf[h]] = h /\ ~ Unsets(m, h)))
<1> DEFINE L == m.leaders
           new(n) == IF \E g \in L : NameOf[g] = n THEN CHOOSE g \in L : NameOf[g] = n
                                                   ELSE leader[s][n]
<1>1. L \subseteq Handles /\ m = RegisterAppRsp(L)
  BY DEF Messages, RegisterAppRsp
<1>2. \A h \in Handles : ServerOf[h] = s => \A f, g \in L : NameOf[f] = NameOf[g] => f = g
  BY DEF OneLeader
<1>3. leader \in [Servers -> [Names -> Handles \cup {NoHandle}]] /\ candidates' = candidates
  BY DEF AgentTypeOK, OnRegisterApp
<1>4. leader' = [leader EXCEPT ![s] = [n \in Names |-> new(n)]]
  BY DEF OnRegisterApp
<1> HIDE DEF L
<1>5. \A n \in Names : (\E g \in L : NameOf[g] = n) => new(n) \in L /\ NameOf[new(n)] = n
  OBVIOUS
<1>6. \A n \in Names : ~ (\E g \in L : NameOf[g] = n) => new(n) = leader[s][n]
  OBVIOUS
<1> HIDE DEF new
<1>7. /\ \A t \in Servers \ {s} : leader'[t] = leader[t]
      /\ \A n \in Names : leader'[s][n] = new(n)
  BY <1>3, <1>4
<1>8. NamesInv'
  BY <1>5, <1>6, <1>7 DEF NamesInv
<1>9. ASSUME NEW h \in Handles, ServerOf[h] = s
      PROVE  new(NameOf[h]) = h <=> Sets(m, h) \/ (leader[s][NameOf[h]] = h /\ ~ Unsets(m, h))
  <2>1. /\ Sets(m, h) <=> h \in L
        /\ Unsets(m, h) <=> \E g \in L : g # h /\ NameOf[g] = NameOf[h]
    BY <1>1, LeadersEffect
  <2>2. NameOf[h] \in Names
    BY NameOfType
  <2>3. CASE \E g \in L : NameOf[g] = NameOf[h]
    BY <1>2, <1>5, <1>9, <2>1, <2>2, <2>3
  <2>4. CASE ~ \E g \in L : NameOf[g] = NameOf[h]
    BY <1>6, <2>1, <2>2, <2>4
  <2> QED
    BY <2>3, <2>4
<1> QED
  BY <1>3, <1>7, <1>8, <1>9, NameOfType

LEMMA ResultEvent ==
    ASSUME AgentTypeOK, NamesInv, NEW s \in Servers, NEW m \in Messages,
           m.cmd = "NOTIFY_SERVICE_ELECTION_RESULT",
           \/ m.event = "RunForLeader" /\ OnRunForElectionResult(s, m)
           \/ m.event = "GiveUpLeader" /\ OnGiveUpElectionResult(s, m)
    PROVE  /\ NamesInv' /\ \A t \in Servers \ {s} : leader'[t] = leader[t]
           /\ \A h \in Handles :
                 /\ leader'[s][NameOf[h]] = h <=>
                       Sets(m, h) \/ (leader[s][NameOf[h]] = h /\ ~ Unsets(m, h))
                 /\ h \in candidates' => h \in candidates
                 /\ h \in candidates /\ h \notin candidates' =>
                       /\ ServerOf[h] = s
                       /\ IsGiveUp(m, h) \/ (Takes(m, h) /\ leader[s][NameOf[h]] = h)
<1> DEFINE g == m.handle
           n == NameOf[g]
<1>1. /\ g \in Handles /\ m.event \in ElectionEvents /\ m.result \in ElectionResults
      /\ m = ElectionResult(g, m.event, m.result)
  BY DEF Messages, ElectionResult
<1>2. n \in Names /\ NoHandle # g /\ \A h \in Handles : NameOf[h] \in Names /\ NoHandle # h
  BY <1>1, NameOfType, NoValues
<1>3. /\ leader \in [Servers -> [Names -> Handles \cup {NoHandle}]]
      /\ leader[s] \in [Names -> Handles \cup {NoHandle}]
  BY DEF AgentTypeOK
<1>4. ASSUME NEW h \in Handles
      PROVE  LET another == g # h /\ n = NameOf[h]
                 run == m.event = "RunForLeader" /\ m.result = "OK"
             IN  /\ Sets(m, h) <=> (g = h /\ run)
                 /\ Takes(m, h) <=> (another /\ run)
                 /\ IsGiveUp(m, h) <=> (g = h /\ m.event = "GiveUpLeader")
                 /\ Unsets(m, h) <=>
                       ((another /\ run) \/ (g = h /\ m.event = "GiveUpLeader" /\ m.result = "OK"))
  <2> HIDE DEF g
  <2> QED
    BY <1>1, ElectionEffect
<1> HIDE DEF g, n
<1>5. ASSUME NEW v, leader' = [leader EXCEPT ![s][n] = v]
      PROVE  /\ \A t \in Servers \ {s} : leader'[t] = leader[t]
             /\ leader'[s][n] = v
             /\ \A o \in Names \ {n} : leader'[s][o] = leader[s][o]
  <2>1. leader'[s] = [leader[s] EXCEPT ![n] = v] /\ \A t \in Servers \ {s} : leader'[t] = leader[t]
    BY <1>3, <1>5
  <2> QED
    BY <1>2, <1>3, <2>1
<1>6. CASE m.event = "RunForLeader" /\ OnRunForElectionResult(s, m) /\ m.result = "OK"
  <2> DEFINE old == leader[s][n]
  <2>1. /\ leader' = [leader EXCEPT ![s][n] = g]
        /\ candidates' = IF old # g /\ old # NoHandle /\ ServerOf[old] = s
                         THEN candidates \ {old} ELSE candidates
    BY <1>6 DEF OnRunForElectionResult, g, n
  <2>2. old # NoHandle => NameOf[old] = n
    BY <1>2 DEF NamesInv
  <2>3. /\ \A t \in Servers \ {s} : leader'[t] = leader[t]
        /\ leader'[s][n] = g
        /\ \A o \in Names \ {n} : leader'[s][o] = leader[s][o]
    BY <1>5, <2>1
  <2> HIDE DEF old
  <2>4. NamesInv'
    BY <2>3 DEF NamesInv, n
  <2>5. ASSUME NEW h \in Handles
        PROVE  leader'[s][NameOf[h]] = h <=>
                  Sets(m, h) \/ (leader[s][NameOf[h]] = h /\ ~ Unsets(m, h))
    BY <1>2, <1>4, <1>6, <2>3 DEF n
  <2>6. ASSUME NEW h \in Handles, h \in candidates, h \notin candidates'
        PROVE  ServerOf[h] = s /\ Takes(m, h) /\ leader[s][NameOf[h]] = h
    <3>1. h = old /\ old # g /\ old # NoHandle /\ ServerOf[old] = s
      BY <2>1, <2>6
    <3> QED
      BY <1>4, <1>6, <2>2, <3>1 DEF old
  <2> QED
    BY <2>1, <2>3, <2>4, <2>5, <2>6
<1>7. CASE m.event = "RunForLeader" /\ OnRunForElectionResult(s, m) /\ m.result # "OK"
  <2>1. UNCHANGED <<leader, candidates>>
    BY <1>7 DEF OnRunForElectionResult
  <2> QED
    BY <1>4, <1>7, <2>1 DEF NamesInv
<1>8. CASE m.event = "GiveUpLeader" /\ OnGiveUpElectionResult(s, m)
  <2>1. /\ candidates' = IF ServerOf[g] = s THEN candidates \ {g} ELSE candidates
        /\ leader' = IF m.result = "OK" /\ leader[s][n] = g
                     THEN [leader EXCEPT ![s][n] = NoHandle] ELSE leader
    BY <1>8 DEF OnGiveUpElectionResult, g, n
  <2>2. \A h \in Handles :
           /\ h \in candidates' => h \in candidates
           /\ h \in candidates /\ h \notin candidates' => ServerOf[h] = s /\ IsGiveUp(m, h)
    BY <1>4, <1>8, <2>1
  <2>3. CASE m.result = "OK" /\ leader[s][n] = g
    <3>1. /\ \A t \in Servers \ {s} : leader'[t] = leader[t]
          /\ leader'[s][n] = NoHandle
          /\ \A o \in Names \ {n} : leader'[s][o] = leader[s][o]
      BY <1>5, <2>1, <2>3
    <3>2. NamesInv'
      BY <3>1 DEF NamesInv
    <3>3. ASSUME NEW h \in Handles
          PROVE  leader'[s][NameOf[h]] = h <=>
                    Sets(m, h) \/ (leader[s][NameOf[h]] = h /\ ~ Unsets(m, h))
      BY <1>2, <1>4, <1>8, <2>3, <3>1 DEF n
    <3> QED
      BY <2>2, <3>1, <3>2, <3>3
  <2>4. CASE ~ (m.result = "OK" /\ leader[s][n] = g)
    <3>1. leader' = leader
      BY <2>1, <2>4
    <3>2. ASSUME NEW h \in Handles
          PROVE  leader[s][NameOf[h]] = h <=>
                    Sets(m, h) \/ (leader[s][NameOf[h]] = h /\ ~ Unsets(m, h))
      BY <1>4, <1>8, <2>4 DEF n
    <3> QED
      BY <2>2, <3>1, <3>2 DEF NamesInv
  <2> QED
    BY <2>3, <2>4
<1> QED
  BY <1>6, <1>7, <1>8

LEMMA EventBelief ==
    ASSUME AgentTypeOK, ListsInv, NamesInv, NEW s \in Servers, HandleEvent(s)
    PROVE  /\ NamesInv' /\ \A t \in Servers \ {s} : leader'[t] = leader[t]
           /\ \A h \in Handles :
                 LET m == down[s][1] IN
                 /\ ServerOf[h] = s =>
                       (leader'[s][NameOf[h]] = h <=>
                           Sets(m, h) \/ (leader[s][NameOf[h]] = h /\ ~ Unsets(m, h)))
                 /\ h \in candidates' => h \in candidates
                 /\ h \in candidates /\ h \notin candidates' =>
                       /\ ServerOf[h] = s
                       /\ IsGiveUp(m, h) \/ (Takes(m, h) /\ leader[s][NameOf[h]] = h)
<1> DEFINE m == Head(down[s])
<1>1. down[s] # << >> /\ down[s] \in Seq(Messages) /\ down[s][1] \in Messages
  BY EventFacts
<1>2. m = down[s][1] /\ m \in Messages /\ 1 \in 1 .. Len(down[s])
  BY <1>1, TailFacts
<1>3. \A h \in Handles : ServerOf[h] = s => OneLeader(m)
  BY <1>2 DEF ListsInv, EventsOf
<1>4. \/ m.cmd = "RSP_REGISTER_APP" /\ OnRegisterApp(s, m)
      \/ m.cmd = "RSP_REGISTER_SERVICE" /\ OnRegisterRsp(s, m)
      \/ /\ m.cmd = "NOTIFY_SERVICE_ELECTION_RESULT"
         /\ \/ m.event = "RunForLeader" /\ OnRunForElectionResult(s, m)
            \/ m.event = "GiveUpLeader" /\ OnGiveUpElectionResult(s, m)
      \/ m.cmd = "NOTIFY_SERVICE_KICK_OFF" /\ OnKickOff(s, m)
      \/ m.cmd \in OtherCmds /\ UNCHANGED <<agentVars, up>>
  BY DEF HandleEvent
<1> HIDE DEF m
<1>5. CASE m.cmd = "RSP_REGISTER_APP" /\ OnRegisterApp(s, m)
  BY <1>2, <1>3, <1>5, ListEvent
<1>6. CASE /\ m.cmd = "NOTIFY_SERVICE_ELECTION_RESULT"
           /\ \/ m.event = "RunForLeader" /\ OnRunForElectionResult(s, m)
              \/ m.event = "GiveUpLeader" /\ OnGiveUpElectionResult(s, m)
  BY <1>2, <1>6, ResultEvent
<1>7. CASE \/ m.cmd = "RSP_REGISTER_SERVICE" /\ OnRegisterRsp(s, m)
           \/ m.cmd = "NOTIFY_SERVICE_KICK_OFF" /\ OnKickOff(s, m)
           \/ m.cmd \in OtherCmds /\ UNCHANGED <<agentVars, up>>
  <2>1. UNCHANGED <<leader, candidates>>
    BY <1>7 DEF OnRegisterRsp, OnKickOff, agentVars
  <2>2. Neutral(m)
    BY <1>7 DEF Neutral, ElectionCmd, OtherCmds
  <2>3. \A h \in Handles : ~ Sets(m, h) /\ ~ Unsets(m, h)
    BY <2>2, NeutralEffect
  <2> QED
    BY <1>2, <2>1, <2>3 DEF NamesInv
<1> QED
  BY <1>4, <1>5, <1>6, <1>7

-----------------------------------------------------------------------------
(* The agent of a service learns whether it leads.                         *)

\* The queues of events after a step of the name server.
LEMMA Delivered ==
    ASSUME CPInv, CPInv', StartInv, ServerStep
    PROVE  /\ UNCHANGED agentVars
           /\ \A s \in Servers : /\ down[s] \in Seq(Messages) /\ out'[s] \in Seq(Messages)
                                 /\ down'[s] = down[s] \o out'[s]
           /\ \A h \in Handles : Tells(out'[ServerOf[h]], h)
<1>1. IInv /\ AgentTypeOK /\ TypeOK'
  BY DEF CPInv, IInv
<1>2. Next
  BY <1>1, HandleRequestIsHandle DEF ServerStep, NameServerTick, Next, Handle
<1>3. UNCHANGED agentVars /\ Deliver
  BY DEF ServerStep, NameServerTick, HandleRequest
<1>4. \A s \in Servers : down[s] \in Seq(Messages) /\ out'[s] \in Seq(Messages)
  BY <1>1 DEF AgentTypeOK, TypeOK
<1>5. \A h \in Handles : Tells(out'[ServerOf[h]], h)
  BY <1>1, <1>2, NextTells
<1> QED
  BY <1>3, <1>4, <1>5 DEF Deliver

BeliefOK == ListsInv /\ NamesInv /\ BeliefInv

LEMMA ServerBelief ==
    ASSUME CPInv, CPInv', StartInv, ServerStep, BeliefOK
    PROVE  BeliefOK'
<1>1. UNCHANGED agentVars
  BY Delivered
<1>2. NamesInv'
  BY <1>1 DEF BeliefOK, NamesInv, agentVars
<1>3. ASSUME NEW h \in Handles
      PROVE  /\ \A i \in 1 .. Len(EventsOf(h)') : OneLeader(EventsOf(h)'[i])
             /\ IF electionLeaders'[NameOf[h]] = h
                THEN Fresh(EventsOf(h)', BeliefOf(h)', h)
                ELSE Stale(EventsOf(h)', BeliefOf(h)', h)
  <2> DEFINE q == EventsOf(h)
             l == BeliefOf(h)
             x == out'[ServerOf[h]]
  <2>1. q \in Seq(Messages) /\ x \in Seq(Messages) /\ EventsOf(h)' = q \o x /\ Tells(x, h)
    BY Delivered, NameOfType DEF EventsOf
  <2>2. BeliefOf(h)' = l
    BY <1>1 DEF BeliefOf, agentVars
  <2>3. /\ \A i \in 1 .. Len(q) : OneLeader(q[i])
        /\ IF electionLeaders[NameOf[h]] = h THEN Fresh(q, l, h) ELSE Stale(q, l, h)
    BY DEF BeliefOK, ListsInv, BeliefInv
  <2> HIDE DEF q, l, x
  <2>4. ASSUME NEW i \in 1 .. Len(q \o x) PROVE OneLeader((q \o x)[i])
    <3>1. i \in 1 .. Len(q) \/ (i - Len(q) \in 1 .. Len(x) /\ i = Len(q) + (i - Len(q)))
      BY <2>1, Concat
    <3>2. CASE i \in 1 .. Len(q)
      BY <2>1, <2>3, <3>2, Concat
    <3>3. CASE i - Len(q) \in 1 .. Len(x) /\ i = Len(q) + (i - Len(q))
      <4>1. (q \o x)[Len(q) + (i - Len(q))] = x[i - Len(q)]
        BY <2>1, <3>3, Concat
      <4> QED
        BY <2>1, <3>3, <4>1 DEF Tells
    <3> QED
      BY <3>1, <3>2, <3>3
  <2>5. CASE electionLeaders'[NameOf[h]] = h
    <3>1. /\ \A k \in 1 .. Len(x) : ~ Unsets(x[k], h)
          /\ Fresh(q, l, h) \/ \E k \in 1 .. Len(x) : Sets(x[k], h)
      BY <2>1, <2>3, <2>5 DEF Tells
    <3>2. Fresh(q \o x, l, h)
      BY <2>1, <3>1, FreshConcat
    <3> QED
      BY <2>1, <2>2, <2>4, <2>5, <3>2
  <2>6. CASE electionLeaders'[NameOf[h]] # h
    <3>1. /\ \A k \in 1 .. Len(x) : ~ Sets(x[k], h)
          /\ Stale(q, l, h) \/ \E k \in 1 .. Len(x) : Ends(x[k], h)
      BY <2>1, <2>3, <2>6 DEF Tells
    <3>2. Stale(q \o x, l, h)
      BY <2>1, <3>1, StaleConcat
    <3> QED
      BY <2>1, <2>2, <2>4, <2>6, <3>2
  <2> QED
    BY <2>5, <2>6
<1> QED
  BY <1>2, <1>3 DEF BeliefOK, ListsInv, BeliefInv

\* The events of h before and after its agent handles one, and the belief of h's
\* agent then.
LEMMA EventTaken ==
    ASSUME AgentTypeOK, BeliefOK, NEW s \in Servers, HandleEvent(s), NEW h \in Handles
    PROVE  IF ServerOf[h] = s
           THEN /\ EventsOf(h) # << >> /\ EventsOf(h) \in Seq(Messages)
                /\ EventsOf(h)' = Tail(EventsOf(h))
                /\ BeliefOf(h)' = h <=> \/ Sets(EventsOf(h)[1], h)
                                        \/ BeliefOf(h) = h /\ ~ Unsets(EventsOf(h)[1], h)
           ELSE EventsOf(h)' = EventsOf(h) /\ BeliefOf(h)' = BeliefOf(h)
<1>1. down[s] # << >> /\ down[s] \in Seq(Messages) /\ down' = [down EXCEPT ![s] = Tail(@)]
  BY EventFacts
<1>2. down \in [Servers -> Seq(Messages)] /\ ServerOf[h] \in Servers
  BY NameOfType DEF AgentTypeOK
<1>3. CASE ServerOf[h] = s
  BY <1>1, <1>2, <1>3, EventBelief DEF BeliefOK, EventsOf, BeliefOf
<1>4. CASE ServerOf[h] # s
  BY <1>1, <1>2, <1>4, EventBelief DEF BeliefOK, EventsOf, BeliefOf
<1> QED
  BY <1>3, <1>4

LEMMA EventLoopBelief ==
    ASSUME CPInv, NEW s \in Servers, HandleEvent(s), BeliefOK
    PROVE  BeliefOK'
<1>1. AgentTypeOK /\ NamesInv' /\ UNCHANGED electionLeaders
  BY EventBelief, EventFacts DEF CPInv, BeliefOK, vars, electVars
<1>2. ASSUME NEW h \in Handles
      PROVE  /\ \A i \in 1 .. Len(EventsOf(h)') : OneLeader(EventsOf(h)'[i])
             /\ IF electionLeaders[NameOf[h]] = h
                THEN Fresh(EventsOf(h)', BeliefOf(h)', h)
                ELSE Stale(EventsOf(h)', BeliefOf(h)', h)
  <2> DEFINE q == EventsOf(h)
             l == BeliefOf(h)
             k == BeliefOf(h)'
  <2>1. /\ \A i \in 1 .. Len(q) : OneLeader(q[i])
        /\ IF electionLeaders[NameOf[h]] = h THEN Fresh(q, l, h) ELSE Stale(q, l, h)
    BY DEF BeliefOK, ListsInv, BeliefInv
  <2>2. CASE ServerOf[h] = s
    <3>1. /\ q # << >> /\ q \in Seq(Messages) /\ EventsOf(h)' = Tail(q)
          /\ k = h <=> Sets(q[1], h) \/ (l = h /\ ~ Unsets(q[1], h))
      BY <1>1, <2>2, EventTaken
    <3> HIDE DEF q, l, k
    <3>2. \A i \in 1 .. Len(Tail(q)) : i + 1 \in 1 .. Len(q) /\ Tail(q)[i] = q[i + 1]
      BY <3>1, TailFacts
    <3>3. \A i \in 1 .. Len(Tail(q)) : OneLeader(Tail(q)[i])
      BY <2>1, <3>2
    <3>4. IF electionLeaders[NameOf[h]] = h THEN Fresh(Tail(q), k, h) ELSE Stale(Tail(q), k, h)
      BY <2>1, <3>1, FreshTail, StaleTail
    <3> QED
      BY <3>1, <3>3, <3>4 DEF k
  <2>3. CASE ServerOf[h] # s
    <3>1. EventsOf(h)' = q /\ k = l
      BY <1>1, <2>3, EventTaken
    <3> QED
      BY <2>1, <3>1
  <2> QED
    BY <2>2, <2>3
<1> QED
  BY <1>1, <1>2 DEF BeliefOK, ListsInv, BeliefInv

\* The other steps leave what agents hold, and what is under way to them, alone.
LEMMA OtherSteps ==
    ASSUME CPInv, StartInv, [CPNext]_allVars, ~ ServerStep, \A s \in Servers : ~ HandleEvent(s)
    PROVE  UNCHANGED <<electVars, leader, down>>
<1>1. AgentTypeOK
  BY DEF CPInv
<1>2. ASSUME NEW s \in Servers, Start(s) PROVE UNCHANGED <<electVars, leader, down>>
  BY <1>2 DEF Start, OnNotifiedAgentInfo
<1>3. ASSUME NEW h \in Handles, ServiceCall(h) PROVE UNCHANGED <<electVars, leader, down>>
  BY <1>1, <1>3, CallFacts DEF vars
<1>4. ASSUME NEW s \in Servers, DropRequest(s) PROVE UNCHANGED <<electVars, leader, down>>
  BY <1>4 DEF DropRequest, AgentStep, vars, agentVars
<1>5. ASSUME UNCHANGED allVars PROVE UNCHANGED <<electVars, leader, down>>
  BY <1>5 DEF allVars, vars, agentVars
<1> QED
  BY <1>2, <1>3, <1>4, <1>5, CPSteps

LEMMA StepBeliefOK ==
    ASSUME CPInv, CPInv', StartInv, BeliefOK, [CPNext]_allVars
    PROVE  BeliefOK'
<1>1. CASE ServerStep
  BY <1>1, ServerBelief
<1>2. ASSUME NEW s \in Servers, HandleEvent(s) PROVE BeliefOK'
  BY <1>2, EventLoopBelief
<1>3. CASE ~ ServerStep /\ \A s \in Servers : ~ HandleEvent(s)
  <2>1. UNCHANGED <<electVars, leader, down>>
    BY <1>3, OtherSteps
  <2> QED
    BY <2>1 DEF BeliefOK, ListsInv, NamesInv, BeliefInv, EventsOf, BeliefOf, electVars
<1> QED
  BY <1>1, <1>2, <1>3

-----------------------------------------------------------------------------
(* A candidate of the name server is one at its agent.                     *)

\* No RUN_FOR_LEADER of h is new: the others are where they were, or one further.
RunsKept(h) ==
    \E d \in {0, 1} : \A i \in 1 .. Len(up'[ServerOf[h]]) :
        up'[ServerOf[h]][i] = Request("RUN_FOR_LEADER", h)
        => i + d \in 1 .. Len(up[ServerOf[h]]) /\ RunAt(h, i + d)

LEMMA RunsKeptFacts ==
    ASSUME NEW h \in Handles, RunsKept(h), AgentTypeOK',
           \A i, j \in 1 .. Len(up[ServerOf[h]]) : RunAt(h, i) /\ RunAt(h, j) => i = j
    PROVE  /\ RunIn(h)' => RunIn(h)
           /\ (\A i, j \in 1 .. Len(up[ServerOf[h]]) : RunAt(h, i) /\ RunAt(h, j) => i = j)'
<1>1. PICK d \in {0, 1} : \A i \in 1 .. Len(up'[ServerOf[h]]) :
           up'[ServerOf[h]][i] = Request("RUN_FOR_LEADER", h)
           => i + d \in 1 .. Len(up[ServerOf[h]]) /\ RunAt(h, i + d)
  BY DEF RunsKept
<1>2. RunIn(h)' => RunIn(h)
  BY <1>1 DEF RunIn, RunAt
<1>3. ASSUME NEW i \in 1 .. Len(up'[ServerOf[h]]), NEW j \in 1 .. Len(up'[ServerOf[h]]),
             up'[ServerOf[h]][i] = Request("RUN_FOR_LEADER", h),
             up'[ServerOf[h]][j] = Request("RUN_FOR_LEADER", h)
      PROVE  i = j
  <2>1. /\ i + d \in 1 .. Len(up[ServerOf[h]]) /\ RunAt(h, i + d)
        /\ j + d \in 1 .. Len(up[ServerOf[h]]) /\ RunAt(h, j + d)
    BY <1>1, <1>3
  <2>2. i + d = j + d
    BY <2>1
  <2>3. up'[ServerOf[h]] \in Seq(Requests)
    BY NameOfType DEF AgentTypeOK
  <2>4. i \in Int /\ j \in Int /\ d \in Int
    BY <1>1, <2>3
  <2> QED
    BY <2>2, <2>4
<1> QED
  BY <1>2, <1>3 DEF RunAt

LEMMA RunsKeptSent ==
    ASSUME AgentTypeOK, NEW s \in Servers, NEW m \in Requests, SendUp(s, m), NEW h \in Handles,
           m # Request("RUN_FOR_LEADER", h)
    PROVE  RunsKept(h)
<1>1. /\ \A t \in Servers \ {s} : up'[t] = up[t]
      /\ Len(up'[s]) = Len(up[s]) + 1 /\ Len(up[s]) \in Nat
      /\ \A i \in 1 .. Len(up[s]) : up'[s][i] = up[s][i]
      /\ up'[s][Len(up[s]) + 1] = m
  BY SentUp
<1>2. ServerOf[h] \in Servers
  BY NameOfType
<1>3. \A t \in Servers : up[t] \in Seq(Requests)
  BY DEF AgentTypeOK
<1>4. ASSUME NEW i \in 1 .. Len(up'[ServerOf[h]]),
             up'[ServerOf[h]][i] = Request("RUN_FOR_LEADER", h)
      PROVE  i + 0 \in 1 .. Len(up[ServerOf[h]]) /\ RunAt(h, i + 0)
  <2>1. CASE ServerOf[h] = s
    <3>1. i \in 1 .. Len(up[s]) \/ i = Len(up[s]) + 1
      BY <1>1, <2>1
    <3>2. i + 0 = i
      BY <1>1, <2>1
    <3> QED
      BY <1>1, <1>4, <2>1, <3>1, <3>2 DEF RunAt
  <2>2. CASE ServerOf[h] # s
    <3>1. up'[ServerOf[h]] = up[ServerOf[h]] /\ i + 0 = i
      BY <1>1, <1>2, <1>3, <2>2
    <3> QED
      BY <1>4, <3>1 DEF RunAt
  <2> QED
    BY <2>1, <2>2
<1> QED
  BY <1>4 DEF RunsKept

LEMMA RunsKeptTaken ==
    ASSUME AgentTypeOK, NEW s \in Servers, up[s] # << >>, up' = [up EXCEPT ![s] = Tail(@)],
           NEW h \in Handles
    PROVE  RunsKept(h)
<1>1. /\ \A t \in Servers \ {s} : up'[t] = up[t]
      /\ Len(up'[s]) = Len(up[s]) - 1 /\ Len(up[s]) \in Nat \ {0}
      /\ \A i \in 1 .. Len(up[s]) - 1 : up'[s][i] = up[s][i + 1]
  BY TakenUp
<1>2. ServerOf[h] \in Servers /\ up[ServerOf[h]] \in Seq(Requests)
  BY NameOfType DEF AgentTypeOK
<1>3. CASE ServerOf[h] = s
  <2>1. ASSUME NEW i \in 1 .. Len(up'[s]), up'[s][i] = Request("RUN_FOR_LEADER", h)
        PROVE  i + 1 \in 1 .. Len(up[s]) /\ up[s][i + 1] = Request("RUN_FOR_LEADER", h)
    BY <1>1, <2>1
  <2> QED
    BY <1>3, <2>1 DEF RunsKept, RunAt
<1>4. CASE ServerOf[h] # s
  <2>1. \A i \in 1 .. Len(up[ServerOf[h]]) : i + 0 = i
    BY <1>2
  <2> QED
    BY <1>1, <1>2, <1>4, <2>1 DEF RunsKept, RunAt
<1> QED
  BY <1>3, <1>4

\* The removals of h among the events after a step of the name server: at most one
\* is new, and then h has just left the election.
LEMMA NewRemoval ==
    ASSUME NEW h \in Handles, NEW q \in Seq(Messages), NEW x \in Seq(Messages), NEW l,
           Tells(x, h), electionLeaders[NameOf[h]] # h => Stale(q, l, h)
    PROVE  LET leaves == /\ h \in electionCandidates[NameOf[h]]
                         /\ h \notin electionCandidates'[NameOf[h]]
           IN  /\ \A i \in 1 .. Len(q) : Removal(q \o x, l, h, i) <=> Removal(q, l, h, i)
               /\ \A i \in 1 .. Len(q \o x) : Removal(q \o x, l, h, i) => i \in 1 .. Len(q) \/ leaves
               /\ \A i, j \in 1 .. Len(q \o x) :
                     /\ Removal(q \o x, l, h, i) /\ i \notin 1 .. Len(q)
                     /\ Removal(q \o x, l, h, j) /\ j \notin 1 .. Len(q)
                     => i = j
<1> DEFINE n == NameOf[h]
           leaves == h \in electionCandidates[n] /\ h \notin electionCandidates'[n]
<1>1. \A i \in 1 .. Len(q) : Removal(q \o x, l, h, i) <=> Removal(q, l, h, i)
  BY RemovalOld
<1>2. ASSUME NEW k \in 1 .. Len(x), Removal(q \o x, l, h, Len(q) + k)
      PROVE  leaves /\ (IsGiveUp(x[k], h) \/ Takes(x[k], h))
  <2>1. (q \o x)[Len(q) + k] = x[k]
    BY Concat
  <2>2. IsGiveUp(x[k], h) \/ Takes(x[k], h)
    BY <1>2, <2>1 DEF Removal
  <2>3. CASE IsGiveUp(x[k], h)
    BY <2>3 DEF Tells
  <2>4. CASE Takes(x[k], h) /\ electionLeaders[n] = h
    BY <2>4 DEF Tells
  <2>5. CASE Takes(x[k], h) /\ electionLeaders[n] # h
    <3>1. Unsets(x[k], h)
      BY <2>5 DEF Unsets, Ends
    <3>2. electionLeaders'[n] # h
      BY <3>1 DEF Tells
    <3>3. \A j \in 1 .. Len(x) : ~ Sets(x[j], h)
      BY <3>2 DEF Tells
    <3>4. IsGiveUp(x[k], h)
      BY <1>2, <2>5, <3>3, RemovalNew
    <3> QED
      BY <2>3, <3>4
  <2> QED
    BY <2>2, <2>3, <2>4, <2>5
<1>3. ASSUME NEW i \in 1 .. Len(q \o x), i \notin 1 .. Len(q)
      PROVE  i - Len(q) \in 1 .. Len(x) /\ i = Len(q) + (i - Len(q))
  BY <1>3, Concat
<1>4. ASSUME NEW i \in 1 .. Len(q \o x), i \notin 1 .. Len(q), Removal(q \o x, l, h, i)
      PROVE  leaves /\ (IsGiveUp(x[i - Len(q)], h) \/ Takes(x[i - Len(q)], h))
  BY <1>2, <1>3, <1>4
<1>5. ASSUME NEW i \in 1 .. Len(q \o x), i \notin 1 .. Len(q), Removal(q \o x, l, h, i),
             NEW j \in 1 .. Len(q \o x), j \notin 1 .. Len(q), Removal(q \o x, l, h, j)
      PROVE  i = j
  <2>1. i - Len(q) = j - Len(q)
    BY <1>3, <1>4, <1>5 DEF Tells
  <2> QED
    BY <1>3, <1>5, <2>1
<1> HIDE DEF leaves
<1>6. \A i \in 1 .. Len(q \o x) : Removal(q \o x, l, h, i) => i \in 1 .. Len(q) \/ leaves
  BY <1>4
<1> QED
  BY <1>1, <1>5, <1>6 DEF leaves

LEMMA ServerCandidate ==
    ASSUME CPInv, CPInv', StartInv, BeliefOK, ServerStep, NEW h \in Handles, CandidateOK(h)
    PROVE  CandidateOK(h)'
<1> DEFINE n == NameOf[h]
           q == EventsOf(h)
           l == BeliefOf(h)
           x == out'[ServerOf[h]]
           leaves == h \in electionCandidates[n] /\ h \notin electionCandidates'[n]
<1>1. IInv /\ AgentTypeOK /\ AgentTypeOK' /\ ServerOf[h] \in Servers
  BY NameOfType DEF CPInv
<1>2. q \in Seq(Messages) /\ x \in Seq(Messages) /\ EventsOf(h)' = q \o x /\ Tells(x, h)
  BY Delivered, NameOfType DEF EventsOf
<1>3. BeliefOf(h)' = l /\ candidates' = candidates
  BY Delivered DEF BeliefOf, agentVars
<1>4. electionLeaders[n] # h => Stale(q, l, h)
  BY DEF BeliefOK, BeliefInv
<1>5. RunsKept(h)
  <2>1. ASSUME NEW s \in Servers, HandleRequest(s) PROVE RunsKept(h)
    BY <1>1, <2>1, RunsKeptTaken DEF HandleRequest
  <2>2. CASE NameServerTick
    <3>1. up' = up /\ \A i \in 1 .. Len(up[ServerOf[h]]) : i + 0 = i
      BY <1>1, <2>2 DEF NameServerTick, AgentTypeOK
    <3> QED
      BY <3>1 DEF RunsKept, RunAt
  <2> QED
    BY <2>1, <2>2 DEF ServerStep
<1>6. /\ RunIn(h)' => RunIn(h)
      /\ (\A i, j \in 1 .. Len(up[ServerOf[h]]) : RunAt(h, i) /\ RunAt(h, j) => i = j)'
  BY <1>1, <1>5, RunsKeptFacts DEF CandidateOK
<1> HIDE DEF q, l, x
<1>7. /\ \A i \in 1 .. Len(q) : Removal(q \o x, l, h, i) <=> Removal(q, l, h, i)
      /\ \A i \in 1 .. Len(q \o x) : Removal(q \o x, l, h, i) => i \in 1 .. Len(q) \/ leaves
      /\ \A i, j \in 1 .. Len(q \o x) :
            /\ Removal(q \o x, l, h, i) /\ i \notin 1 .. Len(q)
            /\ Removal(q \o x, l, h, j) /\ j \notin 1 .. Len(q)
            => i = j
  BY <1>2, <1>4, NewRemoval
<1>8. /\ h \in electionCandidates[n] => h \in candidates /\ ~ RunIn(h) /\ ~ RemovalIn(h)
      /\ RunIn(h) => h \in candidates /\ ~ RemovalIn(h)
      /\ RemovalIn(h) => h \in candidates
      /\ RemovalIn(h) <=> \E i \in 1 .. Len(q) : Removal(q, l, h, i)
      /\ \A i, j \in 1 .. Len(q) : Removal(q, l, h, i) /\ Removal(q, l, h, j) => i = j
  BY DEF CandidateOK, RemovalIn, q, l
<1>9. RemovalIn(h)' <=> \E i \in 1 .. Len(q \o x) : Removal(q \o x, l, h, i)
  BY <1>2, <1>3 DEF RemovalIn
<1>10. RemovalIn(h)' => RemovalIn(h) \/ leaves
  BY <1>7, <1>8, <1>9
<1>11. \A i, j \in 1 .. Len(q \o x) :
          Removal(q \o x, l, h, i) /\ Removal(q \o x, l, h, j) => i = j
  <2> SUFFICES ASSUME NEW i \in 1 .. Len(q \o x), NEW j \in 1 .. Len(q \o x),
                      Removal(q \o x, l, h, i), Removal(q \o x, l, h, j)
               PROVE  i = j
    OBVIOUS
  <2>1. CASE leaves
    BY <1>7, <1>8, <2>1
  <2>2. CASE ~ leaves
    BY <1>7, <1>8, <2>2
  <2> QED
    BY <2>1, <2>2
<1>12. ASSUME h \in electionCandidates'[n], h \notin electionCandidates[n]
       PROVE  RunIn(h) /\ ~ RunIn(h)'
  <2>1. PICK s \in Servers : HandleRequest(s)
    BY <1>1, <1>12, TickFacts DEF ServerStep
  <2>2. up[s][1] = Request("RUN_FOR_LEADER", h)
    BY <1>1, <1>12, <2>1, RequestFacts
  <2>3. up[s] # << >> /\ up' = [up EXCEPT ![s] = Tail(@)]
    BY <2>1 DEF HandleRequest
  <2>4. /\ Len(up'[s]) = Len(up[s]) - 1 /\ Len(up[s]) \in Nat \ {0}
        /\ \A i \in 1 .. Len(up[s]) - 1 : up'[s][i] = up[s][i + 1]
    BY <1>1, <2>3, TakenUp
  <2>5. ServerOf[h] = s
    BY <2>2, <2>4 DEF StartInv, OwnRequests, Request
  <2>6. 1 \in 1 .. Len(up[s]) /\ RunAt(h, 1)
    BY <2>2, <2>4, <2>5 DEF RunAt
  <2>7. RunIn(h)
    BY <2>5, <2>6 DEF RunIn
  <2>8. ASSUME NEW i \in 1 .. Len(up'[s]), up'[s][i] = Request("RUN_FOR_LEADER", h) PROVE FALSE
    <3>1. i + 1 \in 1 .. Len(up[s]) /\ RunAt(h, i + 1) /\ i + 1 # 1
      BY <2>4, <2>5, <2>8 DEF RunAt
    <3> QED
      BY <2>5, <2>6, <3>1 DEF CandidateOK
  <2> QED
    BY <2>5, <2>7, <2>8 DEF RunIn, RunAt
<1> HIDE DEF n
<1>13. h \in electionCandidates'[n] => h \in candidates /\ ~ RunIn(h)' /\ ~ RemovalIn(h)'
  BY <1>6, <1>8, <1>10, <1>12
<1>14. RunIn(h)' => h \in candidates /\ ~ RemovalIn(h)'
  BY <1>6, <1>8, <1>10
<1>15. RemovalIn(h)' => h \in candidates
  BY <1>8, <1>10
<1> QED
  BY <1>2, <1>3, <1>6, <1>11, <1>13, <1>14, <1>15 DEF CandidateOK, n

LEMMA EventLoopCandidate ==
    ASSUME CPInv, CPInv', BeliefOK, NEW s \in Servers, HandleEvent(s), NEW h \in Handles,
           CandidateOK(h)
    PROVE  CandidateOK(h)'
<1> DEFINE q == EventsOf(h)
           l == BeliefOf(h)
           k == BeliefOf(h)'
<1>1. AgentTypeOK /\ AgentTypeOK' /\ ServerOf[h] \in Servers
  BY NameOfType DEF CPInv
<1>2. /\ UNCHANGED electionCandidates
      /\ up' = up \/ \E g \in Handles : SendUp(ServerOf[g], Request("UNREGISTER_SERVICE", g))
  BY <1>1, EventFacts DEF vars, electVars
<1>3. RunsKept(h)
  <2>1. ASSUME NEW g \in Handles, SendUp(ServerOf[g], Request("UNREGISTER_SERVICE", g))
        PROVE  RunsKept(h)
    <3>1. /\ Request("UNREGISTER_SERVICE", g) \in Requests /\ ServerOf[g] \in Servers
          /\ Request("UNREGISTER_SERVICE", g) # Request("RUN_FOR_LEADER", h)
      BY RequestType, NameOfType DEF Request
    <3> QED
      BY <1>1, <2>1, <3>1, RunsKeptSent
  <2>2. CASE up' = up
    <3>1. \A i \in 1 .. Len(up[ServerOf[h]]) : i + 0 = i
      BY <1>1 DEF AgentTypeOK
    <3> QED
      BY <2>2, <3>1 DEF RunsKept, RunAt
  <2> QED
    BY <1>2, <2>1, <2>2
<1>4. /\ RunIn(h)' => RunIn(h)
      /\ (\A i, j \in 1 .. Len(up[ServerOf[h]]) : RunAt(h, i) /\ RunAt(h, j) => i = j)'
  BY <1>1, <1>3, RunsKeptFacts DEF CandidateOK
<1>5. /\ h \in electionCandidates[NameOf[h]] => h \in candidates /\ ~ RunIn(h) /\ ~ RemovalIn(h)
      /\ RunIn(h) => h \in candidates /\ ~ RemovalIn(h)
      /\ RemovalIn(h) => h \in candidates
      /\ RemovalIn(h) <=> \E i \in 1 .. Len(q) : Removal(q, l, h, i)
      /\ \A i, j \in 1 .. Len(q) : Removal(q, l, h, i) /\ Removal(q, l, h, j) => i = j
  BY DEF CandidateOK, RemovalIn
<1>6. h \in candidates /\ h \notin candidates' =>
         /\ ServerOf[h] = s
         /\ IsGiveUp(down[s][1], h) \/ (Takes(down[s][1], h) /\ leader[s][NameOf[h]] = h)
  BY <1>1, EventBelief DEF BeliefOK
<1>7. CASE ServerOf[h] = s
  <2>1. /\ q # << >> /\ q \in Seq(Messages) /\ EventsOf(h)' = Tail(q)
        /\ k = h <=> Sets(q[1], h) \/ (l = h /\ ~ Unsets(q[1], h))
    BY <1>1, <1>7, EventTaken
  <2>2. h \in candidates /\ h \notin candidates' =>
           IsGiveUp(q[1], h) \/ (Takes(q[1], h) /\ l = h)
    BY <1>6, <1>7 DEF EventsOf, BeliefOf
  <2>3. RemovalIn(h)' <=> \E i \in 1 .. Len(Tail(q)) : Removal(Tail(q), k, h, i)
    BY <2>1 DEF RemovalIn
  <2> HIDE DEF q, l, k
  <2>4. Len(Tail(q)) = Len(q) - 1 /\ Len(q) \in Nat \ {0}
    BY <2>1, TailFacts
  <2>5. \A i \in 1 .. Len(Tail(q)) :
           i + 1 \in 1 .. Len(q) /\ (Removal(Tail(q), k, h, i) <=> Removal(q, l, h, i + 1))
    BY <2>1, <2>4, RemovalTail
  <2>6. h \in candidates /\ h \notin candidates' => 1 \in 1 .. Len(q) /\ Removal(q, l, h, 1)
    BY <2>2, <2>4 DEF Removal, BelievesAt
  <2>7. RemovalIn(h)' => RemovalIn(h) /\ h \in candidates'
    <3> SUFFICES ASSUME NEW i \in 1 .. Len(Tail(q)), Removal(Tail(q), k, h, i)
                 PROVE  RemovalIn(h) /\ h \in candidates'
      BY <2>3
    <3>1. i + 1 \in 1 .. Len(q) /\ Removal(q, l, h, i + 1) /\ i + 1 # 1
      BY <2>4, <2>5
    <3> QED
      BY <1>5, <2>6, <3>1
  <2>8. ~ RemovalIn(h) /\ h \in candidates => h \in candidates'
    BY <1>5, <2>6
  <2>9. ASSUME NEW i \in 1 .. Len(Tail(q)), NEW j \in 1 .. Len(Tail(q)),
               Removal(Tail(q), k, h, i), Removal(Tail(q), k, h, j)
        PROVE  i = j
    <3>1. i + 1 = j + 1
      BY <1>5, <2>5, <2>9
    <3> QED
      BY <2>4, <3>1
  <2> QED
    BY <1>2, <1>4, <1>5, <2>1, <2>7, <2>8, <2>9 DEF CandidateOK, k
<1>8. CASE ServerOf[h] # s
  <2>1. EventsOf(h)' = q /\ k = l /\ (h \in candidates => h \in candidates')
    BY <1>1, <1>6, <1>8, EventTaken
  <2>2. RemovalIn(h)' <=> RemovalIn(h)
    BY <2>1 DEF RemovalIn
  <2> QED
    BY <1>2, <1>4, <1>5, <2>1, <2>2 DEF CandidateOK
<1> QED
  BY <1>7, <1>8

LEMMA OtherCandidate ==
    ASSUME CPInv, CPInv', StartInv, [CPNext]_allVars,
           ~ ServerStep, \A s \in Servers : ~ HandleEvent(s),
           NEW h \in Handles, CandidateOK(h)
    PROVE  CandidateOK(h)'
<1>1. AgentTypeOK /\ AgentTypeOK' /\ ServerOf[h] \in Servers
  BY NameOfType DEF CPInv
<1>2. UNCHANGED <<electVars, leader, down>>
  BY OtherSteps
<1>3. /\ electionCandidates' = electionCandidates
      /\ EventsOf(h)' = EventsOf(h) /\ BeliefOf(h)' = BeliefOf(h)
      /\ RemovalIn(h)' <=> RemovalIn(h)
  BY <1>2 DEF electVars, EventsOf, BeliefOf, RemovalIn
<1>4. ASSUME RunsKept(h), h \in candidates => h \in candidates' PROVE CandidateOK(h)'
  <2>1. /\ RunIn(h)' => RunIn(h)
        /\ (\A i, j \in 1 .. Len(up[ServerOf[h]]) : RunAt(h, i) /\ RunAt(h, j) => i = j)'
    BY <1>1, <1>4, RunsKeptFacts DEF CandidateOK
  <2> QED
    BY <1>3, <1>4, <2>1 DEF CandidateOK
<1>5. up' = up => RunsKept(h)
  <2>1. \A i \in 1 .. Len(up[ServerOf[h]]) : i + 0 = i
    BY <1>1 DEF AgentTypeOK
  <2> QED
    BY <2>1 DEF RunsKept, RunAt
<1>6. ASSUME NEW s \in Servers, Start(s) PROVE CandidateOK(h)'
  <2>1. SendUp(s, [cmd |-> "REGISTER_APP"]) /\ candidates' = candidates
    BY <1>6 DEF Start
  <2>2. /\ [cmd |-> "REGISTER_APP"] \in Requests
        /\ [cmd |-> "REGISTER_APP"] # Request("RUN_FOR_LEADER", h)
    <3>1. Request("RUN_FOR_LEADER", h).cmd # [cmd |-> "REGISTER_APP"].cmd
      BY DEF Request
    <3> QED
      BY <3>1 DEF Requests
  <2> QED
    BY <1>1, <1>4, <2>1, <2>2, RunsKeptSent
<1>7. ASSUME NEW g \in Handles, ServiceCall(g) PROVE CandidateOK(h)'
  <2>1. /\ up' = up \/ (\E c \in ServiceCmds \ {"RUN_FOR_LEADER"} :
                           SendUp(ServerOf[g], Request(c, g))) \/ RunForElection(g)
        /\ candidates' = candidates \/ RunForElection(g)
    BY <1>1, <1>7, CallFacts
  <2>2. RunForElection(g) =>
           SendUp(ServerOf[g], Request("RUN_FOR_LEADER", g)) /\ candidates' = candidates \cup {g}
    BY DEF RunForElection
  <2>3. h \in candidates => h \in candidates'
    BY <2>1, <2>2
  <2>4. ASSUME NEW c \in ServiceCmds, SendUp(ServerOf[g], Request(c, g)),
               c # "RUN_FOR_LEADER" \/ g # h
        PROVE  RunsKept(h)
    <3>1. /\ Request(c, g) \in Requests /\ ServerOf[g] \in Servers
          /\ Request(c, g) # Request("RUN_FOR_LEADER", h)
      BY <2>4, RequestType, NameOfType DEF Request, ServiceCmds
    <3> QED
      BY <1>1, <2>4, <3>1, RunsKeptSent
  <2>5. CASE RunForElection(h) /\ g = h
    <3>1. h \notin candidates /\ h \in candidates'
      BY <2>2, <2>5 DEF RunForElection
    <3>2. ~ RunIn(h) /\ ~ RemovalIn(h) /\ h \notin electionCandidates[NameOf[h]]
      BY <3>1 DEF CandidateOK
    <3>3. Request("RUN_FOR_LEADER", h) \in Requests
      BY RequestType
    <3>4. /\ Len(up'[ServerOf[h]]) = Len(up[ServerOf[h]]) + 1 /\ Len(up[ServerOf[h]]) \in Nat
          /\ \A i \in 1 .. Len(up[ServerOf[h]]) : up'[ServerOf[h]][i] = up[ServerOf[h]][i]
      BY <1>1, <2>2, <2>5, <3>3, SentUp
    <3>5. \A i \in 1 .. Len(up'[ServerOf[h]]) :
             RunAt(h, i)' => i = Len(up[ServerOf[h]]) + 1
      BY <3>2, <3>4 DEF RunIn, RunAt
    <3> QED
      BY <1>3, <3>1, <3>2, <3>5 DEF CandidateOK
  <2>6. CASE ~ (RunForElection(h) /\ g = h)
    <3>1. RunsKept(h)
      BY <1>5, <2>1, <2>2, <2>4, <2>6 DEF ServiceCmds
    <3> QED
      BY <1>4, <2>3, <3>1
  <2> QED
    BY <2>5, <2>6
<1>8. ASSUME NEW s \in Servers, DropRequest(s) PROVE CandidateOK(h)'
  <2>1. up[s] # << >> /\ up' = [up EXCEPT ![s] = Tail(@)] /\ candidates' = candidates
    BY <1>8 DEF DropRequest, agentVars
  <2> QED
    BY <1>1, <1>4, <2>1, RunsKeptTaken
<1>9. CASE UNCHANGED allVars
  <2>1. up' = up /\ candidates' = candidates
    BY <1>9 DEF allVars, agentVars
  <2> QED
    BY <1>4, <1>5, <2>1
<1> QED
  BY <1>6, <1>7, <1>8, <1>9, CPSteps

-----------------------------------------------------------------------------
(* Elections: theorems.                                                    *)

\* The inductive invariant of the elections.
ElectionInv == CPInv /\ StartInv /\ BeliefOK /\ CandidateInv

LEMMA InitElectionInv == CPInit => ElectionInv
<1> SUFFICES ASSUME CPInit PROVE ElectionInv
  OBVIOUS
<1>1. CPInv
  BY InitCPInv
<1>2. \A h \in Handles : NameOf[h] \in Names /\ ServerOf[h] \in Servers /\ h # NoHandle
  BY NameOfType, NoValues
<1>3. StartInv
  BY <1>2 DEF CPInit, Init, StartInv, OwnRequests
<1>4. ASSUME NEW h \in Handles
      PROVE  /\ EventsOf(h) = << >> /\ Len(EventsOf(h)) = 0 /\ BeliefOf(h) = NoHandle
             /\ electionLeaders[NameOf[h]] = NoHandle /\ electionCandidates[NameOf[h]] = {}
             /\ up[ServerOf[h]] = << >> /\ Len(up[ServerOf[h]]) = 0
  BY <1>2 DEF CPInit, Init, EventsOf, BeliefOf
<1>5. BeliefOK
  <2>1. NamesInv
    BY DEF CPInit, NamesInv
  <2> QED
    BY <1>2, <1>4, <2>1 DEF BeliefOK, ListsInv, BeliefInv, Stale
<1>6. CandidateInv
  BY <1>4 DEF CandidateInv, CandidateOK, RunIn, RemovalIn
<1> QED
  BY <1>1, <1>3, <1>5, <1>6 DEF ElectionInv

LEMMA StepElectionInv == ElectionInv /\ [CPNext]_allVars => ElectionInv'
<1> SUFFICES ASSUME ElectionInv, [CPNext]_allVars PROVE ElectionInv'
  OBVIOUS
<1>1. CPInv /\ StartInv /\ BeliefOK /\ CandidateInv
  BY DEF ElectionInv
<1>2. CPInv'
  BY <1>1, StepCPInv
<1>3. StartInv' /\ BeliefOK'
  BY <1>1, <1>2, StepStartInv, StepBeliefOK
<1>4. ASSUME NEW h \in Handles PROVE CandidateOK(h)'
  <2>1. CandidateOK(h)
    BY <1>1 DEF CandidateInv
  <2>2. CASE ServerStep
    BY <1>1, <1>2, <2>1, <2>2, ServerCandidate
  <2>3. ASSUME NEW s \in Servers, HandleEvent(s) PROVE CandidateOK(h)'
    BY <1>1, <1>2, <2>1, <2>3, EventLoopCandidate
  <2>4. CASE ~ ServerStep /\ \A s \in Servers : ~ HandleEvent(s)
    BY <1>1, <1>2, <2>1, <2>4, OtherCandidate
  <2> QED
    BY <2>2, <2>3, <2>4
<1> QED
  BY <1>2, <1>3, <1>4 DEF ElectionInv, CandidateInv

\* An agent that holds one of its services for the leader (IsLeader,
\* agent/election.go) when the name server does not has the notice that ends it in
\* its queue: whatever requests, ticks, drops and late events interleave, two agents
\* never both believe for good that they lead.
THEOREM LeadersAreCurrent == CPSpec => []NoStaleSelfLeader
<1>1. ElectionInv => NoStaleSelfLeader
  <2> SUFFICES ASSUME ElectionInv, NEW h \in Handles,
                      leader[ServerOf[h]][NameOf[h]] = h, electionLeaders[NameOf[h]] # h
               PROVE  \E i \in 1 .. Len(down[ServerOf[h]]) :
                         LET m == down[ServerOf[h]][i] IN
                         /\ m.cmd = "NOTIFY_SERVICE_ELECTION_RESULT"
                         /\ m.result = "OK"
                         /\ NameOf[m.handle] = NameOf[h]
                         /\ (m.handle = h) = (m.event = "GiveUpLeader")
    BY DEF NoStaleSelfLeader
  <2>1. Stale(EventsOf(h), BeliefOf(h), h)
    BY DEF ElectionInv, BeliefOK, BeliefInv
  <2>2. PICK i \in 1 .. Len(EventsOf(h)) : Ends(EventsOf(h)[i], h)
    BY <2>1 DEF Stale, BeliefOf
  <2> QED
    BY <2>2 DEF EventsOf, Ends, Takes, IsRun, IsGiveUp, ElectionCmd
<1>2. QED
  BY <1>1, InitElectionInv, StepElectionInv, PTL DEF CPSpec

\* Once it has handled its events, the agent of the leader knows that it leads: the
\* notice is sent to it, is not lost and is not undone by an older one behind it.
THEOREM LeadersLearn == CPSpec => []LeaderKnows
<1>1. ElectionInv => LeaderKnows
  <2> SUFFICES ASSUME ElectionInv, NEW n \in Names, electionLeaders[n] # NoHandle,
                      Quiet(ServerOf[electionLeaders[n]])
               PROVE  leader[ServerOf[electionLeaders[n]]][n] = electionLeaders[n]
    BY DEF LeaderKnows
  <2> DEFINE h == electionLeaders[n]
  <2>1. h \in Handles /\ NameOf[h] = n
    BY LeaderFacts DEF ElectionInv, CPInv
  <2>2. Fresh(EventsOf(h), BeliefOf(h), h)
    BY <2>1 DEF ElectionInv, BeliefOK, BeliefInv
  <2>3. Len(EventsOf(h)) = 0
    BY DEF Quiet, EventsOf
  <2> HIDE DEF h
  <2>4. BeliefOf(h) = h
    BY <2>2, <2>3 DEF Fresh
  <2> QED
    BY <2>1, <2>4 DEF BeliefOf, h
<1>2. QED
  BY <1>1, InitElectionInv, StepElectionInv, PTL DEF CPSpec

\* A candidate at the name server is one at its agent once nothing is under way, so
\* it can give up the election (giveUpElection refuses a service that is no candidate
\* there): no late notice of an earlier candidacy removes a service that runs again.
THEOREM CandidatesStayKnown == CPSpec => []CandidatesKnown
<1>1. ElectionInv => CandidatesKnown
  BY DEF ElectionInv, CandidateInv, CandidateOK, CandidatesKnown
<1>2. QED
  BY <1>1, InitElectionInv, StepElectionInv, PTL DEF CPSpec

-----------------------------------------------------------------------------
(* Registration: a service that Register has returned is registered.       *)

\* Event m says that h is registered, or kicked off.
IsOK(m, h) == m = RegisterServiceRsp(h, "OK")
IsKick(m, h) == m = KickOff(h)

\* Requests of h under way: every UNREGISTER_SERVICE is followed by a
\* REGISTER_SERVICE.
RegAt(h, i) == up[ServerOf[h]][i] = Request("REGISTER_SERVICE", h)
UnRegAt(h, i) == up[ServerOf[h]][i] = Request("UNREGISTER_SERVICE", h)
RegIn(h) == \E i \in 1 .. Len(up[ServerOf[h]]) : RegAt(h, i)
Renewed(h) ==
    \A i \in 1 .. Len(up[ServerOf[h]]) :
        UnRegAt(h, i) => \E j \in i + 1 .. Len(up[ServerOf[h]]) : RegAt(h, j)

\* h is registered, or is going to be.
Settled(h) == h \in services \/ RegIn(h)

\* Register works on h, or has returned it, and nobody unregisters it.
Current(h) == svc[h] = "sent" \/ (svc[h] \in {"waiting", "up"} /\ removing[h] = {})

\* The agent of h is going to learn that h is kicked off, after it has learnt that
\* it is registered.
KickAfter(q, h, i) == \E j \in i + 1 .. Len(q) : IsKick(q[j], h)
OKIn(q, h) == \E i \in 1 .. Len(q) : IsOK(q[i], h)
Told(q, state, h) ==
    IF state = "up" THEN KickAfter(q, h, 0)
                    ELSE \A i \in 1 .. Len(q) : IsOK(q[i], h) => KickAfter(q, h, i)

RegisteredOK(h) ==
    /\ svc[h] = "up" \/ OKIn(EventsOf(h), h) => apps
    /\ Current(h) => Renewed(h) /\ (Settled(h) \/ Told(EventsOf(h), svc[h], h))

\* Such events go to the agent of the service.
OwnEvents ==
    \A s \in Servers : \A i \in 1 .. Len(down[s]) : \A h \in Handles :
        IsOK(down[s][i], h) \/ IsKick(down[s][i], h) => ServerOf[h] = s

RegisteredInv == OwnEvents /\ \A h \in Handles : RegisteredOK(h)

\* What goes out says OK for the services in W, and only to their own agents.
OwnOut(o, W) ==
    \A s \in Servers : \A k \in 1 .. Len(o[s]) : \A h \in Handles :
        /\ IsOK(o[s][k], h) => ServerOf[h] = s /\ h \in W
        /\ IsKick(o[s][k], h) => ServerOf[h] = s

LEMMA EventCmds ==
    ASSUME NEW m, NEW h
    PROVE  /\ IsOK(m, h) => m.cmd = "RSP_REGISTER_SERVICE" /\ m.handle = h /\ m.result = "OK"
           /\ IsKick(m, h) => m.cmd = "NOTIFY_SERVICE_KICK_OFF" /\ m.handle = h
BY DEF IsOK, IsKick, RegisterServiceRsp, KickOff

LEMMA OwnSilent == ASSUME NEW W PROVE OwnOut(Silent, W)
BY DEF OwnOut, Silent

LEMMA OwnSendTo ==
    ASSUME NEW S, NEW m, NEW W,
           \A h \in Handles : /\ IsOK(m, h) => S = {ServerOf[h]} /\ h \in W
                              /\ IsKick(m, h) => S = {ServerOf[h]}
    PROVE  OwnOut(SendTo(S, m), W)
BY DEF OwnOut, SendTo

LEMMA OwnThen ==
    ASSUME NEW a \in Outputs, NEW b \in Outputs, NEW W, OwnOut(a, W), OwnOut(b, W)
    PROVE  OwnOut(Then(a, b), W)
<1> DEFINE o == Then(a, b)
<1> SUFFICES ASSUME NEW s \in Servers, NEW k \in 1 .. Len(o[s]), NEW h \in Handles
             PROVE  /\ IsOK(o[s][k], h) => ServerOf[h] = s /\ h \in W
                    /\ IsKick(o[s][k], h) => ServerOf[h] = s
  BY DEF OwnOut
<1>1. a[s] \in Seq(Messages) /\ b[s] \in Seq(Messages) /\ o[s] = a[s] \o b[s]
  BY DEF Outputs, Then
<1>2. k \in 1 .. Len(a[s]) \/ k - Len(a[s]) \in 1 .. Len(b[s])
  BY <1>1, Concat
<1>3. CASE k \in 1 .. Len(a[s])
  BY <1>1, <1>3, Concat DEF OwnOut
<1>4. CASE k - Len(a[s]) \in 1 .. Len(b[s])
  <2>1. o[s][Len(a[s]) + (k - Len(a[s]))] = b[s][k - Len(a[s])]
    BY <1>1, <1>4, Concat
  <2>2. Len(a[s]) + (k - Len(a[s])) = k
    BY <1>1
  <2> QED
    BY <1>4, <2>1, <2>2 DEF OwnOut
<1> QED
  BY <1>2, <1>3, <1>4

\* Every message but the reply to a registration and the notice of a kick-off.
LEMMA OwnOther ==
    ASSUME NEW S, NEW m, NEW W,
           m.cmd \notin {"RSP_REGISTER_SERVICE", "NOTIFY_SERVICE_KICK_OFF"}
    PROVE  OwnOut(SendTo(S, m), W)
BY EventCmds, OwnSendTo

LEMMA OwnOnline ==
    ASSUME NEW h, NEW b, NEW W PROVE OwnOut(BroadcastOnlineToOthers(h, b), W)
BY OwnOther DEF BroadcastOnlineToOthers, Broadcast, ServiceOnline

LEMMA OwnConfirm ==
    ASSUME NEW h \in Handles, NEW r \in Results, NEW W, r = "OK" => h \in W
    PROVE  OwnOut(NotifyConfirmResult(h, r), W)
<1> DEFINE m == RegisterServiceRsp(h, r)
<1>1. m.cmd = "RSP_REGISTER_SERVICE" /\ m.handle = h /\ m.result = r
  BY DEF RegisterServiceRsp
<1>2. SendTo({ServerOf[h]}, m) \in Outputs
  BY SendToType, MessageTypes
<1> HIDE DEF m
<1>3. OwnOut(SendTo({ServerOf[h]}, m), W)
  BY <1>1, EventCmds, OwnSendTo
<1>4. BroadcastOnlineToOthers(h, TRUE) \in Outputs /\ OwnOut(BroadcastOnlineToOthers(h, TRUE), W)
  BY PlainOnline, OwnOnline
<1> QED
  BY <1>2, <1>3, <1>4, OwnSilent, SilentType, OwnThen DEF NotifyConfirmResult, m

LEMMA OwnGiveUp ==
    ASSUME IInv, NEW h \in handleServices, NEW rest \in Outputs, NEW W, OwnOut(rest, W),
           GiveupElection(h, rest)
    PROVE  OwnOut(out', W)
<1>1. /\ h \in Handles /\ NameOf[h] \in Names
      /\ \A g \in electionCandidates[NameOf[h]] : g \in Handles
  BY NameOfType DEF IInv, TypeOK
<1>2. ASSUME NEW S, NEW g \in Handles, NEW e \in ElectionEvents, NEW r \in ElectionResults
      PROVE  OwnOut(Then(SendTo(S, ElectionResult(g, e, r)), rest), W)
  <2>1. ElectionResult(g, e, r) \in Messages
    BY MessageTypes
  <2>2. OwnOut(SendTo(S, ElectionResult(g, e, r)), W)
    BY OwnOther DEF ElectionResult
  <2> QED
    BY <2>1, <2>2, SendToType, OwnThen
<1>3. /\ {"RunForLeader", "GiveUpLeader"} \subseteq ElectionEvents
      /\ {"OK", "QuitCandidate"} \subseteq ElectionResults
  BY DEF ElectionEvents, ElectionResults
<1> QED
  BY <1>1, <1>2, <1>3 DEF GiveupElection, Freshest, Broadcast

\* What a step of the name server sends about registrations.
LEMMA NextOwn == ASSUME IInv, Next PROVE OwnOut(out', services')
<1>1. TypeOK
  BY DEF IInv
<1> DEFINE W == services'
<1>2. CASE Clock \/ Receive \/ OnTick
  BY <1>2, OwnSilent DEF Clock, Receive, OnNotifiedAgentInfo, OnClosed, ReaderEnds, OnTick
<1>3. ASSUME NEW s \in Servers, RegisterApp(s) PROVE OwnOut(out', W)
  <2> DEFINE a == SendTo({s}, RegisterAppRsp(Leaders))
             b == SendTo({s}, OthersOnline({g \in services : ServerOf[g] # s}))
  <2>1. Leaders \in SUBSET Handles
    BY <1>1 DEF Leaders, TypeOK
  <2>2. a \in Outputs /\ b \in Outputs
    BY <1>1, <2>1, SendToType, MessageTypes DEF TypeOK
  <2>3. OwnOut(a, W) /\ OwnOut(b, W)
    BY OwnOther DEF RegisterAppRsp, OthersOnline
  <2>4. out' = Then(a, b)
    BY <1>3 DEF RegisterApp
  <2> HIDE DEF a, b
  <2> QED
    BY <2>2, <2>3, <2>4, OwnThen
<1>4. ASSUME NEW s \in Servers, RejectApp(s) PROVE OwnOut(out', W)
  BY <1>4, OwnSilent DEF RejectApp
<1>5. ASSUME NEW h \in Handles,
             RegisterServiceAgain(h) \/ OnServiceHeartbeat(h) \/ RejectHandle(h)
      PROVE  OwnOut(out', W)
  BY <1>5, OwnSilent DEF RegisterServiceAgain, OnServiceHeartbeat, RejectHandle
<1>6. ASSUME NEW h \in Handles, RegisterServiceNoApp(h) PROVE OwnOut(out', W)
  <2> DEFINE m == RegisterServiceRsp(h, "ERR_APP_NOT_REGISTER")
  <2>1. m.cmd = "RSP_REGISTER_SERVICE" /\ m.result # "OK"
    BY DEF RegisterServiceRsp
  <2>2. out' = SendTo({ServerOf[h]}, m)
    BY <1>6 DEF RegisterServiceNoApp
  <2> HIDE DEF m
  <2> QED
    BY <2>1, <2>2, EventCmds, OwnSendTo
<1>7. ASSUME NEW h \in Handles, NEW b \in BOOLEAN, RegisterService(h, b) PROVE OwnOut(out', W)
  <2>1. h \in W
    BY <1>7 DEF RegisterService, AddItem
  <2>2. /\ OwnOut(NotifyConfirmResult(h, "OK"), W)
        /\ OwnOut(NotifyConfirmResult(h, "ERR_SERVICE_REGISTER_LINEUP"), W)
    BY <2>1, OwnConfirm DEF Results
  <2>3. OwnOut(BroadcastCmd(NameOf[h], "Prepare"), W)
    BY OwnOther DEF BroadcastCmd, RouterUpdate
  <2> HIDE DEF W
  <2> QED
    BY <1>7, <2>2, <2>3 DEF RegisterService, Start2StageConfirm
<1>8. ASSUME NEW h, NEW b \in BOOLEAN, UnRegisterService(h, b) PROVE OwnOut(out', W)
  <2>1. h \in Handles /\ h \in handleServices
    BY <1>1, <1>8 DEF UnRegisterService, TypeOK
  <2> DEFINE tail == IF b THEN SendTo({ServerOf[h]}, KickOff(h)) ELSE Silent
             rest == Then(BroadcastOnlineToOthers(h, FALSE), tail)
  <2>2. KickOff(h).cmd = "NOTIFY_SERVICE_KICK_OFF" /\ KickOff(h).handle = h
    BY DEF KickOff
  <2>3. OwnOut(SendTo({ServerOf[h]}, KickOff(h)), W)
    BY <2>2, EventCmds, OwnSendTo
  <2>4. tail \in Outputs /\ OwnOut(tail, W)
    BY <2>1, <2>3, SendToType, SilentType, MessageTypes, OwnSilent
  <2> HIDE DEF tail
  <2>5. rest \in Outputs /\ OwnOut(rest, W)
    BY <2>1, <2>4, PlainOnline, OwnOnline, OwnThen, ThenType
  <2>6. GiveupElection(h, rest)
    BY <1>8 DEF UnRegisterService, tail
  <2> HIDE DEF rest
  <2> QED
    BY <2>1, <2>5, <2>6, OwnGiveUp
<1>9. ASSUME NEW h \in Handles, UnRegister(h) PROVE OwnOut(out', W)
  BY <1>8, <1>9 DEF UnRegister
<1>10. ASSUME NEW h \in Handles, OnServiceSyncAttr(h) PROVE OwnOut(out', W)
  BY <1>10, OwnOther DEF OnServiceSyncAttr, Broadcast, SyncAttr
<1>11. ASSUME NEW h \in Handles, OnServiceRunForElection(h) PROVE OwnOut(out', W)
  BY <1>11, OwnOther DEF OnServiceRunForElection, Broadcast, ElectionResult
<1>12. ASSUME NEW h \in Handles, OnServiceGiveupElection(h) PROVE OwnOut(out', W)
  BY <1>12, OwnGiveUp, OwnSilent, SilentType DEF OnServiceGiveupElection
<1>13. ASSUME NEW s \in Servers, NEW n \in Names, OnRegisterNameRouter(s, n) \/ RejectRouter(s, n)
       PROVE  OwnOut(out', W)
  BY <1>13, OwnSilent, OwnOther DEF OnRegisterNameRouter, RejectRouter, RouterUpdate
<1>14. CASE KickExpired
  BY <1>8, <1>14 DEF KickExpired
<1>15. ASSUME NEW n \in Names, CheckExpired(n) PROVE OwnOut(out', W)
  <2> DEFINE h == onlineSvcHandle[n]
             a == BroadcastCmd(n, "PrepareAbort")
             b == IF h \in services THEN NotifyConfirmResult(h, "ERR_ROUTER_PREPARE_TIMEOUT")
                                    ELSE Silent
  <2>1. a \in Outputs /\ OwnOut(a, W)
    <3>1. a \in Outputs
      BY BroadcastCmdType DEF RouterCmds
    <3>2. OwnOut(a, W)
      BY OwnOther DEF BroadcastCmd, RouterUpdate
    <3> QED
      BY <3>1, <3>2
  <2>2. h \in services => h \in Handles
    BY <1>1 DEF TypeOK
  <2>3. b \in Outputs /\ OwnOut(b, W)
    BY <2>2, NotifyConfirmResultType, OwnConfirm, SilentType, OwnSilent DEF Results
  <2>4. out' = Silent \/ out' = Then(a, b)
    BY <1>15 DEF CheckExpired, CommitConfirm
  <2> HIDE DEF a, b
  <2> QED
    BY <2>1, <2>3, <2>4, OwnThen, OwnSilent
<1> QED
  BY <1>2, <1>3, <1>4, <1>5, <1>6, <1>7, <1>9, <1>10, <1>11, <1>12, <1>13, <1>14, <1>15
     DEF Next, Handle, Tick

\* The requests about registrations after one more, or after one is taken.
LEMMA RegistrationsSent ==
    ASSUME AgentTypeOK, NEW s \in Servers, NEW m \in Requests, SendUp(s, m), NEW h \in Handles,
           m # Request("UNREGISTER_SERVICE", h)
    PROVE  /\ Renewed(h) => Renewed(h)'
           /\ RegIn(h) => RegIn(h)'
           /\ s = ServerOf[h] /\ m = Request("REGISTER_SERVICE", h) => Renewed(h)' /\ RegIn(h)'
<1>1. /\ \A t \in Servers \ {s} : up'[t] = up[t]
      /\ Len(up'[s]) = Len(up[s]) + 1 /\ Len(up[s]) \in Nat
      /\ \A i \in 1 .. Len(up[s]) : up'[s][i] = up[s][i]
      /\ up'[s][Len(up[s]) + 1] = m
  BY SentUp
<1>2. ServerOf[h] \in Servers
  BY NameOfType
<1>3. CASE ServerOf[h] # s
  <2>1. up'[ServerOf[h]] = up[ServerOf[h]]
    BY <1>1, <1>2, <1>3
  <2> QED
    BY <1>3, <2>1 DEF Renewed, RegIn, RegAt, UnRegAt
<1>4. CASE ServerOf[h] = s
  <2>1. ASSUME NEW i \in 1 .. Len(up'[s]), up'[s][i] = Request("UNREGISTER_SERVICE", h)
        PROVE  i \in 1 .. Len(up[s]) /\ up[s][i] = Request("UNREGISTER_SERVICE", h)
    <3>1. i \in 1 .. Len(up[s]) \/ i = Len(up[s]) + 1
      BY <1>1
    <3> QED
      BY <1>1, <2>1, <3>1
  <2>2. ASSUME NEW i \in 0 .. Len(up[s]), NEW j \in i + 1 .. Len(up[s]),
               up[s][j] = Request("REGISTER_SERVICE", h)
        PROVE  j \in i + 1 .. Len(up'[s]) /\ up'[s][j] = Request("REGISTER_SERVICE", h)
    BY <1>1, <2>2
  <2>3. Renewed(h) => Renewed(h)'
    <3> SUFFICES ASSUME Renewed(h), NEW i \in 1 .. Len(up'[s]),
                        up'[s][i] = Request("UNREGISTER_SERVICE", h)
                 PROVE  \E j \in i + 1 .. Len(up'[s]) : up'[s][j] = Request("REGISTER_SERVICE", h)
      BY <1>4 DEF Renewed, RegAt, UnRegAt
    <3>1. i \in 1 .. Len(up[s]) /\ UnRegAt(h, i)
      BY <1>4, <2>1 DEF UnRegAt
    <3>2. PICK j \in i + 1 .. Len(up[s]) : up[s][j] = Request("REGISTER_SERVICE", h)
      BY <1>4, <3>1 DEF Renewed, RegAt
    <3>3. i \in 0 .. Len(up[s])
      BY <1>1, <3>1
    <3> QED
      BY <2>2, <3>2, <3>3
  <2>4. RegIn(h) => RegIn(h)'
    <3> SUFFICES ASSUME NEW i \in 1 .. Len(up[s]), up[s][i] = Request("REGISTER_SERVICE", h)
                 PROVE  \E j \in 1 .. Len(up'[s]) : up'[s][j] = Request("REGISTER_SERVICE", h)
      BY <1>4 DEF RegIn, RegAt
    <3> QED
      BY <1>1
  <2>5. m = Request("REGISTER_SERVICE", h) => Renewed(h)' /\ RegIn(h)'
    <3> SUFFICES ASSUME m = Request("REGISTER_SERVICE", h) PROVE Renewed(h)' /\ RegIn(h)'
      OBVIOUS
    <3> DEFINE k == Len(up[s]) + 1
    <3>1. k \in 1 .. Len(up'[s]) /\ up'[s][k] = Request("REGISTER_SERVICE", h)
      BY <1>1
    <3>2. \A i \in 1 .. Len(up[s]) : k \in i + 1 .. Len(up'[s])
      BY <1>1
    <3> HIDE DEF k
    <3> QED
      BY <1>4, <2>1, <3>1, <3>2 DEF Renewed, RegIn, RegAt, UnRegAt
  <2> QED
    BY <2>3, <2>4, <2>5
<1> QED
  BY <1>3, <1>4

LEMMA RegistrationsTaken ==
    ASSUME AgentTypeOK, NEW s \in Servers, up[s] # << >>, up' = [up EXCEPT ![s] = Tail(@)],
           NEW h \in Handles
    PROVE  /\ Renewed(h) => Renewed(h)'
           /\ RegIn(h) => RegIn(h)' \/ up[s][1] = Request("REGISTER_SERVICE", h)
           /\ /\ Renewed(h) /\ ServerOf[h] = s
              /\ up[s][1] = Request("UNREGISTER_SERVICE", h)
              => RegIn(h)'
<1>1. /\ \A t \in Servers \ {s} : up'[t] = up[t]
      /\ Len(up'[s]) = Len(up[s]) - 1 /\ Len(up[s]) \in Nat \ {0}
      /\ \A i \in 1 .. Len(up[s]) - 1 : up'[s][i] = up[s][i + 1]
  BY TakenUp
<1>2. ServerOf[h] \in Servers
  BY NameOfType
<1>3. CASE ServerOf[h] # s
  <2>1. up'[ServerOf[h]] = up[ServerOf[h]]
    BY <1>1, <1>2, <1>3
  <2> QED
    BY <1>3, <2>1 DEF Renewed, RegIn, RegAt, UnRegAt
<1>4. CASE ServerOf[h] = s
  <2>1. ASSUME NEW i \in 1 .. Len(up[s]), NEW j \in i + 1 .. Len(up[s]),
               up[s][j] = Request("REGISTER_SERVICE", h)
        PROVE  j - 1 \in i .. Len(up'[s]) /\ up'[s][j - 1] = Request("REGISTER_SERVICE", h)
    BY <1>1, <2>1
  <2>2. Renewed(h) => Renewed(h)'
    <3> SUFFICES ASSUME Renewed(h), NEW i \in 1 .. Len(up'[s]),
                        up'[s][i] = Request("UNREGISTER_SERVICE", h)
                 PROVE  \E j \in i + 1 .. Len(up'[s]) : up'[s][j] = Request("REGISTER_SERVICE", h)
      BY <1>4 DEF Renewed, RegAt, UnRegAt
    <3>1. i + 1 \in 1 .. Len(up[s]) /\ UnRegAt(h, i + 1)
      BY <1>1, <1>4 DEF UnRegAt
    <3>2. PICK j \in (i + 1) + 1 .. Len(up[s]) : up[s][j] = Request("REGISTER_SERVICE", h)
      BY <1>4, <3>1 DEF Renewed, RegAt
    <3> QED
      BY <2>1, <3>1, <3>2
  <2>3. RegIn(h) => RegIn(h)' \/ up[s][1] = Request("REGISTER_SERVICE", h)
    <3> SUFFICES ASSUME NEW j \in 1 .. Len(up[s]), up[s][j] = Request("REGISTER_SERVICE", h), j # 1
                 PROVE  RegIn(h)'
      BY <1>4 DEF RegIn, RegAt
    <3>1. 1 \in 1 .. Len(up[s]) /\ j \in 1 + 1 .. Len(up[s])
      BY <1>1
    <3>2. j - 1 \in 1 .. Len(up'[s]) /\ up'[s][j - 1] = Request("REGISTER_SERVICE", h)
      BY <2>1, <3>1
    <3> QED
      BY <1>4, <3>2 DEF RegIn, RegAt
  <2>4. ASSUME Renewed(h), up[s][1] = Request("UNREGISTER_SERVICE", h) PROVE RegIn(h)'
    <3>1. 1 \in 1 .. Len(up[s]) /\ UnRegAt(h, 1)
      BY <1>1, <1>4, <2>4 DEF UnRegAt
    <3>2. PICK j \in 1 + 1 .. Len(up[s]) : up[s][j] = Request("REGISTER_SERVICE", h)
      BY <1>4, <2>4, <3>1 DEF Renewed, RegAt
    <3>3. j - 1 \in 1 .. Len(up'[s]) /\ up'[s][j - 1] = Request("REGISTER_SERVICE", h)
      BY <2>1, <3>1, <3>2
    <3> QED
      BY <1>4, <3>3 DEF RegIn, RegAt
  <2> QED
    BY <2>2, <2>3, <2>4
<1> QED
  BY <1>3, <1>4

\* What the agent of h has been told stays true with new events, unless one of them
\* says OK; a new kick-off makes it true.
LEMMA ToldConcat ==
    ASSUME NEW S, NEW q \in Seq(S), NEW x \in Seq(S), NEW state, NEW h, ~ OKIn(x, h),
           Told(q, state, h) \/ \E k \in 1 .. Len(x) : IsKick(x[k], h)
    PROVE  Told(q \o x, state, h)
<1> DEFINE y == q \o x
<1>1. /\ Len(y) = Len(q) + Len(x) /\ Len(q) \in Nat /\ Len(x) \in Nat
      /\ \A i \in 1 .. Len(q) : y[i] = q[i]
      /\ \A k \in 1 .. Len(x) : y[Len(q) + k] = x[k]
  BY Concat
<1> HIDE DEF y
<1>2. ASSUME NEW i \in 1 .. Len(y), IsOK(y[i], h) PROVE i \in 1 .. Len(q) /\ IsOK(q[i], h)
  <2>1. CASE i > Len(q)
    <3>1. i - Len(q) \in 1 .. Len(x) /\ y[Len(q) + (i - Len(q))] = y[i]
      BY <1>1, <2>1
    <3> QED
      BY <1>1, <1>2, <3>1 DEF OKIn
  <2> QED
    BY <1>1, <1>2, <2>1
<1>3. ASSUME NEW i \in 0 .. Len(q), KickAfter(q, h, i) PROVE KickAfter(y, h, i)
  BY <1>1, <1>3 DEF KickAfter
<1>4. CASE Told(q, state, h)
  <2>1. \A i \in 1 .. Len(q) : i \in 0 .. Len(q)
    BY <1>1
  <2>2. 0 \in 0 .. Len(q)
    BY <1>1
  <2> QED
    BY <1>2, <1>3, <1>4, <2>1, <2>2 DEF Told, y
<1>5. ASSUME NEW k \in 1 .. Len(x), IsKick(x[k], h) PROVE Told(y, state, h)
  <2>1. \A i \in 0 .. Len(q) : Len(q) + k \in i + 1 .. Len(y)
    BY <1>1
  <2>2. IsKick(y[Len(q) + k], h)
    BY <1>1, <1>5
  <2>3. \A i \in 0 .. Len(q) : KickAfter(y, h, i)
    BY <2>1, <2>2 DEF KickAfter
  <2>4. 0 \in 0 .. Len(q) /\ \A i \in 1 .. Len(q) : i \in 0 .. Len(q)
    BY <1>1
  <2> QED
    BY <1>2, <2>3, <2>4 DEF Told
<1> QED
  BY <1>4, <1>5 DEF y

\* Handling a request keeps what is settled.
LEMMA RequestRegistry ==
    ASSUME IInv, AgentTypeOK, NEW s \in Servers, HandleRequest(s), NEW h \in Handles
    PROVE  /\ h \in services /\ h \notin services' => up[s][1] = Request("UNREGISTER_SERVICE", h)
           /\ up[s][1] = Request("REGISTER_SERVICE", h) => h \in services' \/ ~ apps
           /\ apps => apps'
<1> DEFINE m == Head(up[s])
<1>1. up[s] # << >> /\ up' = [up EXCEPT ![s] = Tail(@)]
  BY DEF HandleRequest
<1>2. m = up[s][1] /\ m \in Requests
  BY <1>1, TakenUp
<1> HIDE DEF m
<1>3. m.cmd # "REGISTER_APP" => m = Request(m.cmd, m.handle)
  BY <1>2 DEF Requests, Request
<1>4. \A g : Request("REGISTER_SERVICE", g).cmd = "REGISTER_SERVICE"
             /\ Request("REGISTER_SERVICE", g).handle = g
  BY DEF Request
<1>5. handleServices = services
  BY DEF IInv, RegistryConsistent
<1>6. CASE m.cmd = "REGISTER_APP" /\ RegisterApp(s)
  BY <1>2, <1>4, <1>6 DEF RegisterApp
<1>7. CASE /\ m.cmd = "REGISTER_SERVICE"
           /\ \/ RegisterServiceAgain(m.handle) \/ RegisterServiceNoApp(m.handle)
              \/ RegisterService(m.handle, FALSE)
  BY <1>2, <1>4, <1>5, <1>7
     DEF RegisterServiceAgain, RegisterServiceNoApp, RegisterService, AddItem, regVars
<1>8. CASE m.cmd = "UNREGISTER_SERVICE" /\ UnRegister(m.handle)
  BY <1>2, <1>3, <1>4, <1>8 DEF UnRegister, UnRegisterService, RemoveItem
<1>9. CASE m.cmd # "REGISTER_SERVICE" /\ UNCHANGED <<services, apps>>
  BY <1>2, <1>4, <1>9
<1>10. ASSUME \/ RejectHandle(m.handle) \/ OnServiceHeartbeat(m.handle)
              \/ OnServiceRunForElection(m.handle) \/ OnServiceGiveupElection(m.handle)
       PROVE  UNCHANGED <<services, apps>>
  BY <1>10 DEF RejectHandle, OnServiceHeartbeat, OnServiceRunForElection, OnServiceGiveupElection,
               regVars
<1> QED
  BY <1>6, <1>7, <1>8, <1>9, <1>10 DEF HandleRequest, m

\* The tick tells the agent of a service that it removes.
LEMMA TickRegistry ==
    ASSUME IInv, StartInv, NameServerTick, NEW h \in Handles
    PROVE  /\ h \in services /\ h \notin services' =>
                 \E k \in 1 .. Len(out'[ServerOf[h]]) : IsKick(out'[ServerOf[h]][k], h)
           /\ apps' = apps
<1>1. TypeOK /\ handleServices = services /\ ServerOf[h] \in Servers
  BY NameOfType DEF IInv, RegistryConsistent
<1>2. CASE Clock \/ OnTick \/ \E n \in Names : CheckExpired(n)
  BY <1>2 DEF Clock, OnTick, CheckExpired, regVars
<1>3. CASE KickExpired
  <2>1. apps' = apps /\ UnRegisterService(Head(expired), TRUE)
    BY <1>3 DEF KickExpired
  <2> SUFFICES ASSUME h \in services, h \notin services'
               PROVE  \E k \in 1 .. Len(out'[ServerOf[h]]) : IsKick(out'[ServerOf[h]][k], h)
    BY <2>1
  <2>2. h = Head(expired)
    BY <2>1 DEF UnRegisterService, RemoveItem
  <2> DEFINE kick == SendTo({ServerOf[h]}, KickOff(h))
             rest == Then(BroadcastOnlineToOthers(h, FALSE), kick)
             Kicks(o) == \E k \in 1 .. Len(o[ServerOf[h]]) : IsKick(o[ServerOf[h]][k], h)
  <2>3. GiveupElection(h, rest)
    BY <2>1, <2>2 DEF UnRegisterService
  <2>4. sessions[ServerOf[h]] # NoConn
    BY DEF StartInv
  <2>5. kick \in Outputs /\ Kicks(kick)
    <3>1. kick[ServerOf[h]] = <<KickOff(h)>>
      BY <1>1, <2>4 DEF SendTo
    <3>2. kick \in Outputs
      BY SendToType, MessageTypes
    <3>3. 1 \in 1 .. Len(<<KickOff(h)>>) /\ <<KickOff(h)>>[1] = KickOff(h)
      OBVIOUS
    <3>4. 1 \in 1 .. Len(kick[ServerOf[h]]) /\ IsKick(kick[ServerOf[h]][1], h)
      BY <3>1, <3>3 DEF IsKick
    <3> QED
      BY <3>2, <3>4
  <2> HIDE DEF kick
  <2>6. ASSUME NEW a \in Outputs, NEW b \in Outputs, Kicks(b)
        PROVE  Then(a, b) \in Outputs /\ Kicks(Then(a, b))
    <3>1. /\ a[ServerOf[h]] \in Seq(Messages) /\ b[ServerOf[h]] \in Seq(Messages)
          /\ Then(a, b)[ServerOf[h]] = a[ServerOf[h]] \o b[ServerOf[h]]
      BY <1>1 DEF Outputs, Then
    <3>2. PICK k \in 1 .. Len(b[ServerOf[h]]) : IsKick(b[ServerOf[h]][k], h)
      BY <2>6
    <3> DEFINE u == a[ServerOf[h]]
               v == b[ServerOf[h]]
    <3> HIDE DEF u, v
    <3>3. u \in Seq(Messages) /\ v \in Seq(Messages) /\ k \in 1 .. Len(v)
      BY <3>1, <3>2 DEF u, v
    <3>4. /\ Len(u \o v) = Len(u) + Len(v) /\ Len(u) \in Nat /\ Len(v) \in Nat
          /\ (u \o v)[Len(u) + k] = v[k]
      BY <3>3, Concat
    <3>5. Len(u) + k \in 1 .. Len(u \o v) /\ IsKick((u \o v)[Len(u) + k], h)
      BY <3>2, <3>3, <3>4 DEF v
    <3>6. Then(a, b)[ServerOf[h]] = u \o v
      BY <3>1 DEF u, v
    <3> QED
      BY <3>5, <3>6, ThenType
  <2>7. rest \in Outputs /\ Kicks(rest)
    BY <2>5, <2>6, PlainOnline
  <2> HIDE DEF rest
  <2>8. out' = rest \/ \E a \in Outputs : out' = Then(a, rest)
    <3>1. \A g \in electionCandidates[NameOf[h]] : g \in Handles
      BY <1>1, NameOfType DEF TypeOK
    <3>2. ASSUME NEW S, NEW g \in Handles, NEW e \in {"RunForLeader", "GiveUpLeader"},
                 NEW r \in {"OK", "QuitCandidate"}
          PROVE  SendTo(S, ElectionResult(g, e, r)) \in Outputs
      BY SendToType, MessageTypes DEF ElectionEvents, ElectionResults
    <3> QED
      BY <2>3, <3>1, <3>2 DEF GiveupElection, Freshest, Broadcast
  <2>9. Kicks(out')
    BY <2>6, <2>7, <2>8
  <2> QED
    BY <2>9
<1> QED
  BY <1>2, <1>3 DEF NameServerTick, Tick

LEMMA ServerRegistered ==
    ASSUME CPInv, CPInv', StartInv, ServerStep, NEW h \in Handles, RegisteredOK(h)
    PROVE  RegisteredOK(h)'
<1> DEFINE q == EventsOf(h)
           x == out'[ServerOf[h]]
           state == svc[h]
<1>1. IInv /\ AgentTypeOK /\ IInv' /\ ServerOf[h] \in Servers
  BY NameOfType DEF CPInv
<1>2. q \in Seq(Messages) /\ x \in Seq(Messages) /\ EventsOf(h)' = q \o x
  BY Delivered, NameOfType DEF EventsOf
<1>3. svc' = svc /\ removing' = removing
  BY Delivered DEF agentVars
<1>4. Current(h)' <=> Current(h)
  BY <1>3 DEF Current
<1>5. OKIn(x, h) => h \in services'
  <2>1. Next
    BY <1>1, HandleRequestIsHandle DEF ServerStep, NameServerTick, Next, Handle
  <2> QED
    BY <1>1, <2>1, NextOwn DEF OwnOut, OKIn
<1>6. h \in services' => apps'
  BY <1>1 DEF IInv, RegistryConsistent
<1>7. state = "up" \/ OKIn(q, h) => apps
  BY DEF RegisteredOK
<1>8. Current(h) => Renewed(h) /\ (Settled(h) \/ Told(q, state, h))
  BY DEF RegisteredOK
<1>9. /\ apps => apps'
      /\ Renewed(h) => Renewed(h)'
      /\ Renewed(h) /\ Settled(h) =>
            Settled(h)' \/ ~ apps \/ \E k \in 1 .. Len(x) : IsKick(x[k], h)
  <2>1. ASSUME NEW s \in Servers, HandleRequest(s)
        PROVE  /\ apps => apps'
               /\ Renewed(h) => Renewed(h)'
               /\ Renewed(h) /\ Settled(h) => Settled(h)' \/ ~ apps
    <3>1. up[s] # << >> /\ up' = [up EXCEPT ![s] = Tail(@)]
      BY <2>1 DEF HandleRequest
    <3>2. /\ Renewed(h) => Renewed(h)'
          /\ RegIn(h) => RegIn(h)' \/ up[s][1] = Request("REGISTER_SERVICE", h)
          /\ Renewed(h) /\ ServerOf[h] = s /\ up[s][1] = Request("UNREGISTER_SERVICE", h)
             => RegIn(h)'
      BY <1>1, <3>1, RegistrationsTaken
    <3>3. /\ h \in services /\ h \notin services' => up[s][1] = Request("UNREGISTER_SERVICE", h)
          /\ up[s][1] = Request("REGISTER_SERVICE", h) => h \in services' \/ ~ apps
          /\ apps => apps'
      BY <1>1, <2>1, RequestRegistry
    <3>4. up[s][1] = Request("UNREGISTER_SERVICE", h) => ServerOf[h] = s
      <4>1. 1 \in 1 .. Len(up[s])
        BY <1>1, <3>1, TakenUp
      <4> QED
        BY <4>1 DEF StartInv, OwnRequests, Request
    <3> QED
      BY <3>2, <3>3, <3>4 DEF Settled
  <2>2. CASE NameServerTick
    <3>1. up' = up
      BY <2>2 DEF NameServerTick
    <3>2. (Renewed(h)' <=> Renewed(h)) /\ (RegIn(h)' <=> RegIn(h))
      BY <3>1 DEF Renewed, RegIn, RegAt, UnRegAt
    <3>3. /\ h \in services /\ h \notin services' => \E k \in 1 .. Len(x) : IsKick(x[k], h)
          /\ apps' = apps
      BY <1>1, <2>2, TickRegistry
    <3> QED
      BY <3>2, <3>3 DEF Settled
  <2> QED
    BY <2>1, <2>2 DEF ServerStep
<1> HIDE DEF q, x
<1>10. OKIn(q \o x, h) => OKIn(q, h) \/ OKIn(x, h)
  <2> SUFFICES ASSUME NEW i \in 1 .. Len(q \o x), IsOK((q \o x)[i], h)
               PROVE  OKIn(q, h) \/ OKIn(x, h)
    BY DEF OKIn
  <2>1. i \in 1 .. Len(q) \/ (i - Len(q) \in 1 .. Len(x) /\ i = Len(q) + (i - Len(q)))
    BY <1>2, Concat
  <2>2. CASE i \in 1 .. Len(q)
    BY <1>2, <2>2, Concat DEF OKIn
  <2>3. CASE i - Len(q) \in 1 .. Len(x) /\ i = Len(q) + (i - Len(q))
    <3>1. (q \o x)[Len(q) + (i - Len(q))] = x[i - Len(q)]
      BY <1>2, <2>3, Concat
    <3> QED
      BY <2>3, <3>1 DEF OKIn
  <2> QED
    BY <2>1, <2>2, <2>3
<1>11. state = "up" \/ OKIn(q \o x, h) => apps'
  BY <1>5, <1>6, <1>7, <1>9, <1>10
<1>12. ASSUME Current(h) PROVE Renewed(h)' /\ (Settled(h)' \/ Told(q \o x, state, h))
  <2>1. Renewed(h) /\ Renewed(h)'
    BY <1>8, <1>9, <1>12
  <2>2. CASE OKIn(x, h)
    BY <1>5, <2>1, <2>2 DEF Settled
  <2>3. CASE ~ OKIn(x, h)
    <3>1. Settled(h)' \/ Told(q, state, h) \/ \E k \in 1 .. Len(x) : IsKick(x[k], h)
      <4>1. ~ apps => Told(q, state, h)
        BY <1>7 DEF Told, OKIn
      <4> QED
        BY <1>8, <1>9, <1>12, <2>1, <4>1
    <3>2. CASE Told(q, state, h) \/ \E k \in 1 .. Len(x) : IsKick(x[k], h)
      BY <1>2, <2>1, <2>3, <3>2, ToldConcat
    <3> QED
      BY <2>1, <3>1, <3>2
  <2> QED
    BY <2>2, <2>3
<1> QED
  BY <1>2, <1>3, <1>4, <1>11, <1>12 DEF RegisteredOK

LEMMA ServerOwn ==
    ASSUME CPInv, CPInv', StartInv, ServerStep, OwnEvents
    PROVE  OwnEvents'
<1>1. IInv /\ AgentTypeOK
  BY DEF CPInv
<1>2. Next
  BY <1>1, HandleRequestIsHandle DEF ServerStep, NameServerTick, Next, Handle
<1>3. OwnOut(out', services')
  BY <1>1, <1>2, NextOwn
<1>4. ASSUME NEW s \in Servers, NEW i \in 1 .. Len(down'[s]), NEW h \in Handles,
             IsOK(down'[s][i], h) \/ IsKick(down'[s][i], h)
      PROVE  ServerOf[h] = s
  <2> DEFINE q == down[s]
             x == out'[s]
  <2>1. q \in Seq(Messages) /\ x \in Seq(Messages) /\ down'[s] = q \o x
    BY Delivered
  <2>2. \A k \in 1 .. Len(q) : IsOK(q[k], h) \/ IsKick(q[k], h) => ServerOf[h] = s
    BY DEF OwnEvents
  <2>3. \A k \in 1 .. Len(x) : IsOK(x[k], h) \/ IsKick(x[k], h) => ServerOf[h] = s
    BY <1>3 DEF OwnOut
  <2> HIDE DEF q, x
  <2>4. i \in 1 .. Len(q) \/ (i - Len(q) \in 1 .. Len(x) /\ i = Len(q) + (i - Len(q)))
    BY <2>1, Concat
  <2>5. CASE i \in 1 .. Len(q)
    BY <1>4, <2>1, <2>2, <2>5, Concat
  <2>6. CASE i - Len(q) \in 1 .. Len(x) /\ i = Len(q) + (i - Len(q))
    <3>1. (q \o x)[Len(q) + (i - Len(q))] = x[i - Len(q)]
      BY <2>1, <2>6, Concat
    <3> QED
      BY <1>4, <2>1, <2>3, <2>6, <3>1
  <2> QED
    BY <2>4, <2>5, <2>6
<1> QED
  BY <1>4 DEF OwnEvents

\* What an event does to the registration of h: nothing; it ends it; or it makes
\* Register return.
EventKeeps(h, m) ==
    /\ svc'[h] = svc[h] /\ removing'[h] = removing[h]
    /\ Renewed(h) => Renewed(h)'
    /\ RegIn(h) => RegIn(h)'
    /\ IsKick(m, h) => svc[h] # "up"
EventEnds(h) == ~ Current(h)' /\ svc'[h] # "up"
EventStops(h) == ~ Current(h)' /\ svc'[h] = svc[h]
EventReturns(h, m) ==
    IsOK(m, h) /\ svc[h] = "waiting" /\ svc'[h] = "up" /\ UNCHANGED <<removing, up>>

LEMMA EventRegistry ==
    ASSUME AgentTypeOK, NEW s \in Servers, HandleEvent(s), NEW h \in Handles
    PROVE  LET m == down[s][1] IN
           EventKeeps(h, m) \/ EventEnds(h) \/ EventStops(h) \/ EventReturns(h, m)
<1> DEFINE m == Head(down[s])
<1>1. down[s] # << >> /\ down[s] \in Seq(Messages) /\ down[s][1] \in Messages
  BY EventFacts
<1>2. m = down[s][1] /\ m \in Messages
  BY <1>1, TailFacts
<1>3. svc \in [Handles -> SvcStates] /\ removing \in [Handles -> SUBSET Callers]
  BY DEF AgentTypeOK
<1>4. \/ m.cmd = "RSP_REGISTER_APP" /\ OnRegisterApp(s, m)
      \/ m.cmd = "RSP_REGISTER_SERVICE" /\ OnRegisterRsp(s, m)
      \/ /\ m.cmd = "NOTIFY_SERVICE_ELECTION_RESULT"
         /\ OnRunForElectionResult(s, m) \/ OnGiveUpElectionResult(s, m)
      \/ m.cmd = "NOTIFY_SERVICE_KICK_OFF" /\ OnKickOff(s, m)
      \/ m.cmd \in OtherCmds /\ UNCHANGED <<agentVars, up>>
  BY DEF HandleEvent
<1> HIDE DEF m
<1>5. ASSUME svc'[h] = svc[h], removing'[h] = removing[h], up' = up,
             IsKick(m, h) => svc[h] # "up"
      PROVE  EventKeeps(h, m)
  <2>1. (Renewed(h)' <=> Renewed(h)) /\ (RegIn(h)' <=> RegIn(h))
    BY <1>5 DEF Renewed, RegIn, RegAt, UnRegAt
  <2> QED
    BY <1>5, <2>1 DEF EventKeeps
<1>6. CASE m.cmd = "RSP_REGISTER_SERVICE" /\ OnRegisterRsp(s, m)
  <2>1. removing' = removing /\ up' = up /\ ~ IsKick(m, h)
    BY <1>6, EventCmds DEF OnRegisterRsp
  <2>2. CASE svc'[h] = svc[h]
    BY <1>2, <1>5, <2>1, <2>2
  <2>3. CASE svc'[h] # svc[h]
    <3>1. m.handle = h /\ svc[h] = "waiting" /\ svc'[h] = IF m.result = "OK" THEN "up" ELSE "failed"
      BY <1>3, <1>6, <2>3 DEF OnRegisterRsp
    <3>2. CASE m.result = "OK"
      <4>1. IsOK(m, h)
        BY <1>2, <1>6, <3>1, <3>2 DEF Messages, IsOK, RegisterServiceRsp
      <4> QED
        BY <1>2, <2>1, <3>1, <3>2, <4>1 DEF EventReturns
    <3>3. CASE m.result # "OK"
      BY <3>1, <3>3 DEF EventEnds, Current
    <3> QED
      BY <3>2, <3>3
  <2> QED
    BY <2>2, <2>3
<1>7. CASE m.cmd = "NOTIFY_SERVICE_KICK_OFF" /\ OnKickOff(s, m)
  <2> DEFINE g == m.handle
  <2>1. g \in Handles /\ (IsKick(m, h) => g = h) /\ svc' = svc
    BY <1>2, <1>7, EventCmds DEF Messages, OnKickOff
  <2>2. CASE ~ InMaps(g)
    <3>1. removing' = removing /\ up' = up
      BY <1>7, <2>2 DEF OnKickOff
    <3> QED
      BY <1>2, <1>5, <2>1, <2>2, <3>1 DEF InMaps
  <2>3. CASE InMaps(g)
    <3>1. /\ removing' = [removing EXCEPT ![g] = @ \cup {"serve"}]
          /\ SendUp(ServerOf[g], Request("UNREGISTER_SERVICE", g))
      BY <1>7, <2>3 DEF OnKickOff, UnRegisterStop
    <3>2. CASE g = h
      <4>1. removing'[h] # {} /\ svc[h] \in {"waiting", "failed", "up"}
        BY <1>3, <2>3, <3>1, <3>2 DEF InMaps
      <4> QED
        BY <2>1, <4>1 DEF EventStops, Current
    <3>3. CASE g # h
      <4>1. /\ Request("UNREGISTER_SERVICE", g) \in Requests /\ ServerOf[g] \in Servers
            /\ Request("UNREGISTER_SERVICE", g) # Request("UNREGISTER_SERVICE", h)
        BY <2>1, <3>3, RequestType, NameOfType DEF Request
      <4>2. (Renewed(h) => Renewed(h)') /\ (RegIn(h) => RegIn(h)')
        BY <3>1, <4>1, RegistrationsSent
      <4>3. removing'[h] = removing[h]
        BY <1>3, <3>1, <3>3
      <4> QED
        BY <1>2, <2>1, <3>3, <4>2, <4>3 DEF EventKeeps
    <3> QED
      BY <3>2, <3>3
  <2> QED
    BY <2>2, <2>3
<1>8. CASE m.cmd \notin {"RSP_REGISTER_SERVICE", "NOTIFY_SERVICE_KICK_OFF"}
  <2>1. UNCHANGED <<svc, removing, up>>
    BY <1>4, <1>8 DEF OnRegisterApp, OnRunForElectionResult, OnGiveUpElectionResult, agentVars
  <2> QED
    BY <1>2, <1>5, <1>8, <2>1, EventCmds
<1> QED
  BY <1>4, <1>6, <1>7, <1>8 DEF OtherCmds

LEMMA KickTail ==
    ASSUME NEW S, NEW q \in Seq(S), q # << >>, NEW h, NEW i \in 0 .. Len(q), KickAfter(q, h, i + 1)
    PROVE  KickAfter(Tail(q), h, i)
<1>1. /\ Len(Tail(q)) = Len(q) - 1 /\ Len(q) \in Nat \ {0}
      /\ \A j \in 1 .. Len(q) - 1 : Tail(q)[j] = q[j + 1]
  BY TailFacts
<1>2. PICK j \in (i + 1) + 1 .. Len(q) : IsKick(q[j], h)
  BY DEF KickAfter
<1>3. j - 1 \in i + 1 .. Len(Tail(q)) /\ j - 1 \in 1 .. Len(q) - 1 /\ (j - 1) + 1 = j
  BY <1>1, <1>2
<1>4. IsKick(Tail(q)[j - 1], h)
  BY <1>1, <1>2, <1>3
<1> QED
  BY <1>3, <1>4 DEF KickAfter

\* What the agent of h has been told, after it has handled an event that is no
\* kick-off of a service that is up.
LEMMA ToldTail ==
    ASSUME NEW S, NEW q \in Seq(S), q # << >>, NEW state, NEW h, Told(q, state, h),
           IsKick(q[1], h) => state # "up"
    PROVE  Told(Tail(q), state, h)
<1>1. /\ Len(Tail(q)) = Len(q) - 1 /\ Len(q) \in Nat \ {0}
      /\ \A j \in 1 .. Len(q) - 1 : Tail(q)[j] = q[j + 1]
  BY TailFacts
<1>2. CASE state = "up"
  <2>1. PICK j \in 0 + 1 .. Len(q) : IsKick(q[j], h)
    BY <1>2 DEF Told, KickAfter
  <2>2. j \in (0 + 1) + 1 .. Len(q) /\ 0 \in 0 .. Len(q)
    BY <1>1, <1>2, <2>1
  <2>3. KickAfter(q, h, 0 + 1)
    BY <2>1, <2>2 DEF KickAfter
  <2> QED
    BY <1>2, <2>2, <2>3, KickTail DEF Told
<1>3. CASE state # "up"
  <2>1. ASSUME NEW i \in 1 .. Len(Tail(q)), IsOK(Tail(q)[i], h) PROVE KickAfter(Tail(q), h, i)
    <3>1. i + 1 \in 1 .. Len(q) /\ i \in 0 .. Len(q) /\ Tail(q)[i] = q[i + 1]
      BY <1>1
    <3>2. KickAfter(q, h, i + 1)
      BY <1>3, <2>1, <3>1 DEF Told
    <3> QED
      BY <3>1, <3>2, KickTail
  <2> QED
    BY <1>3, <2>1 DEF Told
<1> QED
  BY <1>2, <1>3

LEMMA EventRegistered ==
    ASSUME CPInv, CPInv', OwnEvents, NEW s \in Servers, HandleEvent(s), NEW h \in Handles,
           RegisteredOK(h)
    PROVE  RegisteredOK(h)'
<1> DEFINE q == EventsOf(h)
           m == down[s][1]
<1>1. AgentTypeOK /\ ServerOf[h] \in Servers /\ down \in [Servers -> Seq(Messages)]
  BY NameOfType DEF CPInv, AgentTypeOK
<1>2. /\ apps' = apps /\ services' = services /\ down[s] # << >> /\ down[s] \in Seq(Messages)
      /\ down' = [down EXCEPT ![s] = Tail(@)]
  BY <1>1, EventFacts DEF vars, regVars
<1>3. IF ServerOf[h] = s THEN q = down[s] /\ EventsOf(h)' = Tail(q) ELSE EventsOf(h)' = q
  BY <1>1, <1>2 DEF EventsOf
<1>4. q \in Seq(Messages)
  BY <1>1 DEF EventsOf
<1>5. EventKeeps(h, m) \/ EventEnds(h) \/ EventStops(h) \/ EventReturns(h, m)
  BY <1>1, EventRegistry
<1>6. /\ svc[h] = "up" \/ OKIn(q, h) => apps
      /\ Current(h) => Renewed(h) /\ (Settled(h) \/ Told(q, svc[h], h))
  BY DEF RegisteredOK
<1>7. 1 \in 1 .. Len(down[s])
  BY <1>2, TailFacts
<1>8. IsOK(m, h) => ServerOf[h] = s /\ OKIn(q, h)
  BY <1>3, <1>7 DEF OwnEvents, OKIn
<1>9. OKIn(EventsOf(h)', h) => OKIn(q, h)
  <2>1. CASE ServerOf[h] = s
    <3>1. \A i \in 1 .. Len(Tail(q)) : i + 1 \in 1 .. Len(q) /\ Tail(q)[i] = q[i + 1]
      BY <1>2, <1>3, <2>1, TailFacts
    <3> QED
      BY <1>3, <2>1, <3>1 DEF OKIn
  <2>2. CASE ServerOf[h] # s
    BY <1>3, <2>2
  <2> QED
    BY <2>1, <2>2
<1> HIDE DEF q
<1>10. CASE EventKeeps(h, m)
  <2>1. /\ svc'[h] = svc[h] /\ removing'[h] = removing[h]
        /\ Renewed(h) => Renewed(h)'
        /\ RegIn(h) => RegIn(h)'
        /\ IsKick(m, h) => svc[h] # "up"
    BY <1>10 DEF EventKeeps
  <2>2. (Current(h)' <=> Current(h)) /\ (Settled(h) => Settled(h)')
    BY <1>2, <2>1 DEF Current, Settled
  <2>3. Told(q, svc[h], h) => Told(EventsOf(h)', svc[h], h)
    <3>1. CASE ServerOf[h] = s
      BY <1>2, <1>3, <1>4, <2>1, <3>1, ToldTail
    <3>2. CASE ServerOf[h] # s
      BY <1>3, <3>2
    <3> QED
      BY <3>1, <3>2
  <2> QED
    BY <1>2, <1>6, <1>9, <2>1, <2>2, <2>3 DEF RegisteredOK
<1>11. CASE EventEnds(h) \/ EventStops(h)
  BY <1>2, <1>6, <1>9, <1>11 DEF EventEnds, EventStops, RegisteredOK
<1>12. CASE EventReturns(h, m)
  <2>1. /\ IsOK(m, h) /\ svc[h] = "waiting" /\ svc'[h] = "up" /\ UNCHANGED <<removing, up>>
        /\ ServerOf[h] = s /\ apps
    BY <1>6, <1>8, <1>12 DEF EventReturns
  <2>2. Current(h)' => Current(h)
    BY <2>1 DEF Current
  <2>3. (Renewed(h)' <=> Renewed(h)) /\ (Settled(h)' <=> Settled(h))
    BY <1>2, <2>1 DEF Renewed, Settled, RegIn, RegAt, UnRegAt
  <2>4. Told(q, "waiting", h) => Told(EventsOf(h)', "up", h)
    <3> SUFFICES ASSUME Told(q, "waiting", h) PROVE KickAfter(Tail(q), h, 0)
      BY <1>3, <2>1 DEF Told
    <3>1. KickAfter(q, h, 1)
      BY <1>3, <1>7, <2>1 DEF Told
    <3>2. 0 \in 0 .. Len(q) /\ 0 + 1 = 1 /\ q # << >>
      BY <1>2, <1>3, <1>4, <2>1
    <3> QED
      BY <1>4, <3>1, <3>2, KickTail
  <2> QED
    BY <1>2, <1>6, <2>1, <2>2, <2>3, <2>4 DEF RegisteredOK
<1> QED
  BY <1>5, <1>10, <1>11, <1>12

LEMMA EventOwn ==
    ASSUME CPInv, OwnEvents, NEW s \in Servers, HandleEvent(s)
    PROVE  OwnEvents'
<1>1. down \in [Servers -> Seq(Messages)]
  BY DEF CPInv, AgentTypeOK
<1>2. down[s] # << >> /\ down[s] \in Seq(Messages) /\ down' = [down EXCEPT ![s] = Tail(@)]
  BY EventFacts DEF CPInv
<1>3. \A i \in 1 .. Len(Tail(down[s])) :
         i + 1 \in 1 .. Len(down[s]) /\ Tail(down[s])[i] = down[s][i + 1]
  BY <1>2, TailFacts
<1>4. ASSUME NEW t \in Servers, NEW i \in 1 .. Len(down'[t]), NEW h \in Handles,
             IsOK(down'[t][i], h) \/ IsKick(down'[t][i], h)
      PROVE  ServerOf[h] = t
  <2>1. CASE t = s
    BY <1>1, <1>2, <1>3, <1>4, <2>1 DEF OwnEvents
  <2>2. CASE t # s
    BY <1>1, <1>2, <1>4, <2>2 DEF OwnEvents
  <2> QED
    BY <2>1, <2>2
<1> QED
  BY <1>4 DEF OwnEvents

\* The calls of the agents.
LEMMA CallRegistered ==
    ASSUME CPInv, StartInv, NEW g \in Handles, ServiceCall(g), NEW h \in Handles, RegisteredOK(h)
    PROVE  RegisteredOK(h)'
<1>1. AgentTypeOK /\ ServerOf[g] \in Servers
  BY NameOfType DEF CPInv
<1>2. UNCHANGED <<apps, services, down>> /\ EventsOf(h)' = EventsOf(h)
  BY <1>1, CallFacts DEF vars, regVars, EventsOf
<1>3. svc \in [Handles -> SvcStates] /\ removing \in [Handles -> SUBSET Callers]
  BY <1>1 DEF AgentTypeOK
\* Calls that leave the state of h alone, or end its registration.
<1>4. ASSUME svc'[h] = svc[h], Current(h)' => Current(h),
             \/ up' = up
             \/ \E c \in ServiceCmds : SendUp(ServerOf[g], Request(c, g))
                                       /\ (c = "UNREGISTER_SERVICE" => g # h)
      PROVE  RegisteredOK(h)'
  <2>1. (Renewed(h) => Renewed(h)') /\ (RegIn(h) => RegIn(h)')
    <3>1. CASE up' = up
      BY <3>1 DEF Renewed, RegIn, RegAt, UnRegAt
    <3>2. ASSUME NEW c \in ServiceCmds, SendUp(ServerOf[g], Request(c, g)),
                 c = "UNREGISTER_SERVICE" => g # h
          PROVE  (Renewed(h) => Renewed(h)') /\ (RegIn(h) => RegIn(h)')
      <4>1. Request(c, g) \in Requests /\ Request(c, g) # Request("UNREGISTER_SERVICE", h)
        BY <3>2, RequestType DEF Request, ServiceCmds
      <4> QED
        BY <1>1, <3>2, <4>1, RegistrationsSent
    <3> QED
      BY <1>4, <3>1, <3>2
  <2> QED
    BY <1>2, <1>4, <2>1 DEF RegisteredOK, Settled
<1>5. ASSUME ~ Current(h)', svc'[h] = "up" => svc[h] = "up" PROVE RegisteredOK(h)'
  BY <1>2, <1>5 DEF RegisteredOK
<1>6. CASE RegisterSend(g)
  <2>1. /\ svc[g] = "none" /\ svc' = [svc EXCEPT ![g] = "sent"] /\ UNCHANGED removing
        /\ SendUp(ServerOf[g], Request("REGISTER_SERVICE", g))
    BY <1>6 DEF RegisterSend
  <2>2. CASE g = h
    <3>1. /\ Request("REGISTER_SERVICE", h) \in Requests
          /\ Request("REGISTER_SERVICE", h) # Request("UNREGISTER_SERVICE", h)
      BY RequestType DEF Request
    <3>2. Renewed(h)' /\ RegIn(h)'
      BY <1>1, <2>1, <2>2, <3>1, RegistrationsSent
    <3>3. svc'[h] # "up"
      BY <1>3, <2>1, <2>2
    <3> QED
      BY <1>2, <3>2, <3>3 DEF RegisteredOK, Settled
  <2>3. CASE g # h
    <3>1. svc'[h] = svc[h] /\ (Current(h)' => Current(h))
      BY <1>3, <2>1, <2>3 DEF Current
    <3> QED
      BY <1>4, <2>1, <2>3, <3>1 DEF ServiceCmds
  <2> QED
    BY <2>2, <2>3
<1>7. CASE RegisterInsert(g)
  <2>1. svc[g] = "sent" /\ svc' = [svc EXCEPT ![g] = "waiting"] /\ UNCHANGED <<removing, up>>
    BY <1>7 DEF RegisterInsert
  <2>2. CASE g = h
    <3>1. svc[h] = "sent" /\ svc'[h] = "waiting" /\ Current(h)
      BY <1>3, <2>1, <2>2 DEF Current
    <3>2. (Renewed(h)' <=> Renewed(h)) /\ (Settled(h)' <=> Settled(h))
      BY <1>2, <2>1 DEF Renewed, Settled, RegIn, RegAt, UnRegAt
    <3>3. Told(EventsOf(h), "sent", h) => Told(EventsOf(h), "waiting", h)
      BY DEF Told
    <3> QED
      BY <1>2, <3>1, <3>2, <3>3 DEF RegisteredOK
  <2>3. CASE g # h
    <3>1. svc'[h] = svc[h] /\ (Current(h)' => Current(h))
      BY <1>3, <2>1, <2>3 DEF Current
    <3> QED
      BY <1>4, <2>1, <3>1
  <2> QED
    BY <2>2, <2>3
\* UnRegister, up to Stop, of a service in the maps.
<1>8. ASSUME NEW caller \in Callers, UnRegisterStop(g, caller), InMaps(g),
             svc' = svc \/ svc' = [svc EXCEPT ![g] = "failed"]
      PROVE  RegisteredOK(h)'
  <2>1. /\ removing' = [removing EXCEPT ![g] = @ \cup {caller}]
        /\ SendUp(ServerOf[g], Request("UNREGISTER_SERVICE", g))
    BY <1>8 DEF UnRegisterStop
  <2>2. CASE g = h
    <3>1. removing'[h] # {} /\ svc'[h] # "sent" /\ (svc'[h] = "up" => svc[h] = "up")
      BY <1>3, <1>8, <2>1, <2>2 DEF InMaps
    <3> QED
      BY <1>5, <3>1 DEF Current
  <2>3. CASE g # h
    <3>1. svc'[h] = svc[h] /\ removing'[h] = removing[h]
      BY <1>3, <1>8, <2>1, <2>3
    <3>2. Current(h)' => Current(h)
      BY <3>1 DEF Current
    <3> QED
      BY <1>4, <2>1, <2>3, <3>1, <3>2 DEF ServiceCmds
  <2> QED
    BY <2>2, <2>3
<1>9. CASE RegisterFail(g)
  <2>1. "register" \in Callers
    BY DEF Callers
  <2>2. CASE InMaps(g)
    <3>1. UnRegisterStop(g, "register") /\ (svc' = svc \/ svc' = [svc EXCEPT ![g] = "failed"])
      BY <1>9, <2>2 DEF RegisterFail
    <3> QED
      BY <1>8, <2>1, <2>2, <3>1
  <2>3. CASE ~ InMaps(g)
    <3>1. UNCHANGED <<svc, removing, up>>
      BY <1>9, <2>3 DEF RegisterFail, InMaps
    <3> QED
      BY <1>4, <3>1 DEF Current
  <2> QED
    BY <2>2, <2>3
<1>10. CASE UnRegisterCall(g)
  <2>1. "api" \in Callers
    BY DEF Callers
  <2> QED
    BY <1>8, <1>10, <2>1 DEF UnRegisterCall
<1>11. ASSUME NEW caller \in Callers, UnRegisterDelete(g, caller) PROVE RegisteredOK(h)'
  <2>1. /\ removing' = [removing EXCEPT ![g] = @ \ {caller}] /\ up' = up
        /\ svc' = [svc EXCEPT ![g] = IF InMaps(g) THEN "none" ELSE @]
    BY <1>11 DEF UnRegisterDelete
  <2>2. CASE g = h /\ InMaps(g)
    <3>1. svc'[h] = "none"
      BY <1>3, <2>1, <2>2
    <3> QED
      BY <1>5, <3>1 DEF Current
  <2>3. CASE g = h /\ ~ InMaps(g)
    <3>1. svc'[h] = svc[h] /\ svc[h] \notin {"waiting", "up"}
      BY <1>3, <2>1, <2>3 DEF InMaps
    <3>2. Current(h)' => Current(h)
      BY <3>1 DEF Current
    <3> QED
      BY <1>4, <2>1, <3>1, <3>2
  <2>4. CASE g # h
    <3>1. svc'[h] = svc[h] /\ removing'[h] = removing[h]
      BY <1>3, <2>1, <2>4
    <3>2. Current(h)' => Current(h)
      BY <3>1 DEF Current
    <3> QED
      BY <1>4, <2>1, <3>1, <3>2
  <2> QED
    BY <2>2, <2>3, <2>4
<1>12. CASE Keepalive(g) \/ RunForElection(g) \/ GiveUpElection(g)
  <2>1. /\ UNCHANGED <<svc, removing>>
        /\ \E c \in ServiceCmds \ {"UNREGISTER_SERVICE"} : SendUp(ServerOf[g], Request(c, g))
    BY <1>12 DEF Keepalive, RunForElection, GiveUpElection, agentVars, ServiceCmds
  <2>2. Current(h)' => Current(h)
    BY <2>1 DEF Current
  <2> QED
    BY <1>4, <2>1, <2>2
<1> QED
  BY <1>6, <1>7, <1>9, <1>10, <1>11, <1>12 DEF ServiceCall

-----------------------------------------------------------------------------
(* Registration: the theorem.                                              *)

RegistrationInv == CPInv /\ StartInv /\ RegisteredInv

LEMMA InitRegistrationInv == CPInit => RegistrationInv
<1> SUFFICES ASSUME CPInit PROVE RegistrationInv
  OBVIOUS
<1>1. CPInv /\ StartInv
  BY InitElectionInv DEF ElectionInv
<1>2. OwnEvents
  BY DEF CPInit, OwnEvents
<1>3. \A h \in Handles : RegisteredOK(h)
  BY NameOfType DEF CPInit, RegisteredOK, Current, EventsOf, OKIn
<1> QED
  BY <1>1, <1>2, <1>3 DEF RegistrationInv, RegisteredInv

LEMMA StepRegistrationInv ==
    ASSUME ~ QueueFills, RegistrationInv, [CPNext]_allVars
    PROVE  RegistrationInv'
<1>1. CPInv /\ StartInv /\ OwnEvents /\ \A h \in Handles : RegisteredOK(h)
  BY DEF RegistrationInv, RegisteredInv
<1>2. CPInv' /\ StartInv'
  BY <1>1, StepCPInv, StepStartInv
<1>3. CASE ServerStep
  BY <1>1, <1>2, <1>3, ServerOwn, ServerRegistered DEF RegistrationInv, RegisteredInv
<1>4. ASSUME NEW s \in Servers, HandleEvent(s) PROVE RegistrationInv'
  BY <1>1, <1>2, <1>4, EventOwn, EventRegistered DEF RegistrationInv, RegisteredInv
<1>5. ASSUME NEW g \in Handles, ServiceCall(g) PROVE RegistrationInv'
  <2>1. down' = down
    BY <1>1, <1>5, CallFacts DEF CPInv
  <2>2. OwnEvents'
    BY <1>1, <2>1 DEF OwnEvents
  <2> QED
    BY <1>1, <1>2, <1>5, <2>2, CallRegistered DEF RegistrationInv, RegisteredInv
<1>6. ASSUME NEW s \in Servers, Start(s) PROVE RegistrationInv'
  <2>1. /\ UNCHANGED <<apps, services, svc, removing, down>>
        /\ SendUp(s, [cmd |-> "REGISTER_APP"])
    BY <1>6 DEF Start, OnNotifiedAgentInfo, regVars
  <2>2. OwnEvents'
    BY <1>1, <2>1 DEF OwnEvents
  <2>3. ASSUME NEW h \in Handles PROVE RegisteredOK(h)'
    <3>1. [cmd |-> "REGISTER_APP"].cmd # Request("UNREGISTER_SERVICE", h).cmd
      BY DEF Request
    <3>2. [cmd |-> "REGISTER_APP"] \in Requests
      BY DEF Requests
    <3>3. (Renewed(h) => Renewed(h)') /\ (RegIn(h) => RegIn(h)')
      BY <1>1, <2>1, <3>1, <3>2, RegistrationsSent DEF CPInv
    <3> QED
      BY <1>1, <2>1, <3>3 DEF RegisteredOK, Current, Settled, EventsOf
  <2> QED
    BY <1>2, <2>2, <2>3 DEF RegistrationInv, RegisteredInv
<1>7. CASE UNCHANGED allVars
  <2>1. UNCHANGED <<apps, services, svc, removing, up, down>>
    BY <1>7 DEF allVars, vars, regVars, agentVars
  <2> QED
    BY <1>1, <1>2, <2>1
       DEF RegistrationInv, RegisteredInv, OwnEvents, RegisteredOK, Current, Settled, Renewed,
           RegIn, RegAt, UnRegAt, EventsOf
<1> QED
  BY <1>3, <1>4, <1>5, <1>6, <1>7, CPSteps DEF DropRequest

\* Once nothing is under way, a service that Register has returned (agent/server.go)
\* is registered at the name server: registrations that time out, are repeated or race
\* UnRegister and the tick's kick-off leave no service that only its agent knows of.  It takes a msg_queue that does not fill up: a
\* REGISTER_SERVICE that is dropped behind the late OK of an earlier one would not be
\* missed.
THEOREM ReturnedServicesAreRegistered ==
    ASSUME ~ QueueFills PROVE CPSpec => []UpIsRegistered
<1>1. RegistrationInv => UpIsRegistered
  <2> SUFFICES ASSUME RegistrationInv, NEW h \in Handles, Quiet(ServerOf[h]), svc[h] = "up"
               PROVE  h \in services
    BY DEF UpIsRegistered
  <2>1. RegisteredOK(h) /\ removing[h] = {} /\ up[ServerOf[h]] = << >> /\ EventsOf(h) = << >>
    BY DEF RegistrationInv, RegisteredInv, Quiet, EventsOf
  <2>2. Settled(h) \/ Told(EventsOf(h), "up", h)
    BY <2>1 DEF RegisteredOK, Current
  <2>3. ~ Told(EventsOf(h), "up", h) /\ ~ RegIn(h)
    BY <2>1 DEF Told, KickAfter, RegIn
  <2> QED
    BY <2>2, <2>3 DEF Settled
<1>2. RegistrationInv /\ [CPNext]_allVars => RegistrationInv'
  BY StepRegistrationInv
<1>3. QED
  BY <1>1, <1>2, InitRegistrationInv, PTL DEF CPSpec
=============================================================================
