----------------------------- MODULE AgentRouter -----------------------------
(***************************************************************************)
(* The name router of an agent (agent/router.go): which instances of one   *)
(* service name are online, under which hash keys and with which           *)
(* attributes, for the application to choose from and to watch.            *)
(*                                                                         *)
(* Three kinds of goroutines work on it.  The event loop of the server     *)
(* (agent/server.go Serve) applies what the name server announces, first   *)
(* to the sidecar's remote services and then, under another lock, to the   *)
(* router.  GetNameRouter (any goroutine) makes the router known and then  *)
(* adds the instances it finds, each in four steps.  Watch registers a     *)
(* watcher and then reads the instances without the lock.  A step is one   *)
(* critical section, or one round of calls to the watchers.                *)
(*                                                                         *)
(* An event may be applied between two steps of such a call that has seen  *)
(* the state before it; `crossed' records that it has happened.  A service *)
(* url stands for one instance in the whole mesh (README.md), so that a    *)
(* handle and an instance id are the same here.                            *)
(***************************************************************************)
EXTENDS Integers, Sequences, SequencesExt, FiniteSets

CONSTANTS
    Remotes,        \* instances of other processes
    Locals,         \* instances of this process
    Attrs,          \* values of ServiceAttr
    NoAttr,         \* an attribute map that was never set
    HashKey,        \* ServiceOptions.ConsistentHashKey of each instance
    Getters,        \* goroutines that call GetNameRouter
    Watchers,       \* AppRouterWatcher objects
    MaxKey,         \* bound: keys an application asks for
    MaxChanges,     \* bound: events and changes of local services
    NoInst          \* INVALID_ROUTER_ID, or no instance

Insts == Remotes \cup Locals

ASSUME RouterConstants ==
    /\ Remotes \cap Locals = {} /\ NoInst \notin Insts
    /\ NoAttr \notin Attrs
    /\ MaxKey \in Nat /\ MaxChanges \in Nat
    /\ HashKey \in [Insts -> Nat]

VARIABLES
    local,          \* nameGroupServices of this name
    remote,         \* remoteServices of this name: by handle, url and group
    attr,           \* the attributes of each service object
    router,         \* the name is in nameRouters
    instAddrs,      \* keys of instAddrs
    instIDs,        \* instIDs
    instOpts,       \* keys of instOpts
    ConsHashList,   \* ConsHashList, without the keys
    instAttrs,      \* instAttrs, NoAttr for an instance that is not in it
    state,          \* skymeshNameRouter.state
    watchers,       \* watchers
    view,           \* the instances each watcher was told of, and not told off
    event,          \* the event the loop is working on, and how far it is
    pc, todo, cur, hold,    \* GetNameRouter: see below
    wpc, wtodo,     \* Watch: see below
    crossed,        \* history: see above
    changes         \* events and changes of local services so far

svcVars == <<local, remote, attr>>
instVars == <<router, instAddrs, instIDs, instOpts, ConsHashList, instAttrs>>
getVars == <<pc, todo, cur, hold>>
watchVars == <<watchers, view, wpc, wtodo>>
vars == <<svcVars, instVars, state, event, getVars, watchVars, crossed, changes>>

NoEvent == [stage |-> "none"]
Event(kind, h, a) ==
    [stage |-> "router", kind |-> kind, inst |-> h, attr |-> a, wcopy |-> {}]

-----------------------------------------------------------------------------
(* The tables of the router.                                               *)

\* Mutant: the order of the map.
refreshConsHashList_Unsorted(opts) == SetToSeqs(opts)

\* The lists sort.Slice may give: which of two equal keys is first is open.
refreshConsHashList(opts) ==
    {l \in SetToSeqs(opts) : IsSorted(l, LAMBDA i, j : HashKey[i] <= HashKey[j])}

SetOpts(opts) ==
    /\ instOpts' = opts
    /\ ConsHashList' \in refreshConsHashList(opts)

Selectable == instIDs # << >> /\ state = "Ready"

\* The loop that looks for the first instance with a larger key.
HashOwner(key) ==
    LET above == {i \in DOMAIN ConsHashList : key < HashKey[ConsHashList[i]]}
    IN ConsHashList[IF above = {} THEN 1 ELSE CHOOSE i \in above : \A j \in above : i <= j]

SelectRouterByConsistentHash(key) ==
    IF Selectable /\ ConsHashList # << >> THEN HashOwner(key) ELSE NoInst

\* SelectRouterByLoop is the same with loopSeq for the key.
SelectRouterByModHash(key) ==
    IF Selectable THEN instIDs[(key % Len(instIDs)) + 1] ELSE NoInst

\* GetBestQualityService: a service of this process, or else one of the others;
\* queue lengths and round trip times decide which.
BestQuality == IF local # {} THEN local ELSE remote

\* The first instance if there is none, or the router does not know it.
SelectRouterByQuality ==
    IF ~Selectable THEN {NoInst}
    ELSE IF BestQuality = {} THEN {instIDs[1]}
    ELSE {IF best \in instAddrs THEN best ELSE instIDs[1] : best \in BestQuality}

-----------------------------------------------------------------------------
(* Services of this process.  Register and UnRegister do not tell the      *)
(* routers of their own process, and the name server tells the others only.*)

Change == changes < MaxChanges /\ changes' = changes + 1

RegisterLocal(h) ==
    /\ Change
    /\ h \notin local
    /\ local' = local \cup {h}
    /\ attr' = [attr EXCEPT ![h] = NoAttr]
    /\ UNCHANGED <<remote, instVars, state, event, getVars, watchVars, crossed>>

UnRegisterLocal(h) ==
    /\ Change
    /\ h \in local
    /\ local' = local \ {h}
    /\ UNCHANGED <<remote, attr, instVars, state, event, getVars, watchVars, crossed>>

\* SetAttribute with notifyInstsAttrs of the router, if there is one.
SetAttribute(h, a) ==
    /\ Change
    /\ h \in local
    /\ attr' = [attr EXCEPT ![h] = a]
    /\ instAttrs' = IF router /\ h \in instAddrs THEN [instAttrs EXCEPT ![h] = a] ELSE instAttrs
    /\ UNCHANGED <<local, remote, router, instAddrs, instIDs, instOpts, ConsHashList,
                   state, event, getVars, watchVars, crossed>>

-----------------------------------------------------------------------------
(* The event loop.  Events come in any order: the name server repeats and  *)
(* the full event queue drops some.                                        *)

\* A getter works on h with what it has read before.
Holds(g, h) == h \in todo[g] \/ (pc[g] \in {"look", "opts", "attr"} /\ cur[g] = h)

\* sidecar.notifyServiceOnline.
EventOnline(h) ==
    /\ Change
    /\ event = NoEvent
    /\ remote' = remote \cup {h}
    /\ attr' = IF h \in remote THEN attr ELSE [attr EXCEPT ![h] = NoAttr]
    /\ event' = Event("online", h, NoAttr)
    /\ UNCHANGED <<local, instVars, state, getVars, watchVars, crossed>>

EventOffline(h) ==
    /\ Change
    /\ event = NoEvent
    /\ remote' = remote \ {h}
    /\ event' = Event("offline", h, NoAttr)
    /\ UNCHANGED <<local, attr, instVars, state, getVars, watchVars, crossed>>

\* sidecar.notifyServiceSyncAttr, of a service it knows.
EventSyncAttr(h, a) ==
    /\ Change
    /\ event = NoEvent
    /\ attr' = IF h \in remote THEN [attr EXCEPT ![h] = a] ELSE attr
    /\ event' = Event("attr", h, a)
    /\ UNCHANGED <<local, remote, instVars, state, getVars, watchVars, crossed>>

\* onRouterUpdate: KNotifyAgentPrepare and KNotifyAgentPrepareAbort.
EventRouterUpdate(s) ==
    /\ Change
    /\ event = NoEvent
    /\ router
    /\ state' = s
    /\ UNCHANGED <<svcVars, instVars, event, getVars, watchVars, crossed>>

\* The loop takes away, or changes, what a getter is about to add.
GetterCrosses == event.kind # "online" /\ \E g \in Getters : Holds(g, event.inst)

\* There is no router, or the instance is not there, or is there already.
EventIgnored ==
    /\ event.stage = "router"
    /\ \/ ~router
       \/ event.kind = "online" /\ event.inst \in instAddrs
       \/ event.kind # "online" /\ event.inst \notin instAddrs
    /\ event' = NoEvent
    /\ crossed' = (crossed \/ GetterCrosses)
    /\ UNCHANGED <<svcVars, instVars, state, getVars, watchVars, changes>>

\* The loop changes what a getter has read, or the map a Watch goes through.
EventCrosses == GetterCrosses \/ \E w \in Watchers : wpc[w] = "call"

\* notifyInstsChange and notifyInstsAttrs under the lock; the watchers are
\* copied, and called after it.
RouterOnline ==
    LET h == event.inst IN
    /\ event.stage = "router" /\ event.kind = "online"
    /\ router /\ h \notin instAddrs
    /\ instAddrs' = instAddrs \cup {h}
    /\ instIDs' = Append(instIDs, h)
    /\ SetOpts(instOpts \cup {h})
    /\ state' = "Ready"
    /\ event' = [event EXCEPT !.stage = "watchers", !.wcopy = watchers]
    /\ crossed' = (crossed \/ EventCrosses)
    /\ UNCHANGED <<svcVars, router, instAttrs, getVars, watchVars, changes>>

\* Mutant: the instance stays in the list of ids.
RouterOffline_KeepId ==
    LET h == event.inst IN
    /\ event.stage = "router" /\ event.kind = "offline"
    /\ router /\ h \in instAddrs
    /\ instAddrs' = instAddrs \ {h}
    /\ instAttrs' = [instAttrs EXCEPT ![h] = NoAttr]
    /\ SetOpts(instOpts \ {h})
    /\ event' = [event EXCEPT !.stage = "watchers", !.wcopy = watchers]
    /\ crossed' = (crossed \/ EventCrosses)
    /\ UNCHANGED <<svcVars, router, instIDs, state, getVars, watchVars, changes>>

RouterOffline ==
    LET h == event.inst IN
    /\ event.stage = "router" /\ event.kind = "offline"
    /\ router /\ h \in instAddrs
    /\ instAddrs' = instAddrs \ {h}
    /\ instAttrs' = [instAttrs EXCEPT ![h] = NoAttr]
    /\ SetOpts(instOpts \ {h})
    /\ instIDs' = RemoveFirst(instIDs, h)
    /\ event' = [event EXCEPT !.stage = "watchers", !.wcopy = watchers]
    /\ crossed' = (crossed \/ EventCrosses)
    /\ UNCHANGED <<svcVars, router, state, getVars, watchVars, changes>>

RouterSyncAttr ==
    /\ event.stage = "router" /\ event.kind = "attr"
    /\ router /\ event.inst \in instAddrs
    /\ instAttrs' = [instAttrs EXCEPT ![event.inst] = event.attr]
    /\ event' = [event EXCEPT !.stage = "watchers", !.wcopy = watchers]
    /\ crossed' = (crossed \/ EventCrosses)
    /\ UNCHANGED <<svcVars, router, instAddrs, instIDs, instOpts, ConsHashList, state,
                   getVars, watchVars, changes>>

\* OnInstOnline, OnInstOffline or OnInstSyncAttr of each watcher.
CallWatchers ==
    /\ event.stage = "watchers"
    /\ view' = [w \in Watchers |->
          CASE w \in event.wcopy /\ event.kind = "online" -> view[w] \cup {event.inst}
            [] w \in event.wcopy /\ event.kind = "offline" -> view[w] \ {event.inst}
            [] OTHER -> view[w]]
    /\ event' = NoEvent
    /\ UNCHANGED <<svcVars, instVars, state, getVars, watchers, wpc, wtodo, crossed, changes>>

EventLoop ==
    EventIgnored \/ RouterOnline \/ RouterOffline \/ RouterSyncAttr \/ CallWatchers

-----------------------------------------------------------------------------
(* GetNameRouter, called by g.  RegisterRouterToNameServer, under the same *)
(* lock as the insertion, has no effect here.                              *)

Goto(g, l) == pc' = [pc EXCEPT ![g] = l]

GetNameRouter(g) ==
    /\ pc[g] = "idle"
    /\ router' = TRUE
    /\ Goto(g, "locals")
    /\ UNCHANGED <<svcVars, instAddrs, instIDs, instOpts, ConsHashList, instAttrs, state,
                   event, todo, cur, hold, watchVars, crossed, changes>>

\* getServiceInsts: first the services of this process.
GetLocalInsts(g) ==
    /\ pc[g] = "locals"
    /\ todo' = [todo EXCEPT ![g] = local]
    /\ Goto(g, "remotes")
    /\ UNCHANGED <<svcVars, instVars, state, event, cur, hold, watchVars, crossed, changes>>

\* Mutant: the other processes are forgotten.
GetRemoteInsts_None(g) ==
    /\ pc[g] = "remotes"
    /\ Goto(g, "next")
    /\ UNCHANGED <<svcVars, instVars, state, event, todo, cur, hold, watchVars, crossed, changes>>

\* Then those of the others, under the sidecar's lock.
GetRemoteInsts(g) ==
    /\ pc[g] = "remotes"
    /\ todo' = [todo EXCEPT ![g] = @ \cup remote]
    /\ Goto(g, "next")
    /\ UNCHANGED <<svcVars, instVars, state, event, cur, hold, watchVars, crossed, changes>>

\* AddInstsAddr: nobody tells the watchers.
AddInstsAddr(g, h) ==
    /\ pc[g] = "next"
    /\ h \in todo[g]
    /\ cur' = [cur EXCEPT ![g] = h]
    /\ todo' = [todo EXCEPT ![g] = @ \ {h}]
    /\ instAddrs' = instAddrs \cup {h}
    /\ instIDs' = IF h \in instAddrs THEN instIDs ELSE Append(instIDs, h)
    /\ crossed' = (crossed \/ (h \notin instAddrs /\ watchers # {}))
    /\ Goto(g, "look")
    /\ UNCHANGED <<svcVars, router, instOpts, ConsHashList, instAttrs, state, event, hold,
                   watchVars, changes>>

\* The service object, of this process or in the sidecar.
FindService(g) ==
    /\ pc[g] = "look"
    /\ Goto(g, IF cur[g] \in local \cup remote THEN "opts" ELSE "next")
    /\ UNCHANGED <<svcVars, instVars, state, event, todo, cur, hold, watchVars, crossed, changes>>

\* AddInstsOpts; then the service's attributes are read.
AddInstsOpts(g) ==
    /\ pc[g] = "opts"
    /\ SetOpts(instOpts \cup {cur[g]})
    /\ hold' = [hold EXCEPT ![g] = attr[cur[g]]]
    /\ Goto(g, "attr")
    /\ UNCHANGED <<svcVars, router, instAddrs, instIDs, instAttrs, state, event, todo, cur,
                   watchVars, crossed, changes>>

AddInstsAttr(g) ==
    /\ pc[g] = "attr"
    /\ instAttrs' = [instAttrs EXCEPT ![cur[g]] = hold[g]]
    /\ hold' = [hold EXCEPT ![g] = NoAttr]
    /\ Goto(g, "next")
    /\ UNCHANGED <<svcVars, router, instAddrs, instIDs, instOpts, ConsHashList, state, event,
                   todo, cur, watchVars, crossed, changes>>

GetDone(g) ==
    /\ pc[g] = "next"
    /\ todo[g] = {}
    /\ cur' = [cur EXCEPT ![g] = NoInst]
    /\ Goto(g, "idle")
    /\ UNCHANGED <<svcVars, instVars, state, event, todo, hold, watchVars, crossed, changes>>

GetStep(g) ==
    \/ GetNameRouter(g) \/ GetLocalInsts(g) \/ GetRemoteInsts(g)
    \/ \E h \in Insts : AddInstsAddr(g, h)
    \/ FindService(g) \/ AddInstsOpts(g) \/ AddInstsAttr(g) \/ GetDone(g)

-----------------------------------------------------------------------------
(* Watch and UnWatch of watcher w.                                         *)

Watch(w) ==
    /\ router
    /\ wpc[w] = "new"
    /\ watchers' = watchers \cup {w}
    /\ wpc' = [wpc EXCEPT ![w] = "read"]
    /\ UNCHANGED <<svcVars, instVars, state, event, getVars, view, wtodo, crossed, changes>>

\* Mutant: only the instances with attributes.
WatchRead_None(w) ==
    /\ wpc[w] = "read"
    /\ wtodo' = [wtodo EXCEPT ![w] = {h \in instAddrs : instAttrs[h] # NoAttr}]
    /\ wpc' = [wpc EXCEPT ![w] = "call"]
    /\ UNCHANGED <<svcVars, instVars, state, event, getVars, watchers, view, crossed, changes>>

\* The range over instAddrs, without the lock.
WatchRead(w) ==
    /\ wpc[w] = "read"
    /\ wtodo' = [wtodo EXCEPT ![w] = instAddrs]
    /\ wpc' = [wpc EXCEPT ![w] = "call"]
    /\ UNCHANGED <<svcVars, instVars, state, event, getVars, watchers, view, crossed, changes>>

\* OnInstOnline for each.
WatchCall(w) ==
    /\ wpc[w] = "call"
    /\ view' = [view EXCEPT ![w] = @ \cup wtodo[w]]
    /\ wtodo' = [wtodo EXCEPT ![w] = {}]
    /\ wpc' = [wpc EXCEPT ![w] = "idle"]
    /\ UNCHANGED <<svcVars, instVars, state, event, getVars, watchers, crossed, changes>>

\* A watcher that has been copied may be called once more.  It is not used
\* again.
UnWatch(w) ==
    /\ wpc[w] = "idle"
    /\ watchers' = watchers \ {w}
    /\ wpc' = [wpc EXCEPT ![w] = "gone"]
    /\ UNCHANGED <<svcVars, instVars, state, event, getVars, view, wtodo, crossed, changes>>

WatchStep(w) == Watch(w) \/ WatchRead(w) \/ WatchCall(w) \/ UnWatch(w)

-----------------------------------------------------------------------------
Init ==
    /\ local = {}
    /\ remote = {}
    /\ attr = [h \in Insts |-> NoAttr]
    /\ router = FALSE
    /\ instAddrs = {}
    /\ instIDs = << >>
    /\ instOpts = {}
    /\ ConsHashList = << >>
    /\ instAttrs = [h \in Insts |-> NoAttr]
    /\ state = "Ready"
    /\ watchers = {}
    /\ view = [w \in Watchers |-> {}]
    /\ event = NoEvent
    /\ pc = [g \in Getters |-> "idle"]
    /\ todo = [g \in Getters |-> {}]
    /\ cur = [g \in Getters |-> NoInst]
    /\ hold = [g \in Getters |-> NoAttr]
    /\ wpc = [w \in Watchers |-> "new"]
    /\ wtodo = [w \in Watchers |-> {}]
    /\ crossed = FALSE
    /\ changes = 0

Next ==
    \/ \E h \in Locals : RegisterLocal(h) \/ UnRegisterLocal(h)
    \/ \E h \in Locals, a \in Attrs : SetAttribute(h, a)
    \/ \E h \in Remotes : EventOnline(h) \/ EventOffline(h)
    \/ \E h \in Remotes, a \in Attrs : EventSyncAttr(h, a)
    \/ \E s \in {"Switching", "Ready"} : EventRouterUpdate(s)
    \/ EventLoop
    \/ \E g \in Getters : GetStep(g)
    \/ \E w \in Watchers : WatchStep(w)

Spec == Init /\ [][Next]_vars

-----------------------------------------------------------------------------
(* Properties.                                                             *)

\* Between two events and outside GetNameRouter and Watch.
Quiet ==
    /\ event = NoEvent
    /\ \A g \in Getters : pc[g] = "idle"
    /\ \A w \in Watchers : wpc[w] \notin {"read", "call"}

\* Once the router is known no online service of another process is missing from
\* it: what GetNameRouter did not find, since it came later, the event loop adds
\* (server.go:219-231, 429-466).
NoneMissing == Quiet /\ router => remote \subseteq instAddrs

\* Unless an event has crossed a GetNameRouter or a Watch, the router ends up with
\* the sidecar's services, their hash keys and their attributes: no selection
\* gives an instance of another process that is gone.  Of this process it may give
\* any, unregistered ones too: UnRegister does not tell the router (server.go:195).
RouterAgrees ==
    Quiet /\ router /\ ~crossed =>
        /\ instAddrs \cap Remotes = remote
        /\ instOpts \cap Remotes = remote
        /\ \A h \in remote : instAttrs[h] = attr[h]
        /\ \A key \in 0 .. MaxKey :
              {SelectRouterByConsistentHash(key), SelectRouterByModHash(key)} \cup
                  SelectRouterByQuality \subseteq remote \cup Locals \cup {NoInst}

\* With the same exception, what a watcher was told of is what is online.
WatcherAgrees ==
    Quiet /\ ~crossed =>
        \A w \in watchers : view[w] \cap Remotes = instAddrs \cap Remotes

\* Reference definition of consistent hashing: a key belongs to the instance with
\* the smallest larger hash key, and beyond the largest to the smallest of all.
OwnerOf(key) ==
    LET above == {h \in instOpts : HashKey[h] > key}
        among == IF above = {} THEN instOpts ELSE above
    IN {h \in among : \A j \in among : HashKey[h] <= HashKey[j]}

\* The scan of ConsHashList finds the owner of every key (router.go:171-185).
HashOwnerIsOwner ==
    instOpts # {} => \A key \in 0 .. MaxKey : HashOwner(key) \in OwnerOf(key)
=============================================================================
